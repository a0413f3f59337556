# Conveyancer: formal models and proofs

Conveyancer is a planner for factory networks: a Rust core (`crates/planner-core`,
`crates/persist`, `crates/app`, `crates/solver`, `crates/gamedata`) behind a desktop shell, an HTTP
bridge and a WebAssembly build, with a TypeScript renderer. This directory models the core in TLA+,
model-checks it with TLC and proves the central facts with TLAPS.

## The system

A *plan* is a set of entities (factories, machine groups, ports, belts, junctions, routes, switches,
node claims, proposals, style guides, overrides) kept in `PlanState`. Every change is an entity-granular
patch batch recorded with its inverse; batches become undo entries; each entry is committed to the plan
store (a SQLite file on the desktop, a snapshotted map in the browser) with the rows it changes.
`Session` owns plan, undo log and store and runs one call at a time. A save import writes the *built*
layer; a later import is diffed against it and the differences go to the user as a proposal.

| component | state it keeps | operations | what is hard |
|---|---|---|---|
| Plan state and patches (`state.rs`, `patch.rs`) | entities by collection and id | `upsert`, `remove`, `apply_batch` | inverses of batches that touch an entity twice |
| Undo log (`undo.rs`) | entries, cursor | `stage`, `push`, `undo`, `redo`, `hydrate_with_cursor` | redo tail, entries that no longer decode |
| Plan store (`persist`) | rows, meta, journal, cursor | `commit`, `checkpoint`, `save_meta`, `reset`, `load` | failed writes, crashes, row keys |
| Session (`session.rs`) | the above, world, advisor | `edit`, `undo`, `redo`, `import_save`, `accept_proposal`, `new_empire`, ... | rolling back memory when the store or a command fails |
| Edit commands (`commands.rs`) | - | some fifty commands | cascades, referential integrity, budgets, the built layer |
| Import and drift (`import.rs`) | - | `diff_against_built`, `apply_sync`, `write_built_layer`, `bind_extractors` | convergence, conflicts, obsolete diffs |
| Proposals (`proposals.rs`) | items, dependencies, status | toggle, choose, accept, reject | stale plans, dependency closure |
| Solver (`solver`, `solve_empire_pass` in `session.rs`) | derived state | T1 settle of a factory, T0 drag preview, the pass over all factories | cycles of routes, sizes written back, two algorithms that must agree |
| Wizard (`wizard.rs`) | its memo and working copies | `global_solve`: resolver, demand, nodes, siting, proposal | loops of recipes, shared ports and nodes, parts unticked |
| Wizard jobs (`jobs.rs`, `WizardModal.tsx`) | log, done, outcome; the dialog's step, log and `jobRef` | `start`, `progress`, `cancel`; SOLVE, CANCEL, ESC | polling against a running thread, answers that come after a cancel or a newer solve |
| Advisor (`advisor.rs`, `session.rs`) | cards, mutes, gate | `advise`, dismiss, unmute, pause | one card per episode over undo, mutes, pauses, restarts |
| Next moves (`ai.rs`, `opportunities.rs`, `store.ts`) | one shared ranked list, its hash and sequence numbers | rank, merge, reset | slow answers crossing edits |
| Empires (`empires.rs`, `main.rs`, `dev_bridge.rs`) | plan files | create, switch, rename, delete | dying or failing between two file moves |
| Web host (`web`, `wasmWorker.ts`) | snapshots in IndexedDB, the registry of empires | dispatch, snapshot, upload, empire operations | awaited writes, a late timer, old builds |
| Renderer | projection of the plan | apply patches, issue commands | presentation, mostly |

## The modules

`EntityStore` holds the data every other module shares: the plan as a function from paths
`<<collection, id>>` to whole entities, batches, the inverse a transaction records, the store's rows
(keyed by the bare id, as in the code) and journal entries. Nothing in it is recursive: what a batch
does is read off its last op at each path.

`PlanSession` is the session and its store. `mem` is the open session (plan, preferences, undo
entries, cursor), `disk` the store (rows, name, preferences, journal, cursor), `up` says whether a
session is open, `outcome` how the last call ended. One action is one whole call:

| action | code |
|---|---|
| `Edit`, `EditNotSaved`, `EditRejected`, `EditNothing` | `Session::edit` and `commit_mutation`: commit, failed commit, refused command list, nothing recorded |
| `Undo`, `UndoNotSaved`, `UndoCorrupt`, `Redo`, ... | `Session::undo`, `redo`: checkpoint, failed checkpoint and compensation, undecodable entry and reload |
| `SetNextPreferences` | memory first, then `save_meta`, which may fail |
| `NewEmpire`, `NewEmpireNotSaved` | `Session::new_empire`, `PlanStore::reset` |
| `Crash`, `Open` | the process ends; `Session::with_store` loads |
| `Damage` | the environment makes a stored entry undecodable between two sessions (the case of the test `corrupt_journal_undo_fails_cleanly_and_session_self_heals`) |

A call is atomic because the shells serialise calls and every store write is one transaction: a
process that dies inside a call leaves what dying before or after the call leaves. Which batch an edit
records is left open: any batch of up to `MaxOps` ops that `upsert` and `remove` can record.

An edit that records nothing is not journaled (`EditNothing`), with one exception the model keeps: while
`NothingBuilt`, importing a save without machines commits an entry that changes nothing.

`LinearHistory` is what the plan file promises: a line of plan versions and a position on it.
`PlanSession!DurableHistory` is the refinement, with the line read off the stored journal.

`DriftReview` is one level up: `hist` and `pos` are the plan versions of the journal and the current
one (what `LinearHistory` says the session provides), a plan is the machine groups of its built
factories by site and the drift proposals. `last` is the last-import record, which lives outside the
journal and is written best-effort; `drafted` issues proposal ids; `newest` and `lost` are history
variables that properties compare `last` with.

| action | code |
|---|---|
| `ImportFirst`, `ImportDrift`, `ImportInSync` | `Session::import_save`: nothing built yet; a diff, drafted with every older open one superseded in the same entry; no difference, nothing journaled, record cleared |
| `ToggleProposalItem`, `SetProposalItemChoice`, `RejectProposal` | the commands the review surface sends |
| `AcceptProposal` | `Session::accept_proposal`: gate on the record, every conflict decided, the included items applied in order |
| `SetGroupCount`, `SetGroupClock`, `AddGroup`, `DeleteGroup` | edits of the groups of a built factory: planned deltas on built groups, planned groups beside them |
| `Undo`, `Redo` | moves along `hist`; neither reads nor writes the record |

`Diff` is `diff_against_built` for groups: exact keys, then generators of one class paired by rank
(retunes), then demolished groups, with the conflicts of each. `ApplySync` is `apply_sync` for groups.
The order of a factory's list and of a save's keys is kept, because pairing and lookup depend on it: the
n-th generator without a key takes the n-th fuel left over (`Taken`).
Clocks are whole percents and the tolerances of the code are equality.

`PlanData`, `BuiltLayer` and `PlanGraph` model a plan's graph rather than its history. `PlanData` has
the entities as partial functions from ids and the cascades of `commands.rs`; `BuiltLayer` has what an
import writes and a sync re-derives (`write_built_layer`, `resync_built_wiring`, `apply_sync`);
`PlanGraph` has one action for each command that adds, removes, moves or links entities, and one for
each way an import changes the plan. `plan` is the plan, `made` counts the commands that issue ids
(an id is a tuple starting with that number: never issued twice, like a ULID), `imports` counts imports.

| actions | code |
|---|---|
| `CreateFactory` ... `SetBuildDone` | the arm of `commands::apply` with that name, with the guards `Session::edit` puts before it (fluid on junctions, valid build step) |
| `ExpandGroup` | `expand_group` and `fan_tree`: the slot stack, given in closed form by `Chain` and `Slot` |
| `ImportSave` | the first import |
| `SyncCreate`, `SyncUpdate`, `SyncRetune`, `SyncRemove` | one accepted drift item, then `dissolve_stale_overrides` and `dissolve_stale_replaces` (`Accept`) |

Its abstractions: rates, tiers, clocks, names and canvas positions are left out, so a built flow is
`count` times an integer per recipe; positions are points of a line; a list of ids is a set (a sync
takes *any* group of its key where the code takes the first). Rail, truck and drone routes behave alike
and appear as trucks; a programmable splitter is a smart one. Which marks a sync finds redundant is left
open. A route's path is what the drawing surfaces send, the pins of its factories.

`WizardJobs` models the supply-chain wizard: `job` is the host's job of every solve (its thread, log,
flags and outcome), `call` the dialog's asynchronous `solve` of every press of SOLVE (which answer it
awaits, what it has read), and `open`, `step`, `infeasible`, `jobRef`, `shown` are the dialog's state.
Calls outlive CANCEL, a closed dialog and a newer SOLVE, and share that state.

| actions | code |
|---|---|
| `Thread` (`PushLine`, `SeeCancel`, `Return`, `StoreDone`) | the closure of `JobRegistry::start`: a line, the outcome, then `done` |
| `Progress` (`ReadLog`, `ReadDone`, `ReadOutcome`) | `JobRegistry::progress`, one step per shared field it reads |
| `SolveAnswered`, `TimerFires`, `ProgressAnswered`, `ProposalAnswered` | what `solve` and its inner `poll` do between two awaits: each runs without interruption |
| `OpenWizard`, `Solve`, `Close`, `Cancel` | the user; `LetGo` is `wizard_cancel` and `jobRef = null` |

`wizard_cancel` raises a flag that the thread looks at now and then (`SeeCancel`), so a request that arrives
late is one more late look; once the outcome is stored nobody looks, and the flag counts as down. A line of
the log is its number; `shown` keeps the log on screen apart by solve, which loses nothing the properties ask
for.

`FactoryFlow` is the arithmetic of one factory over small integers. `Settle` is T1: the lawful flows
(`Lawful`, `Balanced`: recipes in proportion, junctions conserve), those that respect belts, ceilings
and targets (`Feasible`), and the objectives one after the other (`Best`, `Economical`), all optima kept;
`Sized` is the sizing, `Binding` and `Blame` the constraint named. `PreviewFits` is T0 on the same
snapshot. `EmpireSolve` is what the session does with it: `Commit` is an edit followed by the pass
(`EmpireOrder`, then for each factory `Snapshot`, `Solve`, `FeedDownstream`, `WriteBack`, then
`Answer` with flows and deficits) inside one undo entry; `Navigate` is undo or redo, whose pass does
not write back.

`GlobalSolve` is `wizard::global_solve`, one action per step of its loops: `Expand` takes one item off
the demand queue (surplus first, then the resolver's pick, then its ingredients), `Select` turns the
demand into stages, `Site` claims nodes and either refuses or hands over the whole proposal
(`Create`, `Lines`, `Byproducts`, `Deliveries`, `Tap`, `Powering`). `Resolve` is the backtracking
resolver with its memo and its path; `Cancel` is the flag, seen where the code looks at it. A *case* is
everything the solver reads. `OrderedIncluded`, `CycleDropped` and `ResolveAliases` are what accepting a
ticked part does. `ReplacementOf` is `plan_replacement`, which turns a factory into a case.

`PowerGrid` holds the circuits (`Roots` is the union-find, `Circuits` names them by the order of their
roots), their margin and what a priority switch sheds. `Advisor` extends it with the rules
(`Evaluate`), the gate (`Heard`, `Hear`, `PausedGate`) and the calls that move it: `Touch` is a commit,
`Undo` and `Redo` (which do not advise), `Dismiss`, `Unmute`, `SetPaused`, `Reopen`, `NewEmpire`, the
clock `Tick`ing and being set back. A *scene* is what the rules look at. `told` and `excused` are
history: how often a condition made a card in its episode, and whether it was seen while muted.

`RankFeed` is the NEXT MOVES list across session and renderer: calls reach the session in order
(`Serve`) and answers the renderer in order (`Deliver`), a ranking is prepared and lands at any time
(`RankStep`), effects run after each change (`Effects`), and the user edits, sets preferences, wipes the
plan, opens and closes feeds. A plan is its hash, a note the evidence its model was shown.

`WebWorker` is the browser's worker: `worker` is in memory, `disk` is IndexedDB, `work` the request
under way. A request is an action per awaited transaction (`Edit` and `AnswerEdit`; `Create`,
`Created`, `Register`, `Seed`; `Switch`, `Switched`, `Loaded`, `Activate`; ...), and the tab may close
between any two and open again on a build that cannot read the old plan or catalog (`Reload`, then the
ladder `Adopt`, `Boot`). Every write of a plan, a catalog, the registry or a parked copy may be refused, and
so may the read of a switch's target, during which the worker's key is the target's already (`Loaded`,
`ReadRefused`). The reads of the registry and those at boot are taken to succeed, and so are the deletes.
`Empires` is the same question on the desktop, where a plan is a file with a log and a backup beside it:
`Rename`, `MovePlan`, `MoveLog`, `MoveBackup`, `Reopen`, and a deletion's `Delete`, `EraseLog`, `EraseBackup`,
are steps between which the process may die. A move or an open may be refused, which ends or turns the
request; so may the moving or removing of a log or a backup, which the code passes over. In both modules
plans are sets of edits, and `made` and `ledger` / `answered` say which empire each edit is of.

`Lists` has the loops over lists that modules with proofs share, as recursive functions. Each module
`M_proofs` holds the theorems about `M`: of `PlanSession`, `DriftReview`, `PlanGraph`, `WizardJobs`,
`Empires`, `WebWorker`, `RankFeed` and `Advisor` (with `PowerGrid`). The `MC` modules hold the values the
configurations give to constants. Each definition marked *Faulty variant* or *Mutant* is a plausible bug of
the definition after it; replacing the one by the other makes a named property fail.

## What the runs check

| run | question | bounds |
|---|---|---|
| `plan_session` | do memory and plan file agree after every call, do failed calls change nothing, does reported success survive a crash, is the file a line of versions? | a factory and the plan's name, two values; one entry under any preferences, or two entries one of which has two ops, or three of one op with one damaged |
| `override_rows` | the same agreement when an override shares a factory's id (expected to fail) | one id in two collections |
| `drift_review` | does an open diff stay true, is there ever a second one, does accepting part of it leave exactly the rest, do the user's planned values survive? | one site with a smelter bank and a generator, three saves, six versions, one diff; or two sites, three saves, four versions, three diffs, a planned group and one lost write |
| `plan_graph` | do belts, lists, junction budgets, routes and links stay whole, does an expanded bank reach every machine, do routes survive syncs, does anything but an import change the built layer? | three scenes: a bank of four with splitters and two ports (five id-issuing commands); two places with two routes and a power line; a claim, a guide and two marks (four such commands each, three of them imports) |
| `wizard_jobs` | are the poll's reads consistent, does the log come once and in order, is the current job polled, is a stopped call over for good, does "solving" end? | two presses of SOLVE, two log lines in the first and one in the second; opening, closing and cancelling unbounded |
| `web_worker` | do answered edits stay with their empire over awaited writes, faults, a closed tab and a new build; is the view state written in the end; does the app open? | two names, two edits, two empires, one closed tab, one refused write of a plan or catalog or read of a switch's target, one upgrade, one flush of the view timer |
| `web_slots` | can creating an empire overwrite another one's plan? (expected to fail: it can) | three names, no fault |
| `empires` | the same agreement for plan files, their logs and backups | three names, two edits, three empires, two crashes between any two steps, two refusals of a move, an open or the work on a side-car |
| `empire_solve` | do machines fit the load, do the user's numbers stand, does no factory take what was not delivered, are deficits real, does the drag preview agree with the settle? | three factories, one of them in a cycle with another, flows up to 3, two edits, undo and redo |
| `global_solve` | do the resolver's picks end in raw material, does material balance, does the proposed site run, do its references bind under any ticking? | every catalog of three craftable items, two with an alternate, in which each recipe takes ore or the other items, and six scenes drawn by hand |
| `advisor` | is each condition told once, and in the end; does a mute or a pause never ambush; are circuits the components of the lines, and do switches shed what they say? | four factories, three scenes, five acts, a debounce window of one tick |
| `rank_feed` | does prose fit its evidence, is the list the engine's, does an open feed catch up? | two plans and the emptied one, three cards, three acts, one answer of the model with unknown and repeated ids |

A bound that holds for one question and not for another is a state constraint of the `MC` module, a
disjunction of the ways in which the run looks further (`Explored`, `Within`): the first
states beyond it are checked too, but not their successors. Properties that ask one thing of several
parts are one conjunction of named parts: `WiringHolds` is `ListsMatch`,
`BeltsJoin` and `JunctionBudgets`; `GridsTrue` is `GridsConnect` and `ShedsTrue`.

Two ops on one path are the smallest case where the order of an inverse matters; two entries and a
cursor give every position of a redo tail, three let an edit cut a tail longer than one. Two values tell
"restored" from "overwritten". A diff needs two groups of different kinds to have a proper part, and
the generator pairing needs fuel that changes while machines do; two diffs and an undo are the least in
which an older diff opens again. In `plan_graph`, deletions and edits of existing entities are not
bounded at all: a scene's bound `made` only counts what issues ids. Four of these are an import, a second site, a
route between them and a sync that dries up the flow under the route; five are a factory, a bank, a
port, a belt and the expansion. A bank of four is the smallest whose fan needs a second junction, and
its second junction is the first that can be overfilled or wired backwards.

Two solves are what it takes for one to supersede another, and a polling call cannot tell one newer
call from several. Two lines are the least that can come out of order, or of which a poll asks for a later
one than the screen ends with (a skip) or for an earlier one (a repeat); the second solve's one line is the
one that comes in between. Logs of any length are covered by the proofs.

Renaming, creating and switching each move one name over another, so two names show every collision of
two empires and three show that of a name given up and taken again. Two edits tell an empire's plan from
its own past; one crash, or one fault, at any step is what the code's recovery is written for. On the
desktop a second crash falls into the recovery from the first: only a crash leaves a log that is not
empty beside a closed plan, and only another one, or a refusal, then parts the two. A second refusal falls
into the moving back after a plan that would not open under its new name.

A smelter and a press that may feed each other, listed out of order, are the least with an order to get
wrong and a cycle to cut; the plant beside them has the shared splitter and the generator. With flows up to
3 a port, a belt and a machine each become the bottleneck in some state. Three items that may loop hold
every shape a resolver's path can run into: a loop of itself, of two, of three, a loop one candidate leaves
and another does not; with the memo, the third item is the first that can be asked for again after a failure
on another path.

Three scenes give each rule a condition that rises, falls and rises again; five acts are an edit, a
mute, an edit, a restart and an edit. In the feed, two plans are the least in which an answer can be
stale, and three acts open it, edit and reopen it or wipe the plan.

### Fairness

`plan_session`, `drift_review`, `plan_graph`, `empires`, `empire_solve` and `global_solve` state none:
their parts answer calls and nothing has to happen by itself.

`WizardJobs` assumes weak fairness of each solve's thread (the operating system schedules it, and its
loops are capped, which the bound on log lines stands for) and of each call's answers (the host answers
every request, timers fire). The user is assumed to do nothing; the two solves of the bound end on their
own.

`WebWorker` assumes that a request under way goes on (IndexedDB settles every transaction) and that a due
timer fires, both weakly, and strong fairness of the flush: requests and the timer's flush wait in one
promise chain, first come first served, so a flush whose turn comes again and again gets it.

`RankFeed` assumes weak fairness of serving, delivering, effects and ranking: the host answers, React
runs effects, a ranking comes back or fails. Nothing is assumed of the user.

`Advisor` assumes that the clock ticks and that the user goes on editing: the advisor runs inside edits
only, so `DelayedOnly` says no more than that a condition that lasts is told *if* commits keep coming.

### What the code does not keep

`override_rows` is a real defect: both stores key entity rows by the id alone while a build override
carries the id of the entity it marks, so marking a factory's build step replaces the factory's own
row, and the plan file no longer holds the plan in memory.

`web_slots` is another: an empire's key is derived from the name it was created under and stays when it
is renamed, so the name can be used again while the key is taken, and the fresh plan overwrites the
renamed one, although the comment at `wasmWorker.ts:322` calls keys opaque.

Further claims of the code's own comments do not hold. They are kept as definitions, not as runs; each
fails when it is added to the run named here.

| definition | added to | what happens |
|---|---|---|
| `DriftReview.MootDiffNeverLands` | `DriftReview.cfg`, a property | `write_last_import` says a moot diff can never rewrite the built layer, but an import that finds the plan in sync commits nothing, so a redo tail left by an undone accept survives it, and redo does not look at the record |
| `DriftReview.PlannedWorkSurvives` | `DriftReview.cfg`, a property | the diff takes every group of a built factory for a built one (`import.rs:1195`), so accepting it removes or renumbers planned groups |
| `Empires.NeverStrands` | `Empires.cfg`, an invariant | renaming the open empire leaves an in-memory placeholder as the session when the files will not move (`main.rs:125`); later edits go to it and are lost, though the comment above says otherwise; the same when the plan opens under neither name after the move |
| `Empires.SideCarsFollow` | `Empires.cfg` with `Failing = {"car"}`, an invariant | a crash leaves answered edits in a plan's log; the next launch opens `world`, the plan is renamed, and a second crash before the log's move, or a refusal of it (`empires.rs:128`, passed over, the rename succeeds), leaves the edits behind under the old name, though side-cars "must travel with" a plan (`empires.rs:67`) |
| `Empires.NothingResurrected` | the same | as before a log is left; its empire is deleted, and a crash before the log's removal, or a refusal of it (`empires.rs:139`), leaves it; another empire renamed to the name replays it when it opens, though a later open "never resurrects stale journal state" (`empires.rs:12`) |
| `WebWorker.PlansKept` | `WebWorker.cfg` with `Failing = {"load"}`, an invariant | a switch sets `activeKey` before it reads the target (`wasmWorker.ts:363`); when that read is refused nothing sets it back, and the next edit's snapshot writes the old session over the target's plan, though the branch for a plan that does not construct says "stay on the current empire" |
| `EmpireSolve.NoPhantomDeficit` | `EmpireSolve.cfg`, an invariant | `find_binding` names the first bound port at its limit, whether or not it limits the target; the deficit row says more of it would help |
| `RankFeed.FeedCatchesUp` | `RankFeed.cfg` with `Edited = {"p", "q"}` | a feed opened while an edit is in flight that is undone again finds the hash it already claims, and keeps the other plan's list (`store.ts:1250`) |
| `Advisor.ToldOnce` | `Advisor.cfg` with `Scenes <- MCRenaming` | a power condition is known by its circuit's letter, which the union-find gives out anew when another grid appears or goes: a told condition is told again |

`wizard_jobs` leaves one race unclaimed. The dialog looks at `jobRef` before it asks, never after the
answer: CANCEL while `wizard_solve` is unanswered finds no job to cancel and the answer then makes the
job current; CANCEL while the last poll is under way comes after the only look. Either way a proposal the
user gave up is stored and opened for review, while `docs/02-ui-spec.md` calls CANCEL instant.
`StoppedStaysStopped` is the part of the promise that holds.

Modelling turned up more that no run claims:

- Plan: built belts between two groups stay after a retune that ends the flow between them; a planned belt at
  a built port goes with the port when its flow dries up, although the doc of `resync_built_wiring` leaves
  planned wiring alone; `RoutePopover` promises one undo step for a port and its route but makes two; the
  wizard's last poll may miss the last lines of the log.
- Web: a refused or malformed read of the registry is answered with a fresh one that names EMPIRE 1 alone
  (`wasmWorker.ts:132`), also at the start of every empire operation: the other names are forgotten, and the
  live session is next stored under `current`; a refused read of the plan at boot, or a database that does not
  open, rejects `ready` until a reload (`AlwaysOpens` is about data that does not read); a registry write that
  fails while an empire is created or switched to leaves the session on one key and the worker on another;
  after a degraded boot the worker keeps the unreadable catalog in hand, so creating and switching fail until
  a reload; parking an unreadable plan twice overwrites the first copy, under a key a user's empire could
  have; the first registry write failing at boot rejects `ready` for good; a crash inside a delete leaves a
  plan nothing lists, which a later empire of that name finds.
- Desktop empires: a move back that is refused lets `Session::open` create an empty plan file; a backup left
  behind by a crash or a refusal stays beside the next plan of the name until that is first opened as an
  existing file.
- Solver: `SetGroupClock` on an idle planned group resets its count; a planned count just typed can be
  overwritten by the pass of the same edit; starved sizes are written back for factories with one output; the
  drag preview ignores what routes supply; the fair split weighs by counts the solver wrote.
- Feed: wiping the plan resets the ranking but not its sequence number, so an answer for the old plan can show
  over the new one until the next ranking; a re-rank dropped by a merge is not asked again; a failing
  `next_moves` empties the list while claiming the plan's hash; preferences merge without a number.
- Advisor: dying between the write of a card and that of the gate repeats a card or loses a pruning; an
  earlier condition that comes and goes can starve a later one of its window; nested switches count one load
  twice.
- Wizard: pinning a locked alternate lets a recipe back into its own loop, so the picks are not acyclic as the
  comment in `wizard.rs` says and the walk ends at its cap (`PicksSound` leaves such pins out); a second stage
  that emits one by-product gets no belt of its own.

## What is proved

For the session, all in `PlanSession_proofs`, for any set of paths, values, preferences and any bounds, and - except
`TypeCorrect` - from `IdsDistinct`, which the code guarantees for everything but build overrides
(ULIDs): `TypeCorrect`, `DiskAlwaysMirrorsMemory`, `JournalAlwaysReplays`,
`FailureAlwaysLeavesNoTrace`, `SuccessIsAlwaysDurable`, and the refinement `PlanFileIsALine`.

The invariant `DiskMirrorsMemory` is not inductive: after an undo memory holds what the entry's stored
inverse gives, and the rows hold what the inverse does to rows. `IInv` adds that the rows are what the
first `cursor` entries build (`RowsReplay`), that every entry's inverse takes its own forward batch
back at the place where the entry stands (`EntriesCancel`), and that the two journals and cursors are
equal (`JournalMirrored`, part of `TypeInv`). `InverseCancels` - a recorded batch followed by its
inverse is the identity, whatever paths it repeats - and `RowsFollowState` - a batch does to the rows
what it does to the plan - are the two lemmas everything rests on.

`DriftReview_proofs` proves, for any sites, saves, edits and bounds: `AlwaysTyped`, `AlwaysOneOpenDiff`,
`AlwaysNewestAccepted` (only the newest import's proposal is accepted unless a write of the record was lost),
`AlwaysFits`, `EditsAlwaysSurvive` and `AcceptAlwaysLeavesTheRest`. `OneOpenDiff` needs `IInv`
(`DiffsInOrder`): *every* version of the journal, not only the current one, has at most one open proposal and
only ids issued so far, because undo can make any of them current. `OnlyNewestDiffAccepted` needs `RecordInv`
(`RecordTracksNewest`): as long as no write is lost, the record names what the newest import drafted, or that
it drafted nothing.

`OpenDiffStillFits`, `EditsSurviveAccept` and `AcceptLeavesTheRest` need `SoundInv` (`AlwaysSound`). A version
is `Sound` if each of its open diffs can be accepted (`Acceptable`) and has the operations of a diff against
*some* unmixed layer with the baselines of this one (`Fresh`); a layer's `Base` is what the game last said of
each key, read off its built groups only, so that edits, undo and planned groups that come and go leave it
alone, though the property itself cannot be stated while a planned group is there. Each version `Follows` from
the one before: nothing reopens, and an accepted diff kept the edits and left its rest. That relation between
neighbours is needed because a redo takes a diff to accepted again without applying anything.

Its first part is about diffs alone, and all three rest on it. `DiffIs`: the items of a diff keep out of each
other's way - no item reads the key of a group that another reads or writes; the hard case is the fuel one
generator leaves and another takes (`TakenOnce`). Hence a group is touched by one item at most, and
`AcceptKeepsEdits` follows by going through the items. `DiffAlike`: a diff depends on nothing of a factory but
its keys and the baselines it looks up. `FlattenSeq` and `ApplyIncluded` are recursive functions; what holds
after all their steps is proved from the first step at which it would fail. A save has one group for each key
and none that is empty, as the import's map of groups guarantees (`import.rs:553`); this is an assumption on
`Saves`.

That an accepted part of a diff leaves exactly the rest (`AcceptLeaves`) is the longest argument. Each item
is made by one group of the save or by one key that is gone (`FactoryMakes`), and accepting it moves one key
and what the game last said there, nothing else (`SyncMoves`). The group it was made by then makes nothing
(`NothingLeft`). The rest would be plain but for generators: those of one machine are matched with the fuels
left over by their order, so settling one pair might match the others differently. It does not: a pair that
goes takes the same rank from both sides (`PairStays`, `PairWas`), and what is left is matched as before
(`SettledTake`). Going through the included items (`RestStep`) and over redo gives the property.

`WizardJobs_proofs` proves, for any number of solves and lines, every safety property of the run:
`TypeCorrect`, `DoneAlwaysHasOutcome`, `LinesAlwaysInOrder`, `CurrentAlwaysPolled` and `StoppedAlwaysStays`.
`DoneHasOutcome` needs what lies between the reads: a thread that raised `done` has stored its outcome
(`OutcomeBeforeDone`), and a poll that read `done` will find it (`ReadsAgree`). `LinesOnceInOrder` needs that
what a poll read is between what the call has seen and what the thread has logged (`SeenIsLogged`), and that
the lines on screen end with the last one seen (`ScreenUpToSeen`), so that the next poll asks for what comes
after them and its answer continues them; a call that is over may leave lines of an older solve, but they end
somewhere too. Unmade calls have no job (`Unstarted`).

`PlanGraph_proofs` proves, for any scenes and any bounds on commands and imports, `WiringAlwaysHolds` and
`NeverTwins`. `WiringHolds` alone is not inductive: the cascades read the lists that a factory keeps, an
import reads which things are built, and an expansion counts belts. `Inv` is the conjunction of what they
rely on: entities have their fields (`Shape`), no id is issued twice (`Issued`), lists and owners agree
(`Lists`), belts join what stands in their factory (`Joined`), junctions are within their budgets
(`Budgets`), what the save wrote belongs to what it wrote (`Layered`), and nothing built is doubled
(`Single`). A command is one of three things: it moves no wiring (`Same`), it only takes away (`Less`, each
cascade a lemma), or it adds entities under fresh ids that satisfy the invariant themselves (`More`); each
of the three keeps `Wired` by one lemma. Imports and syncs (`SyncGroup`, `Retune`, `SyncNewGroup`, the first
import) and the expansion of a bank change more at once and have proofs of their own; that of the fan
(`FannedBelts`, `FanAt`) shows that a chain of any length overfills no junction.

Its second part proves over that `RoutesAlwaysServe`, `LinksAlwaysResolve`, `BuiltAlwaysStands` and
`RoutesAlwaysSurvive`. Ports and routes hold each other's ids, lines copy the pins of factories and
switches the midpoint of lines, so the invariant (`Served`, `Linked`) says what each copy follows. A
command is an `EditStep`: most leave routes aside altogether (`Aside`); those that take away free the ports
of the routes they take (`Keeps`); a moved factory redraws its lines and switches. An import or a sync is an
`ImportStep`: the ports it drops are bound to no route (`Grown`), which is what a dried-up port keeps its
place for, so a route goes with one of its factories only. That no command changes the built layer
(`LayerStays`) is proved of each command along the way.

Its third part proves `ExpansionAlwaysFansOut`, for banks of every count an expansion takes (the run has banks
of four). What `Reached` asks of every set of junctions that leads to no other is shown in two directions: the
joints of one fan are such a set, and beyond them there are the new machines alone (`FarRuns`); and any such
set that has the root has the whole chain, because the first joint it lacked would lie beyond the one before
(`AlongChain`), so every machine's branch leaves it. That no other step both takes banks and adds some
(`NextOneWay`) leaves the expansion as the only case.

`Empires_proofs` proves, for any names and any number of edits, empires, crashes and refusals,
`TypeCorrect` and `EmpiresAlwaysKept`. The property leaves out two sorts of names, which the model's history
variables keep track of: `torn` ones, that lost a log which was not empty or keep one that is another's, or
whose session a refused move or open took away; and, for backups only, `stray` ones. What becomes of torn names is
told above (`SideCarsFollow`, `NothingResurrected`, `NeverStrands`). The theorem says that there are no other
ways to lose an edit or take in a foreign one: a crash or a refusal that comes when the log is empty, as it is
after a clean close, harms nothing. The property speaks of the moments between requests; the invariant
adds what lies within one. Every name that is not torn has a sound log and every name that is not stray a sound
backup, but for those the request under way has still to move or remove (`LogsSound`, `BaksSound`); a plan
that has moved ahead of its log is whole together with it, and its backup is its empire's
(`LogAhead`, `BakAhead`); a request's source exists and its target is free, and a placeholder is alive only
while its file moves or beside a torn name (`MovesFree`); an empire has one file (`OneFile`). `MoveLogInv` and
`EraseLogInv` show that a refused side-car tears nothing but the names it is of.

`WebWorker_proofs` proves, for any names and any bounds, `TypeCorrect` and `EmpiresAlwaysKept`, from one
assumption: `Dependable`, that writes of the registry and of the parked copies are not refused (what the code
loses when they are is listed above). Writes of plans and catalogs and the read of a switch's target may be.
`EmpiresKept` speaks of the living empires' keys; the invariant also speaks of keys that no empire has any
more, since a crash inside a delete leaves a plan behind that a later empire of the name finds (`KeysApart`),
and of the live session, which is what the next write puts under the key (`SessionFits`: with what is parked
there it has all its empire was answered, and nothing of another). That key is the session's own, but for the
time in which a switch reads its target and after a refused read, when both keys are on record as shared
(`KeyFits`, `ReadRefusedInv`), which is what the property leaves out and `PlansKept` does not; the next
operation on empires, or reload, points the worker back. A blob that no longer reads is parked whole or not at
all (`OldIsParked`); that is where the model's one upgrade is used, a second could park over the first. Each
request is a few stored transactions, and two lemmas carry most of them: storing the session's plan keeps all
keys (`StoreKeeps`), and so does storing a registry whose slots are the old ones under any names
(`RegistryMovedInv`: a switch, a rename, a delete).

`RankFeed_proofs` proves, for any plans, evidence, cards, replies of the model and bounds, `TypeCorrect` and
`FeedAlwaysHonest`: the list on screen is one the engine derived whole, each card once, and every note fits
its evidence. The invariant follows a list from the session's answer over jobs and rankings on their way to
the renderer, where a ranking is merged into a list derived later (`MergeHonest`). `Kept` and `FirstOnly` are
unfolded to one pass each, and what holds after all passes is handed on from pass to pass (`HandedOn`);
that a recursion has a solution at all is `StepsExist`.

`Advisor_proofs` proves, for any scenes, debounce and acts, `TypeCorrect`, that cards, mutes and gate in the
file are those in memory (`SavedOnce`), and that a condition makes one card at most and none after an unmute.
`ToldOnce` is not inductive: the invariant adds that what was told of or excused is accounted for by the gate
under its key (`Accounted`), of conditions that are `Steady`, whose events have one key in all scenes. A
circuit's may not have one, since circuits are named by their place: that is the defect shown above. So
`PlainToldOnce` and `PlainNeverAmbushed` say for any scenes what holds of everything but circuits, and
`AlwaysToldOnce` and `NeverAmbushed` say it of circuits too where they keep their names, as in the run's scenes.

The same module proves `GridsAlwaysTrue` for any lines, switches and power. `CircuitsAreComponents`: after each
line the two ends have one root, and factories with one root lie in the same sets that no line leaves
(`Together`). `ShedsAreRight`: a switch that splits its circuit cuts off a part that only its line leaves
(`LoadIs`); cutting off such parts that keep out of each other's way leaves the rest whole (`Cuts`: a set that
no remaining line leaves, together with the parts hanging on it, is left by no line at all); and sums over
parts add up (`TotalAdds`).

Only model-checked:

- The liveness properties and the fairness behind them.
- `GlobalSolve`, whose resolver is a RECURSIVE operator.
- `EmpireSolve` over `FactoryFlow`: optima are picked out of all flows by sums over sets and the pass is a fold,
  neither of which the provers can unfold. `SizingFits` also depends on the whole numbers: from a load of 7 on
  a clock spread over machines is rounded down, where the code's clock is exact (the run's `MaxFlow` is 3).
- That the bounds reach every action, of which proofs say nothing.

## What is not modelled

- Clustering machines into sites and binding extractors to nodes (geometry), node positions and
  purities. Purities an import writes into the session's world are not undone; no module has the world.
- The simplex, its tolerances and floating-point rounding: `FactoryFlow` says what an optimum is and lets
  the solver return any. `t2_optimize`, the wizard's continuous optimum, and `altopt` and opportunity
  scores are numbers without control; distances in siting are left out for the same reason.
- Impacts of a replacement, manifests, build-queue phases and the cutover dip: functions of the plan that
  nothing reads back.
- The providers' protocols, chat, notes' wording; names, labels and layout everywhere; wells and geysers.
- Schema upgrades, the bytes of a snapshot and the reading back of backups; two tabs on one browser
  store; a request the host refuses; a solver that panics; the web host's solve, which answers when it is
  finished; statuses of proposals the raw API allows and no surface sends.
- The game-data parsers, the save parser, and the renderer's canvas, map and panels: text in, or
  presentation out. `applyPatches`, which copies every collection but node overrides, is not modelled.

`PROJECT.json` lists every part with its status.

## Plan

Done: `EntityStore`, `PlanSession`, `LinearHistory`, `DriftReview`, `PlanData`, `BuiltLayer` and `PlanGraph`
with every property of their runs proved; `WizardJobs`, `Empires`, `WebWorker`, `RankFeed`, `PowerGrid` and
`Advisor` with their safety proved; `FactoryFlow`, `EmpireSolve` and `GlobalSolve` checked.

Next, in this order:

1. `UserNumbersStand` of `EmpireSolve`, the one of its properties that no optimum decides, once the pass
   is a recursive function over the order of the factories.
2. `WorldPurity`: purities an import writes into the session's world and undo does not take back.
3. `Impacts`: what a replacement leaves starved, against the pass that follows it.
