------------------------------ MODULE Advisor ------------------------------
(***************************************************************************)
(* The ambient advisor: rules over the solved plan raise events, a gate    *)
(* lets each through as a card once, and cards, mutes and the gate's       *)
(* memory are kept in the plan file outside the undo log.                  *)
(*                                                                         *)
(* Every commit runs the gate; undo and redo do not.  The user dismisses   *)
(* cards (which mutes their rule), unmutes, pauses, undoes, closes and     *)
(* opens the app again, or starts a new empire, while the clock runs and   *)
(* may be set back.  A scene is what the rules look at.  The writes of     *)
(* cards, mutes and gate are best effort in the code; here they succeed.   *)
(***************************************************************************)
EXTENDS Integers, SequencesExt, PowerGrid

CONSTANTS
  Scenes,      \* names of solved plans
  Blank,       \* an empty one
  Scene,       \* what each is: a record of PowerGrid, with
               \*   doubled  nodes claimed twice, in order of their ids
               \*   short    a sequence of [factory, route], the deficits
               \*   full     routes at capacity, in order of their ids
               \*   drift    the save re-import proposals that are open
  Never,       \* the age of a card that was never shown
  Window,      \* the debounce, in ticks of the clock
  MaxActs      \* what the user does in all, edits that change nothing aside

ASSUME WindowAssumption == Window \in Nat \ {0}

IsList(x) == x \in Seq(Range(x))

\* Power lines join factories; switches are on lines and have priorities.
ASSUME SceneAssumption == \A s \in Scenes \cup {Blank} :
  /\ Scene[s].lines \in Seq(Factory \X Factory)
  /\ Scene[s].switches \subseteq [line : DOMAIN Scene[s].lines, priority : 1..8]
  /\ Scene[s].gen \in [Factory -> Nat] /\ Scene[s].draw \in [Factory -> Nat]
  /\ IsList(Scene[s].doubled) /\ IsList(Scene[s].short)
  /\ IsList(Scene[s].full) /\ IsList(Scene[s].drift)

VARIABLES
  past, plan, future,              \* the undo history of scenes
  cards, muted, paused,            \* AdvisorState
  active, age,                     \* its gate: keys accounted for, ages of fires
  disk,                            \* the plan file's cards, mutes and gate
  told, excused,                   \* by condition, in its episode: cards, silence
  acts

history == <<past, plan, future>>
advisor == <<cards, muted, paused, active, age>>
ghosts  == <<told, excused>>
vars == <<history, advisor, disk, ghosts, acts>>

-----------------------------------------------------------------------------
(* The rules *)

RuleNames == {"node_conflict", "new_deficit", "route_bottleneck", "power_swing",
              "unpowered_factory", "drift_detected"}

\* An event's key is what the gate remembers it by; its condition is what it
\* tells of.  They differ for circuits, whose key is their name.
Event(rule, subject, cond) == [rule |-> rule, key |-> <<rule, subject>>, cond |-> <<rule, cond>>]
Plain(rule, ids) == [k \in DOMAIN ids |-> Event(rule, ids[k], ids[k])]

NodeConflicts(s) == Plain("node_conflict", s.doubled)

NewDeficits(s) == Plain("new_deficit", [k \in DOMAIN s.short |-> s.short[k].factory])

\* A full route alone is no alarm: a deficit must be registered through it.
RouteBottlenecks(s) ==
  Plain("route_bottleneck", Kept(s.full, {s.short[k].route : k \in DOMAIN s.short}))

PowerSwings(s) ==
  LET cs == Kept(Circuits(s), {c \in Range(Circuits(s)) : Level(c) # "ok"})
  IN  [k \in DOMAIN cs |-> Event("power_swing", cs[k].name, cs[k].members)]

\* Silent until power planning has begun, and on factories that generate.
UnpoweredFactories(s) ==
  LET dark  == {f \in Factory : s.draw[f] > 0 /\ f \notin InGrid(s) /\ s.gen[f] = 0}
      begun == InGrid(s) # {} \/ Total(s.gen, Factory) > 0
  IN  IF begun THEN Plain("unpowered_factory", Kept(FactoryOrder, dark)) ELSE <<>>

DriftDetected(s) == Plain("drift_detected", s.drift)

Evaluate(s) ==
  NodeConflicts(s) \o NewDeficits(s) \o RouteBottlenecks(s) \o PowerSwings(s)
    \o UnpoweredFactories(s) \o DriftDetected(s)

Events == [s \in Scenes \cup {Blank} |-> Evaluate(Scene[s])]
Conds(s) == {Events[s][k].cond : k \in DOMAIN Events[s]}
Keys(s)  == {Events[s][k].key : k \in DOMAIN Events[s]}
AllConds == UNION {Conds(s) : s \in DOMAIN Events}
AllKeys  == UNION {Keys(s) : s \in DOMAIN Events}

-----------------------------------------------------------------------------
(* The gate *)

\* A clock set back leaves an age below zero, and the rule quiet for longer.
Debounced(a) == a # Never /\ a < Window

\* Mutant: the debounce accounts for the edge it suppresses.
HearOnce(acc, e) ==
  IF e.key \in active \/ e.rule \in muted \/ Debounced(acc.age[e.rule])
  THEN [acc EXCEPT !.next = @ \cup {e.key}]
  ELSE [next |-> acc.next \cup {e.key}, made |-> acc.made \cup {e},
        age |-> [acc.age EXCEPT ![e.rule] = 0]]

\* Mutant: a mute leaves the edge unseen.
HearMuted(acc, e) ==
  IF e.key \in active THEN [acc EXCEPT !.next = @ \cup {e.key}]
  ELSE IF e.rule \in muted \/ Debounced(acc.age[e.rule]) THEN acc
  ELSE [next |-> acc.next \cup {e.key}, made |-> acc.made \cup {e},
        age |-> [acc.age EXCEPT ![e.rule] = 0]]

\* One event: accounted for and muted keys stay or become accounted for, a
\* debounced one is left for a later pass, any other makes a card.
Hear(acc, e) ==
  IF e.key \in active \/ e.rule \in muted THEN [acc EXCEPT !.next = @ \cup {e.key}]
  ELSE IF Debounced(acc.age[e.rule]) THEN acc
  ELSE [next |-> acc.next \cup {e.key}, made |-> acc.made \cup {e},
        age |-> [acc.age EXCEPT ![e.rule] = 0]]

Heard(s) ==
  LET acc[k \in 0..Len(Events[s])] ==
        IF k = 0 THEN [next |-> {}, made |-> {}, age |-> age]
        ELSE Hear(acc[k - 1], Events[s][k])
  IN  acc[Len(Events[s])]

\* Mutant: pausing forgets what was accounted for.
PausedGateForgets(s) == [next |-> {}, made |-> {}, age |-> age]

\* While paused, conditions that cleared are dropped and nothing is armed.
PausedGate(s) == [next |-> active \cap Keys(s), made |-> {}, age |-> age]

Card(e) == [key |-> e.key, rule |-> e.rule, dismissed |-> FALSE]

\* What the pass over scene s does to the episodes of conditions: one ends
\* when a pass sees its condition gone, and is excused from a card when a
\* pass sees it while its rule is muted.
Episodes(s, made) ==
  /\ told' = [c \in AllConds |->
       IF c \notin Conds(s) THEN 0
       ELSE IF \E e \in made : e.cond = c THEN told[c] + 1 ELSE told[c]]
  /\ excused' = {c \in Conds(s) : \/ c \in excused
                                  \/ ~paused /\ c[1] \in muted}

\* The session's advise: gate, then the cards, then the gate's memory.
Advise(s) ==
  LET out == IF paused THEN PausedGate(s) ELSE Heard(s)
      new == {Card(e) : e \in out.made}
  IN  /\ cards' = cards \cup new
      /\ active' = out.next /\ age' = out.age
      /\ disk' = [disk EXCEPT !.cards = @ \cup new, !.active = out.next, !.age = out.age]
      /\ Episodes(s, out.made)
      /\ UNCHANGED <<muted, paused>>

-----------------------------------------------------------------------------
(* The session *)

Fires == [r \in RuleNames |-> Never]
Silent == told = [c \in AllConds |-> 0] /\ excused = {}

Init ==
  /\ past = <<>> /\ plan = Blank /\ future = <<>>
  /\ cards = {} /\ muted = {} /\ paused = FALSE /\ active = {} /\ age = Fires
  /\ disk = [cards |-> {}, muted |-> {}, active |-> {}, age |-> Fires]
  /\ Silent /\ acts = 0

Act == acts < MaxActs /\ acts' = acts + 1

\* commit_mutation: an edit that leads to another scene.
Commit == \E s \in Scenes \ {plan} :
  /\ Act
  /\ past' = Append(past, plan) /\ plan' = s /\ future' = <<>>
  /\ Advise(s)

\* An edit after which everything the rules look at is as before.
Touch ==
  /\ future' = <<>> /\ Advise(plan)
  /\ UNCHANGED <<past, plan, acts>>

Undo ==
  /\ Act /\ past # <<>>
  /\ plan' = Last(past) /\ past' = Front(past) /\ future' = <<plan>> \o future
  /\ UNCHANGED <<advisor, disk, ghosts>>

Redo ==
  /\ Act /\ future # <<>>
  /\ plan' = Head(future) /\ future' = Tail(future) /\ past' = Append(past, plan)
  /\ UNCHANGED <<advisor, disk, ghosts>>

\* What the feed shows: a card that opens a review drops out while its
\* proposal is closed.
Feed == {c \in cards : /\ ~c.dismissed
                       /\ c.rule = "drift_detected" => c.key[2] \in Range(Scene[plan].drift)}

Dismiss == \E c \in Feed :
  LET gone(cs) == (cs \ {c}) \cup {[c EXCEPT !.dismissed = TRUE]} IN
  /\ Act
  /\ cards' = gone(cards) /\ muted' = muted \cup {c.rule}
  /\ disk' = [disk EXCEPT !.cards = gone(@), !.muted = @ \cup {c.rule}]
  /\ UNCHANGED <<history, paused, active, age, ghosts>>

Unmute == \E r \in muted :
  /\ Act
  /\ muted' = muted \ {r} /\ disk' = [disk EXCEPT !.muted = @ \ {r}]
  /\ UNCHANGED <<history, cards, paused, active, age, ghosts>>

SetPaused ==
  /\ Act /\ paused' = ~paused
  /\ UNCHANGED <<history, cards, muted, active, age, disk, ghosts>>

\* Opening the plan file: cards, mutes and gate come back, the pause does not.
Reopen ==
  /\ Act
  /\ cards' = disk.cards /\ muted' = disk.muted
  /\ active' = disk.active /\ age' = disk.age /\ paused' = FALSE
  /\ UNCHANGED <<history, disk, ghosts>>

NewEmpire ==
  /\ Act
  /\ past' = <<>> /\ plan' = Blank /\ future' = <<>>
  /\ cards' = {} /\ muted' = {} /\ paused' = FALSE /\ active' = {} /\ age' = Fires
  /\ disk' = [cards |-> {}, muted |-> {}, active |-> {}, age |-> Fires]
  /\ told' = [c \in AllConds |-> 0] /\ excused' = {}

Older(a) == [r \in RuleNames |-> IF Debounced(a[r]) THEN a[r] + 1 ELSE a[r]]
Ahead(a) == [r \in RuleNames |-> IF a[r] = Never THEN Never ELSE -1]

Tick ==
  /\ age' = Older(age) /\ disk' = [disk EXCEPT !.age = Older(@)]
  /\ UNCHANGED <<history, cards, muted, paused, active, ghosts, acts>>

\* The clock is set back past every fire.
SetClockBack ==
  /\ Act /\ age' = Ahead(age) /\ disk' = [disk EXCEPT !.age = Ahead(@)]
  /\ UNCHANGED <<history, cards, muted, paused, active, ghosts>>

Next == \/ Commit \/ Touch \/ Undo \/ Redo \/ Dismiss \/ Unmute \/ SetPaused
        \/ Reopen \/ NewEmpire \/ Tick \/ SetClockBack

\* The clock runs, and the user goes on editing: no gate pass, no report.
Fairness == WF_vars(Tick) /\ WF_vars(Touch)

Spec == Init /\ [][Next]_vars /\ Fairness

-----------------------------------------------------------------------------
(* Properties *)

Ages  == [RuleNames -> Int \cup {Never}]
Cards == [key : AllKeys, rule : RuleNames, dismissed : BOOLEAN]

TypeOK ==
  /\ past \in Seq(DOMAIN Events) /\ plan \in DOMAIN Events /\ future \in Seq(DOMAIN Events)
  /\ cards \subseteq Cards /\ muted \subseteq RuleNames /\ paused \in BOOLEAN
  /\ active \subseteq AllKeys /\ age \in Ages
  /\ disk \in [cards : SUBSET Cards, muted : SUBSET RuleNames, active : SUBSET AllKeys, age : Ages]
  /\ told \in [AllConds -> Nat] /\ excused \subseteq AllConds /\ acts \in Nat

\* A condition makes at most one card from the edit that brings it about to
\* the first edit that finds it gone, across mutes, pauses, undos, restarts
\* and clocks set back.  A circuit's condition is that of its factories.
ToldOnce == \A c \in AllConds : told[c] <= 1

\* A condition seen while its rule was muted makes no card when the rule is
\* unmuted, before or after a restart, until it has cleared.
NoAmbush == [][\A c \in excused : told'[c] <= told[c]]_vars

\* Debounce and pause delay: once the user has settled and edits go on, each
\* condition that holds has made its card, unless it is muted, was seen
\* while muted, or the advisor is paused.
Delivered ==
  \A k \in DOMAIN Events[plan] :
    LET e == Events[plan][k]
    IN  paused \/ told[e.cond] > 0 \/ e.rule \in muted \/ e.cond \in excused

DelayedOnly == <>[]Delivered

Connected == [s \in DOMAIN Events |-> AreComponents(Scene[s])]
\* The circuits the rules and the grid cards see are the components of the
\* power lines, whatever order the lines come in.
GridsConnect == Connected[plan]

ShedsRight == [s \in DOMAIN Events |-> \A c \in Range(Circuits(Scene[s])) :
                                         ShedsWhatItSays(Scene[s], c)]
\* A priority switch sheds at the generation plus what the earlier switches
\* really drop, as long as their loads do not overlap.
ShedsTrue == ShedsRight[plan]

\* Circuits and what their switches shed are right together.
GridsTrue == GridsConnect /\ ShedsTrue
=============================================================================
