------------------------------ MODULE RankFeed ------------------------------
(***************************************************************************)
(* The NEXT MOVES feed: the engine derives cards from the plan, a language *)
(* model may order them and write notes, and the renderer keeps one shared *)
(* ranked list up to date while edits, preference changes, feed openings   *)
(* and plan replacements overlap with slow rankings.                       *)
(*                                                                         *)
(* A plan is known by its hash.  Edits, plain lists, preferences, wipes    *)
(* and hydrates reach the session and come back in order; a ranking is     *)
(* prepared and answered at any time.  A note remembers the evidence the   *)
(* model was shown, ideas ("wild") the plan.  No call is refused; without  *)
(* a configured model the answer is that of an unreadable reply.           *)
(***************************************************************************)
EXTENDS Naturals, Sequences, SequencesExt, Lists

CONSTANTS
  Plan,          \* plan hashes
  Start, Fresh,  \* the first plan, and an emptied one
  CardOrder,     \* a sequence of card ids, in the engine's order
  Evidence,      \* [Plan -> [card -> evidence or None]]
  Trains,        \* cards that a preference hides
  Reply,         \* the rankings a model may send
  Surface,       \* the places a feed can be open
  None,
  Edited,        \* the plans edits lead to
  MaxActs,       \* what the user does in all
  MaxAnswers     \* answers that wait for the event loop

Card == Range(CardOrder)

\* The engine derives ids uniquely.
ASSUME OrderAssumption == CardOrder \in Seq(Card) /\ IsInjective(CardOrder)
ASSUME PlanAssumption  == /\ {Start, Fresh} \cup Edited \subseteq Plan
                          /\ \A p \in Plan : DOMAIN Evidence[p] = Card
ASSUME ReplyAssumption == \A r \in Reply \ {None} : r.order \in Seq(Range(r.order))

VARIABLES
  plan, noTrains, engine, pending, jobs,          \* the session, and who ranks
  queue, answers,                                 \* calls in order, to and from it
  rank, planHash, epoch, open, due,               \* the renderer's store
  rankSeq, rankedKey, mounted, lastMerged,        \* its module variables
  asked,                                          \* rankings on their way
  spent

session  == <<plan, noTrains, engine, pending, jobs>>
guards   == <<rankSeq, rankedKey, mounted, lastMerged>>
vars == <<session, queue, answers, rank, planHash, epoch, open, due, guards, asked, spent>>

-----------------------------------------------------------------------------
(* The engine and the firewall *)

\* The engine's cards for a plan, best first.
NextMoves(p, hide) ==
  LET shown == {c \in Card : Evidence[p][c] # None /\ ~(hide /\ c \in Trains)}
      cards == Kept(CardOrder, shown)
  IN  [k \in DOMAIN cards |-> [id |-> cards[k], ev |-> Evidence[p][cards[k]]]]

Ids(cards)   == {cards[k].id : k \in DOMAIN cards}
EvOf(cards, c) == IF c \in Ids(cards) THEN (CHOOSE x \in Range(cards) : x.id = c).ev ELSE None

Heuristic(cards) ==
  [engine |-> "heuristic", headline |-> None, wild |-> None,
   cards |-> [k \in DOMAIN cards |-> [id |-> cards[k].id, ev |-> cards[k].ev, note |-> None]]]

\* Mutant: cards the model left out are not appended.
ApplyModelRankingOnly(cards, reply, seen) ==
  LET order == FirstOnly(Kept(reply.order, Ids(cards)))
  IN  [k \in DOMAIN order |->
         [id |-> order[k], ev |-> EvOf(cards, order[k]),
          note |-> IF order[k] \in reply.notes THEN EvOf(seen, order[k]) ELSE None]]

\* The order the model gave, unknown and repeated ids dropped, the rest
\* appended; notes attach to known cards only.
ApplyModelRanking(cards, reply, seen) ==
  LET order == FirstOnly(Kept(reply.order, Ids(cards)) \o [k \in DOMAIN cards |-> cards[k].id])
  IN  [k \in DOMAIN order |->
         [id |-> order[k], ev |-> EvOf(cards, order[k]),
          note |-> IF order[k] \in reply.notes THEN EvOf(seen, order[k]) ELSE None]]

\* A reply without content is no ranking.
RankedResponse(job, reply, seen) ==
  IF reply = None \/ ((Range(reply.order) \cup reply.notes) \cap Ids(job.cards) = {}
                        /\ ~reply.headline /\ ~reply.wild)
  THEN Heuristic(job.cards)
  ELSE LET cards == ApplyModelRanking(job.cards, reply, seen)
       IN  [engine |-> "model", cards |-> cards,
            headline |-> IF reply.headline
                         THEN [id |-> cards[1].id, ev |-> EvOf(seen, cards[1].id)] ELSE None,
            wild |-> IF reply.wild THEN job.plan ELSE None]

\* Mutant: notes stay on their cards whatever became of the evidence.
MergeRankNotes(prev, fresh) ==
  IF prev = None \/ prev.engine # "model" THEN Heuristic(fresh)
  ELSE LET kept == Kept(prev.cards, {c \in Range(prev.cards) : c.id \in Ids(fresh)})
       IN  [engine |-> prev.engine, wild |-> None, headline |-> None,
            cards |-> [k \in DOMAIN kept |-> [kept[k] EXCEPT !.ev = EvOf(fresh, @)]]]

\* A fresh list folded under the model's order: notes and the headline stay
\* while the evidence they were written for does, ideas go.
MergeRank(prev, fresh) ==
  IF prev = None \/ prev.engine # "model" THEN Heuristic(fresh)
  ELSE LET kept  == Kept(prev.cards, {c \in Range(prev.cards) : c.id \in Ids(fresh)})
           new   == Kept(fresh, {c \in Range(fresh) : c.id \notin Ids(prev.cards)})
           added == Heuristic(new).cards
           cards == [k \in DOMAIN kept |->
                       LET ev == EvOf(fresh, kept[k].id)
                       IN  [id |-> kept[k].id, ev |-> ev,
                            note |-> IF ev = kept[k].ev THEN kept[k].note ELSE None]] \o added
           top == /\ cards # <<>> /\ prev.cards # <<>>
                  /\ cards[1].id = prev.cards[1].id /\ cards[1].ev = prev.cards[1].ev
       IN  [engine |-> prev.engine, wild |-> None, cards |-> cards,
            headline |-> IF top THEN prev.headline ELSE None]

-----------------------------------------------------------------------------
(* The session's side of the calls *)

Job == [plan |-> plan, cards |-> NextMoves(plan, noTrains)]

Serve ==
  /\ queue # <<>> /\ Len(answers) < MaxAnswers
  /\ queue' = Tail(queue)
  /\ LET call == Head(queue)
         p == CASE call.kind = "edit" -> call.hash [] call.kind = "wipe" -> Fresh [] OTHER -> plan
         t == IF call.kind = "prefs" THEN call.hide ELSE noTrains
     IN  /\ plan' = p /\ noTrains' = t
         /\ answers' = Append(answers, [kind |-> call.kind, seq |-> call.seq, asked |-> call.hash,
                                        hash |-> p, cards |-> NextMoves(p, t)])
  /\ UNCHANGED <<engine, pending, jobs, rank, planHash, epoch, open, due, guards, asked, spent>>

\* The provider's answer to a job depends on the job alone: it is fixed here,
\* and lands whenever the call ends.
ExecuteRank(job, r) == RankedResponse(job, r, job.cards)

\* The under-lock half of a ranking; a browser's job is parked under its number.
RankPrepare(n) ==
  LET Answered(r) == [asked EXCEPT ![n].stage = "answered", ![n].answer = r] IN
  /\ asked[n].stage = "asked"
  /\ \/ /\ Job.cards = <<>> /\ asked' = Answered(Heuristic(Job.cards))
        /\ pending' = IF engine = "browser" THEN None ELSE pending
        /\ UNCHANGED jobs
     \/ /\ Job.cards # <<>> /\ engine = "provider"
        /\ \E r \in Reply : asked' = Answered(ExecuteRank(Job, r))
        /\ UNCHANGED <<pending, jobs>>
     \/ /\ Job.cards # <<>> /\ engine = "browser"
        /\ jobs' = jobs + 1 /\ pending' = [id |-> jobs + 1, job |-> Job]
        /\ asked' = [asked EXCEPT ![n].stage = "model", ![n].id = jobs + 1, ![n].job = Job]
  /\ UNCHANGED <<plan, noTrains, engine, queue, answers, rank, planHash, epoch, open, due, guards, spent>>

\* Mutant: a reply is applied to whatever job is parked.
RankApplyAny(n, r) ==
  /\ asked[n].stage = "model"
  /\ IF pending # None
     THEN /\ asked' = [asked EXCEPT ![n].stage = "answered",
                                    ![n].answer = RankedResponse(pending.job, r, asked[n].job.cards)]
          /\ pending' = None
     ELSE /\ asked' = [asked EXCEPT ![n].stage = "answered", ![n].answer = Heuristic(Job.cards)]
          /\ UNCHANGED pending
  /\ UNCHANGED <<plan, noTrains, engine, jobs, queue, answers, rank, planHash, epoch, open, due, guards, spent>>

\* The browser's model has run and its reply comes for the job it was given: a
\* later preparation has replaced that job, or it is still parked.
RankApply(n, r) ==
  /\ asked[n].stage = "model"
  /\ IF pending # None /\ pending.id = asked[n].id
     THEN /\ asked' = [asked EXCEPT ![n].stage = "answered",
                                    ![n].answer = RankedResponse(pending.job, r, asked[n].job.cards)]
          /\ pending' = None
     ELSE /\ asked' = [asked EXCEPT ![n].stage = "answered", ![n].answer = Heuristic(Job.cards)]
          /\ UNCHANGED pending
  /\ UNCHANGED <<plan, noTrains, engine, jobs, queue, answers, rank, planHash, epoch, open, due, guards, spent>>

-----------------------------------------------------------------------------
(* The renderer *)

Init ==
  /\ plan = Start /\ planHash = Start
  /\ engine \in {"provider", "browser"}
  /\ noTrains = FALSE /\ pending = None /\ jobs = 0
  /\ queue = <<>> /\ answers = <<>> /\ asked = <<>>
  /\ rank = None /\ epoch = 0 /\ open = {} /\ due = {}
  /\ rankSeq = 0 /\ rankedKey = None /\ mounted = 0 /\ lastMerged = None
  /\ spent = 0

Ask(call)  == queue' = Append(queue, call)
Request(kind, hash, seq, hide) == [kind |-> kind, hash |-> hash, seq |-> seq, hide |-> hide]

Edit(h) ==
  /\ spent < MaxActs /\ spent' = spent + 1
  /\ Ask(Request("edit", h, 0, FALSE))
  /\ UNCHANGED <<session, answers, rank, planHash, epoch, open, due, guards, asked>>

SetPreferences(hide) ==
  /\ open # {} /\ spent < MaxActs /\ spent' = spent + 1
  /\ Ask(Request("prefs", None, 0, hide))
  /\ UNCHANGED <<session, answers, rank, planHash, epoch, open, due, guards, asked>>

NewEmpire ==
  /\ spent < MaxActs /\ spent' = spent + 1
  /\ Ask(Request("wipe", Fresh, 0, FALSE))
  /\ UNCHANGED <<session, answers, rank, planHash, epoch, open, due, guards, asked>>

\* One ranking per plan and epoch while a feed is open.
OpenRankFeed ==
  LET key == <<planHash, epoch>> IN
  IF rankedKey = key THEN UNCHANGED <<rankSeq, rankedKey, asked>>
  ELSE /\ rankedKey' = key /\ rankSeq' = rankSeq + 1
       /\ asked' = Append(asked, [seq |-> rankSeq + 1, start |-> planHash, stage |-> "asked",
                                  id |-> 0, job |-> None, answer |-> None])

RegisterFeed(s) ==
  /\ s \notin open /\ spent < MaxActs
  /\ spent' = spent + 1
  /\ open' = open \cup {s} /\ mounted' = mounted + 1
  /\ OpenRankFeed
  /\ UNCHANGED <<session, queue, answers, rank, planHash, epoch, due, lastMerged>>

UnregisterFeed(s) ==
  /\ s \in open /\ open' = open \ {s}
  /\ mounted' = IF mounted <= 1 THEN 0 ELSE mounted - 1
  /\ rankedKey' = IF mounted <= 1 THEN None ELSE rankedKey
  /\ due' = IF open' = {} THEN due \ {"rank"} ELSE due
  /\ UNCHANGED <<session, queue, answers, rank, planHash, epoch, rankSeq, lastMerged, asked, spent>>

\* A fresh list is fetched when the plan moved since the last merge; a list
\* that was never ranked needs none.
MergeOnEdit(shown, merged) ==
  IF planHash = merged \/ shown = None THEN UNCHANGED <<queue, rankSeq>>
  ELSE /\ rankSeq' = rankSeq + 1
       /\ Ask(Request("merge", planHash, rankSeq + 1, FALSE))

\* Mutant: a landed ranking claims the plan of now, not the one it ranked.
RankLandsClaiming(n) ==
  /\ asked[n].stage = "answered"
  /\ asked' = RemoveAt(asked, n)
  /\ IF rankSeq = asked[n].seq
     THEN rank' = asked[n].answer /\ lastMerged' = planHash
     ELSE UNCHANGED <<rank, lastMerged>>
  /\ UNCHANGED <<session, queue, answers, planHash, epoch, open, due, rankSeq, rankedKey, mounted, spent>>

\* A ranking lands, unless a later ranking or merge was started.
RankLands(n) ==
  /\ asked[n].stage = "answered"
  /\ asked' = RemoveAt(asked, n)
  /\ IF rankSeq = asked[n].seq
     THEN /\ rank' = asked[n].answer /\ lastMerged' = asked[n].start
          /\ MergeOnEdit(asked[n].answer, asked[n].start)
     ELSE UNCHANGED <<rank, lastMerged, queue, rankSeq>>
  /\ UNCHANGED <<session, answers, planHash, epoch, open, due, rankedKey, mounted, spent>>

Moves(h) == IF h = planHash THEN {} ELSE {"merge"}

Answered(kind) == answers # <<>> /\ Head(answers).kind = kind /\ answers' = Tail(answers)
Answer == Head(answers)

EditAnswered ==
  /\ Answered("edit")
  /\ planHash' = Answer.hash /\ due' = due \cup Moves(Answer.hash)
  /\ UNCHANGED <<session, queue, rank, epoch, open, guards, asked, spent>>

MergeAnswered ==
  /\ Answered("merge")
  /\ IF rankSeq = Answer.seq
     THEN rank' = MergeRank(rank, Answer.cards) /\ lastMerged' = Answer.asked
     ELSE UNCHANGED <<rank, lastMerged>>
  /\ UNCHANGED <<session, queue, planHash, epoch, open, due, rankSeq, rankedKey, mounted, asked, spent>>

PrefsAnswered ==
  /\ Answered("prefs")
  /\ rank' = MergeRank(rank, Answer.cards)
  /\ epoch' = epoch + 1
  /\ due' = IF open = {} THEN due ELSE due \cup {"rank"}
  /\ UNCHANGED <<session, queue, planHash, open, guards, asked, spent>>

\* The plan was emptied: the renderer forgets its list and reads the plan anew.
WipeAnswered ==
  /\ Answered("wipe")
  /\ rankedKey' = None /\ mounted' = 0 /\ lastMerged' = None
  /\ rank' = None /\ epoch' = 0
  /\ due' = IF open # {} /\ epoch # 0 THEN due \cup {"rank"} ELSE due
  /\ Ask(Request("hydrate", None, 0, FALSE))
  /\ UNCHANGED <<session, planHash, open, rankSeq, asked, spent>>

HydrateAnswered ==
  /\ Answered("hydrate")
  /\ planHash' = Answer.hash /\ due' = due \cup Moves(Answer.hash)
  /\ UNCHANGED <<session, queue, rank, epoch, open, guards, asked, spent>>

\* React runs the effects after the change: a merge for a moved plan, a ranking
\* in the open feeds for a moved epoch.
MergeEffect ==
  /\ "merge" \in due /\ due' = due \ {"merge"}
  /\ MergeOnEdit(rank, lastMerged)
  /\ UNCHANGED <<session, answers, rank, planHash, epoch, open, rankedKey, mounted, lastMerged, asked, spent>>

RankEffect ==
  /\ "rank" \in due /\ due' = due \ {"rank"}
  /\ OpenRankFeed
  /\ UNCHANGED <<session, queue, answers, rank, planHash, epoch, open, mounted, lastMerged, spent>>

-----------------------------------------------------------------------------

Deliver == EditAnswered \/ MergeAnswered \/ PrefsAnswered \/ WipeAnswered \/ HydrateAnswered
Effects == MergeEffect \/ RankEffect

RankStep ==
  \E n \in DOMAIN asked :
    \/ RankPrepare(n) \/ RankLands(n)
    \/ \E r \in Reply : RankApply(n, r)

User ==
  \/ \E h \in Edited : Edit(h)
  \/ \E hide \in BOOLEAN : SetPreferences(hide)
  \/ NewEmpire
  \/ \E s \in Surface : RegisterFeed(s) \/ UnregisterFeed(s)

Next == User \/ Serve \/ Deliver \/ Effects \/ RankStep

\* The session answers its calls, the event loop delivers and runs effects, and
\* a model call ends (the provider call has a timeout).
Spec == Init /\ [][Next]_vars
        /\ WF_vars(Serve) /\ WF_vars(Deliver) /\ WF_vars(Effects) /\ WF_vars(RankStep)

-----------------------------------------------------------------------------

Word     == {None} \cup UNION {Range(Evidence[p]) : p \in Plan}
Entry    == [id : Card, ev : Word]
Calls    == {"edit", "prefs", "wipe", "merge", "hydrate"}
Requests == [kind : Calls, hash : Plan \cup {None}, seq : Nat, hide : BOOLEAN]
Answers  == [kind : Calls, asked : Plan \cup {None}, seq : Nat, hash : Plan, cards : Seq(Entry)]
RankJobs == [plan : Plan, cards : Seq(Entry)]
Ranks    == [engine : {"heuristic", "model"}, cards : Seq([id : Card, ev : Word, note : Word]),
             headline : Entry \cup {None}, wild : Plan \cup {None}]
Asks     == [seq : Nat, start : Plan, stage : {"asked", "model", "answered"}, id : Nat,
             job : RankJobs \cup {None}, answer : Ranks \cup {None}]

TypeOK ==
  /\ plan \in Plan /\ noTrains \in BOOLEAN /\ engine \in {"provider", "browser"}
  /\ pending \in [id : Nat, job : RankJobs] \cup {None} /\ jobs \in Nat
  /\ queue \in Seq(Requests) /\ answers \in Seq(Answers) /\ asked \in Seq(Asks)
  /\ rank \in Ranks \cup {None} /\ planHash \in Plan /\ epoch \in Nat
  /\ open \subseteq Surface /\ due \subseteq {"merge", "rank"}
  /\ rankSeq \in Nat /\ rankedKey \in (Plan \X Nat) \cup {None} /\ mounted \in Nat
  /\ lastMerged \in Plan \cup {None} /\ spent \in Nat

\* Prose never outlives its evidence: a note shown was written by a model that
\* saw the very evidence its card shows, and the headline by one that saw the
\* top card as it is, whatever edits, preference merges and overlapping rankings
\* the reply crossed.  (store.ts, mergeRank; lib.rs, next_rank_apply.)
ProseFitsEvidence ==
  rank # None =>
    /\ \A k \in DOMAIN rank.cards : rank.cards[k].note \in {None, rank.cards[k].ev}
    /\ rank.headline # None =>
         rank.cards # <<>> /\ rank.headline = [id |-> rank.cards[1].id, ev |-> rank.cards[1].ev]

\* The list is at every moment one the engine derived whole, for some plan and
\* preference, in some order: no model and no merge adds, drops, doubles or
\* alters a card.  (ai.rs, the validation firewall; store.ts, mergeRank.)
ListIsDerived ==
  rank # None =>
    \E p \in Plan, hide \in BOOLEAN :
      /\ Len(rank.cards) = Len(NextMoves(p, hide))
      /\ {[id |-> c.id, ev |-> c.ev] : c \in Range(rank.cards)} = Range(NextMoves(p, hide))

\* Cards are the engine's and prose is about them.
FeedIsHonest == ProseFitsEvidence /\ ListIsDerived

Current ==
  rank # None =>
    {[id |-> c.id, ev |-> c.ev] : c \in Range(rank.cards)} = Range(NextMoves(plan, noTrains))

\* The list catches up: once the user lets a feed stand open, what it lists ends
\* up describing the plan and the preferences of now, whichever of rankings,
\* merges and edits overtook another.  (store.ts: a landed ranking never claims
\* the hash of now, which would swallow the edit and freeze a stale list.)
FeedCatchesUp == <>[](open # {}) => <>[]Current
==============================================================================
