------------------------------ MODULE WizardJobs ------------------------------
(***************************************************************************)
(* The supply-chain wizard.  SOLVE asks the host for a job; the host runs  *)
(* the solver on a thread of its own and the dialog polls it for new log   *)
(* lines and, once it is done, for its outcome.  A proposal is stored as   *)
(* an ordinary edit and opened for review.                                 *)
(*                                                                         *)
(* Each SOLVE is a call of the dialog's async function, and several can be *)
(* alive at once: the dialog stays mounted while it is closed, and neither *)
(* CANCEL nor a new SOLVE stops a call that waits for an answer.  Calls    *)
(* share the dialog's state and jobRef, the job that CANCEL would cancel.  *)
(* Answers to different calls arrive in any order.  Modelled is the        *)
(* desktop host; a solver that panics is not modelled.                     *)
(***************************************************************************)
EXTENDS Integers, Sequences, FiniteSets

CONSTANTS
  MaxSolves,  \* bound: times the user presses SOLVE
  MaxLines    \* bound: log lines of each solve

Calls == 1..MaxSolves   \* a call of solve and the job it starts

ASSUME WizardAssumption ==
  /\ MaxSolves \in Nat \ {0}
  /\ MaxLines \in [Calls -> Nat \ {0}]

NoJob == 0
Outcomes == {"proposal", "infeasible", "cancelled"}
Pending  == "none"      \* an outcome that is not there yet

VARIABLES
  job,        \* host: the job of every call
  call,       \* dialog: every call of solve, where it waits and what it read
  solves,     \* calls made so far
  open, step, infeasible, jobRef, \* dialog
  shown,      \* dialog: the log on screen, the line numbers of every call
  stored      \* the calls that have stored their proposal in the plan

dialog == <<open, step, infeasible, jobRef, shown>>
vars   == <<job, call, solves, dialog, stored>>

\* A thread solves, has stored its outcome, is done.
Job == [thread : {"none", "solving", "stored", "done"},
        lines : Nat, cancel : BOOLEAN,
        outcome : Outcomes \cup {Pending}, done : BOOLEAN]

NewJob == [thread |-> "none", lines |-> 0, cancel |-> FALSE,
           outcome |-> Pending, done |-> FALSE]

\* at: awaiting wizard_solve (asked), awaiting wizard_progress (sent, logRead,
\* doneRead, answered), on the timer, awaiting create_proposal, over.
\* upto, done, outcome: the answer of the poll under way, empty between polls.
Call == [at : {"unused", "asked", "sent", "logRead", "doneRead",
               "answered", "timer", "storing", "over"},
         seen : Nat, upto : Nat,
         outcome : Outcomes \cup {Pending}, done : BOOLEAN]

NewCall == [at |-> "unused", seen |-> 0, upto |-> 0,
            outcome |-> Pending, done |-> FALSE]

NoLines == [n \in Calls |-> <<>>]

Polling == {"sent", "logRead", "doneRead", "answered", "timer"}

At(n, place) == call[n].at = place
Moves(n, place) == call' = [call EXCEPT ![n].at = place]
Ends(n) == call' = [call EXCEPT ![n] = [NewCall EXCEPT !.at = "over"]]

Init ==
  /\ job = [n \in Calls |-> NewJob]
  /\ call = [n \in Calls |-> NewCall]
  /\ solves = 0
  /\ open = FALSE /\ step = 1 /\ infeasible = FALSE /\ jobRef = NoJob
  /\ shown = NoLines
  /\ stored = {}

------------------------------------------------------------------------------
(* The solver thread *)

\* global_solve logs a line of its own or of the solver's.
PushLine(n) ==
  /\ job[n].thread = "solving"
  /\ job[n].lines < MaxLines[n]
  /\ job' = [job EXCEPT ![n].lines = @ + 1]

\* The thread stores its outcome, and done in a later step.  Nobody looks at
\* the cancel flag after that: it counts as down.
StoreOutcome(n, outcome) ==
  /\ job[n].thread = "solving"
  /\ job' = [job EXCEPT ![n].thread = "stored", ![n].outcome = outcome, ![n].cancel = FALSE]

\* The flag is looked at between items only, and not after the last one.
SeeCancel(n) == job[n].cancel /\ StoreOutcome(n, "cancelled")

\* No proposal and no refusal without a line in the log.
Return(n) ==
  /\ job[n].lines > 0
  /\ StoreOutcome(n, "proposal") \/ StoreOutcome(n, "infeasible")

StoreDone(n) ==
  /\ job[n].thread = "stored"
  /\ job' = [job EXCEPT ![n].thread = "done", ![n].done = TRUE]

Thread(n) ==
  /\ \/ PushLine(n)
     \/ SeeCancel(n)
     \/ Return(n)
     \/ StoreDone(n)
  /\ UNCHANGED <<call, solves, dialog, stored>>

------------------------------------------------------------------------------
(* The host's commands *)

\* wizard_progress reads the log, then done, then the outcome.
ReadLog(n) ==
  /\ At(n, "sent")
  /\ call' = [call EXCEPT ![n].at = "logRead", ![n].upto = job[n].lines]

ReadDone(n) ==
  /\ At(n, "logRead")
  /\ call' = [call EXCEPT ![n].at = "doneRead", ![n].done = job[n].done]

ReadOutcome(n) ==
  /\ At(n, "doneRead")
  /\ call' = [call EXCEPT ![n].at = "answered", ![n].outcome = job[n].outcome]

\* Faulty variant: the outcome is read before done.
OutcomeFirst(n) ==
  \/ /\ At(n, "logRead")
     /\ call' = [call EXCEPT ![n].at = "doneRead", ![n].outcome = job[n].outcome]
  \/ /\ At(n, "doneRead")
     /\ call' = [call EXCEPT ![n].at = "answered", ![n].done = job[n].done]

ReadVerdict(n) == ReadDone(n) \/ ReadOutcome(n)

Progress(n) ==
  /\ \/ ReadLog(n)
     \/ ReadVerdict(n)
  /\ UNCHANGED <<job, solves, dialog, stored>>

------------------------------------------------------------------------------
(* The dialog: what the user does *)

\* Any entry point opens the dialog anew, an open one too: P is not stopped.
OpenWizard ==
  /\ open' = TRUE
  /\ step' = 1 /\ infeasible' = FALSE /\ shown' = NoLines
  /\ UNCHANGED <<job, call, solves, jobRef, stored>>

\* ESC, the X and CANCEL let the job named in jobRef go.  wizard_cancel only
\* raises a flag, and a late request is no different from a late look at it.
LetGo ==
  /\ job' = IF jobRef # NoJob /\ job[jobRef].thread = "solving"
              THEN [job EXCEPT ![jobRef].cancel = TRUE]
              ELSE job
  /\ jobRef' = NoJob

Close ==
  /\ open
  /\ open' = FALSE
  /\ LetGo
  /\ UNCHANGED <<call, solves, step, infeasible, shown, stored>>

\* CANCEL while solving, BACK TO GOAL on a refusal.
Cancel ==
  /\ open /\ step = 2
  /\ step' = 1
  /\ LetGo
  /\ UNCHANGED <<call, solves, open, infeasible, shown, stored>>

\* SOLVE on the goal form, or one of the relaxations of a refusal.  The host
\* starts a thread; that it may take its time covers the request's way there.
Solve ==
  /\ open /\ (step = 1 \/ infeasible)
  /\ solves < MaxSolves
  /\ solves' = solves + 1
  /\ Moves(solves + 1, "asked")
  /\ job' = [job EXCEPT ![solves + 1].thread = "solving"]
  /\ step' = 2 /\ infeasible' = FALSE /\ shown' = NoLines
  /\ UNCHANGED <<open, jobRef, stored>>

------------------------------------------------------------------------------
(* The dialog: answers and the timer *)

SolveAnswered(n) ==
  /\ At(n, "asked")
  /\ jobRef' = n
  /\ Moves(n, "sent")
  /\ UNCHANGED <<job, solves, open, step, infeasible, shown, stored>>

\* Faulty variant: poll asks again without looking whose job is current.
PollUnchecked(n) ==
  /\ At(n, "timer")
  /\ Moves(n, "sent")

\* The only place where a call learns that it was cancelled or superseded.
Poll(n) ==
  /\ At(n, "timer")
  /\ IF jobRef = n THEN Moves(n, "sent") ELSE Ends(n)

TimerFires(n) ==
  /\ Poll(n)
  /\ UNCHANGED <<job, solves, dialog, stored>>

\* The lines a poll brings that skips the ones seen.
NewLines(seen, upto) == [i \in 1..(upto - seen) |-> seen + i]

ShowLines(n) ==
  shown' = [shown EXCEPT ![n] = @ \o NewLines(call[n].seen, call[n].upto)]

\* Faulty variant: the next poll skips as many lines as are on screen, those
\* of another solve among them.
NextPollByScreen(n) ==
  LET onScreen == UNION {{m} \X DOMAIN shown'[m] : m \in Calls}
  IN  call' = [call EXCEPT ![n] = [NewCall EXCEPT !.at = "timer", !.seen = Cardinality(onScreen)]]

\* The next poll asks for what comes after the lines seen.
NextPoll(n) ==
  call' = [call EXCEPT ![n] = [NewCall EXCEPT !.at = "timer", !.seen = call[n].upto]]

PollAgain(n) ==
  /\ ~call[n].done \/ call[n].outcome = Pending
  /\ NextPoll(n)
  /\ UNCHANGED <<step, infeasible, jobRef>>

\* Faulty variant: the job stays current while its proposal is stored.
StoreStillCurrent(n) ==
  /\ call[n].done /\ call[n].outcome = "proposal"
  /\ Moves(n, "storing")
  /\ UNCHANGED <<step, infeasible, jobRef>>

StoreProposal(n) ==
  /\ call[n].done /\ call[n].outcome = "proposal"
  /\ jobRef' = NoJob
  /\ Moves(n, "storing")
  /\ UNCHANGED <<step, infeasible>>

ShowRefusal(n) ==
  /\ call[n].done /\ call[n].outcome = "infeasible"
  /\ jobRef' = NoJob
  /\ infeasible' = TRUE
  /\ Ends(n)
  /\ UNCHANGED step

BackToGoal(n) ==
  /\ call[n].done /\ call[n].outcome = "cancelled"
  /\ jobRef' = NoJob
  /\ step' = 1
  /\ Ends(n)
  /\ UNCHANGED infeasible

ProgressAnswered(n) ==
  /\ At(n, "answered")
  /\ ShowLines(n)
  /\ \/ PollAgain(n)
     \/ StoreProposal(n)
     \/ ShowRefusal(n)
     \/ BackToGoal(n)
  /\ UNCHANGED <<job, solves, open, stored>>

\* The dialog closes and the review of the proposal, not modelled, opens.
Created(n) ==
  /\ stored' = stored \cup {n}
  /\ open' = FALSE
  /\ UNCHANGED step

\* Faulty variant: a refused create_proposal leaves the dialog as it is.
RefusedSilently(n) == UNCHANGED <<stored, open, step>>

\* The edit was refused or not saved: back to the form.
Refused(n) ==
  /\ step' = 1
  /\ UNCHANGED <<stored, open>>

ProposalAnswered(n) ==
  /\ At(n, "storing")
  /\ Ends(n)
  /\ Created(n) \/ Refused(n)
  /\ UNCHANGED <<job, solves, infeasible, jobRef, shown>>

------------------------------------------------------------------------------
Answers(n) ==
  \/ Progress(n)
  \/ SolveAnswered(n)
  \/ TimerFires(n)
  \/ ProgressAnswered(n)
  \/ ProposalAnswered(n)

GiveUp == Close \/ Cancel

Carry ==
  \/ OpenWizard
  \/ Solve
  \/ \E n \in Calls : Thread(n) \/ Answers(n)

Next == GiveUp \/ Carry

\* The thread is scheduled and its loops are bounded, every request is
\* answered, a timer fires.  The user need not do anything.
Fairness == \A n \in Calls : WF_vars(Thread(n)) /\ WF_vars(Answers(n))

Spec == Init /\ [][Next]_vars /\ Fairness

------------------------------------------------------------------------------
(* Properties *)

(* Type correctness.                                                       *)
TypeOK ==
  /\ job \in [Calls -> Job]
  /\ call \in [Calls -> Call]
  /\ solves \in 0..MaxSolves
  /\ open \in BOOLEAN /\ step \in {1, 2} /\ infeasible \in BOOLEAN
  /\ jobRef \in Calls \cup {NoJob}
  /\ shown \in [Calls -> Seq(Nat)]
  /\ stored \subseteq Calls

(* An answer that says done carries the outcome.  progress reads the two   *)
(* in the order opposite to the one the thread stores them in, so a dialog *)
(* never has to ask a finished job again.                                  *)
DoneHasOutcome ==
  \A n \in Calls : At(n, "answered") /\ call[n].done => call[n].outcome # Pending

(* The log on screen repeats and skips no line of a solve, however its     *)
(* polls fall between the thread's lines and whichever other solve's lines *)
(* come in between: its lines are consecutive, and a poll asks for what    *)
(* comes after the last one, if the screen was not cleared since.          *)
LinesOnceInOrder ==
  \A n \in Calls :
    /\ \A i \in 2..Len(shown[n]) : shown[n][i] = shown[n][i - 1] + 1
    /\ At(n, "sent") /\ shown[n] # <<>> => shown[n][Len(shown[n])] = call[n].seen

(* The job CANCEL would cancel is one whose call still polls: a call that  *)
(* ends, is overtaken or answered late never leaves its job behind in      *)
(* jobRef, where nobody would ask for the outcome any more.                *)
CurrentIsPolled == jobRef # NoJob => call[jobRef].at \in Polling

(* A solve that is not current when its timer runs is over for good: it    *)
(* asks no more, stores nothing and does not become current again, also    *)
(* when its thread has finished or the user solves anew.                   *)
StoppedStaysStopped ==
  [][\A n \in Calls :
       At(n, "timer") /\ jobRef # n
         => jobRef' # n /\ call'[n].at \in {"timer", "over"}]_vars

(* The dialog does not stay in "solving": it closes, shows a refusal or    *)
(* goes back to the form, also when calls supersede each other.            *)
Solving == open /\ step = 2 /\ ~infeasible

SolvingEnds == Solving ~> ~Solving
==============================================================================
