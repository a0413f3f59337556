--------------------------- MODULE WizardJobs_proofs ---------------------------
(***************************************************************************)
(* Proofs about WizardJobs, for any number of solves and log lines.  The   *)
(* invariant says, for each call by itself, how far its thread and its     *)
(* poll have come together; calls meet only in jobRef and in the log.      *)
(***************************************************************************)
EXTENDS WizardJobs, SequenceTheorems, TLAPS

(* A call that was not made has no job and no lines on screen.             *)
Unstarted ==
  \A n \in Calls :
    /\ n > solves => At(n, "unused") /\ job[n].thread = "none"
    /\ call[n].at \in {"unused", "asked"} => shown[n] = <<>> /\ call[n].seen = 0

(* The thread raises done last.                                            *)
OutcomeBeforeDone ==
  \A n \in Calls :
    /\ job[n].done => job[n].thread = "done"
    /\ job[n].thread \in {"stored", "done"} => job[n].outcome # Pending

(* What a poll has read of done holds for the outcome it reads next.       *)
ReadsAgree ==
  \A n \in Calls :
    /\ At(n, "doneRead") /\ call[n].done => job[n].thread = "done"
    /\ At(n, "answered") /\ call[n].done => call[n].outcome # Pending

(* A poll has seen no more than the thread has logged.                     *)
SeenIsLogged ==
  \A n \in Calls :
    /\ call[n].seen <= job[n].lines
    /\ call[n].at \in {"logRead", "doneRead", "answered"}
         => call[n].seen <= call[n].upto /\ call[n].upto <= job[n].lines

(* The lines are consecutive and end with line k.                          *)
EndAt(lines, k) == \A i \in 1..Len(lines) : lines[i] = k - (Len(lines) - i)

(* The lines on screen end with the last one a polling call has seen.      *)
ScreenUpToSeen ==
  \A n \in Calls :
    /\ \E k \in Nat : EndAt(shown[n], k)
    /\ call[n].at \in Polling => EndAt(shown[n], call[n].seen)

IInv ==
  /\ TypeOK
  /\ Unstarted
  /\ OutcomeBeforeDone
  /\ ReadsAgree
  /\ SeenIsLogged
  /\ ScreenUpToSeen
  /\ CurrentIsPolled

------------------------------------------------------------------------------
(* The log on screen *)

(* Lines j+1..k after lines that end with j end with k.                    *)
LEMMA AppendLines ==
  ASSUME NEW S, NEW s \in Seq(S), NEW j \in Nat, NEW k \in Nat, j <= k,
         (j + 1)..k \subseteq S, EndAt(s, j)
  PROVE  /\ s \o NewLines(j, k) \in Seq(S)
         /\ EndAt(s \o NewLines(j, k), k)
<1> DEFINE u == NewLines(j, k)
           t == s \o u
<1>1. PICK d \in Nat : d = k - j
  OBVIOUS
<1>2. u \in Seq(S) /\ Len(u) = d /\ \A i \in 1..d : u[i] = j + i
  <2>1. \A i \in 1..d : j + i \in S
    BY <1>1
  <2>2. u \in [1..d -> S] /\ \A i \in 1..d : u[i] = j + i
    BY <1>1, <2>1 DEF NewLines
  <2>3. QED
    BY <2>2
<1> HIDE DEF u
<1>3. /\ t \in Seq(S)
      /\ Len(t) = Len(s) + Len(u)
      /\ \A i \in 1..(Len(s) + Len(u)) :
           t[i] = IF i <= Len(s) THEN s[i] ELSE u[i - Len(s)]
  BY <1>2, ConcatProperties, Zenon
<1> HIDE DEF t
<1>4. PICK a \in Nat : a = Len(s)
  OBVIOUS
<1>5. Len(t) = a + d
  BY <1>2, <1>3, <1>4
<1>6. ASSUME NEW i \in 1..(a + d) PROVE t[i] = k - ((a + d) - i)
  <2>1. CASE i <= a
    <3>1. t[i] = s[i] /\ s[i] = j - (a - i)
      BY <2>1, <1>2, <1>3, <1>4 DEF EndAt
    <3>2. QED
      BY <3>1, <1>1
  <2>2. CASE ~(i <= a)
    <3>1. i - a \in 1..d
      BY <2>2
    <3>2. t[i] = j + (i - a)
      BY <2>2, <3>1, <1>2, <1>3, <1>4
    <3>3. QED
      BY <3>2, <1>1
  <2>3. QED
    BY <2>1, <2>2
<1>7. QED
  BY <1>3, <1>5, <1>6 DEF EndAt, t, u

(* An empty screen ends with any line. *)
LEMMA EmptyEndsAnywhere == \A k : EndAt(<<>>, k)
BY DEF EndAt

------------------------------------------------------------------------------
(* Initial states *)

(* Before the first solve there is no job. *)
LEMMA InitInv ==
  ASSUME Init
  PROVE  IInv
<1> USE WizardAssumption
<1>1. job \in [Calls -> Job] /\ call \in [Calls -> Call]
  BY DEF Init, Calls, Outcomes, Pending, NewJob, Job, NewCall, Call
<1>2. shown \in [Calls -> Seq(Nat)]
  BY DEF Init, NoLines
<1>3. /\ solves \in 0..MaxSolves /\ step \in {1, 2} /\ stored \subseteq Calls
      /\ jobRef \in Calls \cup {NoJob}
  BY DEF Init
<1>4. open \in BOOLEAN /\ infeasible \in BOOLEAN
  BY DEF Init
<1>5. TypeOK
  BY <1>1, <1>2, <1>3, <1>4 DEF TypeOK
<1>6. Unstarted
  BY DEF Init, Unstarted, NewCall, NewJob, NoLines, At
<1>7. OutcomeBeforeDone /\ ReadsAgree
  BY DEF Init, OutcomeBeforeDone, ReadsAgree, NewJob, NewCall, At
<1>8. SeenIsLogged /\ CurrentIsPolled
  BY DEF Init, SeenIsLogged, CurrentIsPolled, NewCall, NewJob
<1>9. ScreenUpToSeen
  BY EmptyEndsAnywhere DEF Init, ScreenUpToSeen, NewCall, NoLines, Polling
<1>10. QED
  BY <1>5, <1>6, <1>7, <1>8, <1>9 DEF IInv

------------------------------------------------------------------------------
(* The thread and the host *)

(* What a step of the thread does to its job.                              *)
LEMMA ThreadStep ==
  ASSUME IInv, NEW n \in Calls, Thread(n)
  PROVE  /\ job' \in [Calls -> Job]
         /\ \A m \in Calls \ {n} : job'[m] = job[m]
         /\ job[n].thread \in {"solving", "stored"}
         /\ job'[n].thread \in {"solving", "stored", "done"}
         /\ job[n].lines <= job'[n].lines
         /\ OutcomeBeforeDone'
<1>1. job \in [Calls -> Job] /\ OutcomeBeforeDone
  BY DEF IInv, TypeOK
<1>2. CASE PushLine(n)
  <2>1. job' \in [Calls -> Job]
    BY <1>1, <1>2, WizardAssumption DEF PushLine, Job
  <2>2. QED
    BY <1>1, <1>2, <2>1 DEF PushLine, Job, OutcomeBeforeDone
<1>3. ASSUME NEW o \in Outcomes, StoreOutcome(n, o)
      PROVE  /\ job' \in [Calls -> Job]
             /\ \A m \in Calls \ {n} : job'[m] = job[m]
             /\ job[n].thread \in {"solving", "stored"}
             /\ job'[n].thread \in {"solving", "stored", "done"}
             /\ job[n].lines <= job'[n].lines
             /\ OutcomeBeforeDone'
  <2>1. job' \in [Calls -> Job]
    BY ZenonT(60), <1>1, <1>3 DEF StoreOutcome, Job, Outcomes
  <2>2. o # Pending
    BY DEF Outcomes, Pending
  <2>3. QED
    BY <1>1, <1>3, <2>1, <2>2 DEF StoreOutcome, Job, OutcomeBeforeDone
<1>4. CASE StoreDone(n)
  <2>1. job' \in [Calls -> Job]
    BY <1>1, <1>4 DEF StoreDone, Job
  <2>2. QED
    BY <1>1, <1>4, <2>1 DEF StoreDone, Job, OutcomeBeforeDone
<1>5. CASE SeeCancel(n) \/ Return(n)
  BY <1>3, <1>5 DEF SeeCancel, Return, Outcomes
<1>6. QED
  BY <1>2, <1>4, <1>5 DEF Thread

(* The solver thread's steps keep what the dialog will be told. *)
LEMMA ThreadInv ==
  ASSUME IInv, NEW n \in Calls, Thread(n)
  PROVE  IInv'
<1>1. UNCHANGED <<call, solves, open, step, infeasible, jobRef, shown, stored>>
  BY DEF Thread, dialog
<1>2. TypeOK'
  BY <1>1, ThreadStep DEF IInv, TypeOK
<1>3. Unstarted'
  BY <1>1, ThreadStep DEF IInv, Unstarted, At
<1>4. ReadsAgree'
  BY <1>1, ThreadStep DEF IInv, ReadsAgree, At
<1>5. SeenIsLogged'
  <2>1. \A m \in Calls : job[m].lines <= job'[m].lines
    <3>1. \A m \in Calls : job[m].lines \in Int
      BY DEF IInv, TypeOK, Job
    <3>2. ASSUME NEW m \in Calls PROVE m = n \/ job'[m] = job[m]
      BY ThreadStep
    <3>3. QED
      BY <3>1, <3>2, ThreadStep
  <2>2. job \in [Calls -> Job] /\ job' \in [Calls -> Job] /\ call \in [Calls -> Call]
    BY ThreadStep DEF IInv, TypeOK
  <2>3. QED
    BY <1>1, <2>1, <2>2, WizardAssumption DEF IInv, SeenIsLogged, Job, Call
<1>6. ScreenUpToSeen' /\ CurrentIsPolled'
  BY <1>1 DEF IInv, ScreenUpToSeen, CurrentIsPolled
<1>7. QED
  BY <1>2, <1>3, <1>4, <1>5, <1>6, ThreadStep DEF IInv

(* What reading for a poll does to its call.                               *)
LEMMA ProgressStep ==
  ASSUME IInv, NEW n \in Calls, Progress(n)
  PROVE  /\ call' \in [Calls -> Call]
         /\ \A m \in Calls \ {n} : call'[m] = call[m]
         /\ call[n].at \in {"sent", "logRead", "doneRead"}
         /\ call'[n].at \in {"logRead", "doneRead", "answered"}
         /\ call'[n].seen = call[n].seen
         /\ call'[n].at = "logRead" => call'[n].upto = job[n].lines
         /\ call'[n].at # "logRead" => call'[n].upto = call[n].upto /\ call[n].at # "sent"
         /\ ReadsAgree'
<1>1. /\ call \in [Calls -> Call] /\ job \in [Calls -> Job] /\ job' = job
      /\ OutcomeBeforeDone /\ ReadsAgree
  BY DEF IInv, TypeOK, Progress
<1>j. /\ job[n].lines \in Nat /\ job[n].done \in BOOLEAN
      /\ job[n].outcome \in Outcomes \cup {Pending}
  BY <1>1 DEF Job
<1>2. CASE ReadLog(n)
  <2>1. call' \in [Calls -> Call]
    BY ZenonT(60), <1>j, <1>1, <1>2 DEF ReadLog, Call
  <2>2. QED
    BY <1>1, <1>2, <2>1 DEF ReadLog, At, Call, ReadsAgree
<1>3. CASE ReadDone(n)
  <2>1. call' \in [Calls -> Call]
    BY ZenonT(60), <1>j, <1>1, <1>3 DEF ReadDone, Call
  <2>2. job[n].done => job[n].thread = "done"
    BY <1>1 DEF OutcomeBeforeDone
  <2>3. QED
    BY <1>1, <1>3, <2>1, <2>2 DEF ReadDone, At, Call, ReadsAgree
<1>4. CASE ReadOutcome(n)
  <2>1. call' \in [Calls -> Call]
    BY ZenonT(60), <1>j, <1>1, <1>4 DEF ReadOutcome, Call
  <2>2. call[n].done => job[n].outcome # Pending
    BY <1>1, <1>4 DEF ReadOutcome, At, ReadsAgree, OutcomeBeforeDone
  <2>3. QED
    BY <1>1, <1>4, <2>1, <2>2 DEF ReadOutcome, At, Call, ReadsAgree
<1>5. QED
  BY <1>2, <1>3, <1>4 DEF Progress, ReadVerdict

(* Reading the log and the verdict of a job for a poll. *)
LEMMA ProgressInv ==
  ASSUME IInv, NEW n \in Calls, Progress(n)
  PROVE  IInv'
<1>1. UNCHANGED <<job, solves, open, step, infeasible, jobRef, shown, stored>>
  BY DEF Progress, dialog
<1>2. TypeOK'
  BY <1>1, ProgressStep DEF IInv, TypeOK
<1>3. Unstarted' /\ OutcomeBeforeDone'
  BY <1>1, ProgressStep DEF IInv, Unstarted, OutcomeBeforeDone, At
<1>4. SeenIsLogged'
  <2>1. job \in [Calls -> Job] /\ call \in [Calls -> Call] /\ SeenIsLogged
    BY DEF IInv, TypeOK
  <2>2. ASSUME NEW m \in Calls \ {n}
        PROVE  /\ call'[m].seen <= job'[m].lines
               /\ call'[m].at \in {"logRead", "doneRead", "answered"}
                    => call'[m].seen <= call'[m].upto /\ call'[m].upto <= job'[m].lines
    BY <1>1, <2>1, ProgressStep DEF SeenIsLogged
  <2>3. call[n].seen <= job[n].lines /\ job[n].lines <= job[n].lines
    BY <2>1 DEF SeenIsLogged, Job
  <2>4. call'[n].seen <= call'[n].upto /\ call'[n].upto <= job'[n].lines
    BY <1>1, <2>1, <2>3, ProgressStep DEF SeenIsLogged
  <2>5. QED
    BY <1>1, <2>2, <2>3, <2>4, ProgressStep DEF SeenIsLogged
<1>5. ScreenUpToSeen' /\ CurrentIsPolled'
  BY ZenonT(60), <1>1, ProgressStep
     DEF IInv, ScreenUpToSeen, CurrentIsPolled, Polling, TypeOK
<1>6. QED
  BY <1>2, <1>3, <1>4, <1>5, ProgressStep DEF IInv

------------------------------------------------------------------------------
(* The user *)

(* Closing the dialog and cancelling the job. *)
LEMMA GiveUpInv ==
  ASSUME IInv, GiveUp
  PROVE  IInv'
<1>1. /\ job \in [Calls -> Job]
      /\ UNCHANGED <<call, solves, shown, stored>> /\ jobRef' = NoJob
      /\ open' \in BOOLEAN /\ step' \in {1, 2} /\ infeasible' \in BOOLEAN
  BY DEF IInv, TypeOK, GiveUp, Close, Cancel, LetGo
<1>2. \/ job' = job
      \/ jobRef \in Calls /\ job' = [job EXCEPT ![jobRef].cancel = TRUE]
  BY DEF IInv, TypeOK, GiveUp, Close, Cancel, LetGo
<1>3. job' \in [Calls -> Job]
  BY ZenonT(60), <1>1, <1>2 DEF Job
<1>4. \A m \in Calls : /\ job'[m].thread = job[m].thread /\ job'[m].done = job[m].done
                       /\ job'[m].outcome = job[m].outcome
                       /\ job'[m].lines = job[m].lines
  BY <1>1, <1>2 DEF Job
<1>5. TypeOK'
  BY <1>1, <1>3 DEF IInv, TypeOK
<1>6. Unstarted' /\ OutcomeBeforeDone' /\ ReadsAgree'
  BY <1>1, <1>4 DEF IInv, Unstarted, OutcomeBeforeDone, ReadsAgree, At
<1>7. SeenIsLogged'
  BY <1>1, <1>4 DEF IInv, SeenIsLogged
<1>8. ScreenUpToSeen' /\ CurrentIsPolled'
  BY <1>1 DEF IInv, ScreenUpToSeen, CurrentIsPolled
<1>9. QED
  BY <1>5, <1>6, <1>7, <1>8 DEF IInv

(* Opening the dialog. *)
LEMMA OpenInv ==
  ASSUME IInv, OpenWizard
  PROVE  IInv'
<1>1. UNCHANGED <<job, call, solves, jobRef, stored>> /\ shown' = NoLines
  BY DEF OpenWizard
<1>2. TypeOK'
  <2>1. shown' \in [Calls -> Seq(Nat)]
    BY <1>1 DEF NoLines
  <2>2. QED
    BY <1>1, <2>1 DEF OpenWizard, IInv, TypeOK
<1>3. ScreenUpToSeen'
  BY <1>1, EmptyEndsAnywhere DEF NoLines, ScreenUpToSeen
<1>4. Unstarted'
  BY <1>1 DEF IInv, Unstarted, NoLines, At
<1>5. OutcomeBeforeDone' /\ ReadsAgree' /\ SeenIsLogged' /\ CurrentIsPolled'
  BY <1>1 DEF IInv, OutcomeBeforeDone, ReadsAgree, SeenIsLogged, CurrentIsPolled, At
<1>6. QED
  BY <1>2, <1>3, <1>4, <1>5 DEF IInv

(* A solve that is started. *)
LEMMA SolveInv ==
  ASSUME IInv, Solve
  PROVE  IInv'
<1> DEFINE n == solves + 1
<1>1. /\ n \in Calls /\ solves' = n /\ solves \in 0..MaxSolves /\ n > solves
      /\ job' = [job EXCEPT ![n].thread = "solving"]
      /\ call' = [call EXCEPT ![n].at = "asked"]
      /\ shown' = NoLines
      /\ UNCHANGED <<jobRef, stored>>
  BY WizardAssumption DEF IInv, TypeOK, Solve, Moves, Calls
<1>2. job \in [Calls -> Job] /\ call \in [Calls -> Call]
  BY DEF IInv, TypeOK
<1>3. At(n, "unused") /\ job[n].thread = "none" /\ call[n].seen = 0
  BY <1>1 DEF IInv, Unstarted, At
<1> HIDE DEF n
<1>4. job' \in [Calls -> Job]
  BY <1>1, <1>2 DEF Job
<1>5. call' \in [Calls -> Call]
  BY <1>1, <1>2 DEF Call
<1>6. TypeOK'
  <2>1. shown' \in [Calls -> Seq(Nat)]
    BY <1>1 DEF NoLines
  <2>2. solves' \in 0..MaxSolves
    BY <1>1, WizardAssumption DEF Calls
  <2>3. step' \in {1, 2} /\ infeasible' \in BOOLEAN /\ open' \in BOOLEAN
    BY DEF IInv, TypeOK, Solve
  <2>4. QED
    BY <1>1, <1>4, <1>5, <2>1, <2>2, <2>3 DEF IInv, TypeOK
<1>7. Unstarted'
  <2>1. ASSUME NEW m \in Calls, m > solves'
        PROVE  m # n /\ m > solves
    BY <1>1, <2>1 DEF Calls
  <2>2. QED
    BY <1>1, <1>2, <1>3, <2>1 DEF IInv, Unstarted, NoLines, At, Call, Job
<1>8. OutcomeBeforeDone'
  BY <1>1, <1>2, <1>3, <1>4 DEF IInv, OutcomeBeforeDone, Job
<1>9. ReadsAgree'
  BY <1>1, <1>2, <1>3 DEF IInv, ReadsAgree, At, Call, Job
<1>10. SeenIsLogged'
  BY <1>1, <1>2, <1>3 DEF IInv, SeenIsLogged, At, Call, Job
<1>11. ScreenUpToSeen'
  BY <1>1, EmptyEndsAnywhere, <1>5 DEF NoLines, ScreenUpToSeen, Call
<1>12. CurrentIsPolled'
  BY <1>1, <1>2, <1>3 DEF IInv, TypeOK, CurrentIsPolled, At, Call, Polling, NoJob
<1>13. QED
  BY <1>6, <1>7, <1>8, <1>9, <1>10, <1>11, <1>12 DEF IInv

------------------------------------------------------------------------------
(* Answers and the timer *)

(* Moving a call on changes that call only. *)
LEMMA MovesTo ==
  ASSUME call \in [Calls -> Call], NEW n \in Calls,
         NEW place \in {"sent", "timer", "storing"}, Moves(n, place)
  PROVE  /\ call' \in [Calls -> Call]
         /\ \A m \in Calls \ {n} : call'[m] = call[m]
         /\ call'[n].at = place
         /\ call'[n].seen = call[n].seen
<1>1. call' \in [Calls -> Call]
  BY DEF Moves, Call
<1>2. QED
  BY DEF Moves, Call

(* A new call is a call that has seen no line. *)
LEMMA NewCallType == NewCall \in Call /\ NewCall.seen = 0
BY WizardAssumption DEF NewCall, Call, Pending

(* Ending a call resets that call only. *)
LEMMA EndsOver ==
  ASSUME call \in [Calls -> Call], NEW n \in Calls, Ends(n)
  PROVE  /\ call' \in [Calls -> Call]
         /\ \A m \in Calls \ {n} : call'[m] = call[m]
         /\ call'[n].at = "over"
         /\ call'[n].seen = 0
<1>1. [NewCall EXCEPT !.at = "over"] \in Call
  BY NewCallType DEF Call
<1>2. [NewCall EXCEPT !.at = "over"].at = "over" /\ [NewCall EXCEPT !.at = "over"].seen = 0
  BY DEF NewCall
<1>3. QED
  BY <1>1, <1>2 DEF Ends

(* A call that waited for an answer and has it leaves the other parts of   *)
(* the invariant to themselves.                                            *)
LEMMA AnswerTaken ==
  ASSUME IInv, NEW n \in Calls, job' = job, solves' = solves,
         call' \in [Calls -> Call],
         \A m \in Calls \ {n} : call'[m] = call[m] /\ shown'[m] = shown[m],
         ~At(n, "unused"),
         call'[n].at \in {"sent", "timer", "storing", "over"},
         call'[n].seen <= job[n].lines
  PROVE  Unstarted' /\ OutcomeBeforeDone' /\ ReadsAgree' /\ SeenIsLogged'
<1>1. n <= solves
  BY DEF IInv, TypeOK, Unstarted, Calls
<1>2. Unstarted'
  <2>1. ~(n > solves)
    BY <1>1 DEF IInv, TypeOK, Calls
  <2>2. QED
    BY <2>1 DEF IInv, Unstarted, At
<1>3. OutcomeBeforeDone' /\ ReadsAgree'
  BY DEF IInv, OutcomeBeforeDone, ReadsAgree, At
<1>4. SeenIsLogged'
  BY DEF IInv, SeenIsLogged
<1>5. QED
  BY <1>2, <1>3, <1>4

(* The answer to a solve names the dialog's job. *)
LEMMA SolveAnsweredInv ==
  ASSUME IInv, NEW n \in Calls, SolveAnswered(n)
  PROVE  IInv'
<1>1. /\ call \in [Calls -> Call] /\ At(n, "asked") /\ jobRef' = n
      /\ UNCHANGED <<job, solves, open, step, infeasible, shown, stored>>
      /\ Moves(n, "sent")
  BY DEF IInv, TypeOK, SolveAnswered
<1>2. /\ call' \in [Calls -> Call]
      /\ \A m \in Calls \ {n} : call'[m] = call[m]
      /\ call'[n].at = "sent" /\ call'[n].seen = call[n].seen
  BY <1>1, MovesTo
<1>3. TypeOK'
  BY <1>1, <1>2 DEF IInv, TypeOK
<1>4. Unstarted' /\ OutcomeBeforeDone' /\ ReadsAgree' /\ SeenIsLogged'
  <2>1. call[n].seen <= job[n].lines
    BY DEF IInv, SeenIsLogged
  <2>2. QED
    BY <1>1, <1>2, <2>1, AnswerTaken DEF At
<1>5. ScreenUpToSeen'
  <2>1. shown[n] = <<>>
    BY <1>1 DEF IInv, Unstarted, At
  <2>2. QED
    BY <1>1, <1>2, <2>1, EmptyEndsAnywhere DEF IInv, ScreenUpToSeen
<1>6. CurrentIsPolled'
  BY <1>1, <1>2 DEF CurrentIsPolled, Polling
<1>7. QED
  BY <1>3, <1>4, <1>5, <1>6 DEF IInv

(* The poll timer asks about the dialog's job. *)
LEMMA TimerInv ==
  ASSUME IInv, NEW n \in Calls, TimerFires(n)
  PROVE  IInv'
<1>1. /\ call \in [Calls -> Call] /\ job \in [Calls -> Job] /\ At(n, "timer")
      /\ UNCHANGED <<job, solves, open, step, infeasible, jobRef, shown, stored>>
  BY DEF IInv, TypeOK, TimerFires, Poll, dialog
<1>2. \/ jobRef = n /\ Moves(n, "sent")
      \/ jobRef # n /\ Ends(n)
  BY DEF TimerFires, Poll
<1>3. /\ call' \in [Calls -> Call]
      /\ \A m \in Calls \ {n} : call'[m] = call[m]
      /\ \/ jobRef = n /\ call'[n].at = "sent" /\ call'[n].seen = call[n].seen
         \/ jobRef # n /\ call'[n].at = "over" /\ call'[n].seen = 0
  BY <1>1, <1>2, MovesTo, EndsOver
<1>4. TypeOK'
  BY <1>1, <1>3 DEF IInv, TypeOK
<1>5. Unstarted' /\ OutcomeBeforeDone' /\ ReadsAgree' /\ SeenIsLogged'
  <2>1. call[n].seen <= job[n].lines /\ 0 <= job[n].lines
    BY <1>1 DEF IInv, SeenIsLogged, Job
  <2>2. QED
    BY <1>1, <1>3, <2>1, AnswerTaken DEF At
<1>6. ScreenUpToSeen'
  BY <1>1, <1>3 DEF IInv, ScreenUpToSeen, At, Polling
<1>7. CurrentIsPolled'
  BY <1>1, <1>3 DEF IInv, TypeOK, CurrentIsPolled, Polling
<1>8. QED
  BY <1>4, <1>5, <1>6, <1>7 DEF IInv

(* The answer to a poll extends the lines shown. *)
LEMMA ProgressAnsweredInv ==
  ASSUME IInv, NEW n \in Calls, ProgressAnswered(n)
  PROVE  IInv'
<1> DEFINE seen == call[n].seen
           upto == call[n].upto
<1>1. /\ call \in [Calls -> Call] /\ job \in [Calls -> Job] /\ At(n, "answered")
      /\ shown \in [Calls -> Seq(Nat)]
      /\ UNCHANGED <<job, solves, open, stored>>
      /\ shown' = [shown EXCEPT ![n] = @ \o NewLines(seen, upto)]
  BY DEF IInv, TypeOK, ProgressAnswered, ShowLines
<1>2. seen \in Nat /\ upto \in Nat /\ seen <= upto /\ upto <= job[n].lines
  BY <1>1, WizardAssumption DEF IInv, SeenIsLogged, At, Call
<1>3. shown[n] \in Seq(Nat) /\ EndAt(shown[n], seen)
  BY <1>1 DEF IInv, ScreenUpToSeen, At, Polling
<1>4. /\ shown' \in [Calls -> Seq(Nat)]
      /\ EndAt(shown'[n], upto)
      /\ \A m \in Calls \ {n} : shown'[m] = shown[m]
  <2>1. upto \in Nat /\ (seen + 1)..upto \subseteq Nat
    BY <1>2, WizardAssumption
  <2> DEFINE t == shown[n] \o NewLines(seen, upto)
  <2>2. t \in Seq(Nat) /\ EndAt(t, upto)
    BY <1>2, <1>3, <2>1, AppendLines
  <2> HIDE DEF t
  <2>3. shown' = [shown EXCEPT ![n] = t]
    BY <1>1 DEF t
  <2>4. QED
    BY <1>1, <2>2, <2>3
<1>5. \/ NextPoll(n) /\ UNCHANGED <<step, infeasible, jobRef>>
      \/ Moves(n, "storing") /\ jobRef' = NoJob /\ UNCHANGED <<step, infeasible>>
      \/ Ends(n) /\ jobRef' = NoJob /\ step' \in {step, 1} /\ infeasible' \in {infeasible, TRUE}
  BY DEF ProgressAnswered, PollAgain, StoreProposal, ShowRefusal, BackToGoal
<1>6. /\ call' \in [Calls -> Call]
      /\ \A m \in Calls \ {n} : call'[m] = call[m]
      /\ \/ call'[n].at = "timer" /\ call'[n].seen = upto /\ jobRef' = jobRef
         \/ call'[n].at = "storing" /\ call'[n].seen = seen /\ jobRef' = NoJob
         \/ call'[n].at = "over" /\ call'[n].seen = 0 /\ jobRef' = NoJob
  <2>1. CASE NextPoll(n) /\ jobRef' = jobRef
    <3> DEFINE c == [NewCall EXCEPT !.at = "timer", !.seen = upto]
    <3>1. c \in Call /\ c.at = "timer" /\ c.seen = upto
      <4>1. upto \in Nat
        BY <1>2
      <4> HIDE DEF upto
      <4>2. QED
        BY <4>1, NewCallType DEF Call
    <3> HIDE DEF c
    <3>2. call' = [call EXCEPT ![n] = c]
      BY <2>1 DEF NextPoll, c
    <3>3. QED
      BY <1>1, <2>1, <3>1, <3>2
  <2>2. CASE Moves(n, "storing") /\ jobRef' = NoJob
    BY <1>1, <2>2, MovesTo
  <2>3. CASE Ends(n) /\ jobRef' = NoJob
    BY <1>1, <2>3, EndsOver
  <2>4. QED
    BY <1>5, <2>1, <2>2, <2>3
<1> HIDE DEF seen, upto
<1>7. TypeOK'
  <2>1. step' \in {1, 2} /\ infeasible' \in BOOLEAN
    BY <1>5 DEF IInv, TypeOK
  <2>2. jobRef' \in Calls \cup {NoJob}
    BY <1>6 DEF IInv, TypeOK
  <2>3. QED
    BY <1>1, <1>4, <1>6, <2>1, <2>2 DEF IInv, TypeOK
<1>8. Unstarted' /\ OutcomeBeforeDone' /\ ReadsAgree' /\ SeenIsLogged'
  <2>1. seen <= job[n].lines /\ 0 <= job[n].lines
    BY <1>1, <1>2 DEF Job
  <2>2. QED
    BY <1>1, <1>2, <1>4, <1>6, <2>1, AnswerTaken DEF At
<1>9. ScreenUpToSeen'
  BY <1>1, <1>2, <1>4, <1>6 DEF IInv, ScreenUpToSeen, Polling
<1>10. CurrentIsPolled'
  BY <1>1, <1>6 DEF IInv, TypeOK, CurrentIsPolled, Polling
<1>11. QED
  BY <1>7, <1>8, <1>9, <1>10 DEF IInv

(* The answer with the proposal ends the dialog's wait. *)
LEMMA ProposalAnsweredInv ==
  ASSUME IInv, NEW n \in Calls, ProposalAnswered(n)
  PROVE  IInv'
<1>1. /\ call \in [Calls -> Call] /\ job \in [Calls -> Job] /\ At(n, "storing")
      /\ UNCHANGED <<job, solves, infeasible, jobRef, shown>> /\ Ends(n)
      /\ step' \in {step, 1} /\ open' \in {open, FALSE} /\ stored' \in {stored, stored \cup {n}}
  BY DEF IInv, TypeOK, ProposalAnswered, Created, Refused
<1>2. /\ call' \in [Calls -> Call]
      /\ \A m \in Calls \ {n} : call'[m] = call[m]
      /\ call'[n].at = "over" /\ call'[n].seen = 0
  BY <1>1, EndsOver
<1>3. TypeOK'
  <2>1. step' \in {1, 2} /\ open' \in BOOLEAN
    BY <1>1 DEF IInv, TypeOK
  <2>2. stored' \subseteq Calls
    BY <1>1 DEF IInv, TypeOK
  <2>3. QED
    BY <1>1, <1>2, <2>1, <2>2 DEF IInv, TypeOK
<1>4. Unstarted' /\ OutcomeBeforeDone' /\ ReadsAgree' /\ SeenIsLogged'
  <2>1. 0 <= job[n].lines
    BY <1>1 DEF Job
  <2>2. QED
    BY <1>1, <1>2, <2>1, AnswerTaken DEF At
<1>5. ScreenUpToSeen'
  BY <1>1, <1>2 DEF IInv, ScreenUpToSeen, Polling
<1>6. CurrentIsPolled'
  BY <1>1, <1>2 DEF IInv, TypeOK, CurrentIsPolled, At, Polling
<1>7. QED
  BY <1>3, <1>4, <1>5, <1>6 DEF IInv

------------------------------------------------------------------------------
(* The theorems *)

(* Every step keeps the jobs and the dialog in agreement. *)
LEMMA NextInv == IInv /\ [Next]_vars => IInv'
<1> SUFFICES ASSUME IInv, [Next]_vars PROVE IInv'
  OBVIOUS
<1>1. CASE UNCHANGED vars
  BY <1>1 DEF vars, dialog, IInv, TypeOK, Unstarted, OutcomeBeforeDone, ReadsAgree,
              SeenIsLogged, ScreenUpToSeen, CurrentIsPolled, At
<1>2. ASSUME NEW n \in Calls, Answers(n) PROVE IInv'
  BY <1>2, ProgressInv, SolveAnsweredInv, TimerInv, ProgressAnsweredInv,
     ProposalAnsweredInv DEF Answers
<1>3. QED
  BY <1>1, <1>2, GiveUpInv, OpenInv, SolveInv, ThreadInv DEF Next, Carry

(* The inductive invariant: how far thread, poll and screen have come with *)
(* each solve, and which solve CANCEL would reach.                         *)
THEOREM Invariant == Spec => []IInv
BY InitInv, NextInv, PTL DEF Spec

(* Every reachable state is well typed, for any number of solves.          *)
THEOREM TypeCorrect == Spec => []TypeOK
<1>1. IInv => TypeOK
  BY DEF IInv
<1>2. QED
  BY <1>1, Invariant, PTL

(* No answer of wizard_progress says done without the outcome.             *)
THEOREM DoneAlwaysHasOutcome == Spec => []DoneHasOutcome
<1>1. IInv => DoneHasOutcome
  BY DEF IInv, ReadsAgree, DoneHasOutcome
<1>2. QED
  BY <1>1, Invariant, PTL

(* However a solve's lines fall between its polls, the screen shows them   *)
(* once and in order.                                                      *)
THEOREM LinesAlwaysInOrder == Spec => []LinesOnceInOrder
<1>1. ASSUME IInv, NEW n \in Calls PROVE Len(shown[n]) \in Nat
  BY <1>1 DEF IInv, TypeOK
<1>2. ASSUME IInv, NEW n \in Calls, NEW i \in 2..Len(shown[n])
      PROVE  shown[n][i] = shown[n][i - 1] + 1
  <2>1. PICK k \in Nat : EndAt(shown[n], k)
    BY <1>2 DEF IInv, ScreenUpToSeen
  <2>2. i \in 1..Len(shown[n]) /\ i - 1 \in 1..Len(shown[n])
    BY <1>1, <1>2
  <2>3. /\ shown[n][i] = k - (Len(shown[n]) - i)
        /\ shown[n][i - 1] = k - (Len(shown[n]) - (i - 1))
    BY <2>1, <2>2 DEF EndAt
  <2>4. QED
    BY <1>1, <1>2, <2>3
<1>3. ASSUME IInv, NEW n \in Calls, At(n, "sent"), shown[n] # <<>>
      PROVE  shown[n][Len(shown[n])] = call[n].seen
  <2>1. EndAt(shown[n], call[n].seen) /\ call[n].seen \in Nat
    BY <1>3 DEF IInv, TypeOK, Call, ScreenUpToSeen, At, Polling
  <2>2. Len(shown[n]) \in 1..Len(shown[n])
    <3>1. shown[n] \in Seq(Nat)
      BY <1>3 DEF IInv, TypeOK
    <3>2. QED
      BY <1>3, <3>1
  <2>3. shown[n][Len(shown[n])] = call[n].seen - (Len(shown[n]) - Len(shown[n]))
    BY <2>1, <2>2 DEF EndAt
  <2>4. QED
    BY <1>1, <1>3, <2>1, <2>3
<1>4. IInv => LinesOnceInOrder
  BY <1>2, <1>3 DEF LinesOnceInOrder
<1>5. QED
  BY <1>4, Invariant, PTL

(* The job CANCEL would reach is always one somebody still polls.          *)
THEOREM CurrentAlwaysPolled == Spec => []CurrentIsPolled
<1>1. IInv => CurrentIsPolled
  BY DEF IInv
<1>2. QED
  BY <1>1, Invariant, PTL

(* A call whose job is not current when its timer runs asks no more and is *)
(* never current again, whatever the thread, the user and the other calls  *)
(* do.                                                                     *)
THEOREM StoppedAlwaysStays == Spec => StoppedStaysStopped
<1> DEFINE Stays(n) == At(n, "timer") /\ jobRef # n
                         => jobRef' # n /\ call'[n].at \in {"timer", "over"}
           Step == \A n \in Calls : Stays(n)
<1>1. ASSUME IInv, [Next]_vars PROVE Step
  <2> SUFFICES ASSUME NEW n \in Calls, At(n, "timer"), jobRef # n
               PROVE  jobRef' # n /\ call'[n].at \in {"timer", "over"}
    OBVIOUS
  <2>1. n # NoJob /\ call \in [Calls -> Call]
    BY <1>1 DEF Calls, NoJob, IInv, TypeOK
  <2>2. CASE UNCHANGED <<call, jobRef>>
    BY <2>2 DEF At
  <2>3. CASE GiveUp
    BY <2>1, <2>3 DEF GiveUp, Close, Cancel, LetGo, At
  <2>4. CASE Solve
    <3>1. solves + 1 # n
      BY <1>1 DEF IInv, TypeOK, Unstarted, At, Calls
    <3>2. QED
      BY <2>1, <2>4, <3>1 DEF Solve, Moves, At
  <2>5. ASSUME NEW m \in Calls, Answers(m)
        PROVE  jobRef' # n /\ call'[n].at \in {"timer", "over"}
    <3>1. CASE Progress(m)
      <4>1. m # n /\ UNCHANGED jobRef
        BY <1>1, <3>1, ProgressStep DEF At, Progress, dialog
      <4>2. QED
        BY <1>1, <3>1, <4>1, ProgressStep DEF At
    <3>2. CASE SolveAnswered(m)
      BY <2>1, <3>2, MovesTo DEF SolveAnswered, At
    <3>3. CASE TimerFires(m)
      <4>1. UNCHANGED jobRef /\ (m = n => Ends(m)) /\ (Ends(m) \/ Moves(m, "sent"))
        BY <3>3 DEF TimerFires, Poll, dialog
      <4>2. QED
        BY <2>1, <4>1, MovesTo, EndsOver DEF At
    <3>4. CASE ProgressAnswered(m)
      <4>1. /\ m # n /\ jobRef' \in {jobRef, NoJob}
            /\ NextPoll(m) \/ Moves(m, "storing") \/ Ends(m)
        BY <3>4 DEF ProgressAnswered, PollAgain, StoreProposal, ShowRefusal, BackToGoal, At
      <4>2. call'[n] = call[n]
        BY <2>1, <4>1, MovesTo, EndsOver DEF NextPoll
      <4>3. QED
        BY <2>1, <4>1, <4>2 DEF At
    <3>5. CASE ProposalAnswered(m)
      BY <2>1, <3>5, EndsOver DEF ProposalAnswered, At
    <3>6. QED
      BY <2>5, <3>1, <3>2, <3>3, <3>4, <3>5 DEF Answers
  <2>6. ASSUME NEW m \in Calls, Thread(m) PROVE UNCHANGED <<call, jobRef>>
    BY <2>6 DEF Thread, dialog
  <2>7. CASE OpenWizard \/ UNCHANGED vars
    BY <2>2, <2>7 DEF OpenWizard, vars, dialog
  <2>8. QED
    BY <1>1, <2>2, <2>3, <2>4, <2>5, <2>6, <2>7 DEF Next, Carry
<1>2. Spec => [][Step]_vars
  BY <1>1, Invariant, PTL DEF Spec
<1>3. QED
  BY <1>2, PTL DEF StoppedStaysStopped
================================================================================
