---------------------------- MODULE LinearHistory ----------------------------
(***************************************************************************)
(* What the plan file promises: a line of plan versions and a position on  *)
(* it.  An edit forgets the versions past the position and adds one; undo  *)
(* and redo move by one version and change none of them; a new empire      *)
(* starts the line again.  There are no crashes here: a process that dies  *)
(* changes nothing of what the file promises.                              *)
(***************************************************************************)
EXTENDS Integers, Sequences

CONSTANTS
  Version, \* the plans there can be
  First    \* the empty plan

VARIABLES
  hist,    \* the line of versions, oldest first
  pos      \* the version that is current

vars == <<hist, pos>>

Init ==
  /\ hist = <<First>>
  /\ pos = 1

\* Some version follows the current one, and nothing follows it.
Do ==
  /\ pos' = pos + 1
  /\ Len(hist') = pos'
  /\ hist'[pos'] \in Version
  /\ \A i \in 1..pos : hist'[i] = hist[i]

Back ==
  /\ pos > 1
  /\ pos' = pos - 1
  /\ UNCHANGED hist

Forward ==
  /\ pos < Len(hist)
  /\ pos' = pos + 1
  /\ UNCHANGED hist

Restart ==
  /\ pos' = 1
  /\ hist' = <<First>>

Next ==
  \/ Do
  \/ Back
  \/ Forward
  \/ Restart

Spec == Init /\ [][Next]_vars
==============================================================================
