----------------------------- MODULE MCWizardJobs -----------------------------
(***************************************************************************)
(* Two overlapping solves: the first logs up to two lines, so that a line  *)
(* can be repeated, skipped or shown too early, the second logs one.       *)
(***************************************************************************)
EXTENDS WizardJobs

LinesOfSolve == <<2, 1>>
===============================================================================
