------------------------------ MODULE TurnDocs ------------------------------
(***************************************************************************)
(* What the comments of the step record say and a sequence of steps breaks.*)
(***************************************************************************)
EXTENDS Turn

(* A batch enters the history once: landing spends it, "so a later failure *)
(* must not add it a second time" (session_step.go).  A step that was cut  *)
(* with nothing to salvage does not land; the next boundary then appends   *)
(* nothing and takes the batch into the base, and when that step fails too *)
(* the batch is added to a base that holds it already.                     *)
LandsOnce == ~runDone /\ pc = "ended" => IsInjective(Result)
=============================================================================
