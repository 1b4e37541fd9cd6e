----------------------------- MODULE MCSession -----------------------------
(* Session, and the terminal that reads out its queue, on small instances. *)
(* Prompts are interchangeable, so the run takes one of each orbit.        *)
EXTENDS Readout, TLC

Symmetry == Permutations(Prompts)
=============================================================================
