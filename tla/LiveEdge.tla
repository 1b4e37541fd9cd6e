------------------------------ MODULE LiveEdge ------------------------------
(***************************************************************************)
(* The terminal's readout of the steering queue ("2 steering" above the    *)
(* input box): what a client can know about the queue from the session's   *)
(* "steering" frames alone.  A frame carries a phase and no identity, so   *)
(* the terminal keeps a count and folds each phase into it.                *)
(***************************************************************************)
EXTENDS Naturals

(* Before any frame: nothing is waiting, nothing arrived out of order.     *)
LiveEdgeInit == [pending |-> 0, ahead |-> FALSE]

UpdateSteering_NoDebt(view, phase) ==
  [view EXCEPT !.pending = IF phase = "queued" THEN @ + 1 ELSE 0]

(***************************************************************************)
(* One phase folded into the readout.  "queued" adds one, unless a         *)
(* terminal phase arrived ahead of it; "delivered" and "dropped" take the  *)
(* whole count away, and one that finds nothing counted is remembered as   *)
(* having arrived ahead of its "queued".                                   *)
(***************************************************************************)
UpdateSteering(view, phase) ==
  IF phase = "queued"
  THEN IF view.ahead
       THEN [view EXCEPT !.ahead = FALSE]
       ELSE [view EXCEPT !.pending = @ + 1]
  ELSE IF view.pending = 0
       THEN [view EXCEPT !.ahead = TRUE]
       ELSE [view EXCEPT !.pending = 0]
=============================================================================
