------------------------------- MODULE Readout -------------------------------
(***************************************************************************)
(* The session composed with the terminal that watches it (LiveEdge).      *)
(*                                                                         *)
(* Each step of Session that writes a "steering" frame folds that frame's  *)
(* phase into the terminal's readout; every other step leaves the readout  *)
(* alone.  Frames reach the terminal in the order they are written, so the *)
(* writing and the reading of one are a single step here.                  *)
(***************************************************************************)
EXTENDS Session, LiveEdge

VARIABLE view  (* the terminal's readout of the steering queue             *)

Frame(phase) == view' = UpdateSteering(view, phase)

(* The frame of handleTaskDone: leftover words are delivered to the next   *)
(* task, or dropped by a quitting session.                                 *)
LeftoverFrame ==
  IF steering = {} THEN UNCHANGED view
  ELSE Frame(IF quitting THEN "dropped" ELSE "delivered")

RInit == Init /\ view = LiveEdgeInit

RNext ==
  \/ TellQueued /\ Frame("queued")
  \/ TellDelivered /\ Frame("delivered")
  \/ (TellCanceled \/ TellDropped) /\ Frame("dropped")
  \/ HandleTaskDone /\ LeftoverFrame
  \/ /\ RunLoop \/ RunInput \/ MCPEvent \/ OutputBreaks \/ ProviderStep
        \/ TaskWork \/ Finished
     /\ UNCHANGED view

RSpec == RInit /\ [][RNext]_<<vars, view>>

(* No frame is about to be written.                                        *)
AtRest == runPc \in {"top", "select"} /\ taskPc \notin {"tellDelivered", "tellDropped"}

(* The prompts that were in the queue (a held one that was dropped counts).*)
Unheard == {"unsent", "held", "started", "refused"}
Heard == {p \in Prompts : fate[p] \notin Unheard}

(* The inversion the readout is built for: until a second word is queued,  *)
(* whichever of the two frames of the first comes first, the readout ends  *)
(* up telling the truth and remembers nothing (updateSteering).            *)
OneWordReadout ==
  (\A p, q \in Heard : p = q) /\ AtRest =>
    view.pending = Cardinality(steering) /\ ~view.ahead
=============================================================================
