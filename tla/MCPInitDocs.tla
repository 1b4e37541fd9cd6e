---------------------------- MODULE MCPInitDocs ----------------------------
(***************************************************************************)
(* What the comments of the MCP initialization say and an interleaving     *)
(* breaks.                                                                 *)
(***************************************************************************)
EXTENDS MCPInit

(* deliverEvent: "Blocking is safe — the session's main loop reads events  *)
(* continuously, and if the session has exited, its cancellation has       *)
(* already propagated to the init context, so the send cannot block        *)
(* forever."  The main loop that answers an authorization waits for the    *)
(* mutex deliverEvent holds while it waits for the main loop.              *)
DeliverReturns == initRun = "holding" ~> initRun # "holding"
=============================================================================
