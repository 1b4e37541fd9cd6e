------------------------------- MODULE MCInit -------------------------------
(***************************************************************************)
(* MCPInit on two instances: two servers, one of them with OAuth, on a     *)
(* channel that fills, and one server with OAuth on a channel that has     *)
(* room for every event.  And MCPHttp, by itself: part says which of them a*)
(* behaviour is of; the other is over, or has not begun.                   *)
(***************************************************************************)
EXTENDS MCPInit, MCPHttp

VARIABLE part

Tight == configured = Servers /\ eventCap = 2
Roomy == configured = OAuth /\ eventCap = 12

InitIsOver ==
  /\ configured = {} /\ eventCap = 2 /\ server = <<>> /\ collected = {}
  /\ initRun = "done" /\ ctxDone = TRUE
  /\ events = <<>> /\ eventsClosed = TRUE /\ panicked = FALSE
  /\ authCodeChs = {} /\ codes = <<>> /\ looking = Idle /\ sending = Idle
  /\ answers = <<>> /\ asked = {} /\ settled = "done" /\ sessionEnds = TRUE
  /\ skipped = FALSE

MCInitial ==
  /\ HttpInit
  /\ \/ part = "init" /\ Init /\ (Tight \/ Roomy)
     \/ part = "http" /\ InitIsOver

MCNext ==
  /\ UNCHANGED part
  /\ \/ part = "init" /\ Next /\ UNCHANGED httpVars
     \/ part = "http" /\ HttpNext /\ UNCHANGED vars

MCSpec ==
  MCInitial /\ [][MCNext]_<<part, vars, httpVars>> /\ CodeFairness /\ HttpFairness

-----------------------------------------------------------------------------
(* A canceled initialization is over although networks do not answer; one  *)
(* whose networks end and whose user answers settles for a living session, *)
(* on a channel with room and unless the user answers twice.               *)
AnsweredTwice == \E s \in configured : answers[s] > 1

InitEnds ==
  /\ ctxDone ~> eventsClosed
  /\ WorldFairness => <>(Tight \/ settled # "none" \/ sessionEnds \/ AnsweredTwice)
  /\ CallsComeBack
=============================================================================
