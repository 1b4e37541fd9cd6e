------------------------------ MODULE MCAgent ------------------------------
(***************************************************************************)
(* The agent's parts on small instances, each by itself: the history of    *)
(* one task after another (Turn) and the tool calls of one step            *)
(* (ToolCalls).  part says which of them a behaviour is of; the other stays*)
(* as it starts.                                                           *)
(***************************************************************************)
EXTENDS ToolCalls, Turn

VARIABLE part

ofTools == vars

NoTools == Init /\ serial = FALSE /\ asks = {}

AgentInit ==
  \/ part = "turn" /\ TurnInit /\ NoTools
  \/ part = "tools" /\ Init /\ TurnInit

AgentNext ==
  \/ part = "turn" /\ TurnNext /\ UNCHANGED <<part, ofTools>>
  \/ part = "tools" /\ Next /\ UNCHANGED <<part, turnVars>>

agentVars == <<part, turnVars, ofTools>>

(* The task goroutine goes on after run() has left: its context is done    *)
(* then, so a provider call comes back.                                    *)
TurnFairness ==
  WF_turnVars(part = "turn" /\ runDone /\ (TaskAlone \/ ModelSteps))

(* The goroutines of a step run, a tool comes back, and so does a stream   *)
(* whose context is done.                                                  *)
ToolsFairness ==
  /\ \A c \in Calls : /\ WF_ofTools(part = "tools" /\ ToolStep(c))
                      /\ WF_ofTools(part = "tools" /\ ToolReturns(c))
  /\ WF_ofTools(part = "tools" /\ StepEnd)
  /\ WF_ofTools(part = "tools" /\ taskDone
                /\ (CompleteStream \/ EndStream \/ BreakStream))

AgentSpec == AgentInit /\ [][AgentNext]_agentVars /\ TurnFairness /\ ToolsFairness

(* The model stops talking and the user answers what is asked.             *)
StepIsAnswered ==
  /\ WF_ofTools(part = "tools" /\ CompleteStream)
  /\ WF_ofTools(part = "tools" /\ EndStream)
  /\ \A c \in Calls : WF_ofTools(part = "tools" /\ ResolveToolConfirm(c))

-----------------------------------------------------------------------------
(* Turn: a task that outlives run() ends; ToolCalls: so does a canceled    *)
(* step, and one whose stream ends and whose questions are answered.       *)
TasksEnd ==
  /\ (part = "turn" /\ runDone) ~> (part # "turn" \/ pc \in {"idle", "ended"})
  /\ (part = "tools" /\ taskDone) ~> (part # "tools" \/ phase = "returned")
  /\ StepIsAnswered => <>(part # "tools" \/ phase = "returned")
=============================================================================
