----------------------------- MODULE ToolCalls -----------------------------
(***************************************************************************)
(* The tool calls of one step: streamEvents, the driver that runs the      *)
(* calls, the confirmations of the session and the user who answers them.  *)
(*                                                                         *)
(* The stream opens calls and completes their arguments.  The parallel     *)
(* driver starts a goroutine per completed call while the stream goes on;  *)
(* the serial driver runs them one by one after it.  Results travel        *)
(* through a buffered channel (parallel) or are simply returned (serial).  *)
(* Whatever ends the step, the stream's context is canceled, every tool    *)
(* goroutine is waited for, and what was collected is paired with the      *)
(* calls: strictly when the step landed, forgivingly when it did not.      *)
(*                                                                         *)
(* A call is its position in the step; its identifier is unique in it.     *)
(***************************************************************************)
EXTENDS Naturals, Sequences, FiniteSets

CONSTANTS
  Calls,      (* the tool calls the model may make in the step             *)
  ResultCap   (* capacity of the result channel                            *)

ASSUME ToolAssumption == ResultCap \in Nat

VARIABLES
  serial,      (* SerialToolCalls: which driver runs the calls             *)
  asks,        (* the calls whose tool needs a confirmation                *)
  taskDone,    (* the task's context is done: the user canceled            *)
  streamDone,  (* cancelStream has run                                     *)
  phase,       (* streamEvents: "stream", "finish", "unwind", "returned"   *)
  outcome,     (* why the step ends: "none" until it is known              *)
  begun,       (* the calls given to the driver, in that order             *)
  call,        (* where each call is                                       *)
  confirmChs,  (* the session's pending confirmations                      *)
  answers,     (* the answers in each call's confirmation channel          *)
  outputBroken,(* the session's output failed                              *)
  resultCh,    (* the result channel                                       *)
  results,     (* results collected by the driver                          *)
  record,      (* the calls the step returned with their results           *)
  ran,         (* calls whose tool was executed                            *)
  denied       (* calls that were answered with a no                       *)

config  == <<serial, asks>>
stream  == <<phase, outcome, begun>>
confirm == <<confirmChs, answers, outputBroken>>
pairs   == <<resultCh, results, record>>
ghosts  == <<ran, denied>>
vars == <<config, taskDone, streamDone, stream, call, confirm, pairs, ghosts>>

Elements(seq) == {seq[i] : i \in DOMAIN seq}

(* The context the calls run under: the stream's, derived from the task's. *)
CtxDone == taskDone \/ streamDone

(* A call somebody is running: a goroutine (parallel), finish (serial).    *)
LiveStates ==
  {"starting", "announcing", "asking", "running", "answered", "blocked"}
States ==
  LiveStates \cup {"absent", "opened", "queued", "sent", "dropped", "withdrawn"}
Live == {c \in Calls : call[c] \in LiveStates}

TypeOK ==
  /\ serial \in BOOLEAN /\ asks \subseteq Calls
  /\ taskDone \in BOOLEAN /\ streamDone \in BOOLEAN
  /\ phase \in {"stream", "completed", "finish", "unwind", "returned"}
  /\ outcome \in {"none", "landed", "mispaired", "broke", "cut", "failed", "canceled"}
  /\ begun \in Seq(Calls) /\ Cardinality(Elements(begun)) = Len(begun)
  /\ call \in [Calls -> States]
  /\ confirmChs \subseteq Calls /\ outputBroken \in BOOLEAN
  /\ answers \in [Calls -> Seq({"yes", "no"})]
  /\ resultCh \in Seq(Calls) /\ Len(resultCh) <= ResultCap
  /\ results \in Seq(Calls)
  /\ {record, ran, denied} \subseteq SUBSET Calls

Init ==
  /\ serial \in BOOLEAN /\ asks \in SUBSET Calls
  /\ taskDone = FALSE /\ streamDone = FALSE
  /\ phase = "stream" /\ outcome = "none" /\ begun = <<>>
  /\ call = [c \in Calls |-> "absent"]
  /\ confirmChs = {} /\ answers = [c \in Calls |-> <<>>] /\ outputBroken = FALSE
  /\ resultCh = <<>> /\ results = <<>> /\ record = {}
  /\ ran = {} /\ denied = {}

-----------------------------------------------------------------------------
(* The stream.                                                             *)

(* A tool_use block appears.  Positions are numbered by first sight.       *)
OpenCall(c) ==
  /\ phase = "stream" /\ call[c] = "absent"
  /\ call' = [call EXCEPT ![c] = "opened"]
  /\ UNCHANGED <<config, taskDone, streamDone, stream, confirm, pairs, ghosts>>

(* What the driver makes of a completed call: the parallel one starts its  *)
(* goroutine, the serial one queues it.                                    *)
Added_SerialToo == "starting"

Added == IF serial THEN "queued" ELSE "starting"

(* The arguments of a call are complete: runner.add.                       *)
BeginCall(c) ==
  /\ phase = "stream" /\ call[c] = "opened"
  /\ begun' = Append(begun, c)
  /\ call' = [call EXCEPT ![c] = Added]
  /\ UNCHANGED <<config, taskDone, streamDone, phase, outcome, confirm, pairs, ghosts>>

(* The step's terminal event.                                              *)
CompleteStream ==
  /\ phase = "stream"
  /\ phase' = "completed"
  /\ UNCHANGED <<config, taskDone, streamDone, outcome, begun, call, confirm, pairs, ghosts>>

(* The stream ends after its terminal event.  An error that comes then is  *)
(* about the bytes behind the answer and changes nothing.                  *)
EndStream ==
  /\ phase = "completed"
  /\ phase' = "finish"
  /\ UNCHANGED <<config, taskDone, streamDone, outcome, begun, call, confirm, pairs, ghosts>>

Leave(why) == phase' = "unwind" /\ outcome' = why /\ UNCHANGED begun

(* The stream reports an error before the terminal event: nothing was      *)
(* opened and the attempt can be sent again, or the step is cut.           *)
BreakStream ==
  /\ phase = "stream"
  /\ \/ Leave("cut")   (* text may have streamed: calls are not all there is *)
     \/ (\A c \in Calls : call[c] = "absent") /\ Leave("broke")
  /\ UNCHANGED <<config, taskDone, streamDone, call, confirm, pairs, ghosts>>

(* A callback fails (a broken output) or the loop panics.                  *)
FailStream ==
  /\ phase = "stream" /\ Leave("failed")
  /\ UNCHANGED <<config, taskDone, streamDone, call, confirm, pairs, ghosts>>

CancelTask ==
  /\ phase # "returned" /\ ~taskDone
  /\ taskDone' = TRUE
  /\ UNCHANGED <<config, streamDone, stream, call, confirm, pairs, ghosts>>

-----------------------------------------------------------------------------
(* One call: runToolCall.                                                  *)

Move(c, state) == call' = [call EXCEPT ![c] = state]

(* The tool asks nobody.                                                   *)
RunAtOnce(c) ==
  /\ call[c] = "starting" /\ c \notin asks
  /\ Move(c, "running") /\ ran' = ran \cup {c}
  /\ UNCHANGED <<config, taskDone, streamDone, stream, confirm, pairs, denied>>

(* handleToolConfirm registers the channel first; on a broken output it    *)
(* answers for the user and registers nothing.                             *)
Register(c) ==
  /\ call[c] = "starting" /\ c \in asks
  /\ \/ /\ outputBroken
        /\ answers' = [answers EXCEPT ![c] = Append(@, "no")]
        /\ Move(c, "asking") /\ UNCHANGED confirmChs
     \/ /\ ~outputBroken
        /\ confirmChs' = confirmChs \cup {c}
        /\ Move(c, "announcing") /\ UNCHANGED answers
  /\ UNCHANGED <<config, taskDone, streamDone, stream, outputBroken, pairs, ghosts>>

(* The refusal that stands in for a user who cannot have been asked, if    *)
(* the user has not answered already.                                      *)
RefuseUnasked_Always(c) ==
  /\ confirmChs' = confirmChs \ {c}
  /\ answers' = [answers EXCEPT ![c] = Append(@, "no")]

RefuseUnasked(c) ==
  /\ confirmChs' = confirmChs \ {c}
  /\ answers' = [answers EXCEPT ![c] = IF c \in confirmChs THEN Append(@, "no") ELSE @]

(* The user is asked, or the write fails and the output is broken.         *)
Announce(c) ==
  /\ call[c] = "announcing" /\ Move(c, "asking")
  /\ \/ UNCHANGED confirm
     \/ outputBroken' = TRUE /\ RefuseUnasked(c)
  /\ UNCHANGED <<config, taskDone, streamDone, stream, pairs, ghosts>>

(* The select takes an answer that is there ...                            *)
TakeAnswer(c) ==
  /\ call[c] = "asking" /\ answers[c] # <<>>
  /\ answers' = [answers EXCEPT ![c] = Tail(@)]
  /\ \/ /\ Head(answers[c]) = "yes" /\ Move(c, "running")
        /\ ran' = ran \cup {c} /\ UNCHANGED denied
     \/ /\ Head(answers[c]) = "no" /\ Move(c, "answered")
        /\ denied' = denied \cup {c} /\ UNCHANGED ran
  /\ UNCHANGED <<config, taskDone, streamDone, stream, confirmChs, outputBroken, pairs>>

(* What becomes of a call that was canceled while it was asking: it never  *)
(* executed, so it has no result.                                          *)
Withdrawn_Answers == "answered"

Withdrawn == "withdrawn"

(* ... or the context, and when both are ready either.                     *)
Withdraw(c) ==
  /\ call[c] = "asking" /\ CtxDone
  /\ Move(c, Withdrawn)
  /\ UNCHANGED <<config, taskDone, streamDone, stream, confirm, pairs, ghosts>>

(* The tool returns: done, failed, or stopped by its context.              *)
ToolReturns(c) ==
  /\ call[c] = "running" /\ Move(c, "answered")
  /\ UNCHANGED <<config, taskDone, streamDone, stream, confirm, pairs, ghosts>>

(* :tool_confirm and :tool_decline of the user, handled by run().          *)
ResolveToolConfirm(c) ==
  /\ c \in confirmChs
  /\ confirmChs' = confirmChs \ {c}
  /\ \E a \in {"yes", "no"} : answers' = [answers EXCEPT ![c] = Append(@, a)]
  /\ UNCHANGED <<config, taskDone, streamDone, stream, call, outputBroken, pairs, ghosts>>

(* The task was handled: leftover confirmations are dropped.               *)
CleanupConfirmChannels ==
  /\ phase = "returned" /\ confirmChs # {}
  /\ confirmChs' = {}
  /\ UNCHANGED <<config, taskDone, streamDone, stream, call, answers, outputBroken, pairs, ghosts>>

-----------------------------------------------------------------------------
(* The parallel driver.                                                    *)

HasRoom_OneMore == Len(resultCh) <= ResultCap

HasRoom == Len(resultCh) < ResultCap

(* sendToolResult: while there is room the result is delivered, canceled   *)
(* or not.                                                                 *)
DeliverFirst(c) ==
  \/ HasRoom /\ resultCh' = Append(resultCh, c) /\ Move(c, "sent")
  \/ ~HasRoom /\ UNCHANGED resultCh /\ Move(c, "blocked")

SendToolResult(c) ==
  /\ ~serial /\ call[c] = "answered"
  /\ DeliverFirst(c)
  /\ UNCHANGED <<config, taskDone, streamDone, stream, confirm, results, record, ghosts>>

(* On a full channel the sender waits, and gives up with the context.      *)
WaitForRoom(c) ==
  /\ call[c] = "blocked"
  /\ \/ HasRoom /\ resultCh' = Append(resultCh, c) /\ Move(c, "sent")
     \/ CtxDone /\ UNCHANGED resultCh /\ Move(c, "dropped")
  /\ UNCHANGED <<config, taskDone, streamDone, stream, confirm, results, record, ghosts>>

(* finish waits for one result per goroutine, or for the context.          *)
Collect ==
  /\ phase = "finish" /\ ~serial /\ Len(results) < Len(begun)
  /\ resultCh # <<>>
  /\ results' = Append(results, Head(resultCh)) /\ resultCh' = Tail(resultCh)
  /\ UNCHANGED <<config, taskDone, streamDone, stream, call, confirm, record, ghosts>>

StopCollecting ==
  /\ phase = "finish" /\ ~serial /\ Len(results) < Len(begun)
  /\ CtxDone /\ Leave("canceled")
  /\ UNCHANGED <<config, taskDone, streamDone, call, confirm, pairs, ghosts>>

-----------------------------------------------------------------------------
(* The serial driver.                                                      *)

(* The call whose turn it is.                                              *)
Turns(c) == \E i \in DOMAIN begun :
  begun[i] = c /\ \A j \in 1 .. i - 1 : call[begun[j]] = "sent"

StartNext(c) ==
  /\ phase = "finish" /\ serial /\ call[c] = "queued" /\ Turns(c)
  /\ Move(c, "starting")
  /\ UNCHANGED <<config, taskDone, streamDone, stream, confirm, pairs, ghosts>>

(* Looked at after each call, never before it.                             *)
NextOrStop == IF CtxDone THEN Leave("canceled") ELSE UNCHANGED stream

ReturnResult(c) ==
  /\ serial /\ call[c] = "answered"
  /\ Move(c, "sent") /\ results' = Append(results, c)
  /\ NextOrStop
  /\ UNCHANGED <<config, taskDone, streamDone, confirm, resultCh, record, ghosts>>

(* A withdrawn call leaves finish the same way, with no result.            *)
SkipResult(c) ==
  /\ phase = "finish" /\ serial /\ call[c] = "withdrawn"
  /\ Leave("canceled")
  /\ UNCHANGED <<config, taskDone, streamDone, call, confirm, pairs, ghosts>>

-----------------------------------------------------------------------------
(* The end of the step.                                                    *)

FinishReturns_OneShort == IF serial THEN \A c \in Elements(begun) : call[c] = "sent"
                                    ELSE Len(results) + 1 >= Len(begun)

FinishReturns == IF serial THEN \A c \in Elements(begun) : call[c] = "sent"
                           ELSE Len(results) = Len(begun)

(* attachToolResults, strict: every recorded call has its result.          *)
Paired == Elements(begun) \subseteq Elements(results)

Land ==
  /\ phase = "finish" /\ FinishReturns
  /\ \/ Paired /\ Leave("landed") /\ record' = Elements(begun)
     \/ ~Paired /\ Leave("mispaired") /\ UNCHANGED record
  /\ UNCHANGED <<config, taskDone, streamDone, call, confirm, resultCh, results, ghosts>>

CancelStream ==
  /\ phase = "unwind" /\ ~streamDone
  /\ streamDone' = TRUE
  /\ UNCHANGED <<config, taskDone, stream, call, confirm, pairs, ghosts>>

(* toolWg.Wait: every goroutine the parallel driver started has ended (the *)
(* serial one has none, and leaves finish between two calls).              *)
WaitOver_Early == streamDone

WaitOver == streamDone /\ Live = {}

(* collectResults and the forgiving attachToolResults of a step that did   *)
(* not land: what the driver collected and what is still in the channel.   *)
Salvage_Collected == Elements(begun) \cap Elements(results)

Salvage == Elements(begun) \cap (Elements(results) \cup Elements(resultCh))

Return ==
  /\ phase = "unwind" /\ WaitOver
  /\ phase' = "returned"
  /\ record' = IF outcome = "landed" THEN record ELSE Salvage
  /\ UNCHANGED <<config, taskDone, streamDone, outcome, begun, call, confirm, resultCh, results, ghosts>>

-----------------------------------------------------------------------------
Terminated == phase = "returned" /\ confirmChs = {} /\ UNCHANGED vars

Provider ==
  \/ \E c \in Calls : OpenCall(c) \/ BeginCall(c)
  \/ CompleteStream \/ EndStream \/ BreakStream

ToolStep(c) ==
  \/ RunAtOnce(c) \/ Register(c) \/ Announce(c) \/ TakeAnswer(c) \/ Withdraw(c)
  \/ SendToolResult(c) \/ WaitForRoom(c)
  \/ StartNext(c) \/ ReturnResult(c) \/ SkipResult(c)

StepEnd == Collect \/ StopCollecting \/ Land \/ CancelStream \/ Return

Next ==
  \/ Provider \/ FailStream \/ CancelTask
  \/ \E c \in Calls : ToolStep(c) \/ ToolReturns(c) \/ ResolveToolConfirm(c)
  \/ StepEnd \/ CleanupConfirmChannels
  \/ Terminated

Spec == Init /\ [][Next]_vars

-----------------------------------------------------------------------------
(* Properties.                                                             *)

(* A tool that was executed is in the history the step leaves, however the *)
(* step ended: only a result that found the channel full when the step was *)
(* canceled is lost (sendToolResult, collectResults, attachToolResults).   *)
SideEffectsRecorded ==
  phase = "returned" => \A c \in ran :
    c \in record \/ (call[c] = "dropped" /\ Len(begun) > ResultCap)

(* History never tells the model of a call that was not run and that nobody*)
(* denied: a call canceled while it asked stays out (runToolCall).         *)
RecordIsTrue == phase = "returned" => record \subseteq ran \cup denied

(* No tool goes on once Stream has the step back: what it would still do   *)
(* would be in no history (the deferred cancelStream and toolWg.Wait).     *)
NothingRunsBehind == phase = "returned" => Live = {}

(* A step that the stream and the context let finish has a result for each *)
(* of its calls: the strict pairing of attachToolResults never fails.      *)
AlwaysPaired == outcome # "mispaired"

(* In serial mode a call starts when all before it have their results, and *)
(* a stream that fails before its end runs nothing (serialToolRunner).     *)
SerialInOrder ==
  serial =>
    /\ \A i, j \in DOMAIN begun : i < j /\ begun[j] \in Live \cup ran =>
         call[begun[i]] = "sent"
    /\ phase \in {"stream", "completed"} \/ outcome \in {"broke", "cut", "failed"} =>
         ran = {}

(* A confirmation is answered once: its channel holds one answer, and the  *)
(* send that found it full would hold confirmMu, or run(), for ever        *)
(* (handleToolConfirm, resolveToolConfirm).                                *)
OneAnswer == \A c \in Calls : Len(answers[c]) <= 1

(* What the step's history says of the tools.                              *)
RecordIsWhatRan == RecordIsTrue /\ SideEffectsRecorded /\ AlwaysPaired

(* When they run, and how often they are answered.                         *)
ToolsRunInTurn == NothingRunsBehind /\ SerialInOrder /\ OneAnswer
=============================================================================
