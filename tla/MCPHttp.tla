------------------------------ MODULE MCPHttp ------------------------------
(***************************************************************************)
(* The HTTP transport of one MCP server: calls that POST, the goroutines   *)
(* that read the event streams the server answers with, the GET stream the *)
(* adapter keeps open for what the server says unasked, and Close.         *)
(*                                                                         *)
(* Every stream serves one table: an answer reaches the call it belongs to *)
(* over whichever stream it comes, and the end of a call's own stream is   *)
(* told on the channel the answer would have come on.                      *)
(***************************************************************************)
EXTENDS Naturals

CONSTANTS
  Callers,     (* the calls, each made once                                *)
  Get,         (* the stream of the adapter                                *)
  Nobody

ASSUME HttpAssumption == Get \notin Callers /\ Nobody \notin Callers \cup {Get}

Streams == Callers \cup {Get}

VARIABLES
  rpc, got,    (* each call: where it is, what it returns                  *)
  halted,      (* calls whose context is done                              *)
  table, box,  (* the pending table and each call's channel                *)
  shuts,       (* how often each channel was closed                        *)
  owes,        (* calls the server has not answered                        *)
  reader,      (* the goroutine of each stream                             *)
  holding,     (* the call whose entry it took out of the table            *)
  body,        (* each stream: "none", "open", "over"                      *)
  slot,        (* postSSEStream                                            *)
  ready,       (* OnTransportReady: "idle", "getting", "up", "off"         *)
  connectOver, (* the context Connect was called with is done              *)
  httpCloser,  (* Client.Close: where it is                                *)
  httpDone

calls   == <<rpc, got, halted>>
tables  == <<table, box, shuts>>
readers == <<reader, holding>>
closing == <<httpCloser, httpDone>>
httpVars == <<calls, tables, owes, readers, body, slot, ready, connectOver, closing>>

HttpInit ==
  /\ rpc = [c \in Callers |-> "idle"] /\ got = [c \in Callers |-> "none"] /\ halted = {}
  /\ table = {} /\ box = [c \in Callers |-> "none"] /\ shuts = [c \in Callers |-> 0]
  /\ owes = {}
  /\ reader = [s \in Streams |-> "none"] /\ holding = [s \in Streams |-> Nobody]
  /\ body = [s \in Streams |-> "none"] /\ slot = Nobody
  /\ ready = "idle" /\ connectOver = FALSE /\ httpCloser = "open" /\ httpDone = FALSE

-----------------------------------------------------------------------------
(* A call: Client.sendRequest and HTTPTransport.SendReceive.               *)

Turns(c, from, to) == rpc[c] = from /\ rpc' = [rpc EXCEPT ![c] = to]
Gives(c, what) == got' = [got EXCEPT ![c] = what]
Over(s) == body' = [body EXCEPT ![s] = "over"]

Post(c) ==
  /\ httpCloser # "done"
  /\ Turns(c, "idle", "post") /\ owes' = owes \cup {c}
  /\ UNCHANGED <<got, halted, tables, readers, body, slot, ready, connectOver, closing>>

(* What the network makes of it: nothing, a stream, or a body to read.     *)
PostReturns(c) ==
  /\ \/ Turns(c, "post", "ended") /\ Gives(c, "failed") /\ UNCHANGED body
     \/ Turns(c, "post", "body") /\ UNCHANGED <<got, body>>
     \/ Turns(c, "post", "opened") /\ body' = [body EXCEPT ![c] = "open"] /\ UNCHANGED got
  /\ UNCHANGED <<halted, tables, owes, readers, slot, ready, connectOver, closing>>

ReadBody(c) ==
  /\ Turns(c, "body", "ended")
  /\ \/ Gives(c, "failed") /\ UNCHANGED owes
     \/ c \in owes /\ Gives(c, "answer") /\ owes' = owes \ {c}
  /\ UNCHANGED <<halted, tables, readers, body, slot, ready, connectOver, closing>>

(* Its context stops a call that waits for headers or a body; Close does   *)
(* not.                                                                    *)
HaltPost(c) ==
  /\ c \in halted /\ \E from \in {"post", "body"} : Turns(c, from, "tell")
  /\ Gives(c, "canceled")
  /\ UNCHANGED <<halted, tables, owes, readers, body, slot, ready, connectOver, closing>>

TakeSlot(c) ==
  /\ Turns(c, "opened", "slotted") /\ slot' = c
  /\ UNCHANGED <<got, halted, tables, owes, readers, body, ready, connectOver, closing>>

(* done is looked at under the table's mutex; the reader starts with the   *)
(* entry in place.                                                         *)
Enter(c) ==
  /\ \/ /\ httpDone /\ Turns(c, "slotted", "shut") /\ Gives(c, "failed")
        /\ UNCHANGED <<table, box, reader>>
     \/ /\ ~httpDone /\ Turns(c, "slotted", "wait") /\ UNCHANGED got
        /\ table' = table \cup {c} /\ box' = [box EXCEPT ![c] = "open"]
        /\ reader' = [reader EXCEPT ![c] = "read"]
  /\ UNCHANGED <<halted, shuts, owes, holding, body, slot, ready, connectOver, closing>>

(* The select: every ready case may be chosen.                             *)
WaitAnswer(c) ==
  /\ Turns(c, "wait", "forget")
  /\ \/ box[c] = "full" /\ Gives(c, "answer")
     \/ box[c] = "shut" /\ Gives(c, "failed")
     \/ c \in halted /\ Gives(c, "canceled")
     \/ httpDone /\ Gives(c, "failed")
  /\ UNCHANGED <<halted, tables, owes, readers, body, slot, ready, connectOver, closing>>

Forget(c) ==
  /\ Turns(c, "forget", "shut") /\ table' = table \ {c}
  /\ UNCHANGED <<got, halted, box, shuts, owes, readers, body, slot, ready, connectOver, closing>>

(* The slot is left to whoever came later.                                 *)
CloseStream(c) ==
  /\ Turns(c, "shut", IF got[c] = "canceled" THEN "tell" ELSE "ended")
  /\ slot' = (IF slot = c THEN Nobody ELSE slot) /\ Over(c)
  /\ UNCHANGED <<got, halted, tables, owes, readers, ready, connectOver, closing>>

(* The server is told of a canceled call; this has a time of its own.      *)
TellCanceled(c) ==
  /\ Turns(c, "tell", "ended")
  /\ UNCHANGED <<got, halted, tables, owes, readers, body, slot, ready, connectOver, closing>>

HaltCall(c) ==
  /\ c \notin halted /\ rpc[c] # "ended" /\ halted' = halted \cup {c}
  /\ UNCHANGED <<rpc, got, tables, owes, readers, body, slot, ready, connectOver, closing>>

-----------------------------------------------------------------------------
(* A stream: readSSELoop.                                                  *)

Reads(s, from, to) == reader[s] = from /\ reader' = [reader EXCEPT ![s] = to]
TakesOut(s, c) == table' = table \ {c} /\ holding' = [holding EXCEPT ![s] = c]
Tells(c, how) ==
  box' = [box EXCEPT ![c] = how] /\ shuts' = [shuts EXCEPT ![c] = @ + 1]

TakesOut_Leaves(s, c) == UNCHANGED table /\ holding' = [holding EXCEPT ![s] = c]

(* dispatchResponse: an answer to any call of this transport; one nobody   *)
(* waits for is discarded.                                                 *)
ReadAnswer(s) ==
  /\ body[s] = "open"
  /\ \E c \in owes :
       /\ owes' = owes \ {c}
       /\ \/ c \in table /\ TakesOut(s, c) /\ Reads(s, "read", "deliver")
          \/ c \notin table /\ reader[s] = "read" /\ UNCHANGED <<table, readers>>
  /\ UNCHANGED <<calls, box, shuts, body, slot, ready, connectOver, closing>>

Deliver(s) ==
  /\ Reads(s, "deliver", "read") /\ holding' = [holding EXCEPT ![s] = Nobody]
  /\ Tells(holding[s], "full")
  /\ UNCHANGED <<calls, table, owes, body, slot, ready, connectOver, closing>>

(* A request of the server: nothing is read until the reply is over, which *)
(* it is after its own time or with the transport.                         *)
ReadRequest(s) ==
  /\ body[s] = "open" /\ Reads(s, "read", "reply")
  /\ UNCHANGED <<calls, tables, owes, holding, body, slot, ready, connectOver, closing>>

Replied(s) ==
  /\ Reads(s, "reply", "read")
  /\ UNCHANGED <<calls, tables, owes, holding, body, slot, ready, connectOver, closing>>

(* The end of the stream, an error, an event over the limit.               *)
StreamBreaks(s) ==
  /\ body[s] = "open" /\ Over(s)
  /\ UNCHANGED <<calls, tables, owes, readers, slot, ready, connectOver, closing>>

(* A body does not outlive the context of its request.                     *)
StreamHalts(s) ==
  /\ body[s] = "open" /\ Over(s)
  /\ s \in halted \/ (s = Get /\ connectOver)
  /\ UNCHANGED <<calls, tables, owes, readers, slot, ready, connectOver, closing>>

ReadEnds_Silent(s) ==
  /\ body[s] = "over" /\ Reads(s, "read", "ended")
  /\ UNCHANGED <<calls, tables, owes, holding, body, slot, ready, connectOver, closing>>

ReadEnds(s) ==
  /\ body[s] = "over" /\ Reads(s, "read", IF s = Get THEN "ended" ELSE "over")
  /\ UNCHANGED <<calls, tables, owes, holding, body, slot, ready, connectOver, closing>>

(* closePendingResponse: who takes the entry out closes the channel.       *)
EndWaiting(c) ==
  /\ \/ c \in table /\ TakesOut(c, c) /\ Reads(c, "over", "close")
     \/ c \notin table /\ Reads(c, "over", "ended") /\ UNCHANGED <<table, holding>>
  /\ UNCHANGED <<calls, box, shuts, owes, body, slot, ready, connectOver, closing>>

ShutBox(c) ==
  /\ Reads(c, "close", "ended") /\ holding' = [holding EXCEPT ![c] = Nobody]
  /\ Tells(c, "shut")
  /\ UNCHANGED <<calls, table, owes, body, slot, ready, connectOver, closing>>

-----------------------------------------------------------------------------
(* The adapter's GET stream, and Close.                                    *)

HasGetMutex == httpCloser \in {"join", "delete"}

(* OnTransportReady, holding getSSEMu until the headers are there.         *)
OpenGet ==
  /\ ready = "idle" /\ ~HasGetMutex /\ ready' = (IF httpDone THEN "off" ELSE "getting")
  /\ UNCHANGED <<calls, tables, owes, readers, body, slot, connectOver, closing>>

GetReturns ==
  /\ ready = "getting"
  /\ \/ ready' = "off" /\ UNCHANGED <<body, reader>>
     \/ /\ ready' = "up" /\ body' = [body EXCEPT ![Get] = "open"]
        /\ reader' = [reader EXCEPT ![Get] = "read"]
  /\ UNCHANGED <<calls, tables, owes, holding, slot, connectOver, closing>>

ConnectOver ==
  /\ ~connectOver /\ connectOver' = TRUE
  /\ UNCHANGED <<calls, tables, owes, readers, body, slot, ready, closing>>

CloseHttp ==
  /\ httpCloser = "open" /\ httpCloser' = "claimed"
  /\ UNCHANGED <<calls, tables, owes, readers, body, slot, ready, connectOver, httpDone>>

(* OnClose ends the GET stream and waits for its reader.                   *)
EndGet ==
  /\ httpCloser = "claimed" /\ ready # "getting"
  /\ IF ready = "up" THEN httpCloser' = "join" /\ Over(Get)
                     ELSE httpCloser' = "delete" /\ UNCHANGED body
  /\ UNCHANGED <<calls, tables, owes, readers, slot, ready, connectOver, httpDone>>

JoinGet ==
  /\ httpCloser = "join" /\ reader[Get] = "ended" /\ httpCloser' = "delete"
  /\ UNCHANGED <<calls, tables, owes, readers, body, slot, ready, connectOver, httpDone>>

(* The session's DELETE has a time of its own.                             *)
Deleted ==
  /\ httpCloser = "delete" /\ httpCloser' = "slot"
  /\ UNCHANGED <<calls, tables, owes, readers, body, slot, ready, connectOver, httpDone>>

CloseSlot ==
  /\ httpCloser = "slot" /\ httpCloser' = "signal"
  /\ IF slot # Nobody THEN Over(slot) ELSE UNCHANGED body
  /\ UNCHANGED <<calls, tables, owes, readers, slot, ready, connectOver, httpDone>>

SignalHttp ==
  /\ httpCloser = "signal" /\ httpCloser' = "done" /\ httpDone' = TRUE
  /\ UNCHANGED <<calls, tables, owes, readers, body, slot, ready, connectOver>>

-----------------------------------------------------------------------------
(* What the code does of itself, and what the world may do.                *)
CallStep(c) ==
  \/ HaltPost(c) \/ TakeSlot(c) \/ Enter(c) \/ WaitAnswer(c) \/ Forget(c)
  \/ CloseStream(c) \/ TellCanceled(c)

StreamStep(s) ==
  \/ Deliver(s) \/ Replied(s) \/ ReadEnds(s)
  \/ s \in Callers /\ (EndWaiting(s) \/ ShutBox(s))

CloseHttpStep == EndGet \/ JoinGet \/ Deleted \/ CloseSlot \/ SignalHttp

HttpWorld ==
  \/ \E c \in Callers : Post(c) \/ PostReturns(c) \/ ReadBody(c) \/ HaltCall(c)
  \/ \E s \in Streams : ReadAnswer(s) \/ ReadRequest(s) \/ StreamBreaks(s)
  \/ OpenGet \/ GetReturns \/ ConnectOver \/ CloseHttp

HttpNext ==
  \/ \E c \in Callers : CallStep(c)
  \/ \E s \in Streams : StreamStep(s) \/ StreamHalts(s)
  \/ CloseHttpStep \/ HttpWorld

HttpSpec == HttpInit /\ [][HttpNext]_httpVars

(* Goroutines that can go on do; times of their own come.                  *)
HttpFairness ==
  /\ \A c \in Callers : WF_httpVars(CallStep(c))
  /\ \A s \in Streams : WF_httpVars(StreamStep(s)) /\ WF_httpVars(StreamHalts(s))
  /\ WF_httpVars(CloseHttpStep)

-----------------------------------------------------------------------------
(* Properties.                                                             *)

(* A call that waits has its entry in the table and its own stream's reader*)
(* to end it, or a reader took the entry out for it, or its channel is     *)
(* told: whichever stream, cancellation or end came first, nobody waits    *)
(* for a word no goroutine will say.  A channel is closed once, a second   *)
(* close panics, and an answer delivered is never reported as a stream     *)
(* that ended (dispatchResponse, readSSEResponse, closePendingResponse).   *)
NobodyForgotten ==
  \A c \in Callers :
    /\ shuts[c] <= 1
    /\ rpc[c] = "wait" =>
         \/ box[c] \in {"full", "shut"}
         \/ c \in table /\ reader[c] \in {"read", "reply", "deliver", "over"}
         \/ \E s \in Streams : holding[s] = c
    /\ got[c] = "failed" /\ box[c] = "full" => httpDone

(* A call that waits comes back once its context, its stream or the        *)
(* transport ends, no reader of a call outlives the transport, and Close   *)
(* returns unless the GET request has the adapter's mutex.                 *)
Due ==
  \/ \E c \in Callers :
       \/ rpc[c] \notin {"idle", "post", "body", "ended"} /\ (c \in halted \/ body[c] = "over")
       \/ httpDone /\ (rpc[c] = "wait" \/ reader[c] \notin {"none", "ended"})
  \/ httpCloser \notin {"open", "done"} /\ ready # "getting"

CallsComeBack == Due ~> ~Due
=============================================================================
