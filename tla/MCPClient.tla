----------------------------- MODULE MCPClient -----------------------------
(***************************************************************************)
(* The client of one MCP server over a pipe: the goroutine that connects,  *)
(* the callers of tools, the goroutine that reads the server's lines, the  *)
(* two that watch the process and the transport, and Close.                *)
(*                                                                         *)
(* The server is a child process, perhaps with an heir: a process it       *)
(* started that holds the same pipes (npx and the node it runs).  Either   *)
(* may serve.  A line is the request it belongs to or what it means.       *)
(***************************************************************************)
EXTENDS Naturals, Sequences, FiniteSets

CONSTANTS
  Callers,     (* the requests of tool calls, each made once               *)
  Hello,       (* the request of the handshake                             *)
  PipeCap,     (* lines a pipe holds before its writer blocks              *)
  MaxChatter   (* bound: lines the server sends unasked                    *)

ASSUME MCPClientAssumption ==
  /\ IsFiniteSet(Callers) /\ Hello \notin Callers
  /\ PipeCap \in Nat \ {0} /\ MaxChatter \in Nat

VARIABLES
  state,       (* the client's state                                       *)
  conn,        (* Connect: where it is                                     *)
  stored,      (* the transport is in the client, its handler is set       *)
  closer,      (* Client.Close: where it is                                *)
  closedCh,    (* how often the client's closed channel was closed         *)
  monitor,     (* monitorTransport: "none", "watch", "gone"                *)
  pc, out,     (* each request: where its caller is, what it returns       *)
  canceled,    (* requests whose context is done                           *)
  pending, ch, (* the transport's table and the requests' channels         *)
  closes,      (* how often each channel was closed                        *)
  sender,      (* who holds the send mutex, or Nobody                      *)
  reader,      (* readLoop: "read", "reply", "write", "ended"              *)
  closing,     (* StdioTransport.Close: how far it is                      *)
  stdinOpen, stdoutShut, exited, done,
  holders,     (* processes that hold the server's ends of the pipes       *)
  stdin, stdout, stdoutEnded,
  owed,        (* requests the server has read                             *)
  chatter

clientVars == <<state, conn, stored, closer, closedCh, monitor>>
callVars   == <<pc, out, canceled>>
tableVars  == <<pending, ch, closes>>
procVars   == <<closing, stdinOpen, stdoutShut, exited, done>>
serverVars == <<holders, stdin, stdout, stdoutEnded, owed, chatter>>
vars == <<clientVars, callVars, tableVars, sender, reader, procVars, serverVars>>

Requests == Callers \cup {Hello}
Nobody   == "nobody"
Reader   == "reader"
Other    == "other"           \* a line that is not a request
Unasked  == {"changed", "ping", "long"}

TypeOK ==
  /\ state \in {"disconnected", "connecting", "initializing", "ready", "failed", "stale"}
  /\ conn \in {"idle", "spawned", "hello", "ready", "failing", "done"}
  /\ closer \in {"idle", "claimed", "closing", "done"} /\ closedCh \in 0 .. 1
  /\ monitor \in {"none", "watch", "gone"}
  /\ pc \in [Requests -> {"idle", "begin", "recheck", "send", "write", "wait", "drop", "ended"}]
  /\ out \in [Requests -> {"none", "answer", "failed", "canceled"}]
  /\ canceled \subseteq Requests /\ pending \subseteq Requests /\ owed \subseteq Requests
  /\ ch \in [Requests -> {"none", "open", "full", "closed"}]
  /\ closes \in [Requests -> 0 .. 1]
  /\ sender \in Requests \cup {Nobody, Reader}
  /\ reader \in {"read", "reply", "write", "ended"}
  /\ closing \in {"open", "eof", "killed", "join", "closed"}
  /\ {stored, stdinOpen, stdoutShut, exited, done, stdoutEnded} \subseteq BOOLEAN
  /\ holders \subseteq {"child", "heir"}
  /\ Len(stdin) <= PipeCap /\ Len(stdout) <= PipeCap
  /\ chatter \in 0 .. MaxChatter

Init ==
  /\ state = "disconnected" /\ conn = "idle" /\ stored = FALSE
  /\ closer = "idle" /\ closedCh = 0 /\ monitor = "none"
  /\ pc = [r \in Requests |-> "idle"] /\ out = [r \in Requests |-> "none"]
  /\ canceled = {} /\ pending = {} /\ owed = {}
  /\ ch = [r \in Requests |-> "none"] /\ closes = [r \in Requests |-> 0]
  /\ sender = Nobody /\ reader = "read" /\ closing = "open"
  /\ stdinOpen = TRUE /\ stdoutShut = FALSE /\ exited = FALSE /\ done = FALSE
  /\ holders \in {{"child"}, {"child", "heir"}}
  /\ stdin = <<>> /\ stdout = <<>> /\ stdoutEnded = FALSE /\ chatter = 0

(* The process runs from the moment Connect has spawned it.                *)
Spawned == conn # "idle" /\ (conn = "done" => stored)

-----------------------------------------------------------------------------
(* Connect.                                                                *)

(* From disconnected only.  A server that cannot be started leaves it      *)
(* failed, and nothing to close.                                           *)
ConnectSpawns ==
  /\ conn = "idle" /\ state = "disconnected"
  /\ \/ conn' = "spawned" /\ state' = "connecting"
     \/ conn' = "done" /\ state' = "failed"
  /\ UNCHANGED <<stored, closer, closedCh, monitor, callVars, tableVars, sender, reader,
                 procVars, serverVars>>

ConnectStores ==
  /\ conn = "spawned"
  /\ conn' = "hello" /\ stored' = TRUE /\ state' = "initializing"
  /\ pc' = [pc EXCEPT ![Hello] = "begin"]
  /\ UNCHANGED <<closer, closedCh, monitor, out, canceled, tableVars, sender, reader,
                 procVars, serverVars>>

(* The handshake is over: the versions agree, or the transport is closed.  *)
HandshakeEnds ==
  /\ conn = "hello" /\ pc[Hello] = "ended"
  /\ \/ out[Hello] = "answer" /\ conn' = "ready" /\ state' = "ready"
     \/ conn' = "failing" /\ UNCHANGED state
  /\ UNCHANGED <<stored, closer, closedCh, monitor, callVars, tableVars, sender, reader,
                 procVars, serverVars>>

StartMonitor ==
  /\ conn = "ready" /\ conn' = "done" /\ monitor' = "watch"
  /\ UNCHANGED <<state, stored, closer, closedCh, callVars, tableVars, sender, reader,
                 procVars, serverVars>>

ConnectFails ==
  /\ conn = "failing" /\ closing = "closed"
  /\ conn' = "done"
  /\ state' = IF state \in {"connecting", "initializing"} THEN "failed" ELSE state
  /\ UNCHANGED <<stored, closer, closedCh, monitor, callVars, tableVars, sender, reader,
                 procVars, serverVars>>

MonitorDeath_Stores ==
  /\ monitor = "watch" /\ done /\ monitor' = "gone" /\ state' = "failed"
  /\ UNCHANGED <<conn, stored, closer, closedCh, callVars, tableVars, sender, reader,
                 procVars, serverVars>>

(* monitorTransport: only a ready client fails, and only then is it closed.*)
MonitorDeath ==
  /\ monitor = "watch" /\ done /\ monitor' = "gone"
  /\ IF state = "ready"
     THEN /\ state' = "failed"
          /\ IF closer = "idle" /\ closedCh = 0
             THEN closedCh' = closedCh + 1 ELSE UNCHANGED closedCh
     ELSE UNCHANGED <<state, closedCh>>
  /\ UNCHANGED <<conn, stored, closer, callVars, tableVars, sender, reader, procVars, serverVars>>

-----------------------------------------------------------------------------
(* A request: Client.sendRequest and StdioTransport.SendReceive.           *)

Goes(r, from, to) == pc[r] = from /\ pc' = [pc EXCEPT ![r] = to]
Returns(r, what)  == out' = [out EXCEPT ![r] = what]

(* A tool call is refused unless the client is ready.                      *)
CallTool(r) ==
  /\ r \in Callers /\ conn = "done"
  /\ IF state = "ready" THEN Goes(r, "idle", "begin") /\ UNCHANGED out
                        ELSE Goes(r, "idle", "ended") /\ Returns(r, "failed")
  /\ UNCHANGED <<clientVars, canceled, tableVars, sender, reader, procVars, serverVars>>

(* The context is looked at once, then done under the table's mutex.       *)
Register(r) ==
  /\ \/ r \in canceled /\ Goes(r, "begin", "ended") /\ Returns(r, "canceled")
        /\ UNCHANGED tableVars
     \/ r \notin canceled /\ done /\ Goes(r, "begin", "ended") /\ Returns(r, "failed")
        /\ UNCHANGED tableVars
     \/ r \notin canceled /\ ~done /\ Goes(r, "begin", "recheck")
        /\ pending' = pending \cup {r} /\ ch' = [ch EXCEPT ![r] = "open"]
        /\ UNCHANGED <<out, closes>>
  /\ UNCHANGED <<clientVars, canceled, sender, reader, procVars, serverVars>>

Recheck(r) ==
  /\ \/ done /\ Goes(r, "recheck", "drop") /\ Returns(r, "failed")
     \/ ~done /\ Goes(r, "recheck", "send") /\ UNCHANGED out
  /\ UNCHANGED <<clientVars, canceled, tableVars, sender, reader, procVars, serverVars>>

(* Send serializes its writers; a context does not interrupt the wait.     *)
LockSend(r) ==
  /\ Goes(r, "send", "write") /\ sender = Nobody /\ sender' = r
  /\ UNCHANGED <<clientVars, out, canceled, tableVars, reader, procVars, serverVars>>

Broken == ~stdinOpen \/ holders = {}

WriteLine_NoRoom(r) ==
  /\ sender' = Nobody /\ stdin' = Append(stdin, IF out[r] = "none" THEN r ELSE Other)
  /\ Goes(r, "write", IF out[r] = "none" THEN "wait" ELSE "ended")
  /\ UNCHANGED <<clientVars, out, canceled, tableVars, reader, procVars,
                 holders, stdout, stdoutEnded, owed, chatter>>

(* A pipe that is full blocks the write.  What follows a result is a       *)
(* notification ("initialized", "canceled"), whose failure is ignored.     *)
WriteLine(r) ==
  /\ sender' = Nobody
  /\ \/ /\ Broken
        /\ IF out[r] = "none" THEN Goes(r, "write", "drop") /\ Returns(r, "failed")
                              ELSE Goes(r, "write", "ended") /\ UNCHANGED out
        /\ UNCHANGED stdin
     \/ /\ ~Broken /\ Len(stdin) < PipeCap
        /\ stdin' = Append(stdin, IF out[r] = "none" THEN r ELSE Other)
        /\ Goes(r, "write", IF out[r] = "none" THEN "wait" ELSE "ended")
        /\ UNCHANGED out
  /\ UNCHANGED <<clientVars, canceled, tableVars, reader, procVars,
                 holders, stdout, stdoutEnded, owed, chatter>>

Await_Deaf(r) ==
  /\ \/ ch[r] = "full" /\ Returns(r, "answer")
        /\ Goes(r, "wait", IF r = Hello THEN "send" ELSE "ended")
     \/ ch[r] = "closed" /\ Returns(r, "failed") /\ Goes(r, "wait", "drop")
     \/ done /\ Returns(r, "failed") /\ Goes(r, "wait", "drop")
  /\ UNCHANGED <<clientVars, canceled, tableVars, sender, reader, procVars, serverVars>>

(* The select: every ready case may be chosen.  The handshake goes on to   *)
(* tell the server that it is initialized.                                 *)
Await(r) ==
  /\ \/ ch[r] = "full" /\ Returns(r, "answer")
        /\ Goes(r, "wait", IF r = Hello THEN "send" ELSE "ended")
     \/ ch[r] = "closed" /\ Returns(r, "failed") /\ Goes(r, "wait", "drop")
     \/ r \in canceled /\ Returns(r, "canceled") /\ Goes(r, "wait", "drop")
     \/ done /\ Returns(r, "failed") /\ Goes(r, "wait", "drop")
  /\ UNCHANGED <<clientVars, canceled, tableVars, sender, reader, procVars, serverVars>>

(* The deferred removal; the server is then told of a canceled tool call.  *)
Drop(r) ==
  /\ Goes(r, "drop", IF out[r] = "canceled" /\ r # Hello THEN "send" ELSE "ended")
  /\ pending' = pending \ {r}
  /\ UNCHANGED <<clientVars, out, canceled, ch, closes, sender, reader, procVars, serverVars>>

RequestStep(r) ==
  Register(r) \/ Recheck(r) \/ LockSend(r) \/ WriteLine(r) \/ Await(r) \/ Drop(r)

Cancel(r) ==
  /\ r \notin canceled /\ pc[r] # "ended"
  /\ canceled' = canceled \cup {r}
  /\ UNCHANGED <<clientVars, pc, out, tableVars, sender, reader, procVars, serverVars>>

-----------------------------------------------------------------------------
(* readLoop.                                                               *)

NextLine(line) ==
  /\ Spawned /\ reader = "read" /\ ~stdoutShut
  /\ stdout # <<>> /\ Head(stdout) = line /\ stdout' = Tail(stdout)
  /\ UNCHANGED <<callVars, procVars, holders, stdin, stdoutEnded, owed, chatter>>

DispatchResponse_Keeps(r) ==
  /\ NextLine(r)
  /\ IF r \in pending
     THEN ch' = [ch EXCEPT ![r] = "full"] /\ closes' = [closes EXCEPT ![r] = @ + 1]
          /\ UNCHANGED pending
     ELSE UNCHANGED tableVars
  /\ UNCHANGED <<clientVars, sender, reader>>

(* dispatchResponse: the entry leaves the table with the lock held, so its *)
(* channel has one closer.  An answer nobody waits for is discarded.       *)
DispatchResponse(r) ==
  /\ NextLine(r)
  /\ IF r \in pending
     THEN /\ pending' = pending \ {r}
          /\ ch' = [ch EXCEPT ![r] = "full"] /\ closes' = [closes EXCEPT ![r] = @ + 1]
     ELSE UNCHANGED tableVars
  /\ UNCHANGED <<clientVars, sender, reader>>

MarkStale ==
  /\ NextLine("changed")
  /\ state' = IF stored THEN "stale" ELSE state
  /\ UNCHANGED <<conn, stored, closer, closedCh, monitor, tableVars, sender, reader>>

ServerRequest ==
  /\ NextLine("ping") /\ reader' = "reply"
  /\ UNCHANGED <<clientVars, tableVars, sender>>

LockReply ==
  /\ reader = "reply" /\ sender = Nobody /\ sender' = Reader /\ reader' = "write"
  /\ UNCHANGED <<clientVars, callVars, tableVars, procVars, serverVars>>

Reply ==
  /\ reader = "write" /\ reader' = "read" /\ sender' = Nobody
  /\ \/ Broken /\ UNCHANGED stdin
     \/ ~Broken /\ Len(stdin) < PipeCap /\ stdin' = Append(stdin, Other)
  /\ UNCHANGED <<clientVars, callVars, tableVars, procVars,
                 holders, stdout, stdoutEnded, owed, chatter>>

(* The end of the stream, our end shut by cmd.Wait, or a line over the     *)
(* limit: whoever is in the table is told, whoever comes later is not.     *)
ReadLoopEnds ==
  /\ Spawned /\ reader = "read" /\ reader' = "ended"
  /\ \/ stdoutShut
     \/ stdout = <<>> /\ (stdoutEnded \/ holders = {})
     \/ stdout # <<>> /\ Head(stdout) = "long"
  /\ ch' = [r \in Requests |-> IF r \in pending THEN "closed" ELSE ch[r]]
  /\ closes' = [r \in Requests |-> IF r \in pending THEN closes[r] + 1 ELSE closes[r]]
  /\ pending' = {}
  /\ UNCHANGED <<clientVars, callVars, sender, procVars, serverVars>>

ReaderStep ==
  \/ \E r \in Requests : DispatchResponse(r)
  \/ MarkStale \/ ServerRequest \/ LockReply \/ Reply \/ ReadLoopEnds

-----------------------------------------------------------------------------
(* The process and Close.                                                  *)

(* cmd.Wait returns when the child has gone and nobody holds its stderr    *)
(* any more; it shuts our ends of the pipes, with what was not read yet.   *)
ProcessWaited ==
  /\ Spawned /\ ~exited /\ holders = {}
  /\ exited' = TRUE /\ stdinOpen' = FALSE /\ stdoutShut' = TRUE /\ stdout' = <<>>
  /\ UNCHANGED <<clientVars, callVars, tableVars, sender, reader, closing, done,
                 holders, stdin, stdoutEnded, owed, chatter>>

SignalDone ==
  /\ exited /\ ~done /\ done' = TRUE
  /\ UNCHANGED <<clientVars, callVars, tableVars, sender, reader,
                 closing, stdinOpen, stdoutShut, exited, serverVars>>

(* Client.Close: whoever claims it first closes the channel, once.         *)
CloseClient ==
  /\ closer = "idle"
  /\ IF closedCh = 0 THEN closer' = "claimed" /\ closedCh' = 1
                     ELSE closer' = "done" /\ UNCHANGED closedCh
  /\ UNCHANGED <<state, conn, stored, monitor, callVars, tableVars, sender, reader,
                 procVars, serverVars>>

CloseLoads ==
  /\ closer = "claimed"
  /\ IF stored THEN closer' = "closing" /\ UNCHANGED state
               ELSE closer' = "done" /\ state' = "disconnected"
  /\ UNCHANGED <<conn, stored, closedCh, monitor, callVars, tableVars, sender, reader,
                 procVars, serverVars>>

CloseReturns ==
  /\ closer = "closing" /\ closing = "closed"
  /\ closer' = "done" /\ state' = "disconnected"
  /\ UNCHANGED <<conn, stored, closedCh, monitor, callVars, tableVars, sender, reader,
                 procVars, serverVars>>

(* What the last of them has not read is lost.                             *)
Leave(ps) ==
  /\ holders' = holders \ ps
  /\ IF holders \subseteq ps THEN stdin' = <<>> /\ owed' = {} ELSE UNCHANGED <<stdin, owed>>
  /\ UNCHANGED <<stdout, stdoutEnded, chatter>>

Escalates(from, to) == closing = from /\ closing' = to

(* StdioTransport.Close, whoever calls it first: end of input, then the    *)
(* two signals, each after a time of its own.                              *)
CloseStdin ==
  /\ conn = "failing" \/ closer = "closing"
  /\ Escalates("open", "eof") /\ stdinOpen' = FALSE
  /\ UNCHANGED <<clientVars, callVars, tableVars, sender, reader,
                 stdoutShut, exited, done, serverVars>>

Signals_TermOnly ==
  /\ Escalates("eof", "killed") /\ UNCHANGED serverVars
  /\ UNCHANGED <<clientVars, callVars, tableVars, sender, reader, stdinOpen, stdoutShut,
                 exited, done>>

(* SIGTERM may be ignored; SIGKILL, when that was patient enough, is not.  *)
Signals ==
  /\ Escalates("eof", "killed") /\ Leave({"child"})
  /\ UNCHANGED <<clientVars, callVars, tableVars, sender, reader, stdinOpen, stdoutShut,
                 exited, done>>

ProcessGone ==
  /\ exited /\ \E from \in {"eof", "killed"} : Escalates(from, "join")
  /\ UNCHANGED <<clientVars, callVars, tableVars, sender, reader,
                 stdinOpen, stdoutShut, exited, done, serverVars>>

JoinReader ==
  /\ reader = "ended" /\ Escalates("join", "closed") /\ done' = TRUE
  /\ UNCHANGED <<clientVars, callVars, tableVars, sender, reader,
                 stdinOpen, stdoutShut, exited, serverVars>>

-----------------------------------------------------------------------------
(* The server.                                                             *)

ServerReads ==
  /\ Spawned /\ holders # {} /\ stdin # <<>>
  /\ stdin' = Tail(stdin) /\ owed' = owed \cup ({Head(stdin)} \cap Requests)
  /\ UNCHANGED <<clientVars, callVars, tableVars, sender, reader, procVars,
                 holders, stdout, stdoutEnded, chatter>>

ServerWrites(line) ==
  /\ Spawned /\ holders # {} /\ ~stdoutEnded /\ ~stdoutShut
  /\ Len(stdout) < PipeCap /\ stdout' = Append(stdout, line)
  /\ UNCHANGED <<clientVars, callVars, tableVars, sender, reader, procVars,
                 holders, stdin, stdoutEnded>>

ServerAnswers(r) ==
  /\ r \in owed /\ ServerWrites(r)
  /\ owed' = owed \ {r} /\ UNCHANGED chatter

ServerChatters(line) ==
  /\ chatter < MaxChatter /\ chatter' = chatter + 1
  /\ ServerWrites(line) /\ UNCHANGED owed

ServerEndsOutput ==
  /\ Spawned /\ holders # {} /\ ~stdoutEnded /\ stdoutEnded' = TRUE
  /\ UNCHANGED <<clientVars, callVars, tableVars, sender, reader, procVars,
                 holders, stdin, stdout, owed, chatter>>

ProcessExits(p) ==
  /\ Spawned /\ p \in holders /\ Leave({p})
  /\ UNCHANGED <<clientVars, callVars, tableVars, sender, reader, procVars>>

ServerStep ==
  \/ ServerReads \/ ServerEndsOutput
  \/ \E r \in Requests : ServerAnswers(r)
  \/ \E line \in Unasked : ServerChatters(line)
  \/ \E p \in {"child", "heir"} : ProcessExits(p)

-----------------------------------------------------------------------------
ConnectStep == ConnectSpawns \/ ConnectStores \/ HandshakeEnds \/ StartMonitor \/ ConnectFails

CloseStep ==
  \/ CloseLoads \/ CloseReturns \/ CloseStdin \/ Signals
  \/ ProcessGone \/ JoinReader

Rests ==
  /\ closer = "done" /\ conn = "done" /\ \A r \in Requests : pc[r] \in {"idle", "ended"}
  /\ UNCHANGED vars

Next ==
  \/ ConnectStep \/ MonitorDeath
  \/ \E r \in Requests : CallTool(r) \/ RequestStep(r) \/ Cancel(r)
  \/ ReaderStep \/ ProcessWaited \/ SignalDone
  \/ CloseClient \/ CloseStep \/ ServerStep \/ Rests

Spec == Init /\ [][Next]_vars

(* Goroutines that can go on do, signals and timeouts come.  Neither the   *)
(* server nor a user owes anything.                                        *)
CodeFairness ==
  /\ \A r \in Requests : WF_vars(RequestStep(r))
  /\ WF_vars(ConnectStep) /\ WF_vars(MonitorDeath) /\ WF_vars(ReaderStep)
  /\ WF_vars(ProcessWaited) /\ WF_vars(SignalDone) /\ WF_vars(CloseStep)

CodeSpec == Spec /\ CodeFairness

-----------------------------------------------------------------------------
(* Properties.                                                             *)

(* The table holds exactly the calls that wait for an answer: none whose   *)
(* answer would find no channel, and none left behind by a call that ended.*)
(* A channel is closed by whoever takes its entry out, so once: a second   *)
(* close panics (dispatchResponse, readLoop, Close and the monitor).       *)
TableAgrees ==
  /\ closedCh <= 1
  /\ \A r \in Requests :
       /\ closes[r] <= IF r \in pending THEN 0 ELSE 1
       /\ r \in pending <=> /\ ch[r] = "open"
                            /\ \/ pc[r] = "drop"
                               \/ pc[r] \in {"recheck", "send", "write", "wait"}
                                  /\ out[r] = "none"

(* Once connected, a client that was told its lists changed serves no call *)
(* any more: neither the monitor nor a late step makes it ready again.     *)
StaleSticks ==
  [][state = "stale" /\ conn = "done" => state' \in {"stale", "disconnected"}]_state

Started(r) == pc[r] # "idle"

(* A canceled call returns, whatever becomes of its answer, if the server  *)
(* reads its input: SendReceive leaves its select, but not a full pipe.    *)
(* And once the child's heirs are gone Close returns and leaves nothing: no*)
(* process, no reader, no call that waits, no client that says it is ready.*)
CallsEnd ==
  /\ WF_vars(ServerReads) =>
       \A r \in Requests : (r \in canceled /\ Started(r)) ~> (pc[r] = "ended")
  /\ WF_vars(ProcessExits("heir")) =>
       /\ closer = "closing" ~> (closer = "done" /\ holders = {} /\ reader = "ended")
       /\ \A r \in Requests : (closing = "closed" /\ Started(r)) ~> (pc[r] = "ended")
       /\ done ~> state # "ready"
=============================================================================
