----------------------------- MODULE InputPump -----------------------------
(***************************************************************************)
(* How what a user types reaches the session: the goroutines of an adapter *)
(* write frames into one pipe, the input pump assembles them into messages *)
(* and sends those to run() through a channel (internal/agent/session_io.go,*)
(* terminal/tui.go submitCmd and emitCommand, plainio and terseio input.go *)
(* and adapter.go, internal/commands/writer.go).  A frame is one Write, and*)
(* io.Pipe lets one Write through at a time, so what interleaves is frames.*)
(*                                                                         *)
(* Writers is the adapter: "terminal" runs every Cmd in a goroutine of its *)
(* own (program.go dispatch); "plain" reads its input in one goroutine and *)
(* answers MCP authorization in others; "raw" is one client whose frames   *)
(* may be wrong.                                                           *)
(***************************************************************************)
EXTENDS Naturals, Sequences, FiniteSets

CONSTANTS Writers, MaxIssues, Cap     \* bounds: messages and commands; the channel (100 in the code)

VARIABLES issued,    \* what the adapter set out to write, one entry per goroutine or input line
          written,   \* how many frames of each entry are in
          names,     \* entries whose command is in the writer's names table
          pipe,      \* "open" or "closed"
          taken,     \* the frames the pump read, in order
          staged,    \* the pump's staged parts
          msgs,      \* every inputMsg the pump made, in order
          sent,      \* how many of them are in the channel or past it
          handled,   \* how many run() took
          pump,      \* "reading" or "ended"
          loop,      \* "running", "ending" (input ended or a quit), "returned"
          nameless   \* answers whose command name was not found
pumpVars == <<issued, written, names, pipe, taken, staged, msgs, sent, handled, pump, loop, nameless>>

----------------------------------------------------------------------------
(* What an adapter writes *)
Frames(kind) ==
    CASE kind = "media"   -> <<"UX", "UX", "UE">>
      [] kind = "message" -> <<"UX", "UE">>
      [] kind \in {"command", "auth"} -> <<"CI">>
      [] kind = "end" -> <<"CE">>
      [] OTHER -> <<kind>>
\* An attachment that can not be read is reported and left out; the rest of the message still goes.
SubmitCmd(kind) == {Frames(kind)} \cup (IF kind = "media" THEN {Frames("message")} ELSE {})
IssueKinds == CASE Writers = "terminal" -> {"media", "message", "command"}
           [] Writers = "plain" -> {"message", "command", "auth", "end"}
           [] OTHER -> {"UX", "empty", "message", "command", "end", "badcommand", "badframe", "broken"}

Entries == DOMAIN issued
Left(e) == written[e] < Len(issued[e].frames)
\* The entries that need not wait for an earlier one: another goroutine writes them.
OnItsOwn(e) == Writers = "terminal" \/ issued[e].kind = "auth"
Turn(e) == OnItsOwn(e) \/ \A f \in 1..(e - 1) : OnItsOwn(f) \/ ~Left(f)
Frame(e) == [tag |-> issued[e].frames[written[e] + 1], of |-> e, k |-> written[e] + 1]
\* commands.Writer.Write puts the name in the table before the frame goes out.
Named_Later(e) == TRUE
Named(e) == issued[e].frames[1] = "CI" => e \in names

----------------------------------------------------------------------------
(* The pump *)
PromptMsg(parts) == [kind |-> "prompt", parts |-> parts, of |-> 0]
Err(parts) == [kind |-> "err", parts |-> parts, of |-> 0]
Refusal_Silent == <<>>
Refusal == <<Err(staged)>>
\* handleInputFrame: the messages a frame makes.
Made(f) ==
    CASE f.tag \in {"UX", "empty"} -> <<>>         \* a text without words contributes nothing
      [] f.tag = "CI" /\ staged # <<>> -> <<[kind |-> "reject", parts |-> staged, of |-> f.of]>>
      [] f.tag = "CI" /\ staged = <<>> -> <<[kind |-> "cmd", parts |-> <<>>, of |-> f.of]>>
      [] f.tag = "UE" -> IF staged # <<>> THEN <<PromptMsg(staged)>> ELSE <<>>
      [] f.tag = "CE" -> (IF staged # <<>> THEN <<PromptMsg(staged)>> ELSE <<>>) \o <<[kind |-> "end", parts |-> <<>>, of |-> 0]>>
      [] f.tag = "badcommand" -> <<Err(<<>>)>>     \* a CI that does not parse, or has no id
      [] OTHER -> Refusal                          \* a UX that does not parse, a tag unknown, no frame
\* The staged parts after it.
Staged_Kept(f) == CASE f.tag = "UX" -> Append(staged, f)
                    [] f.tag \in {"empty", "badcommand", "CI"} -> staged
                    [] OTHER -> <<>>
Staged(f) == CASE f.tag = "UX" -> Append(staged, f)
               [] f.tag \in {"empty", "badcommand"} -> staged
               [] OTHER -> <<>>

PumpInit ==
    /\ issued = <<>> /\ written = <<>> /\ names = {} /\ pipe = "open"
    /\ taken = <<>> /\ staged = <<>> /\ msgs = <<>> /\ sent = 0 /\ handled = 0
    /\ pump = "reading" /\ loop = "running" /\ nameless = {}

\* The user submits, or a callback of the adapter has a command.
Issue(kind) ==
    /\ Len(issued) < MaxIssues /\ pipe = "open"
    /\ \E fs \in SubmitCmd(kind) : issued' = Append(issued, [kind |-> kind, frames |-> fs])
    /\ written' = Append(written, 0)
    /\ UNCHANGED <<names, pipe, taken, staged, msgs, sent, handled, pump, loop, nameless>>
Register(e) ==
    /\ Turn(e) /\ Left(e) /\ issued[e].frames[1] = "CI" /\ e \notin names
    /\ names' = names \cup {e}
    /\ UNCHANGED <<issued, written, pipe, taken, staged, msgs, sent, handled, pump, loop, nameless>>
\* A frame passes the pipe: the write returns when the pump has read it.
Write(e) ==
    /\ Turn(e) /\ Left(e) /\ Named(e) /\ pipe = "open"
    /\ pump = "reading" /\ sent = Len(msgs)
    /\ LET f == Frame(e) IN
       /\ taken' = Append(taken, f) /\ staged' = Staged(f) /\ msgs' = msgs \o Made(f)
       /\ pump' = IF f.tag = "broken" THEN "ended" ELSE pump
    /\ written' = [written EXCEPT ![e] = @ + 1]
    /\ UNCHANGED <<issued, names, pipe, sent, handled, loop, nameless>>
\* The pipe is closed: the write fails, the rest of the message is not sent, the name is forgotten.
WriteFails(e) ==
    /\ Turn(e) /\ Left(e) /\ Named(e) /\ pipe = "closed"
    /\ written' = [written EXCEPT ![e] = Len(issued[e].frames)]
    /\ names' = names \ {e}
    /\ UNCHANGED <<issued, pipe, taken, staged, msgs, sent, handled, pump, loop, nameless>>
\* inputMsgCh <- msg, which waits while the channel is full.
PumpSend ==
    /\ sent < Len(msgs) /\ sent - handled < Cap
    /\ sent' = sent + 1
    /\ UNCHANGED <<issued, written, names, pipe, taken, staged, msgs, handled, pump, loop, nameless>>
\* End of the stream: what is staged is the last prompt, and the channel is closed.
PumpEOF ==
    /\ pump = "reading" /\ pipe = "closed" /\ sent = Len(msgs)
    /\ msgs' = IF staged # <<>> THEN Append(msgs, PromptMsg(staged)) ELSE msgs
    /\ staged' = <<>> /\ pump' = "ended"
    /\ UNCHANGED <<issued, written, names, pipe, taken, sent, handled, loop, nameless>>
\* run() takes a message; a command is answered, and the adapter looks its name up, once.
LoopTake ==
    /\ loop # "returned" /\ handled < sent
    /\ handled' = handled + 1
    /\ LET msg == msgs[handled + 1] IN
       /\ loop' = IF msg.kind = "end" THEN "ending" ELSE loop
       /\ IF msg.kind \in {"cmd", "reject"}
          THEN names' = names \ {msg.of} /\ nameless' = nameless \cup ({msg.of} \ names)
          ELSE UNCHANGED <<names, nameless>>
    /\ UNCHANGED <<issued, written, pipe, taken, staged, msgs, sent, pump>>
\* The pump closed the channel: the input has ended.
LoopSeesClosed ==
    /\ loop = "running" /\ pump = "ended" /\ handled = Len(msgs)
    /\ loop' = "ending"
    /\ UNCHANGED <<issued, written, names, pipe, taken, staged, msgs, sent, handled, pump, nameless>>
\* run() returns once the input ended and nothing is in flight; a broken output ends it at any time.
RunReturns ==
    /\ loop # "returned" /\ loop' = "returned"
    /\ UNCHANGED <<issued, written, names, pipe, taken, staged, msgs, sent, handled, pump, nameless>>
\* The adapter closes its end: after the session has closed, or a client at any time.
PipeOver_PumpDone == pump = "ended"
PipeOver == loop = "returned" \/ Writers = "raw"
ClosePipe ==
    /\ pipe = "open" /\ PipeOver /\ pipe' = "closed"
    /\ UNCHANGED <<issued, written, names, taken, staged, msgs, sent, handled, pump, loop, nameless>>

GoesOn(e) == Register(e) \/ Write(e) \/ WriteFails(e)
PumpNext ==
    \/ \E k \in IssueKinds : Issue(k)
    \/ \E e \in Entries : GoesOn(e)
    \/ PumpSend \/ PumpEOF \/ LoopTake \/ LoopSeesClosed \/ RunReturns \/ ClosePipe
PumpSpec == PumpInit /\ [][PumpNext]_pumpVars

----------------------------------------------------------------------------
\* Where a part can lie: in a message, or staged, behind them all.
Boxes == 1..(Len(msgs) + 1)
Box(j) == IF j <= Len(msgs) THEN msgs[j].parts ELSE staged
Lies(f, j, n) == n \in 1..Len(Box(j)) /\ Box(j)[n] = f
Comes(j, n, l, m) == j < l \/ (j = l /\ n < m)
Answers(j, e) == msgs[j].kind \in {"cmd", "reject"} /\ msgs[j].of = e

\* No part of a message is lost without an error, and none is delivered twice or out of order: what
\* the pump read is, in the order it read it, in a prompt, in a refusal that says so, or still
\* staged (handleInputFrame, inputPump).
PartsInOrder ==
    /\ \A i \in 1..Len(taken) : taken[i].tag = "UX" =>
         \E j \in Boxes : \E n \in 1..Len(Box(j)) : Lies(taken[i], j, n)
    /\ \A j \in Boxes : \A n \in 1..Len(Box(j)) :
         \E i \in 1..Len(taken) : taken[i].tag = "UX" /\ Lies(taken[i], j, n)
    /\ \A i \in 1..Len(taken) : \A j \in Boxes : \A n \in 1..Len(Box(j)) : Lies(taken[i], j, n) =>
         \A h \in 1..Len(taken) : \A l \in Boxes : \A m \in 1..Len(Box(l)) : Lies(taken[h], l, m) =>
           (i < h <=> Comes(j, n, l, m))
\* Every command that can be answered gets exactly one message.
CommandsAnswered ==
    \A i \in 1..Len(taken) : taken[i].tag = "CI" =>
      \E j \in 1..Len(msgs) : \A l \in 1..Len(msgs) : Answers(l, taken[i].of) <=> l = j
\* The answer to a command finds the name it was sent under: the table is written before the frame
\* is (commands/writer.go:58-64).
AnswersNamed == nameless = {}

\* What an adapter wrote arrives, once and in order, and so do the answers (inputPump, Writer).
InputAccounted == PartsInOrder /\ CommandsAnswered /\ AnswersNamed

\* A submitted message is one user message: a prompt the session gets holds the parts of one submit,
\* all of them and in order (but for a stream cut off inside it), and a submit that went out whole
\* is a prompt (submitCmd: "as a complete user message").
PartsWritten(e) == [i \in 1..(Len(issued[e].frames) - 1) |-> [tag |-> "UX", of |-> e, k |-> i]]
IsMessage(e) == issued[e].kind \in {"media", "message"}
SubmitOnePiece ==
    /\ \A i \in DOMAIN msgs : msgs[i].kind = "prompt" =>
         \E e \in Entries : /\ IsMessage(e)
                            /\ \/ msgs[i].parts = PartsWritten(e)
                               \/ pipe = "closed" /\ \A n \in DOMAIN msgs[i].parts : msgs[i].parts[n] = [tag |-> "UX", of |-> e, k |-> n]
    /\ \A i \in DOMAIN taken : taken[i].tag = "UE" =>
         \E j \in DOMAIN msgs : msgs[j].kind = "prompt" /\ msgs[j].parts = PartsWritten(taken[i].of)
=============================================================================
