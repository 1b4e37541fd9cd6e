------------------------------ MODULE Provider ------------------------------
(***************************************************************************)
(* One step's answer on its way from a model provider into the record: the *)
(* request and its retries (sendWithRetry), the two providers' readings of *)
(* their streams, and the assembler that turns stream events into parts.   *)
(*                                                                         *)
(* A server's event is one SSE event; a stream may stop after any of them: *)
(* its body ends, or reading it fails.  A body is the number of non-empty  *)
(* fragments it is made of.  What running a call gives is ToolCalls'       *)
(* business: here a call is begun or it is not.                            *)
(***************************************************************************)
EXTENDS Integers, Sequences, FiniteSets

CONSTANTS
  Api,        (* "anthropic" or "openai": which provider reads the stream  *)
  Indices,    (* the block (anthropic) or tool call (openai) indices said  *)
  LateIds,    (* a server may name a tool call before it gives its id      *)
  MaxRetries, (* maxRetries: how often a request is sent again             *)
  MaxEvents   (* bound: events of one stream                               *)

VARIABLES
  pc,       (* "sending", "streaming", "waiting", or how the step ended    *)
  attempt,  (* the attempt, from 1                                         *)
  said,     (* what the server said in this attempt                        *)
  parser,   (* the provider's stream state                                 *)
  blocks,   (* the assembler: its blocks in order of appearance            *)
  begun,    (* the keys of the calls given to the tool driver, in order    *)
  completed,(* the step's terminal event was seen                          *)
  record,   (* the parts the step contributed                              *)
  canceled, (* the task's context is done                                  *)
  shown     (* the attempts the adapter was shown something of             *)

vars == <<pc, attempt, said, parser, blocks, begun, completed, record, canceled, shown>>

Ends == {"landed", "cut", "failed", "canceled"}

(* The smallest number of S; the numbers of S in order.                    *)
Least(S) == CHOOSE x \in S : \A y \in S : x <= y

RECURSIVE Ascending(_)
Ascending(S) == IF S = {} THEN <<>> ELSE <<Least(S)>> \o Ascending(S \ {Least(S)})

-----------------------------------------------------------------------------
(* The stream events the providers yield to the agent.                     *)

Delta(key, kind, pos, size) ==
  [ev |-> "delta", key |-> key, kind |-> kind, pos |-> pos, size |-> size, id |-> FALSE]
Start(key, pos, id) ==
  [ev |-> "start", key |-> key, kind |-> "tool", pos |-> pos, size |-> 0, id |-> id]
Complete(key, pos) ==
  [ev |-> "complete", key |-> key, kind |-> "any", pos |-> pos, size |-> 0, id |-> FALSE]
StepComplete ==
  [ev |-> "step", key |-> 0, kind |-> "any", pos |-> 0, size |-> 0, id |-> FALSE]
Error ==
  [ev |-> "error", key |-> 0, kind |-> "any", pos |-> 0, size |-> 0, id |-> FALSE]

-----------------------------------------------------------------------------
(* The assembler.  A block is bound to its key and keeps the first         *)
(* position it was declared with; its record comes in declared order, then *)
(* in order of closure.                                                    *)

Has(bs, key) == \E i \in DOMAIN bs : bs[i].key = key

Block(bs, key, kind) ==
  IF Has(bs, key) THEN bs
  ELSE Append(bs, [key |-> key, kind |-> kind, pos |-> 0, body |-> 0, id |-> FALSE,
                   closed |-> FALSE, seq |-> 0, call |-> FALSE])

At(bs, key) == CHOOSE i \in DOMAIN bs : bs[i].key = key

Declare(b, pos) == IF b.pos = 0 THEN [b EXCEPT !.pos = pos] ELSE b

Closed(bs) == Cardinality({i \in DOMAIN bs : bs[i].closed})

Close(bs, key, pos) ==
  [bs EXCEPT ![At(bs, key)] =
     IF @.closed THEN Declare(@, pos)
     ELSE [Declare(@, pos) EXCEPT !.closed = TRUE, !.seq = Closed(bs)]]

LessForRecord(bs, i, j) ==
  LET a == bs[i] b == bs[j] IN
  IF a.pos # b.pos THEN a.pos # 0 /\ (b.pos = 0 \/ a.pos < b.pos)
  ELSE IF a.closed # b.closed THEN a.closed
  ELSE IF a.closed /\ a.seq # b.seq THEN a.seq < b.seq
  ELSE i < j

Emitted(b) == IF b.kind = "tool" THEN b.call ELSE b.body > 0

Part(b) == [key |-> b.key, kind |-> b.kind, body |-> b.body, id |-> b.id]

Parts(bs) ==
  LET kept == {i \in DOMAIN bs : Emitted(bs[i])}
      at(n) == CHOOSE i \in kept :
                 Cardinality({j \in kept : LessForRecord(bs, j, i)}) = n - 1
  IN  [n \in 1..Cardinality(kept) |-> Part(bs[at(n)])]

EmptyAssembler_Open(bs) == \A i \in DOMAIN bs : ~bs[i].closed

EmptyAssembler(bs) == bs = <<>>

-----------------------------------------------------------------------------
(* streamEvents: what one stream event does to the step.  Everything but   *)
(* the terminal event and an error tells the adapter, unless it closes a   *)
(* block nothing was streamed for.                                         *)

Here == [blocks |-> blocks, begun |-> begun, completed |-> completed,
         shows |-> FALSE, broke |-> FALSE, record |-> record]

Absorb(s, e) ==
  LET opened == Block(s.blocks, e.key, e.kind)
      declared == [opened EXCEPT ![At(opened, e.key)] = Declare(@, e.pos)]
      here == At(opened, e.key)
      closed == Close(s.blocks, e.key, e.pos)
      tool == \E i \in DOMAIN closed :
                closed[i].key = e.key /\ closed[i].kind = "tool" /\ ~closed[i].call
  IN CASE s.broke -> s
       [] e.ev = "delta" -> [s EXCEPT !.blocks = [declared EXCEPT ![here].body = @ + e.size],
                                    !.shows = TRUE]
       [] e.ev = "start" -> [s EXCEPT !.blocks = [declared EXCEPT ![here].id = @ \/ e.id],
                                    !.shows = TRUE]
       [] e.ev = "complete" ->
            IF ~Has(s.blocks, e.key) THEN s
            ELSE [s EXCEPT !.blocks = IF tool THEN [closed EXCEPT ![here].call = TRUE] ELSE closed,
                           !.begun = IF tool THEN Append(@, e.key) ELSE @, !.shows = TRUE]
       [] e.ev = "step" -> [s EXCEPT !.record = Parts(s.blocks), !.completed = TRUE]
       [] e.ev = "error" -> [s EXCEPT !.broke = TRUE]

RECURSIVE Absorbed(_, _)
Absorbed(s, evs) == IF evs = <<>> THEN s ELSE Absorbed(Absorb(s, Head(evs)), Tail(evs))

-----------------------------------------------------------------------------
(* Anthropic.  Blocks are opened and stopped by their index; a stop is     *)
(* passed on only when every block started below it has been stopped, and  *)
(* at message_stop without regard to those that never were.                *)

DeliverCloses_Any(p, flushAll) == p.queued \ p.emitted

DeliverCloses(p, flushAll) ==
  {i \in p.queued \ p.emitted : flushAll \/ \A j \in p.started : j < i => j \in p.queued}

Closes(p, flushAll) ==
  LET order == Ascending(DeliverCloses(p, flushAll)) IN
  [n \in DOMAIN order |-> Complete(order[n], order[n] + 1)]

Delivered(p, flushAll) == [p EXCEPT !.emitted = @ \cup DeliverCloses(p, flushAll)]

AnthropicEvents ==
  [type : {"block_start"}, index : Indices, kind : {"text", "tool"}]
    \cup [type : {"block_delta", "block_stop"}, index : Indices, kind : {"any"}]
    \cup [type : {"message_stop", "error"}, index : {0}, kind : {"any"}]

(* The events and the stream state an event of the server becomes.         *)
Anthropic(p, e) ==
  LET i == e.index IN
  CASE e.type = "block_start" ->
         [p |-> [p EXCEPT !.open[i] = e.kind, !.started = @ \cup {i}],
          evs |-> IF e.kind = "tool" THEN <<Start(i, i + 1, TRUE)>> ELSE <<>>]
    [] e.type = "block_delta" ->
         [p |-> p, evs |-> IF p.open[i] = "no" THEN <<>>
                           ELSE <<Delta(i, p.open[i], i + 1, 1)>>]
    [] e.type = "block_stop" ->
         IF p.open[i] = "no" THEN [p |-> p, evs |-> <<>>]
         ELSE LET q == [p EXCEPT !.open[i] = "no", !.queued = @ \cup {i}]
              IN  [p |-> Delivered(q, FALSE), evs |-> Closes(q, FALSE)]
    [] e.type = "message_stop" ->
         [p |-> [Delivered(p, TRUE) EXCEPT !.done = TRUE],
          evs |-> Append(Closes(p, TRUE), StepComplete)]
    [] e.type = "error" -> [p |-> p, evs |-> <<Error>>]

AnthropicEnd(p) == IF p.done THEN <<>> ELSE <<Error>>

-----------------------------------------------------------------------------
(* OpenAI.  Reasoning and text are one block each; a tool call is what     *)
(* its index says, its id and its name come when they come.  Everything is *)
(* closed when the body ends; without a terminating signal an error takes  *)
(* the place of the step's end.                                            *)

ReasoningKey == -11
TextKey == -10

MaxToolIndex == 3   (* stands for the source's 2^20                        *)

ToolPos(raw) ==
  3 + (IF raw <= 0 THEN 0 ELSE IF raw > MaxToolIndex THEN MaxToolIndex ELSE raw)

ClosedToolCalls(p) ==
  LET order == Ascending({p.order[n] : n \in DOMAIN p.order})
  IN  [n \in DOMAIN order |-> Complete(order[n], ToolPos(order[n]))]

Chunks ==
  [id : {TRUE}, name : BOOLEAN, args : {"none"}]
    \cup {[id |-> FALSE, name |-> FALSE, args |-> "null"],
          [id |-> FALSE, name |-> FALSE, args |-> "some"],
          [id |-> FALSE, name |-> TRUE, args |-> "some"]}

OpenAIEvents ==
  [type : {"tool"}, index : Indices, chunk : Chunks]
    \cup [type : {"reasoning", "content", "finish", "done", "error"},
          index : {0}, chunk : {[id |-> FALSE, name |-> FALSE, args |-> "none"]}]

OpenAI(p, e) ==
  LET i == e.index c == e.chunk
      q == [p EXCEPT !.order = IF i \in {p.order[n] : n \in DOMAIN p.order} THEN @
                               ELSE Append(@, i),
                     !.ids = IF c.id THEN @ \cup {i} ELSE @]
  IN CASE e.type = "reasoning" -> [p |-> p, evs |-> <<Delta(ReasoningKey, "reasoning", 1, 1)>>]
       [] e.type = "content" -> [p |-> p, evs |-> <<Delta(TextKey, "text", 2, 1)>>]
       [] e.type = "tool" ->
            [p |-> q,
             evs |-> (IF c.name THEN <<Start(i, ToolPos(i), i \in q.ids)>> ELSE <<>>)
                     \o (IF c.args = "none" THEN <<>>
                         ELSE <<Delta(i, "tool", ToolPos(i), IF c.args = "some" THEN 1 ELSE 0)>>)]
       [] e.type = "finish" -> [p |-> [p EXCEPT !.done = TRUE], evs |-> <<>>]
       [] e.type = "done" -> [p |-> [p EXCEPT !.done = TRUE, !.ended = TRUE], evs |-> <<>>]
       [] e.type = "error" -> [p |-> p, evs |-> <<Error>>]

OpenAIEnd_Lands(p) ==
  <<Complete(ReasoningKey, 1), Complete(TextKey, 2)>> \o ClosedToolCalls(p) \o <<StepComplete>>

OpenAIEnd(p) ==
  <<Complete(ReasoningKey, 1), Complete(TextKey, 2)>> \o ClosedToolCalls(p)
    \o (IF p.done THEN <<StepComplete>> ELSE <<Error>>)

-----------------------------------------------------------------------------
Fresh == [open |-> [i \in Indices |-> "no"], started |-> {}, queued |-> {}, emitted |-> {},
          order |-> <<>>, ids |-> {}, done |-> FALSE, ended |-> FALSE]

ProviderInit ==
  /\ pc = "sending" /\ attempt = 1 /\ said = <<>> /\ parser = Fresh
  /\ blocks = <<>> /\ begun = <<>> /\ completed = FALSE /\ record = <<>>
  /\ canceled = FALSE /\ shown = {}

Named(i) ==
  \E n \in DOMAIN said : said[n].type = "tool" /\ said[n].index = i /\ said[n].chunk.name

(* What a server may say next: blocks are started in the order of their    *)
(* indices, a call is not named twice and has its name before arguments,   *)
(* and after the message has ended only an error can follow.  An error is  *)
(* the server's own, a refusal, an odd stop reason or an event that does   *)
(* not parse: all end the reading.                                         *)
MaySay(e) ==
  /\ parser.done => e.type \in {"error", "done"}
  /\ e.type = "block_start" => \A i \in parser.started : i < e.index
  /\ e.type = "tool" =>
       /\ e.chunk.name =>
            /\ ~Named(e.index)
            /\ LateIds \/ e.chunk.id \/ e.index \in parser.ids
       /\ e.chunk.id => e.index \notin parser.ids
       /\ e.chunk.args # "none" => e.chunk.name \/ Named(e.index)

ServerEvents == IF Api = "anthropic" THEN AnthropicEvents ELSE OpenAIEvents

-----------------------------------------------------------------------------
(* sendWithRetry.                                                          *)

(* How a request fails before there is a stream; the source's lists of     *)
(* status codes and of transport errors are one member each.               *)
Refusals == {"overloaded", "unauthorized", "reset", "badCertificate"}

IsRetryable(r) == r \in {"overloaded", "reset"}

(* An attempt failed: the user's cancel outranks the failure, a failure    *)
(* that delivered nothing is tried again while there are retries.          *)
Failed(retryable, end) ==
  pc' = IF canceled THEN "canceled"
        ELSE IF retryable /\ attempt <= MaxRetries THEN "waiting"
        ELSE end

RequestFails(r) ==
  /\ pc = "sending"
  /\ Failed(IsRetryable(r), "failed")
  /\ UNCHANGED <<attempt, said, parser, blocks, begun, completed, record, canceled, shown>>

StreamOpens ==
  /\ pc = "sending" /\ ~canceled
  /\ pc' = "streaming" /\ said' = <<>> /\ parser' = Fresh
  /\ blocks' = <<>> /\ begun' = <<>> /\ completed' = FALSE /\ record' = <<>>
  /\ UNCHANGED <<attempt, canceled, shown>>

(* The stream is over: it landed, or it broke with or without a block.     *)
Over(s, ended) ==
  IF s.broke /\ ~s.completed
  THEN /\ Failed(EmptyAssembler(s.blocks),
                 IF EmptyAssembler(s.blocks) THEN "failed" ELSE "cut")
       /\ record' = Parts(s.blocks)
  ELSE /\ pc' = IF s.broke \/ ended THEN "landed" ELSE pc
       /\ record' = s.record

Step(s, ended) ==
  /\ blocks' = s.blocks /\ begun' = s.begun /\ completed' = s.completed
  /\ shown' = IF s.shows THEN shown \cup {attempt} ELSE shown
  /\ Over(s, ended)
  /\ UNCHANGED <<attempt, canceled>>

Says(e) ==
  /\ pc = "streaming" /\ ~parser.ended /\ Len(said) < MaxEvents /\ MaySay(e)
  /\ LET r == IF Api = "anthropic" THEN Anthropic(parser, e) ELSE OpenAI(parser, e) IN
       /\ said' = Append(said, e) /\ parser' = r.p
       /\ Step(Absorbed(Here, r.evs), FALSE)

(* The body ends, or [DONE] ended the reading of it.                       *)
BodyEnds ==
  /\ pc = "streaming"
  /\ Step(Absorbed(Here, IF Api = "anthropic" THEN AnthropicEnd(parser)
                         ELSE OpenAIEnd(parser)), TRUE)
  /\ UNCHANGED <<said, parser>>

(* Reading the body fails, or an event is larger than the reader allows.   *)
ReadFails ==
  /\ pc = "streaming" /\ ~parser.ended
  /\ Step(Absorb(Here, Error), TRUE)
  /\ said' = Append(said, [type |-> "lost", index |-> 0])
  /\ UNCHANGED parser

(* announceAndWait: the wait ends, or the cancel ends it.                  *)
TryAgain ==
  /\ pc = "waiting"
  /\ IF canceled THEN pc' = "canceled" /\ UNCHANGED attempt
     ELSE pc' = "sending" /\ attempt' = attempt + 1
  /\ UNCHANGED <<said, parser, blocks, begun, completed, record, canceled, shown>>

Cancel ==
  /\ pc \notin Ends /\ ~canceled /\ canceled' = TRUE
  /\ UNCHANGED <<pc, attempt, said, parser, blocks, begun, completed, record, shown>>

Ended == pc \in Ends /\ UNCHANGED vars

ProviderNext ==
  \/ \E r \in Refusals : RequestFails(r)
  \/ StreamOpens
  \/ \E e \in ServerEvents : Says(e)
  \/ BodyEnds \/ ReadFails \/ TryAgain \/ Cancel \/ Ended

ProviderSpec == ProviderInit /\ [][ProviderNext]_vars
-----------------------------------------------------------------------------
(* What the server said, read without the client's machinery.              *)

AnthropicSaid(i) ==
  LET at(t) == {n \in DOMAIN said : said[n].type = t /\ said[n].index = i}
      first == IF at("block_start") = {} THEN Len(said) + 1 ELSE Least(at("block_start"))
      stops == {n \in at("block_stop") : n > first}
      last  == IF stops = {} THEN Len(said) + 1 ELSE Least(stops)
  IN  [kind |-> IF first > Len(said) THEN "none" ELSE said[first].kind,
       body |-> Cardinality({n \in at("block_delta") : first < n /\ n < last}),
       done |-> stops # {}, open |-> first <= Len(said) /\ stops = {}, id |-> TRUE]

OpenAISaid(i) ==
  LET chunks == {n \in DOMAIN said : said[n].type = "tool" /\ said[n].index = i}
      with(P(_)) == {n \in chunks : P(said[n].chunk)}
  IN  [named |-> with(LAMBDA c : c.name) # {},
       id    |-> with(LAMBDA c : c.id) # {},
       begun |-> with(LAMBDA c : c.name \/ c.args # "none") # {},
       body  |-> Cardinality(with(LAMBDA c : c.args = "some"))]

Many(t) == Cardinality({n \in DOMAIN said : said[n].type = t})

Lost == Many("lost") + Many("error") > 0

ServerFinished == Many("message_stop") + Many("finish") + Many("done") > 0

(* The calls a stream that stopped early still runs: anthropic's are those *)
(* completed below every block still open, openai's all of them, if the    *)
(* body ended and was not lost.                                            *)
CallDue(i) ==
  IF Api = "anthropic"
  THEN /\ AnthropicSaid(i).kind = "tool" /\ AnthropicSaid(i).done
       /\ completed \/ \A j \in Indices : j < i => ~AnthropicSaid(j).open
  ELSE OpenAISaid(i).begun /\ (completed \/ ~Lost)

TextDue ==
  IF Api = "anthropic"
  THEN [i \in {j \in Indices : AnthropicSaid(j).kind = "text" /\ AnthropicSaid(j).body > 0}
          |-> AnthropicSaid(i).body]
  ELSE [k \in (IF Many("reasoning") > 0 THEN {ReasoningKey} ELSE {})
                \cup (IF Many("content") > 0 THEN {TextKey} ELSE {})
          |-> IF k = TextKey THEN Many("content") ELSE Many("reasoning")]

Due == DOMAIN TextDue \cup {i \in Indices : CallDue(i)}

(* Whatever ends a step that showed anything, the record it leaves is what *)
(* the server said: every text and every call due, each once, whole, under *)
(* the server's id and in the order the protocol gives them (not the order *)
(* the fragments or the closings came in); and calls ran in that order.    *)
RecordIsTheAnswer ==
  pc \in {"landed", "cut"} =>
    /\ [n \in DOMAIN record |-> record[n].key] = Ascending(Due)
    /\ \A n \in DOMAIN record :
         LET k == record[n].key IN
         IF k \in DOMAIN TextDue THEN record[n].body = TextDue[k]
         ELSE /\ record[n].body = (IF Api = "anthropic" THEN AnthropicSaid(k) ELSE OpenAISaid(k)).body
              /\ record[n].id <=> (IF Api = "anthropic" THEN AnthropicSaid(k) ELSE OpenAISaid(k)).id
    /\ begun = Ascending({i \in Indices : CallDue(i)})

(* A step is a finished answer exactly when the server said it had         *)
(* finished; whatever stops a stream before that is never taken for it.    *)
CutIsNoAnswer ==
  /\ pc = "landed" => ServerFinished
  /\ pc = "cut" => ~ServerFinished \/ (Api = "openai" /\ Lost)

(* A request is sent again only while nothing of it was shown, and at most *)
(* MaxRetries times: the user never sees two attempts' words as one.       *)
OneAttemptShows ==
  /\ \A a \in shown : a = attempt
  /\ attempt <= MaxRetries + 1

(* A call runs under the id the server gave it, whichever chunk carried    *)
(* the id (openai.go: "some servers send the call ID in a chunk that       *)
(* carries no name").                                                      *)
IdentityKept ==
  \A n \in DOMAIN blocks : blocks[n].call => (blocks[n].id <=> OpenAISaid(blocks[n].key).id)
=============================================================================
