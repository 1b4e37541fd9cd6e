------------------------------ MODULE Request ------------------------------
(***************************************************************************)
(* What a model is sent: the history of a session, fitted to what the      *)
(* model takes and written in the message format of either API.            *)
(*                                                                         *)
(* The history grows as sessions let it: words and attachments of the      *)
(* user, steps of the model with their calls answered in order, steps that *)
(* were cut.  Words are left out; a medium is what it is, where it is, and *)
(* for an image whether this client can bring it to a size an API takes.   *)
(***************************************************************************)
EXTENDS Naturals, Sequences, FiniteSets

CONSTANTS
  Api,       (* "anthropic" or "openai"                                    *)
  Media,     (* the media users attach and tools return                    *)
  MaxParts   (* bound: parts of the history                                *)

VARIABLES
  history,   (* the parts, in order                                        *)
  declared   (* input_modalities of the model, or {"all"}: not declared    *)

vars == <<history, declared>>

(* A medium is [is, kind, uri, fit]: fit is "fits", "large" or "odd" (no   *)
(* size to be read) for an image that is here, "fits" for everything else. *)
Text == [is |-> "text"]

(* A text standing in for a medium, saying or not that it was not given.   *)
Note == [is |-> "note"]
Label == [is |-> "label"]

Part(role, is, call, body) == [role |-> role, is |-> is, call |-> call, body |-> body]

-----------------------------------------------------------------------------
(* Fitting.                                                                *)

ParseDataURI(m) == m.uri = "data"
FetchableMediaURI(m) == m.uri \in {"data", "http"}

ImageSendable(m) == m.kind = "image" /\ ParseDataURI(m) => m.fit = "fits"

FitPart_Sent(m, noteUnfit) ==
  IF m.is = "medium" /\ m.kind = "image" /\ m.fit = "large" THEN [m EXCEPT !.fit = "fits"] ELSE m

FitPart(m, noteUnfit) ==
  IF m.is # "medium" \/ ImageSendable(m) THEN m
  ELSE IF m.fit = "large" THEN [m EXCEPT !.fit = "fits"]
  ELSE IF noteUnfit THEN Note ELSE m

DegradeUndeclared(m, allowed) ==
  IF m.is = "medium" /\ "all" \notin allowed /\ m.kind \notin allowed THEN Note ELSE m

(* Both walk the parts and the outputs nested in a tool result.            *)
FitImages(parts, noteUnfit) ==
  [i \in DOMAIN parts |->
     [parts[i] EXCEPT !.body = [j \in DOMAIN @ |-> FitPart(@[j], noteUnfit)]]]

ShrinkImages(parts) == FitImages(parts, FALSE)
FitImagesForSend(parts) == FitImages(parts, TRUE)

FitInputModalities(parts) ==
  [i \in DOMAIN parts |->
     [parts[i] EXCEPT !.body = [j \in DOMAIN @ |-> DegradeUndeclared(@[j], declared)]]]

-----------------------------------------------------------------------------
(* Grouping: runs of parts with the same role (the same wire role).        *)

AnthropicRole(role) == IF role = "tool" THEN "user" ELSE role

WireRole_Own(role) == role

WireRole(role) == IF Api = "anthropic" THEN AnthropicRole(role) ELSE role

RECURSIVE Groups(_)
Groups(parts) ==
  IF parts = <<>> THEN <<>>
  ELSE LET role == WireRole(Head(parts).role)
           run == CHOOSE n \in 1..Len(parts) :
                    /\ \A i \in 1..n : WireRole(parts[i].role) = role
                    /\ n < Len(parts) => WireRole(parts[n + 1].role) # role
       IN  <<SubSeq(parts, 1, run)>> \o Groups(SubSeq(parts, run + 1, Len(parts)))

RECURSIVE Joined(_)
Joined(seqs) == IF seqs = <<>> THEN <<>> ELSE Head(seqs) \o Joined(Tail(seqs))

Message(role, body, calls, answers, reasoning) ==
  [role |-> role, body |-> body, calls |-> calls, answers |-> answers,
   reasoning |-> reasoning]

Calls(group) ==
  LET own == SelectSeq(group, LAMBDA p : p.is = "call")
  IN  [i \in DOMAIN own |-> own[i].call]
Reasoning(group) == \E i \in DOMAIN group : group[i].is = "reasoning"
Bodies(group) == Joined([i \in DOMAIN group |-> group[i].body])

-----------------------------------------------------------------------------
(* Anthropic: a message is a list of blocks.                               *)

AnthropicPartToBlock(m) ==
  IF m.is # "medium" THEN m
  ELSE IF m.kind \in {"audio", "video"} \/ ~FetchableMediaURI(m) THEN Note
  ELSE m

AnthropicConvertContents(parts) ==
  LET groups == Groups(parts)
      results(g) == SelectSeq(g, LAMBDA p : p.is = "result")
  IN [n \in DOMAIN groups |->
        LET g == groups[n] body == Bodies(g) IN
        Message(AnthropicRole(g[1].role), [i \in DOMAIN body |-> AnthropicPartToBlock(body[i])],
                Calls(g), [i \in DOMAIN results(g) |-> results(g)[i].call], Reasoning(g))]

-----------------------------------------------------------------------------
(* OpenAI: text is text, calls are a field of their own, every result is a *)
(* message of its own that carries only text, and its media follow in one  *)
(* user message after all of them.                                         *)

(* Whether the format has a block for the medium.                          *)
Native(m) ==
  \/ m.kind \in {"image", "video"}
  \/ m.kind = "audio" /\ ParseDataURI(m)

Promotable(m) == m.is = "medium" /\ Native(m) /\ FetchableMediaURI(m)

InResult_Pointer(m) == IF m.is # "medium" THEN m ELSE [is |-> "pointer"]

(* The text left in a result is a label only for what the next message     *)
(* brings; openaiConvertToolOutputs.                                       *)
InResult(m) ==
  IF m.is # "medium" THEN m ELSE IF Promotable(m) THEN [is |-> "pointer"] ELSE Note

RECURSIVE ToolMessages(_)
ToolMessages(group) ==
  IF group = <<>> THEN <<>>
  ELSE <<Message("tool", [i \in DOMAIN group[1].body |-> InResult(group[1].body[i])],
                 <<>>, <<group[1].call>>, FALSE)>> \o ToolMessages(Tail(group))

ToolOutputs(group) ==
  LET promoted == SelectSeq(Bodies(group), Promotable) IN
  ToolMessages(group)
    \o (IF promoted = <<>> THEN <<>>
        ELSE <<Message("user", promoted, <<>>, <<>>, FALSE)>>)

(* openaiConvertRegularContent: a medium with no block is said not to be   *)
(* delivered; one with a block that cannot be fetched is just named.       *)
Regular(m) ==
  IF m.is # "medium" \/ Promotable(m) THEN m ELSE IF Native(m) THEN Label ELSE Note

OpenAIConvertContents(parts) ==
  LET groups == Groups(parts)
      one(g) ==
        IF g[1].role = "tool" THEN ToolOutputs(g)
        ELSE LET body == Bodies(g) IN
             <<Message(g[1].role,
                       IF Calls(g) # <<>> THEN SelectSeq(body, LAMBDA m : m.is = "text")
                       ELSE [i \in DOMAIN body |-> Regular(body[i])],
                       Calls(g), <<>>, g[1].role = "assistant" /\ Reasoning(g))>>
  IN  Joined([n \in DOMAIN groups |-> one(groups[n])])

(* StreamMessages of either provider, after sendWithRetry's narrowing.     *)
Sent ==
  LET fitted == FitImagesForSend(FitInputModalities(history)) IN
  IF Api = "anthropic" THEN AnthropicConvertContents(fitted) ELSE OpenAIConvertContents(fitted)

-----------------------------------------------------------------------------
(* The session's history.                                                  *)

Modalities == {{"all"}, {}, {"image"}}

RequestInit == history = <<>> /\ declared \in Modalities

Add(parts) ==
  /\ Len(history) + Len(parts) <= MaxParts
  /\ history' = history \o ShrinkImages(parts)
  /\ UNCHANGED declared

(* A message of the user: attachments go before the words.                 *)
UserSays ==
  \/ Add(<<Part("user", "text", 0, <<Text>>)>>)
  \/ \E m \in Media : Add(<<Part("user", "medium", 0, <<m>>), Part("user", "text", 0, <<Text>>)>>)

Answered == history # <<>> /\ history[Len(history)].role # "assistant"

Spoken(reasoning, text) ==
  (IF reasoning THEN <<Part("assistant", "reasoning", 0, <<>>)>> ELSE <<>>)
    \o (IF text THEN <<Part("assistant", "text", 0, <<Text>>)>> ELSE <<>>)

(* A step that spoke, or was cut while it did; a step that called tools.   *)
ModelSpeaks ==
  /\ Answered
  /\ \E r, t \in BOOLEAN : (r \/ t) /\ Add(Spoken(r, t))

Results == {<<Text>>} \cup {<<Text, m>> : m \in Media}

ModelCalls ==
  /\ Answered
  /\ \E r, t \in BOOLEAN, n \in 1..2, out \in Results :
       LET id(k) == Len(history) * 2 + k
           calls == [k \in 1..n |-> Part("assistant", "call", id(k), <<>>)]
           answers == [k \in 1..n |-> Part("tool", "result", id(k), IF k = 1 THEN out ELSE <<Text>>)]
       IN  Add(Spoken(r, t) \o calls \o answers)

RequestNext == UserSays \/ ModelSpeaks \/ ModelCalls
-----------------------------------------------------------------------------
(* What every request must be.                                             *)

(* What an API refuses a whole request for, and with it every later        *)
(* request of the session: a call whose answers do not come next and in    *)
(* order (OpenAI: in messages of their own before any other role;          *)
(* Anthropic: in the next user message, before its words), two messages of *)
(* one role in a row (Anthropic), an assistant message with nothing in it. *)
WellFormed ==
  LET msgs == Sent IN
  \A n \in DOMAIN msgs :
    LET k == Len(msgs[n].calls) IN
    /\ msgs[n].role = "assistant" => msgs[n].calls # <<>> \/ msgs[n].body # <<>> \/ msgs[n].reasoning
    /\ k > 0 =>
         IF Api = "anthropic" THEN msgs[n + 1].answers = msgs[n].calls
         ELSE /\ n + k <= Len(msgs)
              /\ \A j \in 1..k : msgs[n + j].role = "tool" /\ msgs[n + j].answers = <<msgs[n].calls[j]>>
    /\ Api = "anthropic" /\ n > 1 => msgs[n].role # msgs[n - 1].role
    /\ msgs[n].role = "tool" => msgs[n - 1].role \in {"assistant", "tool"}

(* Nothing an endpoint would reject leaves: no image past the size, none   *)
(* whose size is unknown, no medium it cannot fetch, none the model does   *)
(* not declare.  (One of them would fail this and every later request.)    *)
NothingRejected ==
  LET msgs == Sent IN
  \A n \in DOMAIN msgs : \A i \in DOMAIN msgs[n].body :
    LET m == msgs[n].body[i] IN
    m.is = "medium" => /\ ImageSendable(m) /\ FetchableMediaURI(m)
                       /\ Api = "anthropic" => m.kind \in {"image", "document"}
                       /\ Api = "openai" => Native(m)
                       /\ "all" \in declared \/ m.kind \in declared

Bits(parts, kinds) ==
  Cardinality(UNION {{<<n, i>> : i \in {j \in DOMAIN parts[n].body : parts[n].body[j].is \in kinds}} :
                       n \in DOMAIN parts})

(* Every medium of the history is in the request: delivered, or told of.   *)
NothingSwallowed ==
  Bits(history, {"medium"}) = Bits(Sent, {"medium", "note", "label"})
=============================================================================
