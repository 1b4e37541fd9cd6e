------------------------------ MODULE KeyInput ------------------------------
(* The terminal adapter's input loop (internal/adapters/terminal:            *)
(* key_parser.go, program_keys.go, exec.go): bytes read at boundaries nobody *)
(* chose become keys, pastes and focus reports, and the loop parks while a   *)
(* child process owns the terminal.                                          *)
(* Bytes are one-letter strings: "E" ESC, "u" and "v" the leads of a two-    *)
(* and a three-byte character, "c" a continuation byte, "b" BEL, "z" Ctrl-Z, *)
(* "q" Ctrl-Q; "s" and "e" stand for the digits that tell the two paste      *)
(* markers apart, and every other letter for itself.                         *)
EXTENDS Integers, Sequences, SequencesExt, FiniteSets, TLC

CONSTANTS Tokens,      \* what the user types and the terminal answers, names of Bytes
          MaxTokens,   \* bound on the tokens of a run
          ReadSize,    \* bytes one read returns at most (inputReadSize)
          InputCap     \* capacity of Program.inputMsgs

VARIABLES
    sent,        \* tokens so far
    quiet,       \* the user is waiting: nothing is typed until the silence timeout
    wire,        \* bytes in the terminal's input queue
    owed,        \* messages of the tokens sent to this program, not yet said
    wrong,       \* the loop has said something nobody typed
    chordCut,    \* a read has ended inside a character that an ESC precedes
    pending, inPaste, paste,   \* KeyParser
    out,         \* messages of the last read still to deliver
    inputMsgs,   \* Program.inputMsgs
    pc,          \* where the input loop is
    inputPaused, parkedCh, resumeCh,   \* the park protocol
    lateAck,     \* what the last handoff took for its answer came after its pause was over
    loop,        \* where the event loop is
    ctxDone

parser == <<pending, inPaste, paste>>
park == <<inputPaused, parkedCh, resumeCh, lateAck>>
heard == <<owed, wrong, chordCut>>
vars == <<sent, quiet, wire, heard, parser, out, inputMsgs, pc, park, loop, ctxDone>>

(***************************************************************************)
(* Messages.                                                               *)
(***************************************************************************)
Key(code, mod) == <<"key", code, mod>>
Paste(text) == <<"paste", text, {}>>
Focus(gained) == <<"focus", gained, {}>>
Replacement == "?"
NoKey == <<>>

(***************************************************************************)
(* Characters.                                                             *)
(***************************************************************************)
Owed(lead) == CASE lead = "u" -> 1 [] lead = "v" -> 2 [] OTHER -> 0

\* The bytes an ill-formed lead takes with it.
IllFormedRun(s) ==
    1 + Cardinality({k \in 1 .. Owed(s[1]) : k < Len(s) /\ \A j \in 2 .. k + 1 : s[j] = "c"})

WellFormed(s) == s[1] # "c" /\ IllFormedRun(s) = 1 + Owed(s[1])
FullRune(s) == \/ s[1] = "c" \/ WellFormed(s) \/ Len(s) > IllFormedRun(s)

Rune(s) == CASE s[1] = "u" -> "u-umlaut" [] s[1] = "v" -> "han" [] OTHER -> s[1]

SanitizeUTF8(s) ==
    LET f[i \in 1 .. Len(s) + 1] ==
            IF i > Len(s) THEN <<>>
            ELSE LET tail == SubSeq(s, i, Len(s))
                 IN  <<IF WellFormed(tail) THEN Rune(tail) ELSE Replacement>> \o f[i + IllFormedRun(tail)]
    IN  f[1]

C0 == {"z", "q"}
DecodeC0(b) == Key(b, {"ctrl"})

\* A non-ESC head: the key and its length, length 0 for a character still arriving.
DecodePrintable(data) ==
    IF data[1] \in C0 THEN [key |-> DecodeC0(data[1]), n |-> 1]
    ELSE IF ~FullRune(data) THEN [key |-> NoKey, n |-> 0]
    ELSE [key |-> Key(IF WellFormed(data) THEN Rune(data) ELSE Replacement, {}),
          n |-> IllFormedRun(data)]

(***************************************************************************)
(* Escape sequences.  Measure gives the length of the sequence data begins  *)
(* with, 0 while it is incomplete.                                         *)
(***************************************************************************)
Final == {"A", "M", "I", "O", "P", "Z", "a", "~", "]", "[", "\\"}
StringHeads == {"]", "P"}
PasteStart == <<"E", "[", "2", "s", "~">>
PasteEnd == <<"E", "[", "2", "e", "~">>

FirstOf(S) == IF S = {} THEN 0 ELSE CHOOSE i \in S : \A j \in S : i <= j

\* The first position of a final byte after the introducer.
ConsumeCSI(data) == FirstOf({i \in 3 .. Len(data) : data[i] \in Final})

ConsumeX10(data) ==
    CASE Len(data) >= 3 /\ data[3] = "M" /\ Len(data) >= 6 -> 6
      [] Len(data) >= 3 /\ data[3] = "M" -> 0
      [] OTHER -> ConsumeCSI(data)

\* BEL ends an OSC, ST any of them.
ConsumeStringControl(data) ==
    FirstOf({i \in 3 .. Len(data) :
        \/ data[2] = "]" /\ data[i] = "b"
        \/ i >= 4 /\ data[i - 1] = "E" /\ data[i] = "\\"})

RECURSIVE ConsumeEscape(_)
ConsumeEscape(data) ==
    IF Len(data) = 1 THEN 0
    ELSE CASE data[2] = "[" -> ConsumeX10(data)
           [] data[2] = "O" -> ConsumeCSI(data)
           [] data[2] \in StringHeads -> ConsumeStringControl(data)
           [] data[2] = "E" /\ Len(data) = 2 -> 0
           [] data[2] = "E" /\ Len(data) > 2 ->
                LET n == ConsumeEscape(Tail(data)) IN IF n = 0 THEN 0 ELSE n + 1
           [] OTHER -> 1 + (IF WellFormed(Tail(data)) THEN IllFormedRun(Tail(data)) ELSE 1)

(***************************************************************************)
(* What a complete sequence means; NoKey for one this program has no key    *)
(* for.                                                                    *)
(***************************************************************************)
Digit == "0" :> 0 @@ "1" :> 1 @@ "2" :> 2 @@ "4" :> 4

\* The numbers of "1;2", a stray byte ending the list.
ParseParams(s) ==
    LET digits == SelectSeq(s, LAMBDA b : b # ";")
    IN  IF \E i \in DOMAIN digits : digits[i] \notin DOMAIN Digit THEN <<>>
        ELSE [i \in DOMAIN digits |-> Digit[digits[i]]]

XtermMod(n) == {m \in {<<1, "shift">>, <<2, "alt">>, <<4, "ctrl">>} : ((n - 1) \div m[1]) % 2 = 1}
Mods(nums) == IF Len(nums) > 1 THEN {m[2] : m \in XtermMod(nums[2])} ELSE {}

FuncKeys == "A" :> "up" @@ "P" :> "f1"
TildeKeys == 2 :> "insert"
SS3Keys == "A" :> Key("up", {}) @@ "M" :> Key("enter", {}) @@ "a" :> Key("up", {"ctrl"})

ParseCSI(seq) ==
    LET final == Last(seq)
        nums  == ParseParams(SubSeq(seq, 3, Len(seq) - 1))
    IN  CASE Len(seq) = 3 /\ final = "a" -> Key("up", {"shift"})
          [] final = "Z" -> Key("tab", {"shift"} \cup Mods(nums))
          [] final = "~" /\ nums # <<>> /\ nums[1] \in DOMAIN TildeKeys -> Key(TildeKeys[nums[1]], Mods(nums))
          [] final \in DOMAIN FuncKeys -> Key(FuncKeys[final], Mods(nums))
          [] OTHER -> NoKey

ParseSS3(seq) ==
    LET params == SubSeq(seq, 3, Len(seq) - 1)
        key    == IF Last(seq) \in DOMAIN SS3Keys THEN SS3Keys[Last(seq)] ELSE NoKey
    IN  IF key = NoKey \/ params = <<>> THEN key
        ELSE IF Len(ParseParams(params)) > 1 THEN Key(key[2], Mods(ParseParams(params))) ELSE NoKey

RECURSIVE EscapeKey(_)
EscapeKey(seq) ==
    LET inner == Tail(seq)
    IN  CASE inner = <<>> -> Key("esc", {})
          [] Len(seq) = 6 /\ seq[3] = "M" -> NoKey
          [] Len(seq) > 1 /\ inner[1] = "E" ->
                LET k == EscapeKey(inner)
                IN  IF k = NoKey \/ k[2] = "esc" THEN k ELSE Key(k[2], k[3] \cup {"alt"})
          [] Len(inner) > 1 /\ inner[1] = "[" -> ParseCSI(seq)
          [] Len(inner) > 1 /\ inner[1] = "O" -> ParseSS3(seq)
          [] Len(inner) > 1 /\ inner[1] \in StringHeads -> NoKey
          [] inner # <<>> /\ inner[1] \in C0 -> Key(inner[1], {"ctrl", "alt"})
          [] OTHER -> Key(IF WellFormed(inner) THEN Rune(inner) ELSE Replacement, {"alt"})

(***************************************************************************)
(* Parse: the messages of data and the parser it leaves.                    *)
(***************************************************************************)
PasteTailHold_None(data) == 0
PasteTailHold(data) ==
    LET heads == {k \in 0 .. Len(PasteEnd) - 1 :
                    k <= Len(data) /\ SubSeq(data, Len(data) - k + 1, Len(data)) = SubSeq(PasteEnd, 1, k)}
    IN  CHOOSE k \in heads : \A j \in heads : j <= k

MarkerAt(data) == FirstOf({i \in 1 .. Len(data) - 4 : SubSeq(data, i, i + 4) = PasteEnd})

Parser(p, in, text) == [pending |-> p, inPaste |-> in, paste |-> text]
Drop(data, n) == SubSeq(data, n + 1, Len(data))

RECURSIVE Parse(_, _, _)
Parse(msgs, data, p) ==
    LET result(state) == [msgs |-> msgs, parser |-> state]
    IN  IF data = <<>> THEN result(p)
        ELSE IF p.inPaste THEN
            LET i == MarkerAt(data)
                hold == PasteTailHold(data)
                text == p.paste \o SubSeq(data, 1, Len(data) - hold)
            IN  IF i > 0
                THEN Parse(Append(msgs, Paste(SanitizeUTF8(p.paste \o SubSeq(data, 1, i - 1)))),
                           Drop(data, i + 4), Parser(<<>>, FALSE, <<>>))
                ELSE result(Parser(Drop(data, Len(data) - hold), TRUE, text))
        ELSE IF data[1] # "E" THEN
            LET d == DecodePrintable(data)
            IN  IF d.n = 0 THEN result(Parser(data, FALSE, <<>>))
                ELSE Parse(Append(msgs, d.key), Drop(data, d.n), p)
        ELSE
            LET n == ConsumeEscape(data)
                seq == SubSeq(data, 1, n)
                rest == Drop(data, n)
            IN  CASE n = 0 -> result(Parser(data, FALSE, <<>>))
                  [] n > 0 /\ seq = PasteStart -> Parse(msgs, rest, Parser(<<>>, TRUE, <<>>))
                  [] n > 0 /\ seq = <<"E", "[", "I">> -> Parse(Append(msgs, Focus("gained")), rest, p)
                  [] n > 0 /\ seq = <<"E", "[", "O">> -> Parse(Append(msgs, Focus("lost")), rest, p)
                  [] OTHER -> Parse(IF EscapeKey(seq) = NoKey THEN msgs ELSE Append(msgs, EscapeKey(seq)),
                                    rest, p)

MidSequence == inPaste \/ pending # <<>>

\* Silence resolves what is unfinished: a paste is over, ESC bytes are Escape keys.
Flush ==
    CASE inPaste -> IF paste = <<>> THEN <<>> ELSE <<Paste(SanitizeUTF8(paste))>>
      [] ~inPaste /\ \A i \in DOMAIN pending : pending[i] = "E" ->
            [i \in DOMAIN pending |-> Key("esc", {})]
      [] OTHER -> <<>>

SetParser(p) == /\ pending' = p.pending /\ inPaste' = p.inPaste /\ paste' = p.paste

(***************************************************************************)
(* What a token puts on the wire, and the messages a reader of the whole of *)
(* it expects.  Silence follows the tokens of Unfinished: an Escape press,  *)
(* or a transfer that broke off.                                           *)
(***************************************************************************)
Bytes ==
    "a" :> <<"a">> @@ "z" :> <<"z">> @@ "q" :> <<"q">> @@ "up" :> <<"E", "[", "A">>
    @@ "shift+up" :> <<"E", "[", "1", ";", "2", "A">> @@ "insert" :> <<"E", "[", "2", "~">>
    @@ "enter" :> <<"E", "O", "M">> @@ "alt" :> <<"E", "a">> @@ "alt+up" :> <<"E", "E", "[", "A">>
    @@ "focus" :> <<"E", "[", "I">> @@ "han" :> <<"v", "c", "c">> @@ "bad" :> <<"v", "c", "a">>
    @@ "mouse" :> <<"E", "[", "M", "a", "b", "A">> @@ "osc" :> <<"E", "]", "a", "b">>
    @@ "dcs" :> <<"E", "P", "b", "a", "E", "\\">>
    @@ "paste" :> PasteStart \o <<"a", "E", "[", "2", "z">> \o PasteEnd
    @@ "esc" :> <<"E">> @@ "escesc" :> <<"E", "E">> @@ "half" :> <<"v", "c">>
    @@ "cutosc" :> <<"E", "]", "a">> @@ "cutpaste" :> PasteStart \o <<"u", "a", "E", "[">>
    @@ "alt+han" :> <<"E", "v", "c", "c">>

Unfinished == {"esc", "escesc", "half", "cutosc", "cutpaste"}
Meaning ==
    "a" :> <<Key("a", {})>> @@ "z" :> <<DecodeC0("z")>> @@ "q" :> <<DecodeC0("q")>>
    @@ "up" :> <<Key("up", {})>> @@ "shift+up" :> <<Key("up", {"shift"})>>
    @@ "insert" :> <<Key("insert", {})>> @@ "enter" :> <<Key("enter", {})>>
    @@ "alt" :> <<Key("a", {"alt"})>> @@ "alt+up" :> <<Key("up", {"alt"})>>
    @@ "focus" :> <<Focus("gained")>> @@ "han" :> <<Key("han", {})>>
    @@ "bad" :> <<Key(Replacement, {}), Key("a", {})>>
    @@ "mouse" :> <<>> @@ "osc" :> <<>> @@ "dcs" :> <<>>
    @@ "paste" :> <<Paste(<<"a", "E", "[", "2", "z">>)>>
    @@ "esc" :> <<Key("esc", {})>> @@ "escesc" :> <<Key("esc", {}), Key("esc", {})>>
    @@ "half" :> <<>> @@ "cutosc" :> <<>> @@ "cutpaste" :> <<Paste(<<Replacement, "a">>)>>
    @@ "alt+han" :> <<Key("han", {"alt"})>>

\* An acknowledgement in parkedCh, with a note whether its pause was still on.
NoAck == ""

Init ==
    /\ sent = 0 /\ quiet = FALSE /\ wire = <<>> /\ owed = <<>> /\ wrong = FALSE /\ chordCut = FALSE
    /\ pending = <<>> /\ inPaste = FALSE /\ paste = <<>>
    /\ out = <<>> /\ inputMsgs = <<>> /\ pc = "check"
    /\ inputPaused = FALSE /\ parkedCh = NoAck /\ resumeCh = FALSE /\ lateAck = FALSE
    /\ loop = "running" /\ ctxDone = FALSE

\* A token is typed; the child takes it when the terminal is the child's.
Send ==
    /\ sent < MaxTokens /\ ~quiet /\ loop \in {"running", "child"}
    /\ \E k \in Tokens :
        \/ /\ loop = "running"
           /\ wire' = wire \o Bytes[k] /\ owed' = owed \o Meaning[k] /\ quiet' = (k \in Unfinished)
        \/ loop = "child" /\ UNCHANGED <<wire, owed, quiet>>
    /\ sent' = sent + 1
    /\ UNCHANGED <<wrong, chordCut, parser, out, inputMsgs, pc, park, loop, ctxDone>>

(***************************************************************************)
(* readKeys.  The flag is looked at between reads; the acknowledgement and  *)
(* the wait are steps of their own.                                        *)
(***************************************************************************)
Check ==
    /\ pc = "check"
    /\ pc' = IF inputPaused THEN "acking" ELSE "reading"
    /\ UNCHANGED <<sent, quiet, wire, heard, parser, out, inputMsgs, park, loop, ctxDone>>

Acknowledge ==
    /\ pc = "acking"
    /\ parkedCh' = IF parkedCh # NoAck THEN parkedCh ELSE IF inputPaused THEN "asked" ELSE "late"
    /\ pc' = "parked"
    /\ UNCHANGED <<sent, quiet, wire, heard, parser, out, inputMsgs, inputPaused, resumeCh, lateAck, loop, ctxDone>>

Woken_Trusts == "reading"
Woken == "check"

\* The wake is a hint: the flag is read again.
Wake ==
    /\ pc = "parked"
    /\ \/ resumeCh /\ resumeCh' = FALSE /\ pc' = Woken
       \/ ctxDone /\ pc' = "stopped" /\ UNCHANGED resumeCh
    /\ UNCHANGED <<sent, quiet, wire, heard, parser, out, inputMsgs, inputPaused, parkedCh, lateAck, loop, ctxDone>>

\* data ends inside a character that an ESC precedes, and the rest is to come.
CutsChord(data, rest) ==
    /\ rest # <<>> /\ rest[1] = "c"
    /\ \E i \in 1 .. Len(data) - 1 :
        data[i] = "E" /\ Owed(data[i + 1]) > 0 /\ ~FullRune(Drop(data, i))

\* next returned data: any number of the bytes that are there.
ReadData ==
    /\ pc = "reading"
    /\ \E n \in 1 .. ReadSize :
        /\ n <= Len(wire)
        /\ wire' = Drop(wire, n)
        /\ chordCut' = (chordCut \/ CutsChord(pending \o SubSeq(wire, 1, n), Drop(wire, n)))
        /\ LET r == Parse(<<>>, pending \o SubSeq(wire, 1, n), Parser(<<>>, inPaste, paste))
           IN  out' = r.msgs /\ SetParser(r.parser)
    /\ pc' = "deliver"
    /\ UNCHANGED <<sent, quiet, owed, wrong, inputMsgs, park, loop, ctxDone>>

\* next returned nothing; after escSequenceTimeout what is unfinished is resolved.
ReadNothing ==
    /\ pc = "reading" /\ wire = <<>>
    /\ \/ pc' = "check" /\ UNCHANGED <<parser, out, quiet>>
       \/ /\ MidSequence \/ quiet
          /\ out' = Flush /\ SetParser(Parser(<<>>, FALSE, <<>>))
          /\ quiet' = FALSE /\ pc' = "deliver"
    /\ UNCHANGED <<sent, wire, heard, inputMsgs, park, loop, ctxDone>>

\* What the event loop makes of a message.
Class(msg) == CASE msg = DecodeC0("z") -> "z" [] msg = DecodeC0("q") -> "q" [] OTHER -> "other"

Deliver ==
    /\ pc = "deliver"
    /\ \/ /\ out = <<>> /\ pc' = "check" /\ UNCHANGED <<out, owed, wrong, inputMsgs>>
       \/ /\ out # <<>> /\ Len(inputMsgs) < InputCap
          /\ inputMsgs' = Append(inputMsgs, Class(out[1]))
          /\ out' = Tail(out)
          /\ IF owed # <<>> /\ owed[1] = out[1]
             THEN owed' = Tail(owed) /\ UNCHANGED wrong
             ELSE wrong' = TRUE /\ UNCHANGED owed
          /\ UNCHANGED pc
       \/ /\ out # <<>> /\ ctxDone /\ pc' = "stopped" /\ UNCHANGED <<out, owed, wrong, inputMsgs>>
    /\ UNCHANGED <<sent, quiet, wire, chordCut, parser, park, loop, ctxDone>>

(***************************************************************************)
(* The event loop: Ctrl-Z hands the terminal over, Ctrl-Q ends the program. *)
(***************************************************************************)
Stuck == pc = "deliver" /\ out # <<>> /\ Len(inputMsgs) = InputCap /\ ~ctxDone

\* pauseKeys drops an acknowledgement of an earlier pause before it asks.
Take ==
    /\ loop = "running" /\ inputMsgs # <<>>
    /\ inputMsgs' = Tail(inputMsgs)
    /\ CASE Head(inputMsgs) = "z" -> loop' = "asking" /\ parkedCh' = NoAck /\ UNCHANGED ctxDone
         [] Head(inputMsgs) = "q" -> loop' = "stopping" /\ ctxDone' = TRUE /\ UNCHANGED parkedCh
         [] OTHER -> UNCHANGED <<loop, ctxDone, parkedCh>>
    /\ UNCHANGED <<sent, quiet, wire, heard, parser, out, pc, inputPaused, resumeCh, lateAck>>

PauseKeys ==
    /\ loop = "asking"
    /\ inputPaused' = TRUE /\ loop' = "pausing"
    /\ UNCHANGED <<sent, quiet, wire, heard, parser, out, inputMsgs, pc, parkedCh, resumeCh, lateAck, ctxDone>>

\* The loop has answered, or is stuck delivering and readLoopTimeout has passed.
HandOver ==
    /\ loop = "pausing"
    /\ \/ parkedCh # NoAck /\ parkedCh' = NoAck /\ lateAck' = (parkedCh = "late")
       \/ (pc = "stopped" \/ Stuck) /\ lateAck' = FALSE /\ UNCHANGED parkedCh
    /\ loop' \in {"child", "failed"}
    /\ UNCHANGED <<sent, quiet, wire, heard, parser, out, inputMsgs, pc, inputPaused, resumeCh, ctxDone>>

\* The child is done, or the release failed: acquireTerminal, resumeKeys.
ResumeKeys ==
    /\ loop \in {"child", "failed"}
    /\ inputPaused' = FALSE /\ loop' = "resuming"
    /\ UNCHANGED <<sent, quiet, wire, heard, parser, out, inputMsgs, pc, parkedCh, resumeCh, lateAck, ctxDone>>

Token_None == resumeCh
Token == TRUE

OfferToken ==
    /\ loop = "resuming"
    /\ resumeCh' = Token /\ loop' = "running"
    /\ UNCHANGED <<sent, quiet, wire, heard, parser, out, inputMsgs, pc, inputPaused, parkedCh, lateAck, ctxDone>>

StopKeys ==
    /\ loop = "stopping"
    /\ inputPaused' = TRUE /\ loop' = "leaving"
    /\ UNCHANGED <<sent, quiet, wire, heard, parser, out, inputMsgs, pc, parkedCh, resumeCh, lateAck, ctxDone>>

Leave ==
    /\ loop = "leaving" /\ (pc = "stopped" \/ Stuck)
    /\ loop' = "ended"
    /\ UNCHANGED <<sent, quiet, wire, heard, parser, out, inputMsgs, pc, park, ctxDone>>

Next ==
    \/ Send \/ Check \/ Acknowledge \/ Wake \/ ReadData \/ ReadNothing \/ Deliver
    \/ Take \/ PauseKeys \/ HandOver \/ ResumeKeys \/ OfferToken \/ StopKeys \/ Leave

Spec == Init /\ [][Next]_vars

(***************************************************************************)
(* Properties.                                                             *)
(***************************************************************************)

\* The program hears what was pressed and pasted and nothing else: no byte of
\* a reply, a report or a paste is typed, and once the terminal is silent
\* nothing is still held back ("the cut is meant to be invisible", readKeys).
CutsAreInvisible ==
    /\ ~wrong
    /\ (pc \in {"check", "reading"} /\ wire = <<>> /\ ~quiet) => owed = <<>> /\ ~MidSequence

\* That holds wherever the reads cut the stream (KeyParser.Parse and Flush),
\* but for the one cut that shows: consumeEscape resolves a chord of Alt and a
\* character of several bytes although the character is still arriving.
SaysWhatWasPressed == ~chordCut => CutsAreInvisible

\* While a child owns the terminal no read of the program's is in flight
\* (parkIfSuspended: "so when it returns, no read of ours is in flight").
NoReadInFlight == loop \in {"child", "failed"} => pc # "reading"

\* That holds although a token and an answer may be left over from a pause that
\* timed out (pauseKeys, the loop in parkIfSuspended), unless the answer is one
\* that a loop gave late: it saw the flag of that pause, and sent only after
\* resumeKeys had cleared it.  And nothing is read once the program has given
\* the terminal up for good (stopKeys).
TerminalIsTheChilds ==
    /\ ~lateAck => NoReadInFlight
    /\ loop = "ended" => pc # "reading"

\* A loop that waits parked after the terminal is back has a wake token, or is
\* about to get one: no keyboard is lost to a handoff (resumeKeys).
NoLostWake == (pc = "parked" /\ ~inputPaused) => (resumeCh \/ loop = "resuming")
=============================================================================
