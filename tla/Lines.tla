------------------------------- MODULE Lines -------------------------------
(***************************************************************************)
(* A byte stream cut into lines, and lines read as frames: lines.Splitter  *)
(* and lines.Reader (internal/lines), wire.Encode, wire.Decode, and the    *)
(* two ways a stream is read: pushed, by an adapter's wire.Decoder, in the *)
(* pieces the session wrote; pulled, by wire.Reader in the session's input *)
(* pump or, without frames, by the MCP transports and the SSE reader.      *)
(*                                                                         *)
(* A byte is one of five kinds; a letter stands for either letter of a     *)
(* tag.  The peer writes frames through Encode or any piece of RawPieces.  *)
(***************************************************************************)
EXTENDS Naturals, Sequences, FiniteSets

CONSTANTS Limit,        \* the longest line, its terminator included
          Chunk,        \* the most bytes one read returns
          MaxBytes      \* bound: the bytes of a stream

VARIABLES sent,    \* every byte the peer wrote
          raw,     \* the peer wrote something Encode did not make
          open,    \* the peer has not closed the stream
          mode,    \* how the stream is read: pushed, or pulled as frames (RequireTerminator) or as lines
          d        \* the reading side: what it took, its buffer, what it handed over, its error
vars == <<sent, raw, open, mode, d>>

Bytes == {"letter", "brace", "other", "cr", "lf"}
Tag == <<"letter", "letter">>
Values == {<<>>, <<"brace">>, <<"brace", "other">>, <<"brace", "cr">>, <<"brace", "lf">>, <<"other">>}
RawPieces == {<<"lf">>, <<"cr">>, <<"cr", "lf">>, <<"letter">>, <<"other", "lf">>, Tag \o <<"brace">>, Tag \o <<"cr", "cr", "lf">>}

----------------------------------------------------------------------------
(* Frames *)
CheckValueShape(value) == value # <<>> => value[1] = "brace"
RawLineBreak(value) == \E i \in DOMAIN value : value[i] \in {"cr", "lf"}
FitsInFrame(n) == n <= Limit
Encodes(value) == CheckValueShape(value) /\ ~RawLineBreak(value) /\ FitsInFrame(Len(Tag) + Len(value) + 1)
Encode(value) == Tag \o value \o <<"lf">>

WithoutCR(line) == IF line # <<>> /\ line[Len(line)] = "cr" THEN SubSeq(line, 1, Len(line) - 1) ELSE line
\* A frame, or <<"bad">>.
Decode(line) ==
    LET l == WithoutCR(line)
        ok == /\ Len(l) >= 2 /\ l[1] = "letter" /\ l[2] = "letter"
              /\ CheckValueShape(SubSeq(l, 3, Len(l)))
    IN IF ok THEN l ELSE <<"bad">>

----------------------------------------------------------------------------
(* The splitter: the next line of the buffer, or why there is none *)
LineEnds(buf) == {i \in DOMAIN buf : buf[i] = "lf"}
FirstEnd(buf) == CHOOSE i \in LineEnds(buf) : \A j \in LineEnds(buf) : i <= j
NextLine_Skips(buf) ==
    IF LineEnds(buf) = {}
    THEN [what |-> "incomplete", line |-> <<>>, rest |-> IF Len(buf) >= Limit THEN <<>> ELSE buf]
    ELSE [what |-> "line", line |-> WithoutCR(SubSeq(buf, 1, FirstEnd(buf) - 1)),
          rest |-> SubSeq(buf, FirstEnd(buf) + 1, Len(buf))]
NextLine(buf) ==
    IF LineEnds(buf) = {}
    THEN [what |-> IF Len(buf) >= Limit THEN "long" ELSE "incomplete", line |-> <<>>, rest |-> buf]
    ELSE IF FirstEnd(buf) > Limit THEN [what |-> "long", line |-> <<>>, rest |-> buf]
    ELSE [what |-> "line", line |-> WithoutCR(SubSeq(buf, 1, FirstEnd(buf) - 1)),
          rest |-> SubSeq(buf, FirstEnd(buf) + 1, Len(buf))]

\* One call of Decoder.Next, or of ReadLine and Decode: a frame more, or an error that stays.
Taken(r, n, decoded) ==
    IF decoded = <<"bad">> THEN [r EXCEPT !.buf = n.rest, !.err = "bad"]
    ELSE [r EXCEPT !.buf = n.rest, !.got = Append(@, decoded)]
\* processBuffer of an adapter: Next until the bytes run out or a line is refused.
RECURSIVE ProcessBuffer(_)
ProcessBuffer(r) ==
    LET n == NextLine(r.buf)
    IN CASE r.err # "none" \/ n.what = "incomplete" -> r
         [] n.what = "long" -> [r EXCEPT !.err = "long"]
         [] OTHER -> ProcessBuffer(Taken(r, n, Decode(n.line)))

----------------------------------------------------------------------------
LinesInit ==
    /\ sent = <<>> /\ raw = FALSE /\ open = TRUE
    /\ mode \in {"push", "frames", "lines"}
    /\ d = [at |-> 0, buf |-> <<>>, got |-> <<>>, err |-> "none"]

Put(piece) == /\ open /\ Len(sent) + Len(piece) <= MaxBytes
              /\ sent' = sent \o piece
              /\ UNCHANGED <<open, mode, d>>
WriteFrame(value) == Encodes(value) /\ Put(Encode(value)) /\ UNCHANGED raw
WriteRaw(piece) == Put(piece) /\ raw' = TRUE
CloseStream == open /\ open' = FALSE /\ UNCHANGED <<sent, raw, mode, d>>

Fed(n) == [d EXCEPT !.at = @ + n, !.buf = @ \o SubSeq(sent, d.at + 1, d.at + n)]
Reads(r) == d' = r /\ UNCHANGED <<sent, raw, open, mode>>
\* Decoder.Feed and the loop after it; after an error the adapter's Write fails and is not called again.
Feed(n) == /\ mode = "push" /\ d.err = "none" /\ d.at + n <= Len(sent)
           /\ Reads(ProcessBuffer(Fed(n)))
Pulls == mode # "push" /\ d.err = "none"
\* ReadLine: a complete line first, ...
ReadLine == LET n == NextLine(d.buf) IN
            /\ Pulls /\ n.what # "incomplete"
            /\ Reads(IF n.what = "long" THEN [d EXCEPT !.err = "long"]
                     ELSE Taken(d, n, IF mode = "frames" THEN Decode(n.line) ELSE n.line))
\* ... then another read, ...
ReadChunk(n) == /\ Pulls /\ NextLine(d.buf).what = "incomplete" /\ d.at + n <= Len(sent)
                /\ Reads(Fed(n))
\* ... and at the end of the stream what is left: a truncated frame, or a last line.
AtEnd == CASE d.buf = <<>> -> [d EXCEPT !.err = "eof"]
           [] d.buf # <<>> /\ mode = "frames" -> [d EXCEPT !.err = "truncated"]
           [] OTHER -> [d EXCEPT !.got = Append(@, WithoutCR(d.buf)), !.buf = <<>>]
ReadEnd == /\ Pulls /\ NextLine(d.buf).what = "incomplete" /\ ~open /\ d.at = Len(sent)
           /\ Reads(AtEnd)

Next ==
    \/ \E v \in Values : WriteFrame(v)
    \/ \E p \in RawPieces : WriteRaw(p)
    \/ CloseStream
    \/ \E n \in 1..Chunk : Feed(n)
    \/ ReadLine
    \/ \E n \in 1..Chunk : ReadChunk(n)
    \/ ReadEnd
Spec == LinesInit /\ [][Next]_vars

----------------------------------------------------------------------------
(* What a stream says, defined on the whole of it at once. *)
RECURSIVE LinesOf(_)
LinesOf(s) == IF LineEnds(s) = {} THEN <<>>
              ELSE <<SubSeq(s, 1, FirstEnd(s))>> \o LinesOf(SubSeq(s, FirstEnd(s) + 1, Len(s)))
Says(line) == LET l == WithoutCR(SubSeq(line, 1, Len(line) - 1)) IN IF mode = "lines" THEN l ELSE Decode(l)
Refused(line) == Len(line) > Limit \/ Says(line) = <<"bad">>
\* What the lines before the first refused one say.
Good ==
    LET ls == LinesOf(sent)
        ok == {n \in 0..Len(ls) : \A i \in 1..n : ~Refused(ls[i])}
    IN [i \in 1..(CHOOSE n \in ok : \A k \in ok : k <= n) |-> Says(ls[i])]
\* The bytes after the last terminator.
LastPart == CHOOSE t \in {SubSeq(sent, i, Len(sent)) : i \in 1..(Len(sent) + 1)} :
                /\ LineEnds(t) = {} /\ (Len(t) < Len(sent) => sent[Len(sent) - Len(t)] = "lf")
Whole == IF mode = "lines" /\ ~open /\ LastPart # <<>> THEN Append(Good, WithoutCR(LastPart)) ELSE Good
IsPrefixOf(a, b) == Len(a) <= Len(b) /\ \A i \in DOMAIN a : a[i] = b[i]

\* However the bytes were cut into reads, a reader has handed over the lines the whole stream holds,
\* in order, none skipped and none after a refused one; with everything the peer sent in hand an
\* adapter has handed over all of them, and so has a reader that says the stream ended.  Bytes
\* without a terminator are a line only where none is required (lines.Reader, wire.Decoder).  A peer that
\* writes through Encode is never refused: no frame of its is too long, malformed or truncated.
LinesAreTheStreams ==
    /\ IsPrefixOf(d.got, Whole)
    /\ mode = "push" /\ d.at = Len(sent) => d.got = Good
    /\ d.err \in {"eof", "truncated"} => d.got = Whole /\ (d.err = "truncated" <=> LastPart # <<>> /\ mode = "frames")
    /\ ~raw => d.err \in {"none", "eof"}
=============================================================================
