------------------------------- MODULE Files -------------------------------
(***************************************************************************)
(* read_file, write_file and edit_file calls of one step, run in parallel  *)
(* on one file (internal/tools, internal/atomicfile): the lock they share, *)
(* the edit that streams the file through a window into a temp file and    *)
(* renames it, the write that truncates in place where the directory can   *)
(* not hold a temp file, and the read that answers a page at a time.       *)
(*                                                                         *)
(* Bytes are "a", "b", "n" (newline) and "r" (carriage return).  A line    *)
(* past the 1 MB cap is past the page budget too, and cut to that.         *)
(***************************************************************************)
EXTENDS Naturals, Sequences, FiniteSets

CONSTANTS Calls,      \* the calls that run in parallel
          Asked,      \* what a call may ask for
          Contents,   \* what the file may hold at first
          Chunk,      \* what one read of the file returns: 4096 in the code
          Budget      \* maxToolTextBytes: 64 KB in the code

VARIABLES disk, exists,   \* the file
          writable,       \* its directory takes a temp file
          ask,            \* call -> what it asks for
          pc,             \* call -> "wait", "in" (holds the lock), "rest", "done"
          file,           \* call -> its open file: the inode's bytes, or that of the path
          ed,             \* call -> the edit's window, or the bytes a read has
          told,           \* call -> what the model is told
          changed         \* whether a change was made
vars == <<disk, exists, writable, ask, pc, file, ed, told, changed>>

Min2(x, y) == IF x < y THEN x ELSE y
Drop(s, k) == SubSeq(s, k + 1, Len(s))
\* bytes.Index, from 1; 0 for none.
Index(s, p) ==
    LET at == {k \in 1..(Len(s) - Len(p) + 1) : SubSeq(s, k, k + Len(p) - 1) = p}
    IN IF at = {} THEN 0 ELSE CHOOSE k \in at : \A j \in at : k <= j
After(s, p) == Drop(s, Index(s, p) + Len(p) - 1)
Before(s, p) == SubSeq(s, 1, Index(s, p) - 1)

----------------------------------------------------------------------------
(* Reading: lines and pages *)
Ends(s) == {k \in DOMAIN s : s[k] = "n"}
NewlineAt(s, i) == CHOOSE k \in Ends(s) : Cardinality({j \in Ends(s) : j <= k}) = i
NumLines(s) == Cardinality(Ends(s)) + (IF s # <<>> /\ s[Len(s)] # "n" THEN 1 ELSE 0)
WithoutCR(l) == IF l # <<>> /\ l[Len(l)] = "r" THEN SubSeq(l, 1, Len(l) - 1) ELSE l
\* nextLine, i times: without its newline and one carriage return before it.
Line(s, i) == WithoutCR(SubSeq(s, IF i = 1 THEN 1 ELSE NewlineAt(s, i - 1) + 1,
                                  IF i > Cardinality(Ends(s)) THEN Len(s) ELSE NewlineAt(s, i) - 1))
LinesOf(s) == [i \in 1..NumLines(s) |-> Line(s, i)]

\* What lines i..j cost of the budget.
Cost(s, i, j) == LET c[k \in (i - 1)..j] == IF k < i THEN 0 ELSE c[k - 1] + Len(Line(s, k)) + 1 IN c[j]
\* The last of the lines start..last the budget takes.
LastFitting(s, start, last) ==
    LET fits == {k \in (start - 1)..last : Cost(s, start, k) <= Budget}
    IN CHOOSE k \in fits : \A j \in fits : j <= k
Next1_Skips(k) == k + 2
Next1(k) == k + 1
\* readLinesRange: a page, whether its line was cut, and where the next one starts (0: none is left).
ReadLinesRange(s, start, num) ==
    LET last == IF num = 0 THEN NumLines(s) ELSE Min2(NumLines(s), start + num - 1)
        fit == LastFitting(s, start, last)
    IN CASE start > NumLines(s) -> [is |-> "nothing here", lines |-> <<>>, next |-> 0]
         [] start <= NumLines(s) /\ fit = last ->
              [is |-> "lines", lines |-> SubSeq(LinesOf(s), start, last), next |-> 0]
         [] start <= NumLines(s) /\ fit # last /\ fit >= start ->
              [is |-> "lines", lines |-> SubSeq(LinesOf(s), start, fit), next |-> Next1(fit)]
         [] OTHER -> [is |-> "beginning", lines |-> <<SubSeq(Line(s, start), 1, Budget)>>, next |-> Next1(start)]
\* executeReadFile: the file as it is, its first lines when it is over the budget, or a range.
Answer(s, a) ==
    CASE a.start = 0 /\ a.num = 0 /\ Len(s) <= Budget -> [is |-> "whole", lines |-> <<s>>, next |-> 0]
      [] a.start = 0 /\ a.num = 0 /\ Len(s) > Budget -> [ReadLinesRange(s, 1, 0) EXCEPT !.is = "head"]
      [] OTHER -> ReadLinesRange(s, IF a.start = 0 THEN 1 ELSE a.start, a.num)

----------------------------------------------------------------------------
(* Editing: streamEditor *)
Window == [buf |-> <<>>, temp |-> <<>>, hits |-> 0, pos |-> 0]
Retained_None(old) == 0
Retained(old) == Len(old)
\* The window keeps as many bytes as old_string has, for a match that the next chunk completes.
Flushed(w, old) ==
    LET k == IF Len(w.buf) > Retained(old) THEN Len(w.buf) - Retained(old) ELSE 0
    IN [w EXCEPT !.temp = @ \o SubSeq(w.buf, 1, k), !.buf = Drop(@, k)]
\* processChunk: hits = 2 is the refusal of a second occurrence.
ProcessChunk(w, bytes, old, new) ==
    LET b == w.buf \o bytes
        hit == Index(b, old) # 0
        again == hit /\ (w.hits = 1 \/ Index(After(b, old), old) # 0)
    IN CASE again -> [w EXCEPT !.hits = 2]
         [] hit /\ ~again -> Flushed([w EXCEPT !.hits = 1, !.pos = @ + Len(bytes), !.buf = After(b, old),
                                               !.temp = @ \o Before(b, old) \o new], old)
         [] OTHER -> Flushed([w EXCEPT !.pos = @ + Len(bytes), !.buf = b], old)

----------------------------------------------------------------------------
(* The calls *)
NoFile == [of |-> "none", bytes |-> <<>>]
\* Through an open file: the path's inode, or the one it was before a rename.
Bytes(c) == IF file[c].of = "path" THEN disk ELSE file[c].bytes

FilesInit ==
    /\ disk \in Contents /\ exists \in BOOLEAN /\ (~exists => disk = <<>>)
    /\ writable \in BOOLEAN
    /\ ask \in [Calls -> Asked] /\ (\A c \in Calls : ask[c].do = "edit" => ask[c].old # ask[c].new)
    /\ pc = [c \in Calls |-> "wait"]
    /\ file = [c \in Calls |-> NoFile] /\ ed = [c \in Calls |-> Window]
    /\ told = [c \in Calls |-> <<>>] /\ changed = FALSE

Say(c, what) == told' = [told EXCEPT ![c] = Append(@, what)]
Leave(c) == pc' = [pc EXCEPT ![c] = "done"] /\ file' = [file EXCEPT ![c] = NoFile]
\* A rename: whoever has the old file open keeps its bytes.
Commit(c, bytes) ==
    /\ disk' = bytes /\ exists' = TRUE
    /\ file' = [d \in Calls |-> IF d = c THEN NoFile
                                ELSE IF file[d].of = "path" THEN [of |-> "old", bytes |-> disk] ELSE file[d]]
    /\ pc' = [pc EXCEPT ![c] = "done"]
    /\ changed' = TRUE /\ Say(c, [is |-> "done"])

Inside(c) == pc[c] \in {"in", "rest"}
Excludes_Writers(c, d) == ask[c].do # "read" /\ ask[d].do # "read"
\* fileMutationMu: a change runs alone, reads run together.
Excludes(c, d) == ask[c].do # "read" \/ ask[d].do # "read"
Enter(c) ==
    /\ pc[c] = "wait" /\ \A d \in Calls \ {c} : Inside(d) => ~Excludes(c, d)
    /\ IF ask[c].do = "write" THEN pc' = [pc EXCEPT ![c] = "in"] /\ UNCHANGED <<file, told>>
       ELSE IF exists /\ (ask[c].do = "edit" => writable)
            THEN /\ pc' = [pc EXCEPT ![c] = "in"] /\ UNCHANGED told
                 /\ file' = [file EXCEPT ![c] = [of |-> "path", bytes |-> <<>>]]
            ELSE Leave(c) /\ Say(c, [is |-> "error"])
    /\ ed' = [ed EXCEPT ![c] = Window]
    /\ UNCHANGED <<disk, exists, writable, ask, changed>>
\* Cancellation, and a file system that refuses: the temp file is removed, the file is as it was.
Fail(c) ==
    /\ Inside(c) /\ pc[c] # "rest"
    /\ Leave(c) /\ Say(c, [is |-> "error"])
    /\ UNCHANGED <<disk, exists, writable, ask, ed, changed>>

ReadChunk(c) == SubSeq(Bytes(c), ed[c].pos + 1, Min2(ed[c].pos + Chunk, Len(Bytes(c))))
Edit(c) ==
    /\ pc[c] = "in" /\ ask[c].do = "edit" /\ UNCHANGED <<writable, ask>>
    /\ IF ReadChunk(c) # <<>>
       THEN LET w == ProcessChunk(ed[c], ReadChunk(c), ask[c].old, ask[c].new)
            IN /\ ed' = [ed EXCEPT ![c] = w]
               /\ IF w.hits = 2 THEN Leave(c) /\ Say(c, [is |-> "many"]) ELSE UNCHANGED <<pc, file, told>>
               /\ UNCHANGED <<disk, exists, changed>>
       ELSE /\ UNCHANGED ed
            /\ IF ed[c].hits = 0
               THEN Leave(c) /\ Say(c, [is |-> "not found"]) /\ UNCHANGED <<disk, exists, changed>>
               ELSE Commit(c, ed[c].temp \o ed[c].buf)
Write(c) ==
    /\ pc[c] = "in" /\ ask[c].do = "write" /\ UNCHANGED <<writable, ask, ed>>
    /\ CASE writable -> Commit(c, ask[c].new)
         [] ~writable /\ exists ->             \* O_TRUNC, and the bytes after it
              /\ disk' = <<>> /\ pc' = [pc EXCEPT ![c] = "rest"] /\ UNCHANGED <<exists, file, told, changed>>
         [] OTHER -> Leave(c) /\ Say(c, [is |-> "error"]) /\ UNCHANGED <<disk, exists, changed>>
WriteRest(c) ==
    /\ pc[c] = "rest" /\ disk' = ask[c].new /\ changed' = TRUE
    /\ Leave(c) /\ Say(c, [is |-> "done, in place"])
    /\ UNCHANGED <<exists, writable, ask, ed>>
\* The bytes do not all fit: what is there stays.
WriteRestFails(c) ==
    /\ pc[c] = "rest" /\ changed' = TRUE
    /\ \E k \in 0..(Len(ask[c].new) - 1) : disk' = SubSeq(ask[c].new, 1, k)
    /\ Leave(c) /\ Say(c, [is |-> "error"])
    /\ UNCHANGED <<exists, writable, ask, ed>>
\* A read takes the file in pieces; the model asks for the next page while the answer names one.
Read(c) ==
    /\ pc[c] = "in" /\ ask[c].do = "read" /\ UNCHANGED <<disk, exists, writable, changed>>
    /\ IF ReadChunk(c) # <<>>
       THEN /\ ed' = [ed EXCEPT ![c].buf = @ \o ReadChunk(c), ![c].pos = @ + Len(ReadChunk(c))]
            /\ UNCHANGED <<pc, file, told, ask>>
       ELSE LET a == Answer(ed[c].buf, ask[c])
            IN /\ Say(c, [is |-> a.is, lines |-> a.lines, next |-> a.next, from |-> ask[c].start, of |-> ed[c].buf])
               /\ ask' = [ask EXCEPT ![c].start = a.next]
               /\ pc' = [pc EXCEPT ![c] = IF a.next # 0 /\ ask[c].num = 0 THEN "wait" ELSE "done"]
               /\ file' = [file EXCEPT ![c] = NoFile] /\ UNCHANGED ed

FilesNext == \E c \in Calls : Enter(c) \/ Fail(c) \/ Edit(c) \/ Write(c) \/ WriteRest(c) \/ WriteRestFails(c) \/ Read(c)
FilesSpec == FilesInit /\ [][FilesNext]_vars

----------------------------------------------------------------------------
(* Properties *)

Says(c) == Len(told'[c]) > Len(told[c])
Said(c) == told'[c][Len(told'[c])]

\* What a change says is what it did to the file as it was: an edit that succeeded replaced the one
\* occurrence of old_string, wherever the chunks cut it; one that reported none or several is right
\* and changed nothing; and no change undoes one that was reported done before it
\* (file_mutation.go: "a lost update neither the model nor the user is told about").
Once(s, old) == Index(s, old) # 0 /\ Index(After(s, old), old) = 0
Right(a, says) ==
    CASE a.do = "edit" /\ says = "done" ->
             Once(disk, a.old) /\ disk' = Before(disk, a.old) \o a.new \o After(disk, a.old)
      [] says = "many" -> Index(disk, a.old) # 0 /\ ~Once(disk, a.old) /\ disk' = disk
      [] says = "not found" -> Index(disk, a.old) = 0 /\ disk' = disk
      [] a.do = "write" /\ says # "error" -> disk' = a.new
      [] OTHER -> a.do = "write" \/ disk' = disk
EditsAreExact == \A c \in Calls : Says(c) => Right(ask[c], Said(c).is)

\* A read answers from bytes that were the file's, whole, never from a write that is half done
\* (file_mutation.go: "silently wrong, and nothing in the result says so").
Halfway == \E c \in Calls : pc[c] = "rest"
ReadsAreWhole ==
    \A c \in Calls :
        (Says(c) /\ ask[c].do = "read" /\ Said(c).is # "error") => ~Halfway /\ Said(c).of = disk

\* Following the start_line each page names gives every line of the file, once and in order; only a
\* line that is over the budget by itself comes as its beginning, and says so (readLinesRange,
\* cutHeader).
Pages(c) == SelectSeq(told[c], LAMBDA t : t.is \in {"lines", "beginning", "head"})
Joined(c) == LET j[k \in 0..Len(Pages(c))] == IF k = 0 THEN <<>> ELSE j[k - 1] \o Pages(c)[k].lines IN j[Len(Pages(c))]
PagesAreTheFile ==
    \A c \in Calls :
        LET d == told[c]
        IN (/\ d # <<>> /\ pc[c] = "done" /\ ask[c].do = "read" /\ ask[c].num = 0 /\ ~changed /\ ~Halfway
            /\ d[Len(d)].is \in {"lines", "head", "beginning", "nothing here"} /\ d[1].from < 2) =>
              /\ Len(Joined(c)) = NumLines(disk)
              /\ \A i \in DOMAIN Joined(c) :
                   \/ Joined(c)[i] = Line(disk, i)
                   \/ Len(Line(disk, i)) + 1 > Budget /\ Joined(c)[i] = SubSeq(Line(disk, i), 1, Budget)
=============================================================================
