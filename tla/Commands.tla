------------------------------ MODULE Commands ------------------------------
(***************************************************************************)
(* One call of execute_command or of search_content (internal/tools):      *)
(* the child process, the two goroutines that copy its output, what the    *)
(* captures keep in memory and on disk, the one-line preview, the stop by  *)
(* timeout or cancellation, and the answer the model reads.                *)
(*                                                                         *)
(* A byte is a letter "x", one half of a two-byte character ("L", "C"),    *)
(* a newline "n" or a carriage return "r".  The words of the answer are    *)
(* tokens of one byte; the exec package is modelled by what the tools rely *)
(* on it for: Cancel when the context ends, WaitDelay after that or after  *)
(* the child's exit, Wait when child and pipes are done.                   *)
(***************************************************************************)
EXTENDS Naturals, Sequences, FiniteSets

CONSTANTS Tool,        \* "execute_command" or "search_content"
          Bytes,       \* the bytes a child writes
          Budget,      \* maxToolTextBytes: 64 KB in the code
          PreviewLen,  \* maxPreviewLen: 4096 in the code
          MaxBytes, Chunk   \* bounds: bytes of both streams, and of one write

Streams == {"out", "err"}
Search == Tool = "search_content"

VARIABLES ctx,       \* "live", "timeout" or "canceled"
          proc,      \* "new", "running", "gone"
          code,      \* the exit status ("130", "137": 128 and the signal)
          heir,      \* a descendant outlives the child and holds its pipes
          pipes,     \* "open", "drained" (end of file), "abandoned" (WaitDelay)
          wrote,     \* what the copying goroutines were given, per stream
          held,      \* the captures
          snap,      \* the preview's line snapshots
          lastWriter, dirty, lastSent,
          answer
vars == <<ctx, proc, code, heir, pipes, wrote, held, snap, lastWriter, dirty, lastSent, answer>>
child == <<ctx, proc, code, heir, pipes>>
copied == <<wrote, held, snap, lastWriter, dirty, lastSent>>

----------------------------------------------------------------------------
(* capture *)
Prefixes(p) == {SubSeq(p, 1, k) : k \in 0..Len(p)}
Drop(p, k) == SubSeq(p, k + 1, Len(p))
Spilling_Unsaid(c, p) == {[c EXCEPT !.spill = @ \o q] : q \in Prefixes(p)}
Spilling(c, p) == {[c EXCEPT !.spill = @ \o q, !.err = @ \/ q # p] : q \in Prefixes(p)}
Spilled(c) == c.open \/ c.err
\* The outcomes of one Write; a spool that fails is recorded and does not fail the tool.
CaptureWrite(c, p) ==
    LET room == IF Budget - Len(c.mem) < Len(p) THEN Budget - Len(c.mem) ELSE Len(p)
        full == [c EXCEPT !.mem = @ \o SubSeq(p, 1, room)]
    IN CASE c.open -> Spilling(c, p)
         [] c.err -> {c}
         [] ~Spilled(c) /\ Len(c.mem) + Len(p) <= Budget -> {[c EXCEPT !.mem = @ \o p]}
         [] OTHER -> {[full EXCEPT !.err = TRUE]} \cup Spilling([full EXCEPT !.open = TRUE], Drop(p, room))

----------------------------------------------------------------------------
(* The preview *)
\* truncateAtRuneBoundary: at most the last PreviewLen bytes, never from inside a character.
RuneTail(s) ==
    IF Len(s) <= PreviewLen THEN s
    ELSE LET cuts == {k \in (Len(s) - PreviewLen)..Len(s) : k = Len(s) \/ s[k + 1] # "C"}
         IN Drop(s, CHOOSE k \in cuts : \A j \in cuts : k <= j)
\* trimIncompleteTail: without a first half whose second has not come.
Trim(s) == IF s # <<>> /\ s[Len(s)] = "L" THEN SubSeq(s, 1, Len(s) - 1) ELSE s
Step_Eager(ls, b) == CASE b = "n" -> [tail |-> <<>>, last |-> RuneTail(ls.tail), cr |-> FALSE]
                       [] b = "r" -> [ls EXCEPT !.tail = <<>>]
                       [] OTHER -> [ls EXCEPT !.tail = Append(@, b)]
Step(ls, b) == CASE b = "n" -> [tail |-> <<>>, last |-> RuneTail(ls.tail), cr |-> FALSE]
                 [] b = "r" -> [ls EXCEPT !.cr = TRUE]
                 [] OTHER -> [ls EXCEPT !.tail = Append(IF ls.cr THEN <<>> ELSE @, b), !.cr = FALSE]
SnapWrite(ls, p) ==
    LET f[k \in 0..Len(p)] == IF k = 0 THEN ls ELSE Step(f[k - 1], p[k])
    IN [f[Len(p)] EXCEPT !.tail = RuneTail(@)]
Text(ls) == IF Trim(ls.tail) = <<>> THEN ls.last ELSE Trim(ls.tail)
CombinedPreview(sn, w) ==
    LET other == CHOOSE s \in Streams : s # w
    IN IF Text(sn[w]) # <<>> THEN Text(sn[w]) ELSE Text(sn[other])

----------------------------------------------------------------------------
(* The child *)
CommandsInit ==
    /\ ctx = "live" /\ proc = "new" /\ code = "0" /\ heir = FALSE /\ pipes = "open"
    /\ wrote = [s \in Streams |-> <<>>]
    /\ held = [s \in Streams |-> [mem |-> <<>>, spill |-> <<>>, open |-> FALSE, err |-> FALSE]]
    /\ snap = [s \in Streams |-> [tail |-> <<>>, last |-> <<>>, cr |-> FALSE]]
    /\ lastWriter = "none" /\ dirty = FALSE /\ lastSent = <<>>
    /\ answer = [is |-> "none"]

Open == answer.is = "none"
\* An empty command, a directory that is none, a program that can not be started.
Refuse == /\ Open /\ proc = "new"
          /\ answer' = [is |-> "refused"]
          /\ UNCHANGED <<child, copied>>
Start == /\ Open /\ proc = "new" /\ proc' = "running"
         /\ UNCHANGED <<ctx, code, heir, pipes, copied, answer>>

\* A chunk arrives: it is captured, then previewed when the last frame is 100 ms old.
Write(s, p, due) ==
    /\ Open /\ pipes = "open" /\ (proc = "running" \/ heir)
    /\ Len(wrote["out"]) + Len(wrote["err"]) + Len(p) <= MaxBytes
    /\ wrote' = [wrote EXCEPT ![s] = @ \o p]
    /\ \E c \in CaptureWrite(held[s], p) : held' = [held EXCEPT ![s] = c]
    /\ snap' = [snap EXCEPT ![s] = SnapWrite(@, p)]
    /\ lastWriter' = s
    /\ dirty' = ~due
    /\ lastSent' = IF due THEN CombinedPreview(snap', s) ELSE lastSent
    /\ UNCHANGED <<child, answer>>

\* The child ends on its own, or of the SIGINT its group got; a descendant may live on.
Exit(c, left) ==
    /\ Open /\ proc = "running" /\ proc' = "gone" /\ code' = c
    /\ (c = "130" => ctx # "live" /\ ~Search) /\ (left => ~Search)
    /\ heir' = left
    /\ UNCHANGED <<ctx, pipes, copied, answer>>
HeirEnds == /\ Open /\ heir /\ heir' = FALSE
            /\ UNCHANGED <<ctx, proc, code, pipes, copied, answer>>
\* The timeout or the user.  A search has no Cancel of its own: its child is killed at once.
Stop(why) ==
    /\ Open /\ proc # "new" /\ ctx = "live" /\ ctx' = why
    /\ IF Search /\ proc = "running" THEN proc' = "gone" /\ code' = "137" ELSE UNCHANGED <<proc, code>>
    /\ UNCHANGED <<heir, pipes, copied, answer>>
\* WaitDelay, two seconds after the stop or the exit: the child is killed, the pipes are let go.
Overdue_AskedOnly == ~Search /\ proc = "gone"
Overdue == ~Search /\ proc # "new" /\ (ctx # "live" \/ proc = "gone")
WaitDelay == /\ Open /\ pipes = "open" /\ Overdue
             /\ proc' = "gone" /\ code' = (IF proc = "running" THEN "137" ELSE code)
             /\ pipes' = "abandoned"
             /\ UNCHANGED <<ctx, heir, copied, answer>>
Drained == /\ Open /\ pipes = "open" /\ proc = "gone" /\ ~heir /\ pipes' = "drained"
           /\ UNCHANGED <<ctx, proc, code, heir, copied, answer>>

----------------------------------------------------------------------------
(* The answer *)
Stopped == ctx # "live"
\* commandHeader: the status when it says something, and why the tool ended it.
Header == (IF code # "0" THEN <<code>> ELSE <<>>) \o (IF Stopped THEN <<ctx>> ELSE <<>>)
\* writeCommandOutput: the one layout of the inline text and of the saved file.
Layout(header, out, err) ==
    IF header = <<>> /\ wrote["err"] = <<>> THEN out
    ELSE header \o (IF wrote["out"] = <<>> THEN <<>> ELSE <<"STDOUT">> \o out \o <<"n">>)
                \o (IF wrote["err"] = <<>> THEN <<>> ELSE <<"STDERR">> \o err)
Rendered(header) == Layout(header, held["out"].mem, held["err"].mem)
Stored(header) == Layout(header, held["out"].mem \o held["out"].spill, held["err"].mem \o held["err"].spill)
Failed == code # "0" \/ Stopped \/ pipes = "abandoned"
AnySpilled == \E s \in Streams : Spilled(held[s])
Inline(text, cut) == [is |-> "text", text |-> text, file |-> <<>>, cut |-> cut, err |-> Failed]
InlineText == IF Rendered(Header) = <<>> THEN <<"nothing">> ELSE Rendered(Header)
Fits == ~AnySpilled /\ Len(Rendered(Header)) <= Budget
HandleCommandOutput ==
    IF Fits THEN {Inline(InlineText, FALSE)}
    ELSE {[is |-> "file", text |-> Header, file |-> Stored(Header), err |-> Failed,
           cut |-> \E s \in Streams : held[s].err],
          Inline(Rendered(Header), TRUE)}                     \* it could not be saved

\* formatSearchResult, for a search that was not cut short.
Incomplete == code # "0"
NoMatches == [is |-> "no matches"]
Found(text, file, cut) == [is |-> IF file = <<>> THEN "text" ELSE "file", text |-> text, file |-> file,
                           cut |-> cut, note |-> Incomplete]
Lines(s) == Cardinality({k \in DOMAIN s : s[k] = "n"}) + (IF s # <<>> /\ s[Len(s)] # "n" THEN 1 ELSE 0)
\* MaxLines is 1 here: a second line goes to a file.
TooLong == Lines(wrote["out"]) > 1 \/ Spilled(held["out"])
MatchedNothing_ByCode == code = "1"
MatchedNothing == code = "1" /\ wrote["err"] = <<>>
FormatSearchResult ==
    CASE MatchedNothing -> {NoMatches}
      [] Incomplete /\ wrote["out"] = <<>> -> {[is |-> "error"]}
      [] wrote["out"] = <<>> -> {NoMatches}
      [] TooLong -> {[is |-> "error"],
                     Found(<<>>, held["out"].mem \o held["out"].spill, held["out"].err)}
      [] OTHER -> {Found(held["out"].mem, <<>>, FALSE)}
SearchAnswer == IF Stopped /\ code # "0" THEN {[is |-> "stopped"]} ELSE FormatSearchResult

\* Wait returned: the last preview goes out, then the answer.
Answer ==
    /\ Open /\ proc = "gone" /\ pipes # "open"
    /\ dirty' = FALSE
    /\ lastSent' = IF dirty THEN CombinedPreview(snap, lastWriter) ELSE lastSent
    /\ answer' \in IF Search THEN SearchAnswer ELSE HandleCommandOutput
    /\ UNCHANGED <<child, wrote, held, snap, lastWriter>>

Chunks == UNION {[1..k -> Bytes] : k \in 1..Chunk}
Copies == \E s \in Streams, p \in Chunks, due \in BOOLEAN : Write(s, p, due)
Ends == \E c \in {"0", "1", "2", "130"}, left \in BOOLEAN : Exit(c, left)
CommandsNext == \/ Refuse \/ Start \/ Copies \/ Ends \/ HeirEnds
                \/ \E why \in {"timeout", "canceled"} : Stop(why)
                \/ WaitDelay \/ Drained \/ Answer

CommandsSpec == CommandsInit /\ [][CommandsNext]_vars
----------------------------------------------------------------------------
(* Properties *)

\* Nothing a command wrote is lost without a word: what the answer (its text, or the file it names)
\* holds is both streams whole, in the layout with the status and the reason of a stop, or the
\* answer says that it is cut; and a stopped command says so in the text and in the file
\* (handleCommandOutput, saveCommandOutput, capture.Write).  For a search: the matches.
Says == IF answer.is = "file" THEN answer.file ELSE answer.text
AnswerIsTheOutput ==
    answer.is \in {"text", "file"} =>
        IF Search THEN answer.cut \/ Says = wrote["out"]
        ELSE /\ answer.cut \/ Says = Layout(Header, wrote["out"], wrote["err"])
                            \/ (Says = <<"nothing">> /\ ~Stopped)
             /\ Stopped => \A t \in {answer.text, Says} : \E k \in DOMAIN t : t[k] = ctx

\* A search ripgrep could not finish is never read as "no matches" nor as a whole answer
\* (formatSearchResult).
IncompleteIsSaid ==
    (Search /\ (code = "2" \/ (code = "1" /\ wrote["err"] # <<>>))) =>
        answer.is # "no matches" /\ (answer.is \in {"text", "file"} => answer.note)

\* The preview is the line a terminal would show, however the reads cut the stream: the line being
\* written (what follows the last carriage return that anything followed), else the last finished
\* one, of the stream written last, falling back to the other.
LastNewline(s, before) == LET ks == {k \in 0..(before - 1) : k = 0 \/ s[k] = "n"}
                          IN CHOOSE k \in ks : \A j \in ks : j <= k
Visible(line) ==
    LET ends == {k \in DOMAIN line : line[k] # "r"}
        e == IF ends = {} THEN 0 ELSE CHOOSE k \in ends : \A j \in ends : j <= k
        starts == {k \in 0..e : k = 0 \/ line[k] = "r"}
        b == CHOOSE k \in starts : \A j \in starts : j <= k
    IN RuneTail(SubSeq(line, b + 1, e))
LineOf(s) ==
    LET k == LastNewline(s, Len(s) + 1)
        now == Trim(Visible(Drop(s, k)))
    IN CASE now # <<>> -> now
         [] k = 0 -> <<>>
         [] OTHER -> Visible(SubSeq(s, LastNewline(s, k) + 1, k - 1))
PreviewIsTheLine ==
    ~dirty /\ lastWriter # "none" =>
        lastSent = IF LineOf(wrote[lastWriter]) # <<>> THEN LineOf(wrote[lastWriter])
                   ELSE LineOf(wrote[CHOOSE s \in Streams : s # lastWriter])
=============================================================================
