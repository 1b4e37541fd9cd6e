---------------------------- MODULE SessionFile ----------------------------
(***************************************************************************)
(* The session file (internal/agent persistence, serialization, fork, and  *)
(* internal/sessionmigrate): what a save writes and a crash leaves, what a *)
(* start reads back, a fork of a part of the conversation, and the upgrade *)
(* of a file of an older generation, step by step, by its owner.           *)
(*                                                                         *)
(* A part has a kind, a call id when it is a call or a result, and how     *)
(* well it can be written: "well", a call's "broken" input (no JSON), a    *)
(* result's "odd" content (no item).  The frontmatter is the version and   *)
(* one quoted value, the model's name.                                     *)
(***************************************************************************)
EXTENDS Naturals, Sequences, FiniteSets, TLC

CONSTANTS Names,      \* the names a model may have: sequences of characters
          Olds,       \* the files there may be at first
          Steps,      \* what a step of a task adds: sequences of parts without ids
          MaxParts, MaxRuns   \* bounds

Current == 18
Paths == {"session", "fork"}

VARIABLES up,        \* a session is running
          contents,  \* Session.Contents
          counter,   \* histCounter
          name,      \* the active model's name
          disk,      \* path -> the file
          temp,      \* what a save has written so far beside its target
          told,      \* what the user was told at the start, or of a fork
          given,     \* path -> what its file stands for (for the properties)
          runs       \* bound
vars == <<up, contents, counter, name, disk, temp, told, given, runs>>

----------------------------------------------------------------------------
(* One part, one frame *)
Assistant(p) == p.is \in {"text", "thought", "call"}
Frame(tag, type, p) == [tag |-> tag, type |-> type, call |-> p.call, how |-> p.how]
\* contentPartJSON: a broken input becomes a string that says so, an odd result a text that does.
ContentPartJSON(p) ==
    CASE p.is \in {"user", "image"} -> Frame("UX", p.is, p)
      [] p.is \in {"text", "thought"} -> Frame("AX", p.is, p)
      [] p.is = "call" -> [Frame("AF", "call", p) EXCEPT !.how = IF @ = "broken" THEN "said broken" ELSE @]
      [] p.is = "result" -> [Frame("UF", "result", p) EXCEPT !.how = IF @ = "odd" THEN "said odd" ELSE @]
Nothing == [is |-> "nothing"]
Bad == [is |-> "error"]
\* contentPartFromJSON: a call with no name is no part; a delimiter or a kind on the other plane is an error.
Planes == [UX |-> {"user", "image"}, AX |-> {"text", "thought"}, AF |-> {"call"}, UF |-> {"result"}]
ContentPartFromJSON(f) ==
    CASE f.tag \notin DOMAIN Planes -> Bad
      [] f.tag = "AF" /\ f.call = "" -> Nothing
      [] f.tag \in DOMAIN Planes /\ f.type \notin Planes[f.tag] -> Bad
      [] OTHER -> [is |-> f.type, call |-> f.call, how |-> f.how]

CallsIn(c) == {c[k].call : k \in {j \in DOMAIN c : c[j].is = "call"}}
ResultsIn(c) == {c[k].call : k \in {j \in DOMAIN c : c[j].is = "result"}}

----------------------------------------------------------------------------
(* The frontmatter's quoted value: "q" a quote, "b" a backslash, "N" a newline, "R" a return *)
Escaped_SlashLast(c) == CASE c = "q" -> <<"b", "b", "q">> [] c = "N" -> <<"b", "b", "n">> [] c = "b" -> <<"b", "b">>
                          [] c = "R" -> <<"b", "b", "r">> [] OTHER -> <<c>>
Escaped(c) == CASE c = "q" -> <<"b", "q">> [] c = "N" -> <<"b", "n">> [] c = "R" -> <<"b", "r">>
                [] c = "b" -> <<"b", "b">> [] OTHER -> <<c>>
FormatFieldValue(s) ==
    LET f[k \in 0..Len(s)] == IF k = 0 THEN <<"q">> ELSE f[k - 1] \o Escaped(s[k])
    IN f[Len(s)] \o <<"q">>
Unescaped(c) == CASE c = "b" -> <<"b">> [] c = "q" -> <<"q">> [] c = "n" -> <<"N">> [] c = "r" -> <<"R">> [] OTHER -> <<"b", c>>
\* unquoteValue of what parseKeyValueLine finds after the colon.
UnquoteValue(v) ==
    LET s == SubSeq(v, 2, Len(v) - 1)
        u[i \in 1..(Len(s) + 2)] ==
            IF i > Len(s) THEN <<>>
            ELSE IF s[i] = "b" /\ i < Len(s) THEN Unescaped(s[i + 1]) \o u[i + 2] ELSE <<s[i]>> \o u[i + 1]
    IN IF Len(v) >= 2 /\ v[1] = "q" /\ v[Len(v)] = "q" THEN u[1] ELSE v
\* Written as it is, a newline in the value would end the line.
OneLine(v) == \A k \in DOMAIN v : v[k] \notin {"N", "R"}

----------------------------------------------------------------------------
(* The file *)
NoFile == [there |-> FALSE]
FileOf(version, framing, front, frames) ==
    [there |-> TRUE, version |-> version, framing |-> framing, front |-> front, frames |-> frames]
\* formatSessionMarkdown
Formatted(parts) == FileOf(Current, "lines", FormatFieldValue(name), [k \in DOMAIN parts |-> ContentPartJSON(parts[k])])
\* parseSessionData: the version first, then the frames; ids are dealt anew, in order.
Read(f) == SelectSeq([k \in DOMAIN f.frames |-> ContentPartFromJSON(f.frames[k])], LAMBDA p : p # Nothing)
Parses(f) == f.framing = "lines" /\ \A k \in DOMAIN f.frames : ContentPartFromJSON(f.frames[k]) # Bad
WithIds(parts) == [k \in DOMAIN parts |-> parts[k] @@ [id |-> k]]

\* LoadOrNewSession
Fresh == contents' = <<>> /\ counter' = 0 /\ UNCHANGED name
Load(path) ==
    LET f == disk[path]
    IN /\ ~up /\ runs < MaxRuns /\ runs' = runs + 1
       /\ CASE ~f.there -> up' = TRUE /\ Fresh /\ told' = [is |-> "silence"]
            [] f.there /\ OneLine(f.front) /\ f.version # Current ->
                 up' = FALSE /\ told' = [is |-> "refused"] /\ UNCHANGED <<contents, counter, name>>
            [] f.there /\ OneLine(f.front) /\ f.version = Current /\ Parses(f) ->
                 /\ up' = TRUE /\ told' = [is |-> "loaded", path |-> path]
                 /\ contents' = WithIds(Read(f)) /\ counter' = Len(contents') /\ name' = UnquoteValue(f.front)
            [] OTHER -> up' = TRUE /\ Fresh /\ told' = [is |-> "could not load"]
       /\ UNCHANGED <<disk, temp, given>>

----------------------------------------------------------------------------
(* A running session.  Ids are dealt as blocks arrive, which need not be the record's order; a call's
   id is its own, in the whole session. *)
Step(parts, swapped) ==
    /\ up /\ temp = NoFile /\ Len(contents) + Len(parts) <= MaxParts
    /\ (swapped => Len(parts) > 1)
    /\ CallsIn(parts) \cap CallsIn(contents) = {}
    /\ LET n == Len(parts)
           id(k) == counter + (IF swapped THEN n + 1 - k ELSE k)
       IN /\ contents' = contents \o [k \in 1..n |-> parts[k] @@ [id |-> id(k)]]
          /\ counter' = counter + n
    /\ told' = [is |-> "silence"] /\ UNCHANGED <<up, name, disk, temp, given, runs>>

\* saveSessionFile: the bytes go to a temp file, which is then renamed over the target.
Writing(path, parts) ==
    temp' = [there |-> TRUE, path |-> path, file |-> Formatted(parts),
             stands |-> [parts |-> parts, name |-> name, good |-> TRUE]]
Untouched_InPlace(path) == [disk EXCEPT ![path] = FileOf(Current, "cut short", <<"q", "q">>, <<>>)]
Untouched(path) == disk
Save == /\ up /\ temp = NoFile /\ Writing("session", contents) /\ disk' = Untouched("session")
        /\ told' = [is |-> "saving"] /\ UNCHANGED <<up, contents, counter, name, given, runs>>
Rename == /\ up /\ temp # NoFile /\ temp' = NoFile
          /\ disk' = [disk EXCEPT ![temp.path] = temp.file]
          /\ given' = [given EXCEPT ![temp.path] = temp.stands]
          /\ told' = [is |-> "saved"] /\ UNCHANGED <<up, contents, counter, name, runs>>
\* The write, the mode or the rename fails: the temp file is removed, the user is told.
SaveFails == /\ up /\ temp # NoFile /\ temp' = NoFile /\ told' = [is |-> "not saved"]
             /\ UNCHANGED <<up, contents, counter, name, disk, given, runs>>
\* The process is killed, or ends: a temp file stays behind, which nothing reads.
Crash == /\ up /\ up' = FALSE /\ temp' = NoFile /\ contents' = <<>> /\ counter' = 0
         /\ told' = [is |-> "silence"] /\ UNCHANGED <<name, disk, given, runs>>

----------------------------------------------------------------------------
(* :fork *)
Largest(S) == CHOOSE x \in S : \A y \in S : y <= x
\* One round of forkEndIndex: on to the last result that a kept call misses.
Extended(c, end) ==
    LET p == SubSeq(c, 1, end)
        more == {i \in (end + 1)..Len(c) : c[i].is = "result" /\ c[i].call \in CallsIn(p) \ ResultsIn(p)}
    IN IF more = {} THEN end ELSE Largest(more)
ForkEndIndex_Exact(c, at) == at
ForkEndIndex(c, at) ==
    LET e[k \in 0..Len(c)] == IF k = 0 THEN at ELSE Extended(c, e[k - 1]) IN e[Len(c)]
\* Calls at the end, that no result follows, are dropped.
CleanIncompleteToolInputs(c) ==
    LET said == {k \in DOMAIN c : Assistant(c[k])}
        last == Largest(said)
        first == CHOOSE s \in 1..last : (\A k \in s..last : k \in said) /\ (s > 1 => s - 1 \notin said)
    IN IF said = {} \/ (\E k \in DOMAIN c : k > last /\ c[k].is = "result") THEN c
       ELSE SubSeq(c, 1, first - 1) \o SelectSeq(SubSeq(c, first, last), LAMBDA p : p.is # "call")
                                    \o SubSeq(c, last + 1, Len(c))
UnpairedToolUse(c) == CallsIn(c) \ ResultsIn(c)
Fork(id) ==
    /\ up /\ temp = NoFile /\ UNCHANGED <<up, contents, counter, name, disk, given, runs>>
    /\ LET at == {k \in DOMAIN contents : contents[k].id = id}
           prefix == CleanIncompleteToolInputs(SubSeq(contents, 1, ForkEndIndex(contents, CHOOSE k \in at : TRUE)))
       IN CASE at = {} -> told' = [is |-> "no such id"] /\ UNCHANGED temp
            [] at # {} /\ UnpairedToolUse(prefix) # {} -> told' = [is |-> "can not fork"] /\ UNCHANGED temp
            [] OTHER -> Writing("fork", prefix) /\ told' = [is |-> "forked", id |-> id]

----------------------------------------------------------------------------
(* Upgrades, run by the owner while no session runs *)
\* V13ToV14: the kinds leave the tags for the items.
ConvertV13(f) ==
    CASE f.tag \in {"UT", "UI"} -> [f EXCEPT !.tag = "UX", !.type = IF f.tag = "UT" THEN "user" ELSE "image"]
      [] f.tag \in {"AT", "AR"} -> [f EXCEPT !.tag = "AX", !.type = IF f.tag = "AT" THEN "text" ELSE "thought"]
      [] f.tag = "AF" -> [f EXCEPT !.type = "call"]
      [] f.tag = "UF" -> [f EXCEPT !.type = "result"]
Known13(f) == f.tag \in {"UT", "UI", "AT", "AR", "AF", "UF"}
Upgrading(f) == ~up /\ disk["session"] = f /\ f.there
               /\ UNCHANGED <<up, contents, counter, name, temp, told, given, runs>>
V13ToV14 == \E f \in {disk["session"]} :
    /\ Upgrading(f) /\ f.version = 13 /\ f.framing = "lengths" /\ \A k \in DOMAIN f.frames : Known13(f.frames[k])
    /\ disk' = [disk EXCEPT !["session"].version = 14,
                            !["session"].frames = [k \in DOMAIN f.frames |-> ConvertV13(f.frames[k])]]
\* V14ToV15: one frame per line.
From_Any(v) == v \in {13, 14}
From(v) == v = 14
Reframed(f) == [f EXCEPT !.framing = "lines"]
V14ToV15 == \E f \in {disk["session"]} :
    /\ Upgrading(f) /\ From(f.version) /\ f.framing = "lengths"
    /\ disk' = [disk EXCEPT !["session"] = [Reframed(f) EXCEPT !.version = 15]]
\* The generations that moved no bytes: the owner edits the number.
EditVersion == \E f \in {disk["session"]} :
    /\ Upgrading(f) /\ f.version \in 15..(Current - 1)
    /\ disk' = [disk EXCEPT !["session"].version = Current]

SessionFileInit ==
    /\ up = FALSE /\ contents = <<>> /\ counter = 0 /\ name \in Names /\ temp = NoFile /\ runs = 0
    /\ \E o \in Olds : disk = [p \in Paths |-> IF p = "session" THEN o.file ELSE NoFile]
                       /\ given = [p \in Paths |-> [parts |-> IF p = "session" THEN o.stands ELSE <<>>,
                                                    name |-> <<"a">>, good |-> p = "session" /\ o.good]]
    /\ told = [is |-> "silence"]

Work == \E parts \in Steps, swapped \in BOOLEAN : Step(parts, swapped)
SessionFileNext == \/ \E path \in Paths : Load(path)
                   \/ Work \/ Save \/ Rename \/ SaveFails \/ Crash
                   \/ \E id \in 1..(MaxParts + 1) : Fork(id)
                   \/ V13ToV14 \/ V14ToV15 \/ EditVersion
SessionFileSpec == SessionFileInit /\ [][SessionFileNext]_vars

----------------------------------------------------------------------------
(* Properties *)

\* A session that is opened is the one that was saved, whatever crashed meanwhile and however its
\* owner ordered the upgrades: every part in its place, an input or a result that could not be
\* written replaced by words that say so, the ids 1..N, the model's name; and a file this program
\* wrote, or an upgrade made of one an older program wrote, is read (loadSession, sessionmigrate, atomicfile.Write).
Kept(p) == [is |-> p.is, call |-> p.call,
            how |-> CASE p.how = "broken" -> "said broken" [] p.how = "odd" -> "said odd" [] OTHER -> p.how]
LoadIsWhatWasSaved ==
    \A path \in Paths :
        (~up /\ Load(path)) =>
            /\ told'.is = "loaded" => /\ name' = given[path].name
                                      /\ contents' = WithIds([k \in DOMAIN given[path].parts |-> Kept(given[path].parts[k])])
            /\ given[path].good /\ disk[path].version = Current => told'.is = "loaded"

\* A fork is the conversation up to the entry it names, each call in it with its result: never a
\* call alone, which a provider rejects on the next prompt (handleFork, forkEndIndex).
HasResult(c, i) == \E j \in (i + 1)..Len(c) : /\ c[j].is = "result" /\ c[j].call = c[i].call
                                             /\ \A k \in (i + 1)..(j - 1) : ~(c[k].is = "call" /\ c[k].call = c[i].call)
Whole(c) == \A i \in DOMAIN c : c[i].is = "call" => HasResult(c, i)
Forking == temp # NoFile /\ temp.path = "fork"
ForkIsPaired ==
    Forking => /\ Whole(temp.stands.parts)
               /\ Whole(contents) => /\ \E k \in DOMAIN temp.stands.parts : temp.stands.parts[k].id = told.id
                                     /\ temp.stands.parts = SubSeq(contents, 1, Len(temp.stands.parts))
=============================================================================
