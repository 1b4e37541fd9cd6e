---------------------------- MODULE PlainOutput ----------------------------
(***************************************************************************)
(* plainio: everything the session says, printed as it comes.  Text and    *)
(* reasoning are printed without a newline, so stdoutOutput remembers what *)
(* it printed last to tell when a separator is due, and which parts it has *)
(* printed from their deltas, to pass over the frame that completes them.  *)
(*                                                                         *)
(* A part is its place in parts, which stands for its history ID: IDs grow *)
(* and are not used again.  Of what is printed the model keeps how many of *)
(* a part's chunks were, and what stands on the line the cursor is on.     *)
(***************************************************************************)
EXTENDS Integers, Sequences, FiniteSets

CONSTANTS
  MaxBlocks,   (* bound: parts said                                        *)
  MaxDeltas,   (* bound: chunks of one part                                *)
  AtOnce,      (* blocks of a message that may be open at once             *)
  MaxSeen      (* maxSeenDeltaEntries                                      *)

ASSUME PlainOutputAssumption ==
  /\ MaxBlocks \in Nat /\ MaxDeltas \in Nat /\ AtOnce \in Nat \ {0}
  /\ MaxSeen \in Nat /\ AtOnce <= MaxSeen

VARIABLES
  whole,          (* --no-delta: parts come whole                          *)
  parts,          (* the parts said                                        *)
  printed,        (* how many chunks of each were printed                  *)
  working,        (* inProgress: a task runs                               *)
  lastTag, lastHistoryID, seenDelta,
  line,           (* the part the line of the cursor holds, or NoPart        *)
  glued,          (* two things were printed on one line                   *)
  hushed          (* a silent result came in the middle of a line          *)

saidVars == <<whole, parts>>
outputVars == <<lastTag, lastHistoryID, seenDelta>>
screen == <<printed, line, glued, hushed>>
plainVars == <<saidVars, working, outputVars, screen>>

NoPart == 0
Untagged == ""
TextKinds == {"text", "reasoning"}
Tags == {"AF", "UF", "UX", "media"}
Told(kind, is, n) == [kind |-> kind, is |-> is, size |-> n]
Opened == {p \in 1 .. Len(parts) : parts[p].is = "open"}

PlainInit ==
  /\ whole \in BOOLEAN /\ parts = <<>> /\ printed = <<>> /\ working = FALSE
  /\ lastTag = Untagged /\ lastHistoryID = NoPart /\ seenDelta = {}
  /\ line = NoPart /\ glued = FALSE /\ hushed = FALSE

-----------------------------------------------------------------------------
(* What is printed, after a separator or not.                              *)

Prints(p, separated) ==
  /\ line' = p
  /\ glued' = (glued \/ (~separated /\ line \notin {NoPart, p}))
  /\ UNCHANGED hushed

Resets == lastTag' = Untagged /\ lastHistoryID' = NoPart /\ UNCHANGED seenDelta

Separates_OtherKind(kind, id) == lastHistoryID # NoPart /\ lastTag # kind

Separates(kind, id) == lastHistoryID # NoPart /\ (lastTag # kind \/ id # lastHistoryID)

(* handleTextDelta; an empty content may still separate.                   *)
TextDelta(kind, id, n) ==
  /\ lastTag' = kind /\ lastHistoryID' = id
  /\ IF n > 0 THEN Prints(id, Separates(kind, id))
     ELSE /\ line' = IF Separates(kind, id) THEN NoPart ELSE line
          /\ UNCHANGED <<glued, hushed>>

Oldest(ids) == CHOOSE i \in ids : \A j \in ids : i <= j
Newest(ids) == CHOOSE i \in ids : \A j \in ids : j <= i

MarkDeltaSeen_Newest(id) ==
  seenDelta' = {id} \cup IF id \notin seenDelta /\ Cardinality(seenDelta) >= MaxSeen
                         THEN seenDelta \ {Newest(seenDelta)} ELSE seenDelta

MarkDeltaSeen(id) ==
  seenDelta' = {id} \cup IF id \notin seenDelta /\ Cardinality(seenDelta) >= MaxSeen
                         THEN seenDelta \ {Oldest(seenDelta)} ELSE seenDelta

-----------------------------------------------------------------------------
(* The frames of assistant parts.                                          *)

(* A session file is replayed before any task, in AX frames that are full. *)
Replayed(kind) ==
  /\ ~working /\ Len(parts) < MaxBlocks
  /\ \A p \in 1 .. Len(parts) : parts[p].is = "replayed"
  /\ parts' = Append(parts, Told(kind, "replayed", 1)) /\ printed' = Append(printed, 1)
  /\ TextDelta(kind, Len(parts) + 1, 1)
  /\ UNCHANGED <<whole, working, seenDelta>>

(* Blocks overlap only within a message, and none begins there once one    *)
(* that began later than one still open has ended.                         *)
BlockBegins(kind) ==
  /\ working /\ Len(parts) < MaxBlocks /\ Cardinality(Opened) < AtOnce
  /\ \A q \in Opened : q .. Len(parts) \subseteq Opened
  /\ parts' = Append(parts, Told(kind, "open", 0)) /\ printed' = Append(printed, 0)
  /\ UNCHANGED <<whole, working, outputVars, line, glued, hushed>>

Streams(p) ==
  /\ p \in Opened /\ parts[p].size < MaxDeltas
  /\ parts' = [parts EXCEPT ![p].size = @ + 1]
  /\ IF whole THEN UNCHANGED <<outputVars, screen>>
     ELSE /\ MarkDeltaSeen(p) /\ TextDelta(parts[p].kind, p, 1)
          /\ printed' = [printed EXCEPT ![p] = @ + 1]
  /\ UNCHANGED <<whole, working>>

(* The AX frame holds the text only when no delta did.                     *)
Completed_Again(p) ==
  /\ p \in Opened
  /\ parts' = [parts EXCEPT ![p].is = "whole"]
  /\ TextDelta(parts[p].kind, p, parts[p].size)
  /\ printed' = [printed EXCEPT ![p] = @ + parts[p].size]
  /\ UNCHANGED <<whole, working, seenDelta>>

Completed(p) ==
  /\ p \in Opened
  /\ parts' = [parts EXCEPT ![p].is = "whole"]
  /\ IF p \in seenDelta THEN UNCHANGED <<outputVars, screen>>
     ELSE LET n == IF whole THEN parts[p].size ELSE 0 IN
          /\ TextDelta(parts[p].kind, p, n) /\ printed' = [printed EXCEPT ![p] = @ + n]
          /\ UNCHANGED seenDelta
  /\ UNCHANGED <<whole, working>>

-----------------------------------------------------------------------------
(* Everything else is printed on lines of its own.                         *)

(* A tool call or its result; a medium of the user, or words, which bring  *)
(* their newline.                                                          *)
EndsLine(tag) ==
  \/ tag = "AF" /\ lastTag # Untagged
  \/ tag = "UF" /\ lastTag \notin {Untagged, "UF"}
  \/ tag = "UX"
  \/ tag = "media" /\ lastHistoryID # NoPart /\ lastTag \notin {Untagged, "media"}

Framed(tag) ==
  /\ Prints(NoPart, EndsLine(tag)) /\ lastHistoryID' = NoPart
  /\ lastTag' = IF tag = "media" THEN "UX" ELSE tag
  /\ UNCHANGED <<saidVars, working, seenDelta, printed>>

(* Errors, notices, questions, MCP progress: all begin with a newline.     *)
Noticed ==
  /\ Prints(NoPart, TRUE) /\ Resets
  /\ UNCHANGED <<saidVars, working, printed>>

(* handleCommandOut of a command that needs no text resets all the same.   *)
SilentResult ==
  /\ Resets /\ hushed' = (hushed \/ line # NoPart)
  /\ UNCHANGED <<saidVars, working, printed, line, glued>>

WorkBegins ==
  /\ ~working /\ working' = TRUE
  /\ UNCHANGED <<saidVars, outputVars, screen>>

(* What a task that failed left open gets no more frames.                  *)
WorkEnds_NoReset ==
  /\ working /\ working' = FALSE /\ Resets /\ UNCHANGED <<line, glued, hushed>>
  /\ parts' = [p \in 1 .. Len(parts) |->
                 [parts[p] EXCEPT !.is = IF @ = "open" THEN "cut" ELSE @]]
  /\ UNCHANGED <<whole, printed>>

WorkEnds ==
  /\ working /\ working' = FALSE /\ Prints(NoPart, TRUE) /\ Resets
  /\ parts' = [p \in 1 .. Len(parts) |->
                 [parts[p] EXCEPT !.is = IF @ = "open" THEN "cut" ELSE @]]
  /\ UNCHANGED <<whole, printed>>

PlainNext ==
  \/ \E kind \in TextKinds : Replayed(kind) \/ BlockBegins(kind)
  \/ \E p \in 1 .. Len(parts) : Streams(p) \/ Completed(p)
  \/ \E tag \in Tags : Framed(tag)
  \/ Noticed \/ SilentResult \/ WorkBegins \/ WorkEnds

PlainSpec == PlainInit /\ [][PlainNext]_plainVars

-----------------------------------------------------------------------------
(* What the model said is on the screen once: as it streamed, or, without  *)
(* deltas, when it was complete; and the frame that completes a part whose *)
(* deltas were printed finds it among those seen, however many came since. *)
ShownOnce ==
  \A p \in 1 .. Len(parts) :
    /\ printed[p] = IF whole /\ parts[p].is \in {"open", "cut"} THEN 0 ELSE parts[p].size
    /\ ~whole /\ parts[p].is = "open" /\ parts[p].size > 0 => p \in seenDelta

(* docs/plainio.md: a line separates messages of different types.  Two     *)
(* parts share one only where a result with nothing to say came between.   *)
LinesApart == glued => hushed

PlainTypeOK ==
  /\ {whole, working, glued, hushed} \subseteq BOOLEAN
  /\ parts \in Seq([kind : TextKinds, is : {"open", "whole", "cut", "replayed"}, size : Nat])
  /\ printed \in Seq(Nat) /\ Len(printed) = Len(parts)
  /\ lastTag \in TextKinds \cup Tags \cup {Untagged} /\ lastHistoryID \in 0 .. Len(parts)
  /\ seenDelta \subseteq 1 .. Len(parts) /\ line \in 0 .. Len(parts)
=============================================================================
