----------------------------- MODULE InputField -----------------------------
(* The text field under the prompt and under every filter box                *)
(* (internal/adapters/terminal: input_field.go, prompt_input.go): a value, a *)
(* caret, and a one-line viewport that follows the caret by whole grapheme   *)
(* clusters.                                                                 *)
(* Characters are one-letter strings: "a" draws one cell, "W" two, "m" is a  *)
(* combining mark that joins the cluster before it, "V" a variation selector *)
(* that joins it too and makes it two cells wide, "n" a line feed, "r" a     *)
(* carriage return and "t" a control character.                              *)
EXTENDS Integers, Sequences, FiniteSets, FiniteSetsExt

CONSTANTS FieldWidths,   \* the widths the box takes
          Typed,         \* characters typed
          Blocks,        \* lengths of the blocks pasted
          MaxValue       \* bound on the length of the value

VARIABLES value, pos, goalCol, visLine, visStart, boxWidth, multiline

field == <<value, pos, goalCol, visLine, visStart, boxWidth, multiline>>

(***************************************************************************)
(* Clusters and cells of a line.                                           *)
(***************************************************************************)
Joins == {"m", "V"}
Sub(s, from, to) == SubSeq(s, from + 1, to)

\* The rune indices where a cluster starts.
Starts(line) == {i \in 0 .. Len(line) - 1 : i = 0 \/ line[i + 1] \notin Joins}
ClusterAt(line, i) == IF i >= Len(line) THEN Len(line) ELSE Max({s \in Starts(line) : s <= i})
ClusterEnd(line, s) == Min({e \in Starts(line) \cup {Len(line)} : e > s})

\* A selector widens the narrow character it follows.
Widened(line) ==
    {s \in Starts(line) : line[s + 1] = "a"
        /\ \E i \in s + 2 .. Len(line) : line[i] = "V" /\ \A j \in s + 2 .. i : line[j] \in Joins}

RunesWidth(line) ==
    Cardinality({i \in DOMAIN line : line[i] = "a"}) + 2 * Cardinality({i \in DOMAIN line : line[i] = "W"})
        + Cardinality(Widened(line))

\* The last boundary that no cluster before it carries past target cells.
RuneIndexAtWidth(line, target) ==
    LET over == {s \in Starts(line) : RunesWidth(Sub(line, 0, ClusterEnd(line, s))) > target}
    IN  IF over = {} THEN Len(line) ELSE Min(over)

FirstRuneStartAtLeast(line, target) ==
    LET far == {s \in Starts(line) : RunesWidth(Sub(line, 0, s)) >= target}
    IN  IF target <= 0 THEN 0 ELSE IF far = {} THEN Len(line) ELSE Min(far)

(***************************************************************************)
(* Lines of a value.  A field is a record of the variables.                 *)
(***************************************************************************)
LineStart(v, p) == Max({i \in 0 .. p : i = 0 \/ v[i] = "n"})
LineEnd(v, p) == Min({i \in p .. Len(v) : i = Len(v) \/ v[i + 1] = "n"})
Line(m) == Sub(m.value, LineStart(m.value, m.pos), LineEnd(m.value, m.pos))
Anchored_Not(line, vis, start) == vis
Anchored(line, vis, start) == IF vis >= Len(line) THEN Len(line) ELSE start

\* Where the viewport starts so that the cluster under the caret is in it.
Scrolled(line, caret, vis, w) ==
    LET anchored  == Anchored(line, vis, ClusterAt(line, vis))
        startCell == RunesWidth(Sub(line, 0, anchored))
        caretCell == RunesWidth(Sub(line, 0, caret))
        at        == ClusterAt(line, caret)
        need      == IF caret = Len(line) THEN 1 ELSE RunesWidth(Sub(line, at, ClusterEnd(line, at)))
        start     == FirstRuneStartAtLeast(line, caretCell + need - w)
    IN  CASE RunesWidth(line) <= w -> 0
          [] RunesWidth(line) > w /\ caretCell < startCell -> at
          [] RunesWidth(line) > w /\ caretCell + need > startCell + w ->
                IF RunesWidth(Sub(line, 0, start)) > caretCell THEN at ELSE start
          [] OTHER -> anchored

EnsureCaretVisible(m) ==
    LET here == LineStart(m.value, m.pos)
        line == Line(m)
        vis  == IF here # m.visLine THEN 0 ELSE IF m.visStart > Len(line) THEN Len(line) ELSE m.visStart
    IN  IF m.boxWidth <= 0 THEN m
        ELSE [m EXCEPT !.visLine = here, !.visStart = Scrolled(line, m.pos - here, vis, m.boxWidth)]

(***************************************************************************)
(* Movement.                                                               *)
(***************************************************************************)
At(m, p) == [m EXCEPT !.pos = p, !.goalCol = -1]

MoveLeft(m) == IF m.pos <= LineStart(m.value, m.pos) THEN m ELSE At(m, m.pos - 1)
MoveRight(m) == IF m.pos >= LineEnd(m.value, m.pos) THEN m ELSE At(m, m.pos + 1)
Home(m) == [At(m, LineStart(m.value, m.pos)) EXCEPT !.visStart = 0]
End(m) == At(m, LineEnd(m.value, m.pos))

Column(m) == RunesWidth(Sub(m.value, LineStart(m.value, m.pos), m.pos))
Goal_Here(m) == Column(m)
Goal(m) == IF m.goalCol >= 0 THEN m.goalCol ELSE Column(m)

\* To the goal column of the line that starts at ls.
OnLine(m, ls) ==
    LET line == Sub(m.value, ls, LineEnd(m.value, ls))
        width == RunesWidth(line)
    IN  [m EXCEPT !.goalCol = Goal(m),
                  !.pos = ls + RuneIndexAtWidth(line, IF Goal(m) < width THEN Goal(m) ELSE width)]

MoveLineUp(m) ==
    LET ls == LineStart(m.value, m.pos)
    IN  IF ls = 0 THEN m ELSE OnLine(m, LineStart(m.value, ls - 1))

MoveLineDown(m) ==
    LET le == LineEnd(m.value, m.pos)
    IN  IF le >= Len(m.value) THEN m ELSE OnLine(m, le + 1)

(***************************************************************************)
(* Editing.                                                                *)
(***************************************************************************)
Without(v, i) == Sub(v, 0, i) \o Sub(v, i + 1, Len(v))
Inserted(m, text) ==
    [At(m, m.pos + Len(text)) EXCEPT !.value = Sub(m.value, 0, m.pos) \o text \o Sub(m.value, m.pos, Len(m.value))]

DeleteBackward(m) == IF m.pos = 0 THEN m ELSE [At(m, m.pos - 1) EXCEPT !.value = Without(m.value, m.pos - 1)]
DeleteForward(m) == IF m.pos >= Len(m.value) THEN m ELSE [At(m, m.pos) EXCEPT !.value = Without(m.value, m.pos)]
InsertNewline(m) == IF m.multiline THEN Inserted(m, <<"n">>) ELSE m

IsPrintable(c) == c \notin {"n", "r", "t"}
HandleInsertion(m, c) == IF IsPrintable(c) THEN Inserted(m, <<c>>) ELSE m

StripLineBreaks(text) == SelectSeq(text, LAMBDA c : c # "n")

\* Line ends become LF, control characters go, trailing breaks go.
BlockText(text) ==
    LET lf   == SelectSeq([i \in DOMAIN text |->
                              CASE text[i] = "r" -> "n"
                                [] text[i] = "n" /\ i > 1 /\ text[i - 1] = "r" -> "t"
                                [] OTHER -> text[i]],
                          LAMBDA c : c # "t")
        kept == {i \in DOMAIN lf : lf[i] # "n"}
    IN  SubSeq(lf, 1, IF kept = {} THEN 0 ELSE Max(kept))

Accepted(m, text) == IF m.multiline THEN text ELSE StripLineBreaks(text)
HandlePaste(m, text) ==
    LET filtered == Accepted(m, BlockText(text))
    IN  IF filtered = <<>> THEN m ELSE Inserted(m, filtered)

WithValue(m, text) ==
    LET v == Accepted(m, text)
    IN  [At(m, Len(v)) EXCEPT !.value = v, !.visLine = -1, !.visStart = 0]

WithCaretPos(m, p) == At(m, IF p > Len(m.value) THEN Len(m.value) ELSE p)

(***************************************************************************)
(* What is drawn: the clusters that fit the box, and the caret's cell.      *)
(***************************************************************************)
BuildVisibleText(m) ==
    LET line == Line(m)
        from == {s \in Starts(line) : ClusterEnd(line, s) > m.visStart}
        base == IF from = {} THEN Len(line) ELSE Min(from)
        fits == {e \in base .. Len(line) : (e = Len(line) \/ e \in Starts(line))
                                            /\ RunesWidth(Sub(line, base, e)) <= m.boxWidth}
    IN  Sub(line, base, IF fits = {} THEN base ELSE Max(fits))

CaretCell(m) ==
    LET line == Line(m)
        rel  == m.pos - LineStart(m.value, m.pos)
    IN  RunesWidth(Sub(line, 0, rel)) - RunesWidth(Sub(line, 0, m.visStart))

(***************************************************************************)
(* The field as a state machine: keys, pastes, an editor's buffer, a new    *)
(* width.                                                                  *)
(***************************************************************************)
Now == [value |-> value, pos |-> pos, goalCol |-> goalCol, visLine |-> visLine,
        visStart |-> visStart, boxWidth |-> boxWidth, multiline |-> multiline]

Becomes(m) ==
    /\ Len(m.value) <= MaxValue
    /\ value' = m.value /\ pos' = m.pos /\ goalCol' = m.goalCol /\ visLine' = m.visLine
    /\ visStart' = m.visStart /\ boxWidth' = m.boxWidth /\ multiline' = m.multiline

FieldInit ==
    /\ value = <<>> /\ pos = 0 /\ goalCol = -1 /\ visLine = 0 /\ visStart = 0
    /\ boxWidth \in FieldWidths /\ multiline \in BOOLEAN

Move == \E f \in {MoveLeft(Now), MoveRight(Now), MoveLineUp(Now), MoveLineDown(Now), Home(Now), End(Now)} :
            Becomes(EnsureCaretVisible(f))
Delete == \E f \in {DeleteBackward(Now), DeleteForward(Now)} : Becomes(EnsureCaretVisible(f))
Insert == \E c \in Typed : Becomes(EnsureCaretVisible(HandleInsertion(Now, c)))
Break == Becomes(EnsureCaretVisible(InsertNewline(Now)))
PasteBlock == \E n \in Blocks : \E text \in [1 .. n -> Typed \cup {"n", "r", "t"}] :
                Becomes(EnsureCaretVisible(HandlePaste(Now, text)))

\* An external editor's buffer, or a value the owner sets.
WithBlockValue == \E n \in Blocks : \E text \in [1 .. n -> Typed \cup {"n", "r", "t"}] :
                    Becomes(EnsureCaretVisible(WithValue(Now, BlockText(text))))
PutCaret == \E p \in {0, MaxValue} : Becomes(EnsureCaretVisible(WithCaretPos(Now, p)))
Resize == \E w \in FieldWidths : Becomes(EnsureCaretVisible([Now EXCEPT !.boxWidth = w]))

FieldNext == Move \/ Delete \/ Insert \/ Break \/ PasteBlock \/ WithBlockValue \/ PutCaret \/ Resize
FieldSpec == FieldInit /\ [][FieldNext]_field

(***************************************************************************)
(* Properties.                                                             *)
(***************************************************************************)

\* Whatever is typed, deleted, pasted and resized, the box shows the caret: the
\* viewport starts at a cluster of the caret's own line, the caret's cell is on
\* the text that is drawn and in a box wide enough for the cluster under the
\* caret that cluster is drawn whole; and a one-line field holds no break
\* (InputField.ensureCaretVisible, buildVisibleText, CaretCell).
CaretShown ==
    LET line == Line(Now)
        rel  == pos - LineStart(value, pos)
        at   == ClusterAt(line, rel)
        vis  == RunesWidth(BuildVisibleText(Now))
        under == IF rel = Len(line) THEN 0 ELSE RunesWidth(Sub(line, at, ClusterEnd(line, at)))
    IN  /\ pos \in 0 .. Len(value) /\ visLine = LineStart(value, pos)
        /\ visStart \in Starts(line) \cup {0, Len(line)}
        /\ CaretCell(Now) >= 0
        /\ boxWidth >= 2 => CaretCell(Now) <= vis
        /\ (boxWidth > 2 /\ at = rel) => CaretCell(Now) + under <= vis
        /\ ~multiline => \A i \in DOMAIN value : value[i] # "n"

\* Up undoes Down: a caret that goes down a line and up again, through a line
\* too short or cut differently, comes back to the column it left
\* (InputField.ensureGoalColumn, moveLineUp, moveLineDown).
UpUndoesDown ==
    (pos - LineStart(value, pos) \in Starts(Line(Now)) \cup {Len(Line(Now))} /\ goalCol = -1)
        => LET back == MoveLineUp(MoveLineDown(Now))
           IN  LineEnd(value, pos) < Len(value) =>
                  /\ LineStart(value, back.pos) = LineStart(value, pos)
                  /\ Column(back) = Column(Now)
=============================================================================
