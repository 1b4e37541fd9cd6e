----------------------------- MODULE Transcript -----------------------------
(***************************************************************************)
(* The transcript pane: outputWriter turns the session's frames into        *)
(* windows, WindowBuffer counts and clips their rows, DisplayModel moves a   *)
(* cursor and a viewport over them, and the tick draws what changed.         *)
(*                                                                         *)
(* Two goroutines meet here.  The session's pump calls Write under          *)
(* outputWriter.mu; the event loop handles keys and ticks.  Each touch of    *)
(* the buffer takes WindowBuffer.mu on its own, so a key or a tick runs      *)
(* between the moment a frame raises the redraw flag (WriteBegin) and the    *)
(* moment it changes the buffer (WriteApply).                               *)
(*                                                                         *)
(* A row is [win, what, mark]: a body row carries no position, as the worst  *)
(* case for the comparison of one clip with the last (a message that repeats *)
(* one line).  A narrow pane wraps a body row into two.                      *)
(***************************************************************************)
EXTENDS Integers, Sequences, SequencesExt, FiniteSetsExt

CONSTANTS
    Heights,      \* heights of the pane
    MaxFrames,    \* bound on the frames the session writes
    MaxWindows,   \* bound on the windows
    MaxBody,      \* bound on the body rows of one window, before wrapping
    MaxActs,      \* bound on what the user does: keys, resizes, overlays, focus
    MaxEvents     \* bound on both together

Wide == 2
Narrow == 1
VARIABLES
    wb,        \* WindowBuffer: wins, heights, total, dirty, index, width
    pane,      \* DisplayModel and its ScrollView: y, h, total, cursor, follow,
               \*   focused, blocked, dirty (contentDirty), content
    pending,   \* pendingTextDeltas and pendingToolDeltas: [win, tool], in arrival order
    redraw,    \* outputWriter.dirty
    task,      \* sessionState: on (inProgress), started (taskStarted)
    writing,   \* the frame inside Write, or NoFrame
    ticking,   \* the tick is past FlushPendingDeltas
    stream,    \* the session's side: last history id, texts and call open, frames left
    acts       \* how much the user has done

vars == <<wb, pane, pending, redraw, task, writing, ticking, stream, acts>>

NoFrame == [tag |-> "none", id |-> 0]
NoIndex == 0           \* dirtyClean
AllIndex == -2         \* dirtyFullRebuild

-----------------------------------------------------------------------------
(* Window: one message, and the rows its renderer last built.               *)

NoRows == [width |-> 0, folded |-> FALSE, blocked |-> FALSE, rows |-> <<>>]

NewWindow(id, tag, n, visible, status) ==
    [id |-> id, tag |-> tag, n |-> n, visible |-> visible, status |-> status,
     folded |-> tag \notin {"AX", "UX"}, md |-> TRUE, cache |-> NoRows]

Row(w, what, blocked) == [win |-> w.id, what |-> what, mark |-> blocked]

(* The rows of w when nothing is cached: the own line, then the body.       *)
FreshRows(w, width, blocked) ==
    IF w.folded
    THEN << Row(w, <<"line", w.n, w.status>>, blocked) >>
    ELSE << Row(w, <<"head", w.status>>, blocked) >>
         \o [j \in 1..((Wide - width + 1) * w.n) |-> Row(w, <<"body", w.md>>, blocked)]

Rebuilt(w, width, blocked) ==
    [w EXCEPT !.cache = [width |-> width, folded |-> w.folded, blocked |-> blocked,
                         rows |-> FreshRows(w, width, blocked)]]

BuildLines(w, width, blocked) ==
    IF w.cache # NoRows /\ w.cache.width = width
       /\ w.cache.folded = w.folded /\ w.cache.blocked = blocked
    THEN w ELSE Rebuilt(w, width, blocked)

Changed(w) == [w EXCEPT !.cache = NoRows]     \* Window.Invalidate, cache.valid = false

(* UpdateLineCountFast answers for folded windows and for text; the rest    *)
(* build their rows, or find them built.                                    *)
CountRows(w, width) ==
    CASE ~w.visible -> 0
      [] w.visible /\ w.folded -> 1
      [] w.visible /\ ~w.folded /\ w.tag = "AX" -> Len(FreshRows(w, width, FALSE))
      [] OTHER -> Len(BuildLines(w, width, FALSE).cache.rows)

-----------------------------------------------------------------------------
(* WindowBuffer                                                             *)

MarkDirty_Last(b, i) == [b EXCEPT !.index = i, !.dirty = TRUE]

MarkDirty(b, i) ==
    CASE b.index = AllIndex -> b
      [] b.index \notin {AllIndex, NoIndex, i} -> [b EXCEPT !.index = AllIndex, !.dirty = TRUE]
      [] OTHER -> [b EXCEPT !.index = i, !.dirty = TRUE]

SetWin(b, i, w) == MarkDirty([b EXCEPT !.wins[i] = Changed(w)], i)
AddWin(b, w) == MarkDirty([b EXCEPT !.wins = Append(@, w)], Len(b.wins) + 1)

FindWin(b, id) == IF \E i \in DOMAIN b.wins : b.wins[i].id = id
                  THEN CHOOSE i \in DOMAIN b.wins : b.wins[i].id = id ELSE 0

AppendOrUpdate(b, id, tag, n) ==
    LET i == FindWin(b, id) IN
    IF i # 0
    THEN SetWin(b, i, [b.wins[i] EXCEPT !.n = @ + n, !.visible = @ \/ n > 0])
    ELSE AddWin(b, NewWindow(id, tag, n, n > 0, "text"))

(* HandleToolInputEvent, HandleToolInputDelta, HandleToolOutputDelta: the   *)
(* window of a call, made on the first frame that names it, is pending.      *)
HandleTool(b, id, n) ==
    LET i == FindWin(b, id) IN
    IF i # 0
    THEN SetWin(b, i, [b.wins[i] EXCEPT !.n = n,
                       !.status = IF @ = "none" THEN "pending" ELSE @])
    ELSE AddWin(b, NewWindow(id, "AF", n, TRUE, "pending"))

HandleToolOutput(b, id, n) ==
    LET i == FindWin(b, id) IN
    IF i # 0
    THEN SetWin(b, i, [b.wins[i] EXCEPT !.n = n, !.status = "settled"])
    ELSE AddWin(b, NewWindow(id, "AF", n, TRUE, "settled"))

Unsettled(b) == {i \in DOMAIN b.wins : b.wins[i].status \in {"none", "pending"}}
Pending(b) == {i \in DOMAIN b.wins : b.wins[i].status = "pending"}

SetStatus(b, ids, status) ==
    LET upTo[i \in 0..Len(b.wins)] ==
          IF i = 0 THEN b
          ELSE IF i \in ids THEN SetWin(upTo[i - 1], i, [b.wins[i] EXCEPT !.status = status])
          ELSE upTo[i - 1]
    IN upTo[Len(b.wins)]

SettleUnfinishedTools_None(b) == b
SettleUnfinishedTools(b) == SetStatus(b, Unsettled(b), "settled")
InvalidateRunningToolSpinners(b) == SetStatus(b, Pending(b), "pending")

ToggleFold(b, i) == MarkDirty([b EXCEPT !.wins[i].folded = ~@], i)
ToggleMarkdown(b, i) == SetWin(b, i, [b.wins[i] EXCEPT !.md = ~@])

WithWidth(b, width) ==
    IF b.width = width THEN b
    ELSE [b EXCEPT !.width = width, !.dirty = TRUE, !.index = AllIndex,
                   !.wins = [i \in DOMAIN @ |-> Changed(@[i])]]

SumFirst(hs, n) ==
    LET sum[i \in 0..n] == IF i = 0 THEN 0 ELSE sum[i - 1] + hs[i] IN sum[n]

(* A window counted by the slow path keeps the rows it built.               *)
Counted(w, width) ==
    IF w.visible /\ ~w.folded /\ w.tag # "AX" THEN BuildLines(w, width, FALSE) ELSE w

OldHeight(b, i) == IF i <= Len(b.heights) THEN b.heights[i] ELSE 0
ToMeasure(b) == IF b.index \in DOMAIN b.wins THEN {b.index} ELSE DOMAIN b.wins

WithHeights(b, hs) ==
    [b EXCEPT
        !.heights = hs,
        !.total = IF b.index \in DOMAIN b.wins
                  THEN @ + hs[b.index] - OldHeight(b, b.index) ELSE SumFirst(hs, Len(hs)),
        !.wins = [i \in DOMAIN @ |->
                    IF i \in ToMeasure(b) THEN Counted(@[i], b.width) ELSE @[i]],
        !.dirty = FALSE, !.index = NoIndex]

(* The one caller that may ask for dimmed rows, GetAll, finds nothing to do. *)
EnsureLineHeights(b) ==
    IF ~b.dirty /\ Len(b.heights) = Len(b.wins) THEN b
    ELSE WithHeights(b, [i \in DOMAIN b.wins |->
            IF i \in ToMeasure(b) THEN CountRows(b.wins[i], b.width) ELSE OldHeight(b, i)])

StartOf(b, i) == SumFirst(b.heights, i - 1)
EndOf(b, i) == StartOf(b, i) + b.heights[i]

FindWindowAtLine(b, line) ==
    IF \E i \in DOMAIN b.wins : EndOf(b, i) > line
    THEN CHOOSE i \in DOMAIN b.wins : EndOf(b, i) > line /\ StartOf(b, i) <= line
    ELSE Len(b.wins)

(* lines[from:to] of the rows a window has built; Go panics past the end.   *)
Panic == [win |-> 0, what |-> <<"panic">>, mark |-> FALSE]
Blank == [win |-> 0, what |-> <<"blank">>, mark |-> FALSE]
Slice(rows, from, to) == IF to > Len(rows) THEN <<Panic>> ELSE SubSeq(rows, from + 1, to)

(* renderVirtual: window i's share of the rows [top, top + h).  The window  *)
(* cut by the top edge pins its own line over its first row.                 *)
PinTakes_Nothing(pin) == 0
PinTakes(pin) == IF pin THEN 1 ELSE 0

Pinned(b, i, top) ==
    /\ i = FindWindowAtLine(b, top) /\ ~b.wins[i].folded
    /\ StartOf(b, i) < top /\ top + 1 < EndOf(b, i)

UnderCursor(rows) == << [rows[1] EXCEPT !.what = <<"cursor">> \o @] >> \o Tail(rows)

Clip(w, rows, from, pin, cursor, blocked) ==
    IF pin THEN << Row(w, <<"pin", from - 1, cursor>>, blocked) >> \o rows
    ELSE IF from = 0 /\ cursor THEN UnderCursor(rows)
    ELSE rows

WindowFragment(b, i, from, to, pin, cursor, blocked) ==
    IF ~b.wins[i].visible \/ from >= to THEN <<>>
    ELSE Clip(b.wins[i], Slice(BuildLines(b.wins[i], b.width, blocked).cache.rows, from, to),
              from, pin, cursor = i, blocked)

Fragment(b, i, s, pin, top, h, cursor, blocked) ==
    WindowFragment(b, i, Max({top, s}) - s + PinTakes(pin),
                   Min({top + h, s + b.heights[i]}) - s, pin, cursor, blocked)

Overlapping(b, top, h) ==
    FindWindowAtLine(b, top)..FindWindowAtLine(b, Max({0, top + h - 1}))

PadTo(h, text) == text \o [j \in 1..(h - Len(text)) |-> Blank]

RenderVirtual(b, top, h, cursor, blocked) ==
    LET upTo[i \in 0..Len(b.wins)] ==
          IF i = 0 THEN <<>>
          ELSE upTo[i - 1] \o
               IF i \notin Overlapping(b, top, h) THEN <<>>
               ELSE Fragment(b, i, StartOf(b, i), Pinned(b, i, top), top, h, cursor, blocked)
    IN PadTo(h, upTo[Len(b.wins)])

(* The windows a draw touched keep the rows it built.                       *)
Drawn(b, top, h, blocked) ==
    [b EXCEPT !.wins = [i \in DOMAIN @ |->
        IF @[i].visible /\ i \in Overlapping(b, top, h)
           /\ StartOf(b, i) < top + h /\ EndOf(b, i) > top
        THEN BuildLines(@[i], b.width, blocked) ELSE @[i]]]

Visible(b) == {i \in DOMAIN b.wins : b.wins[i].visible}
FirstVisible(b) == IF Visible(b) = {} THEN 0 ELSE Min(Visible(b))
LastVisible(b) == IF Visible(b) = {} THEN 0 ELSE Max(Visible(b))
NearestVisible(b, i) ==
    LET after == {j \in Visible(b) : j >= i}
        before == {j \in Visible(b) : j < i}
    IN IF after # {} THEN Min(after) ELSE IF before # {} THEN Max(before) ELSE 0

-----------------------------------------------------------------------------
(* DisplayModel and ScrollView.  An operator takes s = [b, d], the buffer    *)
(* and the pane, since asking for line positions refreshes the buffer.       *)

ClampInt(v, hi) == Max({0, Min({v, Max({0, hi})})})
MaxY(d) == Max({0, d.total - d.h})
ScrollTo(d, y) == [d EXCEPT !.y = ClampInt(y, d.total - d.h), !.dirty = TRUE]
AtBottom(d) == d.y >= MaxY(d)
GotoBottom(d) == [d EXCEPT !.y = MaxY(d)]

AfterDraw_Changed(d, new) ==
    LET d2 == [d EXCEPT !.content = new]
    IN IF d.follow /\ new # d.content THEN GotoBottom(d2) ELSE d2

AfterDraw(d, new) ==                           \* even when the clip is the last one again
    LET d2 == [d EXCEPT !.content = new] IN IF d.follow THEN GotoBottom(d2) ELSE d2

Counting(d, total) ==                          \* ScrollView.WithTotalLines
    [d EXCEPT !.dirty = FALSE, !.total = total, !.y = ClampInt(@, total - d.h)]
Target(d) == IF d.follow /\ d.total > d.h THEN d.total - d.h ELSE d.y
CursorShown(d) == IF d.focused THEN d.cursor ELSE 0

DrawnAt(b, d, top) ==
    IF b.wins = <<>> THEN [b |-> b, d |-> AfterDraw(d, <<>>)]
    ELSE [b |-> Drawn(b, top, d.h, d.blocked),
          d |-> AfterDraw(d, RenderVirtual(b, top, d.h, CursorShown(d), d.blocked))]

Redrawn(b, d) == DrawnAt(b, Counting(d, b.total), Target(Counting(d, b.total)))

UpdateContent(s) ==
    IF ~(s.b.dirty \/ s.d.dirty) THEN s ELSE Redrawn(EnsureLineHeights(s.b), s.d)

With(d, field, v) == IF d[field] = v THEN d ELSE [d EXCEPT ![field] = v, !.dirty = TRUE]

SetCursor(d, i) ==
    IF d.cursor = i /\ ~d.follow THEN d
    ELSE [d EXCEPT !.cursor = i, !.follow = FALSE, !.dirty = TRUE]

Scrolled(d) == With(d, "follow", FALSE)                    \* MarkUserScrolled

ToLastWindow(s) ==
    [s EXCEPT !.d = [@ EXCEPT !.cursor = LastVisible(s.b), !.follow = TRUE, !.dirty = TRUE]]
FollowLatest(s) == LET t == ToLastWindow(s) IN UpdateContent([t EXCEPT !.d = GotoBottom(@)])

(* GetWindowLineRange: to ask where a window stands refreshes the heights.   *)
Measured(s) == [s EXCEPT !.b = EnsureLineHeights(@)]
CursorStart(s) == IF s.d.cursor \in DOMAIN s.b.heights THEN StartOf(s.b, s.d.cursor) ELSE 0
CursorEnd(s) == IF s.d.cursor \in DOMAIN s.b.heights THEN EndOf(s.b, s.d.cursor) ELSE 0

IntoView(s) ==
    [s EXCEPT !.d =
        IF CursorEnd(s) <= @.y THEN ScrollTo(@, Max({0, CursorEnd(s) - @.h}))
        ELSE IF CursorStart(s) >= @.y + @.h THEN ScrollTo(@, CursorStart(s))
        ELSE @]
EnsureVisible(s) == IF s.d.cursor = 0 THEN s ELSE IntoView(Measured(s))

ToTop(s) == [s EXCEPT !.d = ScrollTo(@, CursorStart(s))]
CursorToTop(s) == IF s.d.cursor = 0 THEN s ELSE ToTop(Measured(s))

DownTo(s) == IF CursorStart(s) < s.d.y THEN ToTop(s) ELSE s
Anchor(s) == IF s.d.cursor = 0 THEN s ELSE DownTo(Measured(s))

ClampCursor(s) ==
    [s EXCEPT !.d.cursor = IF s.b.wins = <<>> \/ @ = 0 THEN 0 ELSE NearestVisible(s.b, @)]

\* A search over visible windows, which refreshes the heights: the nearest of set, up or down.
Nearest(s, set) == IF Min(set) > s.d.cursor THEN Min(set) ELSE Max(set)
Seek(s, set) ==
    IF s.b.wins = <<>> THEN s
    ELSE [Measured(s) EXCEPT !.d = IF set = {} THEN @ ELSE SetCursor(@, Nearest(s, set))]

Below(s) == {i \in Visible(s.b) : i > s.d.cursor}
Above(s) == {i \in Visible(s.b) : i < s.d.cursor}
Prompts(s) == {i \in Visible(s.b) : s.b.wins[i].tag = "UX"}

MoveDown(s) ==
    IF s.d.follow \/ s.b.wins = <<>> THEN s
    ELSE IF s.d.cursor = 0
         THEN IF Visible(s.b) = {} THEN s ELSE [s EXCEPT !.d = SetCursor(@, FirstVisible(s.b))]
         ELSE Seek(s, Below(s))

MoveUp(s) ==
    IF s.b.wins = <<>> THEN s
    ELSE IF s.d.cursor = 0
         THEN IF Visible(s.b) = {} THEN s ELSE [s EXCEPT !.d = SetCursor(@, LastVisible(s.b))]
         ELSE Seek(s, Above(s))

(* The windows at the top, at the bottom and across the middle of the view.  *)
PutCursor(s, i) ==
    IF i \in {0, s.d.cursor} THEN s ELSE [s EXCEPT !.d = SetCursor(@, i)]
LowestIn(set) == IF set = {} THEN 0 ELSE Max(set)
HighestIn(set) == IF set = {} THEN 0 ELSE Min(set)

InView(s) == {i \in Visible(s.b) : StartOf(s.b, i) < s.d.y + s.d.h /\ EndOf(s.b, i) > s.d.y}
Across(s, line) == {i \in Visible(s.b) : StartOf(s.b, i) <= line /\ line < EndOf(s.b, i)}
Middle(s) == s.d.y + s.d.h \div 2
Abs(n) == IF n < 0 THEN -n ELSE n
Gap(s, i) == Abs((StartOf(s.b, i) + EndOf(s.b, i)) \div 2 - Middle(s))
Closest(s) == {i \in InView(s) : \A j \in InView(s) : Gap(s, i) <= Gap(s, j)}

AtTopEdge(s) ==
    {i \in Visible(s.b) : /\ StartOf(s.b, i) < s.d.y + s.d.h
                          /\ EndOf(s.b, i) > s.d.y \/ StartOf(s.b, i) >= s.d.y}

ToTopEdge(s) == PutCursor(s, HighestIn(AtTopEdge(s)))
ToBottomEdge(s) == PutCursor(s, LowestIn(InView(s)))
ToCenter(s) == PutCursor(s, HighestIn(IF Across(s, Middle(s)) # {} THEN Across(s, Middle(s))
                                      ELSE Closest(s)))
MoveToTop(s) == IF s.b.wins = <<>> THEN s ELSE ToTopEdge(Measured(s))
MoveToBottom(s) == IF s.b.wins = <<>> \/ s.d.follow THEN s ELSE ToBottomEdge(Measured(s))
MoveToCenter(s) == IF s.b.wins = <<>> THEN s ELSE ToCenter(Measured(s))

ToPrompt(s, set) ==
    IF set = {} THEN Seek(s, set) ELSE UpdateContent(CursorToTop(Seek(s, set)))

Home(s) ==                                     \* WithWindowCursor(0), GotoTop
    LET first == NearestVisible(s.b, 1)
        d == IF s.d.cursor = first /\ first # 0 THEN s.d ELSE SetCursor(s.d, first)
    IN [s EXCEPT !.d = [d EXCEPT !.y = 0, !.dirty = TRUE]]

ScrollUpBy(s, n) == [s EXCEPT !.d = ScrollTo(Scrolled(@), @.y - n)]
ScrollDownBy(s, n) == [s EXCEPT !.d = ScrollTo(Scrolled(@), @.y + n)]

Fold(s) ==
    IF s.d.cursor \notin DOMAIN s.b.wins THEN s
    ELSE [b |-> ToggleFold(s.b, s.d.cursor), d |-> [s.d EXCEPT !.dirty = TRUE]]

Renders(s) ==
    LET c == s.d.cursor
    IN c \in DOMAIN s.b.wins /\ s.b.wins[c].tag = "AX" /\ ~s.b.wins[c].folded

(* Leaving the redraw to the buffer's own flag, which Anchor clears.          *)
Markdown_Quiet(s) == [s EXCEPT !.b = ToggleMarkdown(@, s.d.cursor)]
Markdown(s) == [b |-> ToggleMarkdown(s.b, s.d.cursor), d |-> [s.d EXCEPT !.dirty = TRUE]]

Moved(s, key) ==
    CASE key = "j" -> MoveDown(s)
      [] key = "k" -> MoveUp(s)
      [] key = "H" -> MoveToTop(s)
      [] key = "L" -> MoveToBottom(s)
      [] key = "M" -> MoveToCenter(s)

Amount(s, key) == IF key \in {"d", "u"} THEN Max({1, s.d.h \div 2}) ELSE 1

Pressed(s, key) ==                             \* DisplayModel.Update
    CASE key \in {"j", "k", "H", "L", "M"} -> UpdateContent(EnsureVisible(Moved(s, key)))
      [] key \in {"u", "K"} -> UpdateContent(ScrollUpBy(s, Amount(s, key)))
      [] key \in {"d", "J"} ->
           IF AtBottom(s.d) THEN s ELSE UpdateContent(ScrollDownBy(s, Amount(s, key)))
      [] key = "G" -> FollowLatest(s)
      [] key = "g" -> UpdateContent(Home(s))
      [] key = "space" -> UpdateContent(EnsureVisible(Anchor(Fold(s))))
      [] key = "r" -> IF Renders(s) THEN UpdateContent(EnsureVisible(Anchor(Markdown(s)))) ELSE s
      [] key = "f" -> ToPrompt(s, {i \in Prompts(s) : i > s.d.cursor})
      [] key = "b" -> ToPrompt(s, {i \in Prompts(s) : i < s.d.cursor})
      [] key = "e" -> IF s.d.cursor = 0 THEN s ELSE [s EXCEPT !.d = Scrolled(@)]

PaneKeys == {"j", "k", "H", "L", "M", "d", "u", "J", "K", "G", "g", "space", "r", "f", "b", "e"}

-----------------------------------------------------------------------------
(* outputWriter: frames become changes of the buffer.                       *)

FlushOne(b, e) == IF e.tool THEN HandleTool(b, e.id, 1) ELSE AppendOrUpdate(b, e.id, "AX", e.n)

(* In an order a map iteration may give.                                    *)
FlushPendingDeltas_MapOrder(b, p) ==
    LET from[i \in 1..(MaxWindows + 1)] ==
          IF i > MaxWindows THEN b
          ELSE IF \E e \in p : e.id = i THEN FlushOne(from[i + 1], CHOOSE e \in p : e.id = i)
          ELSE from[i + 1]
    IN IF p = {} THEN b ELSE from[1]

FlushPendingDeltas(b, p) ==                    \* in the order of the history ids
    LET upTo[i \in 0..MaxWindows] ==
          IF i = 0 THEN b
          ELSE IF \E e \in p : e.id = i THEN FlushOne(upTo[i - 1], CHOOSE e \in p : e.id = i)
          ELSE upTo[i - 1]
    IN IF p = {} THEN b ELSE upTo[MaxWindows]

Accumulates(f) == f.tag \in {"Ax", "Af"}        \* isAccumulatingDelta
WritesThrough(f) == f.tag = "Uf"               \* isWriteThroughDelta
SetsDirty(f) == f.tag \in {"AX", "UX", "AF", "UF", "Uf"}

Pend(p, id, tool) ==                           \* pendTextDelta, pendToolDelta
    IF \E e \in p : e.id = id
    THEN {IF e.id = id THEN [e EXCEPT !.n = @ + 1] ELSE e : e \in p}
    ELSE p \cup {[id |-> id, tool |-> tool, n |-> 1]}

(* What the session may write next, and what it has written then.  Nothing   *)
(* about a call follows its result, and nothing of a task its end; a task    *)
(* that is canceled ends with its call unanswered.                          *)
Size(id) == LET i == FindWin(wb, id) IN
            (IF i = 0 THEN 0 ELSE wb.wins[i].n)
            + (IF \E e \in pending : e.id = id THEN (CHOOSE e \in pending : e.id = id).n ELSE 0)

NewId == stream.hid + 1
Opens(id) == [stream EXCEPT !.hid = Max({@, id})]
Frames ==
    LET F(tag, id, next) == [f |-> [tag |-> tag, id |-> id], next |-> next]
        st == stream
        run == st.on
    IN (IF ~run THEN {F("TaskOn", 0, [st EXCEPT !.on = TRUE])} ELSE {})
       \cup (IF run THEN {F("TaskOff", 0, [st EXCEPT !.on = FALSE, !.open = {}, !.call = 0])} ELSE {})
       \cup (IF NewId <= MaxWindows THEN {F("SN", NewId, Opens(NewId))} ELSE {})
       \cup (IF run /\ NewId <= MaxWindows
             THEN {F("UX", NewId, Opens(NewId)), F("AX", NewId, Opens(NewId)),
                   F("Ax", NewId, [Opens(NewId) EXCEPT !.open = @ \cup {NewId}])}
                  \cup (IF st.call = 0
                        THEN {F("AF", NewId, [Opens(NewId) EXCEPT !.call = NewId, !.args = TRUE])}
                        ELSE {})
             ELSE {})
       \cup {F("Ax", id, st) : id \in {i \in st.open : Size(i) < MaxBody}}
       \cup {F("AX", id, [st EXCEPT !.open = @ \ {id}]) : id \in st.open}
       \cup (IF st.call # 0 /\ st.args
             THEN {F("Af", st.call, st), F("AF", st.call, [st EXCEPT !.args = FALSE])} ELSE {})
       \cup (IF st.call # 0 /\ ~st.args
             THEN {F("Uf", st.call, st), F("UF", st.call, [st EXCEPT !.call = 0])} ELSE {})

(* Write takes the frame: the flag first, then what was pending, and for a   *)
(* delta that only accumulates nothing more.                                *)
WriteBegin ==
    /\ writing = NoFrame
    /\ stream.left > 0 /\ acts + MaxFrames - stream.left < MaxEvents
    /\ \E x \in Frames :
         /\ stream' = [x.next EXCEPT !.left = @ - 1]
         /\ IF Accumulates(x.f)
            THEN /\ pending' = Pend(pending, x.f.id, x.f.tag = "Af")
                 /\ UNCHANGED <<wb, redraw, writing>>
            ELSE /\ writing' = x.f
                 /\ IF WritesThrough(x.f)
                    THEN UNCHANGED <<wb, pending>> /\ redraw' = TRUE
                    ELSE /\ wb' = FlushPendingDeltas(wb, pending)
                         /\ pending' = {}
                         /\ redraw' = (redraw \/ SetsDirty(x.f) \/ pending # {})
    /\ UNCHANGED <<pane, task, ticking, acts>>

(* The authoritative text of a streamed message is not appended again.      *)
Applied(b, f) ==
    CASE f.tag = "AX" /\ FindWin(b, f.id) # 0 -> MarkDirty(b, FindWin(b, f.id))
      [] f.tag = "AX" /\ FindWin(b, f.id) = 0 -> AppendOrUpdate(b, f.id, "AX", 1)
      [] f.tag = "SN" -> AppendOrUpdate(b, f.id, "SN", 1)
      [] f.tag = "UX" -> AppendOrUpdate(b, f.id, "UX", 0)
      [] f.tag \in {"AF", "Uf"} -> HandleTool(b, f.id, 1)
      [] f.tag = "UF" -> HandleToolOutput(b, f.id, MaxBody)
      [] f.tag = "TaskOff" -> IF task.on THEN SettleUnfinishedTools(b) ELSE b
      [] OTHER -> b

WriteApply ==
    /\ writing.tag \notin {"none", "UX shown", "UX filled"}
    /\ wb' = Applied(wb, writing)
    /\ task' = CASE writing.tag = "TaskOn" -> [on |-> TRUE, started |-> ~task.on \/ task.started]
                 [] writing.tag = "TaskOff" -> [task EXCEPT !.on = FALSE]
                 [] OTHER -> task
    /\ redraw' = (redraw \/ writing.tag \in {"SN", "TaskOn", "TaskOff"})
    /\ writing' = IF writing.tag = "UX" THEN [writing EXCEPT !.tag = "UX shown"] ELSE NoFrame
    /\ UNCHANGED <<pane, pending, ticking, stream, acts>>

(* bufferUserContent: the window is made empty and invisible, then shown,    *)
(* then filled, each under its own lock.                                    *)
WriteUser ==
    LET i == FindWin(wb, writing.id) IN
    /\ \/ /\ writing.tag = "UX shown"
          /\ wb' = [wb EXCEPT !.wins[i].visible = TRUE]
          /\ writing' = [writing EXCEPT !.tag = "UX filled"]
          /\ UNCHANGED redraw
       \/ /\ writing.tag = "UX filled"
          /\ wb' = SetWin(wb, i, [wb.wins[i] EXCEPT !.n = @ + 1])
          /\ redraw' = TRUE
          /\ writing' = NoFrame
    /\ UNCHANGED <<pane, pending, task, ticking, stream, acts>>

-----------------------------------------------------------------------------
(* The event loop.                                                          *)

TickFlush ==                                   \* FlushPendingDeltas waits for Write
    /\ ~ticking /\ writing = NoFrame
    /\ wb' = FlushPendingDeltas(wb, pending)
    /\ redraw' = (redraw \/ pending # {})
    /\ pending' = {}
    /\ ticking' = TRUE
    /\ UNCHANGED <<pane, task, writing, stream, acts>>

Shown == [b |-> wb, d |-> pane]

(* The rest of handleDisplayRefresh.  h is what the input box leaves of the   *)
(* screen now.                                                              *)
Following(s) == IF s.d.follow THEN ToLastWindow(s) ELSE s

(* updateDisplayHeight draws, then the refresh draws.                        *)
WithPaneHeight(s, h) ==
    UpdateContent([s EXCEPT !.d = With([@ EXCEPT !.y = ClampInt(@, s.d.total - h)], "h", h)])

Refreshed(s, due, h) ==
    IF ~due \/ s.b.wins = <<>> THEN s
    ELSE UpdateContent(Following(WithPaneHeight(s, h)))

Spun(s) == [s EXCEPT !.b = InvalidateRunningToolSpinners(@)]

TickDraw ==
    /\ ticking
    /\ \E h \in Heights, s \in {IF task.started THEN FollowLatest(Shown) ELSE Shown} :
         \E r \in {Refreshed(Spun(s), redraw \/ Pending(s.b) # {}, h)} :
            wb' = r.b /\ pane' = r.d
    /\ task' = [task EXCEPT !.started = FALSE]
    /\ redraw' = FALSE
    /\ ticking' = FALSE
    /\ UNCHANGED <<pending, writing, stream, acts>>

UI(next) ==
    /\ ~ticking
    /\ acts < MaxActs /\ acts + MaxFrames - stream.left < MaxEvents
    /\ \E s \in {next} : wb' = s.b /\ pane' = s.d
    /\ acts' = acts + 1
    /\ UNCHANGED <<pending, redraw, task, writing, ticking, stream>>

Press == \E key \in PaneKeys :
            pane.focused /\ ~pane.blocked /\ UI(Pressed(Shown, key))

Submit == /\ ~pane.blocked /\ ~pane.focused
          /\ UI(FollowLatest(Shown))

ScreenSize == \E width \in {Narrow, Wide}, h \in Heights :     \* handleScreenSize
    UI(UpdateContent(ClampCursor(WithPaneHeight([Shown EXCEPT !.b = WithWidth(@, width)], h))))

ToggleFocus ==                                 \* focusPrompt, focusDisplay
    /\ ~pane.blocked
    /\ LET s == [b |-> wb, d |-> With(pane, "focused", ~pane.focused)]
       IN UI(UpdateContent(IF s.d.focused /\ s.d.cursor = 0 THEN ToLastWindow(s) ELSE s))

OpenOverlay == /\ ~pane.blocked
               /\ UI(UpdateContent([b |-> wb, d |-> With(With(pane, "blocked", TRUE), "focused", FALSE)]))
CloseOverlay ==                                \* restoreFocus
    /\ pane.blocked
    /\ \E focused \in BOOLEAN :
         LET s == [b |-> wb, d |-> With(With(pane, "blocked", FALSE), "focused", focused)]
         IN UI(UpdateContent(IF focused /\ s.d.cursor = 0 THEN ToLastWindow(s) ELSE s))

(* A session file of no message, or of a prompt and an answer, has been       *)
(* replayed into the buffer (handleSessionLoadedMsg); Tab may have been       *)
(* pressed, and a task may have begun, since.                                *)
Loaded(past) ==
    LET empty == [wins |-> <<>>, heights |-> <<>>, total |-> 0, dirty |-> FALSE,
                  index |-> NoIndex, width |-> Wide]
    IN IF past = 0 THEN empty
       ELSE AppendOrUpdate(SetWin(AppendOrUpdate(empty, 1, "UX", 0), 1,
                                  NewWindow(1, "UX", 1, TRUE, "text")), 2, "AX", MaxBody)

Init ==
    /\ \E past \in {0, 2}, focused, on \in BOOLEAN, h \in Heights :
         LET d == [y |-> 0, h |-> h, total |-> 0, cursor |-> 0, follow |-> TRUE,
                   focused |-> focused, blocked |-> FALSE, dirty |-> TRUE, content |-> <<>>]
             s == [b |-> Loaded(past), d |-> d]
         IN /\ \E r \in {IF past = 0 THEN s ELSE UpdateContent(ToLastWindow(s))} :
                 wb = r.b /\ pane = r.d
            /\ task = [on |-> on, started |-> FALSE]
            /\ stream = [on |-> on, hid |-> past, open |-> {}, call |-> 0, args |-> FALSE,
                         left |-> MaxFrames]
    /\ pending = {} /\ redraw = FALSE /\ writing = NoFrame /\ ticking = FALSE /\ acts = 0

Next == \/ WriteBegin \/ WriteApply \/ WriteUser
        \/ TickFlush \/ TickDraw
        \/ Press \/ Submit \/ ScreenSize \/ ToggleFocus \/ OpenOverlay \/ CloseOverlay

Spec == Init /\ [][Next]_vars

-----------------------------------------------------------------------------
(* Properties                                                               *)

Fresh(b) == [b EXCEPT !.wins = [i \in DOMAIN @ |-> Changed(@[i])], !.dirty = TRUE, !.index = AllIndex]

(* Whenever the buffer says it is clean, the line heights it keeps by small  *)
(* updates are those of a rebuild from nothing: no change of a window        *)
(* (content, fold, width, result, settling) escapes markDirty and the        *)
(* window's row cache.  The one window being filled is left out.            *)
HeightsAgree ==
    ~wb.dirty /\ writing.tag # "UX filled" =>
        \A b \in {EnsureLineHeights(Fresh(wb))} :
           /\ SubSeq(wb.heights, 1, Len(wb.wins)) = b.heights
           /\ wb.total = b.total

(* The clip has as many rows as the pane, whatever window a pinned line, a    *)
(* fold or a resize cuts, and never asks a window for a row it lacks.        *)
ClipFills == pane.content # <<>> => Len(pane.content) = pane.h /\ Panic \notin Range(pane.content)

(* Windows stand in the order of the history, though deltas are held back    *)
(* and written out in batches.                                              *)
HistoryOrder == \A i, j \in DOMAIN wb.wins : i < j => wb.wins[i].id < wb.wins[j].id

(* No tool spins once its task has ended, whatever was still pending or      *)
(* unanswered when the last frame came.                                     *)
NothingSpins == ~task.on /\ writing = NoFrame => Pending(wb) = {} /\ ~\E e \in pending : e.tool

(* While the pane follows, the last row of the transcript it counted is the   *)
(* last row of the view.                                                    *)
FollowsToBottom == pane.follow => pane.y = MaxY(pane)

(* What the pane would show if every row were built anew.                    *)
Shows(b, d) ==
    d.content = RenderVirtual(EnsureLineHeights(Fresh(b)), d.y, d.h, CursorShown(d), d.blocked)

Toggled == \E i \in DOMAIN wb.wins : \/ wb.wins[i].folded # wb'.wins[i].folded
                                    \/ wb.wins[i].md # wb'.wins[i].md

TickFollowed == TickDraw /\ redraw /\ wb.wins # <<>> /\ pane'.follow

(* A fold or a markdown toggle, and a tick that follows and found the flag    *)
(* raised, leave the pane showing the transcript as a rebuild of every row     *)
(* would, though both read line positions, which clears the buffer's flag,    *)
(* before they draw.  The window of a prompt being filled is left out.       *)
ChangeShows ==
    Toggled \/ TickFollowed => Shows(wb', pane') \/ writing.tag = "UX filled"
=============================================================================
