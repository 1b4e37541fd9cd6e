------------------------------- MODULE Screen -------------------------------
(* The terminal adapter's painting path (internal/adapters/terminal:         *)
(* screen.go, program.go, exec.go) and the glass it paints.  Screen keeps    *)
(* the last frame it wrote and repaints only the terminal rows that differ,  *)
(* as composites of a base row and the overlay rows anchored above it; the   *)
(* event loop feeds it, two sources report the terminal's width, and an      *)
(* editor or Ctrl-Z hands the terminal to another process and back.          *)
EXTENDS Integers, Sequences, SequencesExt, FiniteSets, FiniteSetsExt

CONSTANTS Widths,      \* the widths the terminal takes
          Kinds,       \* the views the model asks for
          QueueCap,    \* capacity of Program.msgs (64 in the code)
          MaxResizes,  \* bound on the resizes of a run
          MaxViews     \* bound on the messages that change the view

VARIABLES glass,       \* the terminal: row -> column -> cell
          real,        \* the terminal's width
          width,       \* Screen.width
          last,        \* Screen.lastContent, NoFrame for ""
          lastFull,    \* Screen.lastFullScreen
          seen,        \* Program.lastView, NoFrame for nil
          known,       \* Program.width
          laid,        \* the width the model lays its view out for
          kind,        \* what the model shows
          queue,       \* Program.msgs
          signal,      \* SIGWINCH pending at the watcher's channel
          held,        \* the size the watcher is about to send, 0 for none
          away,        \* the terminal belongs to another process
          reports,     \* the platform has a resize signal
          resizes, views

painted == <<glass, width, last, lastFull, seen>>
vars == <<glass, real, width, last, lastFull, seen, known, laid, kind,
          queue, signal, held, away, reports, resizes, views>>

Height == 4
Rows == 0 .. Height - 1
Blank == " "
NoFrame == <<>>

(***************************************************************************)
(* Frames.  A frame is its base rows, which flow from the top and wrap, and *)
(* its overlay rows, each at an absolute position; text is a sequence of    *)
(* cells and el says the row ends with an erase to the end of the line.     *)
(***************************************************************************)
Run(cell, n) == [i \in 1 .. n |-> cell]
Base(text) == [row |-> 0, col |-> 0, base |-> TRUE, el |-> TRUE, text |-> text]
Over(row, col, text, el) ==
    [row |-> row, col |-> col, base |-> FALSE, el |-> el, text |-> text]

\* The live edge and the status bar, anchored below the transcript.
Chrome(status) == <<Over(2, 0, <<"e">>, TRUE), Over(3, 0, status, TRUE)>>

\* What Terminal.View returns for each kind of moment, laid out for width w.
Frame(k, w) ==
    CASE k = "loading" -> <<Base(<<>>), Base(Append(Run(Blank, w - 1), "l")), Base(<<>>), Base(<<>>)>>
      [] k = "lines"   -> <<Base(Run("a", w)), Base(<<"b">>)>> \o Chrome(Run("s", w))
      [] k = "short"   -> <<Base(<<"a">>), Base(<<"b">>)>> \o Chrome(<<"s">>)
      [] k = "wrapped" -> <<Base(Run("a", w + 1))>> \o Chrome(<<"s">>)
      [] k = "box"     -> <<Base(Run("a", w + 1))>> \o Chrome(<<"s">>)
                          \o <<Over(0, w - 1, <<"x">>, FALSE), Over(1, w - 1, <<"y">>, FALSE)>>
      [] k = "dialog"  -> <<Base(Run("a", w)), Base(<<"b">>)>> \o Chrome(<<"s">>)
                          \o <<Over(0, 0, Run("d", w + 1), TRUE)>>
      [] k = "dialog2" -> <<Base(Run("a", w)), Base(<<"b">>)>> \o Chrome(<<"s">>)
                          \o <<Over(0, 0, Run("d", w), TRUE)>>

(***************************************************************************)
(* The terminal.  A write starts at an absolute position and wraps; an      *)
(* erase in the deferred-wrap state after a full row erases nothing.        *)
(***************************************************************************)
Op(r, text, el) == [at |-> <<r.row, r.col>>, text |-> text, el |-> el]

Written(g, op) ==
    LET start == op.at[1] * real + op.at[2]
        end   == start + Len(op.text)
        erases(i) == /\ op.el
                     /\ i >= end /\ i \div real = end \div real
                     /\ op.text = <<>> \/ end % real # 0
    IN  [r \in Rows |-> [c \in 0 .. real - 1 |->
            LET i == r * real + c
            IN  IF i >= start /\ i < end THEN op.text[i - start + 1]
                ELSE IF erases(i) THEN Blank ELSE g[r][c]]]

Filled(cell, w) == [r \in Rows |-> [c \in 0 .. w - 1 |-> cell]]
WriteAll(g, ops) == FoldLeft(Written, g, ops)

\* Cells [from, to) of a text.
CutCells(text, from, to) == SubSeq(text, from + 1, IF to < Len(text) THEN to ELSE Len(text))

(***************************************************************************)
(* Where the rows of a frame land.                                         *)
(***************************************************************************)
TerminalRows(text, w) ==
    IF w <= 0 \/ text = <<>> THEN 1 ELSE (Len(text) + w - 1) \div w

PositionedRows(frame, w) ==
    [i \in DOMAIN frame |->
        LET r == frame[i]
            above == SelectSeq(SubSeq(frame, 1, i - 1), LAMBDA q : q.base)
        IN  [row  |-> IF r.base THEN FoldLeft(LAMBDA n, q : n + TerminalRows(q.text, w), 0, above)
                      ELSE r.row,
             col  |-> r.col, base |-> r.base, el |-> r.el, text |-> r.text,
             span |-> TerminalRows(r.text, w)]]

SpanOf(r) == r.row .. r.row + r.span - 1
Key(r) == <<r.row, r.col, r.base>>
BaseRowAt(rows, t) == {r \in ToSet(rows) : r.base /\ t \in SpanOf(r)}
HasOverlay(frame) == \E i \in DOMAIN frame : ~frame[i].base

OverlaysAt(rows, t) == SelectSeq(rows, LAMBDA r : ~r.base /\ t \in SpanOf(r))
Segment(r, w, t) ==
    IF r.span <= 1 THEN r.text
    ELSE CutCells(r.text, (t - r.row) * w, (t - r.row + 1) * w)

(***************************************************************************)
(* The row diff: which terminal rows are written again, and with what.      *)
(***************************************************************************)
OldText(old, k) ==
    LET same == SelectSeq(old, LAMBDA r : Key(r) = k)
    IN  IF same = <<>> THEN {} ELSE {Last(same).text}

Changed(old, new) == {r \in ToSet(new) : OldText(old, Key(r)) # {r.text}}
Vanished_None(old, new) == {}

Vanished(old, new) ==
    {r \in ToSet(old) : ~r.base /\ Key(r) \notin {Key(q) : q \in ToSet(new)}}

\* The row below every write, which a wider host spills onto.
Successors(rows, present) ==
    {t \in UNION {IF r.base THEN {r.row + r.span} ELSE {q + 1 : q \in SpanOf(r)} : r \in rows} :
        t \in present}

\* The overlay rows below the first base row written.
Below(rows, changed) ==
    LET bases == {r.row : r \in {q \in changed : q.base}}
    IN  IF bases = {} THEN {} ELSE {r \in ToSet(rows) : ~r.base /\ r.row > Min(bases)}

WriteSet(old, new) ==
    LET changed == Changed(old, new)
        present == UNION {SpanOf(r) : r \in ToSet(new)}
    IN  UNION {SpanOf(r) : r \in changed \cup Vanished(old, new)}
            \cup Successors(changed, present)
            \cup {r.row : r \in Below(new, changed)}

WrappedRuns(old, new) ==
    {r \in Changed(old, new) \cup Below(new, Changed(old, new)) : ~r.base /\ r.span > 1 /\ r.col = 0}

Layers(new, w, t) ==
    LET over == OverlaysAt(new, t)
    IN  [i \in DOMAIN over |-> [at |-> <<t, over[i].col>>, text |-> Segment(over[i], w, t), el |-> over[i].el]]

\* One composite: a soft-wrapped base line and its layers, a soft-wrapped
\* overlay run, or one terminal row.
Composite(old, new, w, t) ==
    LET base == BaseRowAt(new, t)
        long == {r \in base : r.span > 1}
        runs == {r \in WrappedRuns(old, new) : r.row = t}
    IN  IF long # {}
        THEN LET b == CHOOSE r \in long : TRUE
             IN  [ops |-> <<Op(b, b.text, TRUE)>>
                            \o FlattenSeq([i \in 1 .. b.span |-> Layers(new, w, b.row + i - 1)]),
                  covers |-> SpanOf(b)]
        ELSE IF runs # {}
        THEN LET o == CHOOSE r \in runs : TRUE
             IN  [ops |-> <<Op(o, o.text, TRUE)>>,
                  covers |-> {t} \cup {q \in SpanOf(o) :
                      \A p \in t + 1 .. q : p \notin {r.row : r \in {s \in ToSet(new) : ~s.base}}}]
        ELSE [ops |-> <<[at |-> <<t, 0>>, el |-> TRUE,
                         text |-> IF base = {} THEN <<>>
                                  ELSE Segment(CHOOSE r \in base : TRUE, w, t)]>>
                       \o Layers(new, w, t),
              covers |-> {t}]

DiffFrameRows(oldFrame, newFrame, w) ==
    LET old  == PositionedRows(oldFrame, w)
        new  == PositionedRows(newFrame, w)
        rows == SetToSortSeq(WriteSet(old, new), <)
        step(acc, t) ==
            IF t \in acc.done THEN acc
            ELSE LET c == Composite(old, new, w, t)
                 IN  [ops |-> acc.ops \o c.ops, done |-> acc.done \cup c.covers]
    IN  FoldLeft(step, [ops |-> <<>>, done |-> {}], rows).ops

\* A whole frame written on a cleared screen.
FullFrame(frame, w) ==
    LET rows == PositionedRows(frame, w)
    IN  [i \in DOMAIN rows |-> Op(rows[i], rows[i].text, rows[i].el)]

Painting(frame) == WriteAll(Filled(Blank, real), FullFrame(frame, real))

(***************************************************************************)
(* Render and the frame caches.                                            *)
(***************************************************************************)
LastBaseRow(frame, w) ==
    LET r == Last(SelectSeq(PositionedRows(frame, w), LAMBDA q : q.base))
    IN  <<r.row + r.span - 1, r.text>>

\* The erase below the last base row of a frame without overlays.
TailErase(frame, w, g) ==
    LET b == LastBaseRow(frame, w)
        o == LastBaseRow(last, w)
    IN  IF HasOverlay(frame) \/ ~(b[1] < o[1] \/ (b[1] = o[1] /\ b[2] # o[2])) THEN g
        ELSE [r \in Rows |-> [c \in 0 .. real - 1 |->
                IF r > b[1] \/ (r = b[1] /\ c >= Len(b[2])) THEN Blank ELSE g[r][c]]]

ClearFirst(frame) ==
    \/ last # NoFrame /\ HasOverlay(last) /\ ~HasOverlay(frame)
    \/ ~lastFull

Glass(frame, w) ==
    IF ClearFirst(frame) THEN WriteAll(Filled(Blank, real), FullFrame(frame, real))
    ELSE TailErase(frame, w, WriteAll(glass, DiffFrameRows(last, frame, w)))

\* Program.render over Screen.Render: each has a cache that may skip.  cached
\* is false when Screen.Resize has just emptied Screen's own.
Render(frame, w, cached) ==
    /\ width' = w
    /\ IF seen = frame
       THEN /\ UNCHANGED <<glass, seen>>
            /\ IF cached THEN UNCHANGED <<last, lastFull>>
               ELSE last' = NoFrame /\ lastFull' = FALSE
       ELSE /\ seen' = frame /\ last' = frame /\ lastFull' = TRUE
            /\ glass' = IF ~cached THEN Painting(frame)
                        ELSE IF last = frame /\ lastFull THEN glass
                        ELSE Glass(frame, w)

\* The repaint after forceRepaint emptied both caches.
Repaint(frame, w) ==
    /\ width' = w /\ glass' = Painting(frame)
    /\ seen' = frame /\ last' = frame /\ lastFull' = TRUE

(***************************************************************************)
(* The event loop and what reaches it.                                     *)
(***************************************************************************)
Msg(what, arg) == [what |-> what, arg |-> arg]
Room == Len(queue) < QueueCap
Post(what, arg) == Room /\ queue' = Append(queue, Msg(what, arg))

Init ==
    \E w \in Widths :
        /\ real = w /\ width = w /\ known = w /\ laid = w
        /\ kind = "loading"
        /\ seen = Frame("loading", w) /\ last = Frame("loading", w) /\ lastFull = TRUE
        /\ glass = WriteAll([r \in Rows |-> [c \in 0 .. w - 1 |-> Blank]], FullFrame(Frame("loading", w), w))
        /\ queue = <<>> /\ signal = FALSE /\ held = 0 /\ away = FALSE
        /\ reports \in BOOLEAN
        /\ resizes = 0 /\ views = 0

\* The user drags the window: what is on the glass is the terminal's guess.
Resized ==
    \E w \in Widths \ {real} :
        /\ resizes < MaxResizes /\ resizes' = resizes + 1
        /\ real' = w /\ glass' = Filled("#", w)
        /\ signal' = reports
        /\ UNCHANGED <<width, last, lastFull, seen, known, laid, kind, queue,
                       held, away, reports, views>>

\* watchSignals: Screen.Size, then a send that waits for room.
WatcherMeasures ==
    /\ signal /\ held = 0
    /\ signal' = FALSE /\ held' = real /\ width' = real
    /\ UNCHANGED <<glass, real, last, lastFull, seen, known, laid, kind,
                   queue, away, reports, resizes, views>>

WatcherSends ==
    /\ held # 0 /\ Post("size", held) /\ held' = 0
    /\ UNCHANGED <<painted, real, known, laid, kind, signal, away, reports, resizes, views>>

\* A message of the session, a key or a command: another view, Ctrl-R, the
\* editor or Ctrl-Z.
Arrives ==
    /\ views < MaxViews /\ views' = views + 1
    /\ \/ \E k \in Kinds \ {kind} : Post("show", k)
       \/ Post("repaint", kind)
       \/ Post("exec", kind)
    /\ UNCHANGED <<painted, real, known, laid, kind, signal, held, away, reports, resizes>>

TickArrives ==
    /\ ~\E i \in DOMAIN queue : queue[i].what = "tick"
    /\ Post("tick", kind)
    /\ UNCHANGED <<painted, real, known, laid, kind, signal, held, away, reports, resizes, views>>

\* handleMsg, one case per message.
Takes(what) == ~away /\ queue # <<>> /\ Head(queue).what = what

HandleSize ==
    /\ Takes("size")
    /\ LET w == Head(queue).arg
       IN  known' = w /\ laid' = w /\ Render(Frame(kind, w), w, FALSE)
    /\ queue' = Tail(queue)
    /\ UNCHANGED <<real, kind, signal, held, away, reports, resizes, views>>

HandleShow ==
    /\ Takes("show")
    /\ kind' = Head(queue).arg
    /\ Render(Frame(kind', laid), width, TRUE)
    /\ queue' = Tail(queue)
    /\ UNCHANGED <<real, known, laid, signal, held, away, reports, resizes, views>>

RefreshSize_Tracks(q) ==
    /\ known' = real
    /\ queue' = IF known = real \/ Len(q) >= QueueCap THEN q ELSE Append(q, Msg("size", real))

\* refreshSize: the size is tracked only once the message about it is queued.
RefreshSize(q) ==
    IF known = real \/ Len(q) >= QueueCap
    THEN queue' = q /\ UNCHANGED known
    ELSE queue' = Append(q, Msg("size", real)) /\ known' = real

HandleTick ==
    /\ Takes("tick")
    /\ RefreshSize(Tail(queue))
    /\ Render(Frame(kind, laid), real, TRUE)
    /\ UNCHANGED <<real, laid, kind, signal, held, away, reports, resizes, views>>

HandleRepaint ==
    /\ Takes("repaint")
    /\ Repaint(Frame(kind, laid), width)
    /\ queue' = Tail(queue)
    /\ UNCHANGED <<real, known, laid, kind, signal, held, away, reports, resizes, views>>

\* releaseTerminal: another process owns the terminal while the loop waits.
Release ==
    /\ Takes("exec")
    /\ away' = TRUE /\ glass' = Filled("#", real)
    /\ queue' = Tail(queue)
    /\ UNCHANGED <<real, width, last, lastFull, seen, known, laid, kind,
                   signal, held, reports, resizes, views>>

\* acquireTerminal: the caches are dropped, the size looked at again and the
\* view painted.
Acquire ==
    /\ away /\ away' = FALSE
    /\ RefreshSize(queue)
    /\ Repaint(Frame(kind, laid), real)
    /\ UNCHANGED <<real, laid, kind, signal, held, reports, resizes, views>>

Handle == HandleSize \/ HandleShow \/ HandleTick \/ HandleRepaint \/ Release
Next == \/ Resized \/ WatcherMeasures \/ WatcherSends \/ Arrives \/ TickArrives
        \/ Handle \/ Acquire

Spec == Init /\ [][Next]_vars

-----------------------------------------------------------------------------
NoSizeQueued == ~\E i \in DOMAIN queue : queue[i].what = "size"

\* Nothing about the terminal's size is still on its way to the loop.
SizeSettled == reports /\ ~signal /\ held = 0 /\ ~away /\ NoSizeQueued

(* The size the tick compares the terminal with is the one the view is laid  *)
(* out for, unless a message is about to make it so: a change is never       *)
(* swallowed by a full queue (refreshSize).  And where the platform reports  *)
(* resizes, the layout is the real width's once the reports are in, whatever *)
(* order the watcher, the tick and an editor measured it in.                 *)
LayoutFollows ==
    /\ NoSizeQueued => laid = known
    /\ SizeSettled => laid = real /\ width = real

(* The glass shows the view as a fresh terminal would show it, whatever was  *)
(* diffed, composed or skipped on the way (Screen.Resize: "force a full      *)
(* redraw", since the terminal still shows the frame of before).             *)
ResizeRedraws == SizeSettled => glass = Painting(seen)

(* The glass shows the last frame written, and the two caches that skip work *)
(* remember that frame (Screen.Render, Program.render).  The one exception:  *)
(* where the message about a resize brings a view that Program.lastView      *)
(* holds already, nothing is written.  Screen's cache is empty then, so the  *)
(* first other view is painted on a cleared screen, and the view skipped is  *)
(* the one the model shows.                                                  *)
GlassShowsFrame ==
    SizeSettled =>
        \/ last = seen /\ glass = Painting(seen)
        \/ last = NoFrame /\ ~lastFull /\ seen = Frame(kind, laid)
=============================================================================
