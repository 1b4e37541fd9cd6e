----------------------------- MODULE MCTerminal -----------------------------
(***************************************************************************)
(* The parts of the terminal adapter on small instances, each by itself:   *)
(* painting (Screen), the transcript (Transcript), the keyboard (KeyInput, *)
(* in two alphabets), the prompt (InputField), the dialogs (Modals: the    *)
(* constants of this module are those of dialogs that tools ask for, and   *)
(* two instances have those of MCP servers and those of a quit) and the    *)
(* selectors (Selectors).  part says which of them a behaviour is of; the  *)
(* variables of the others stay at "-", and those of the two modules of    *)
(* Popups, whose properties every behaviour is held to, as they start.     *)
(***************************************************************************)
EXTENDS Popups

VARIABLES
  part,
  glass, real, width, last, lastFull, seen, known, laid, kind, queue, signal, held, away,
  reports, resizes, views,
  wb, pane, redraw, task, writing, ticking, stream, acts,
  pending, sent,
  quiet, wire, owed, wrong, chordCut, inPaste, paste, out, inputMsgs, pc, inputPaused, parkedCh,
  resumeCh, lateAck, loop, ctxDone,
  value, pos, goalCol, visLine, visStart, boxWidth, multiline

(* pending is a name of Transcript and of KeyInput.                        *)
ofScreen     == <<glass, real, width, last, lastFull, seen, known, laid, kind, queue, signal,
                  held, away, reports, resizes, views>>
ofTranscript == <<wb, pane, redraw, task, writing, ticking, stream, acts>>
ofKeys       == <<quiet, wire, owed, wrong, chordCut, inPaste, paste, out, inputMsgs, pc,
                  inputPaused, parkedCh, resumeCh, lateAck, loop, ctxDone, sent>>
ofField      == <<value, pos, goalCol, visLine, visStart, boxWidth, multiline>>

NoScreen ==
  /\ glass = "-" /\ real = "-" /\ width = "-" /\ last = "-" /\ lastFull = "-" /\ seen = "-"
  /\ known = "-" /\ laid = "-" /\ kind = "-" /\ queue = "-" /\ signal = "-" /\ held = "-"
  /\ away = "-" /\ reports = "-" /\ resizes = "-" /\ views = "-"
NoTranscript ==
  /\ wb = "-" /\ pane = "-" /\ redraw = "-" /\ task = "-" /\ writing = "-" /\ ticking = "-"
  /\ stream = "-" /\ acts = "-"
NoKeys ==
  /\ quiet = "-" /\ wire = "-" /\ owed = "-" /\ wrong = "-" /\ chordCut = "-" /\ inPaste = "-" /\ paste = "-"
  /\ out = "-" /\ inputMsgs = "-" /\ pc = "-" /\ inputPaused = "-" /\ parkedCh = "-"
  /\ resumeCh = "-" /\ lateAck = "-" /\ loop = "-" /\ ctxDone = "-" /\ sent = "-"
NoField ==
  /\ value = "-" /\ pos = "-" /\ goalCol = "-" /\ visLine = "-" /\ visStart = "-"
  /\ boxWidth = "-" /\ multiline = "-"
NoModals == ModalsInit
NoSelectors == SelectorsInit /\ list = <<"1">> /\ session = ""

Painting == INSTANCE Screen WITH
  Widths <- {2, 3}, Kinds <- {"loading", "lines", "short", "wrapped", "box", "dialog", "dialog2"},
  QueueCap <- 2, MaxResizes <- 2, MaxViews <- 2
Shown == INSTANCE Transcript WITH
  Heights <- {2}, MaxFrames <- 3, MaxWindows <- 4, MaxBody <- 2, MaxActs <- 2, MaxEvents <- 3
(* Every kind of sequence; and bursts of plain keys about a handoff.       *)
AllKeys == INSTANCE KeyInput WITH
  Tokens <- {"a", "z", "q", "up", "shift+up", "insert", "enter", "alt", "alt+up", "alt+han", "focus",
             "han", "bad", "mouse", "osc", "dcs", "paste", "esc", "escesc", "half", "cutosc", "cutpaste"},
  MaxTokens <- 3, ReadSize <- 4, InputCap <- 1
Bursts == INSTANCE KeyInput WITH
  Tokens <- {"a", "z", "paste"}, MaxTokens <- 5, ReadSize <- 4, InputCap <- 1
Prompt == INSTANCE InputField WITH
  FieldWidths <- {1, 3}, Typed <- {"a", "W", "V"}, Blocks <- {2}, MaxValue <- 4
(* Dialogs servers ask for, and those about a quit.                        *)
ServerDialogs == INSTANCE Modals WITH
  MaxTools <- 0, MaxServers <- 2, MaxTasks <- 0,
  Keys <- {"tab", "ctrl+g", "ctrl+l", "ctrl+h", "ctrl+s", "y", "n", "esc", "enter", ":"},
  Texts <- {"words", ":help"}
QuitDialogs == INSTANCE Modals WITH
  MaxTools <- 1, MaxServers <- 1, MaxTasks <- 1,
  Keys <- {"ctrl+g", "y", "n", "enter"}, Texts <- {":quit"}
SomeThemes == <<"dark", "light", "solar">>
SomeLists == {<<"1", "2", "3">>, <<"1">>, <<>>}

Init ==
  \/ /\ part = "screen" /\ Painting!Init /\ pending = "-"
     /\ NoTranscript /\ NoKeys /\ NoField /\ NoModals /\ NoSelectors
  \/ /\ part = "transcript" /\ Shown!Init
     /\ NoScreen /\ NoKeys /\ NoField /\ NoModals /\ NoSelectors
  \/ /\ part \in {"keys", "bursts"} /\ Bursts!Init
     /\ NoScreen /\ NoTranscript /\ NoField /\ NoModals /\ NoSelectors
  \/ /\ part = "field" /\ Prompt!FieldInit /\ pending = "-"
     /\ NoScreen /\ NoTranscript /\ NoKeys /\ NoModals /\ NoSelectors
  \/ /\ part = "tool dialogs" /\ ModalsInit /\ pending = "-"
     /\ NoScreen /\ NoTranscript /\ NoKeys /\ NoField /\ NoSelectors
  \/ /\ part = "server dialogs" /\ ServerDialogs!ModalsInit /\ pending = "-"
     /\ NoScreen /\ NoTranscript /\ NoKeys /\ NoField /\ NoSelectors
  \/ /\ part = "quit dialogs" /\ QuitDialogs!ModalsInit /\ pending = "-"
     /\ NoScreen /\ NoTranscript /\ NoKeys /\ NoField /\ NoSelectors
  \/ /\ part = "pickers" /\ SelectorsInit /\ pending = "-"
     /\ NoScreen /\ NoTranscript /\ NoKeys /\ NoField /\ NoModals

Next ==
  \/ /\ part = "screen" /\ Painting!Next
     /\ UNCHANGED <<part, pending, ofTranscript, ofKeys, ofField, modalsVars, selectorsVars>>
  \/ /\ part = "transcript" /\ Shown!Next
     /\ UNCHANGED <<part, ofScreen, ofKeys, ofField, modalsVars, selectorsVars>>
  \/ /\ part = "keys" /\ AllKeys!Next
     /\ UNCHANGED <<part, ofScreen, ofTranscript, ofField, modalsVars, selectorsVars>>
  \/ /\ part = "bursts" /\ Bursts!Next
     /\ UNCHANGED <<part, ofScreen, ofTranscript, ofField, modalsVars, selectorsVars>>
  \/ /\ part = "field" /\ Prompt!FieldNext
     /\ UNCHANGED <<part, pending, ofScreen, ofTranscript, ofKeys, modalsVars, selectorsVars>>
  \/ /\ part = "tool dialogs" /\ ModalsNext
     /\ UNCHANGED <<part, pending, ofScreen, ofTranscript, ofKeys, ofField, selectorsVars>>
  \/ /\ part = "server dialogs" /\ ServerDialogs!ModalsNext
     /\ UNCHANGED <<part, pending, ofScreen, ofTranscript, ofKeys, ofField, selectorsVars>>
  \/ /\ part = "quit dialogs" /\ QuitDialogs!ModalsNext
     /\ UNCHANGED <<part, pending, ofScreen, ofTranscript, ofKeys, ofField, selectorsVars>>
  \/ /\ part = "pickers" /\ SelectorsNext
     /\ UNCHANGED <<part, pending, ofScreen, ofTranscript, ofKeys, ofField, modalsVars>>

vars == <<part, pending, ofScreen, ofTranscript, ofKeys, ofField, modalsVars, selectorsVars>>

Quits == part = "quit dialogs"

(* Ticks repeat, goroutines write what they have to, the session ends what *)
(* it can, and the user answers a dialog and at some tick has none open.   *)
ModalsFairness ==
  /\ WF_modalsVars(Quits /\ QuitDialogs!SessionLoaded)
  /\ WF_modalsVars(Quits /\ QuitDialogs!Tick)
  /\ SF_modalsVars(Quits /\ m.confirm = "none" /\ QuitDialogs!Tick)
  /\ WF_modalsVars(Quits /\ QuitDialogs!Close) /\ WF_modalsVars(Quits /\ QuitDialogs!Answer)
  /\ \A command \in QuitDialogs!Commands : WF_modalsVars(Quits /\ QuitDialogs!Take(command))
  /\ WF_modalsVars(Quits /\ QuitDialogs!MCPDone) /\ WF_modalsVars(Quits /\ QuitDialogs!Ready)

Spec == Init /\ [][Next]_vars /\ ModalsFairness

-----------------------------------------------------------------------------
(* Screen: the glass is what a fresh terminal would show of the last frame,*)
(* laid out for the width it has.                                          *)
PaintIsTrue == part = "screen" => Painting!GlassShowsFrame /\ Painting!LayoutFollows

(* Transcript: cached heights, rows and positions are those of a rebuild,  *)
(* the windows stand in the order of the history, and nothing spins on.    *)
TranscriptHolds ==
  part = "transcript" => /\ Shown!HeightsAgree /\ Shown!ClipFills /\ Shown!HistoryOrder
                         /\ Shown!NothingSpins /\ Shown!FollowsToBottom
(* Transcript: what a fold or a following tick changed is on the pane.     *)
ShowsChange == [][part = "transcript" => Shown!ChangeShows]_ofTranscript

(* KeyInput: the program hears what was pressed, and a child that has the  *)
(* terminal reads it alone, but for a chord cut in its character and for a *)
(* late acknowledgement.  InputField: of what is heard, the caret stays   *)
(* in the box, and Up undoes Down.                                         *)
KeysAreRead ==
  /\ part = "keys" => /\ AllKeys!SaysWhatWasPressed /\ AllKeys!TerminalIsTheChilds
                      /\ AllKeys!NoLostWake
  /\ part = "bursts" => /\ Bursts!SaysWhatWasPressed /\ Bursts!TerminalIsTheChilds
                        /\ Bursts!NoLostWake
  /\ part = "field" => Prompt!CaretShown /\ Prompt!UpUndoesDown

(* Modals: asked to quit, the terminal ends.                               *)
QuitEnds == (Quits /\ m.quitting) ~> (~Quits \/ m.gone)
=============================================================================
