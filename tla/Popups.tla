------------------------------- MODULE Popups -------------------------------
(***************************************************************************)
(* What opens over the panes of the terminal, side by side: the dialogs    *)
(* and overlays as who has the keyboard (Modals), and the theme and model  *)
(* selectors as the lists they are (Selectors).  They share no state.      *)
(***************************************************************************)
EXTENDS Modals, Selectors

PopupsSpec == ModalsSpec /\ SelectorsSpec

(* Every question is in one place, the box closes, the lit pane is the one *)
(* that takes the keys (tui.go, keybinds.go, session_state.go); and the    *)
(* highlight of a selector is on a row, and what Enter picked was one      *)
(* (filtered_list.go, theme_selector.go, model_selector.go).               *)
DialogsAgree == AskedOnce /\ BoxCloses /\ LitTakesKeys /\ HighlightOnRow

(* What closes leaves no trace: no dialog takes the words of the prompt    *)
(* (the handlers of confirmations in keybinds.go), and a preview ends with *)
(* the selector that showed it (handleThemeSelectorKeys, previewTick).     *)
NoTraceStays == [][WordsStay]_modalsVars /\ [][NoPreviewStays]_selectorsVars
=============================================================================
