------------------------------ MODULE Headless ------------------------------
(***************************************************************************)
(* The adapters that have no screen, side by side: what terseio prints and *)
(* exits with (Answer), what plainio prints (PlainOutput), and how either  *)
(* gets an MCP server authorized (AuthFlow).  They share no state.         *)
(***************************************************************************)
EXTENDS Answer, PlainOutput, AuthFlow

(* The answer of a script is the last text, and its exit code says what    *)
(* happened; what is said is printed once, and apart; a server the session *)
(* asks about is answered once, or left to the user (answerOutput,         *)
(* stdoutOutput, Flow.run).                                                *)
AdaptersAreTrue ==
  /\ StdoutIsTheAnswer /\ ExitIsTrue
  /\ ShownOnce /\ LinesApart
  /\ EachIsAnswered
=============================================================================
