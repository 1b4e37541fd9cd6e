------------------------------- MODULE Answer -------------------------------
(***************************************************************************)
(* terseio: a program that runs one prompt and prints nothing but the final*)
(* answer.  answerOutput reads the frames of the session, keeps the text of*)
(* the message being said, and prints it when the task ends; an error drops*)
(* it.  Start waits for its own stdin, for an error and for the session's  *)
(* last frame, and makes the exit code of what it saw.                     *)
(*                                                                         *)
(* The session is what it writes: parts of assistant messages, streamed in *)
(* chunks, tool results and words of the user that begin a new message, and*)
(* errors at any time.  A part is known by its place in spoken, which stands *)
(* for its history ID; its text is the chunks <<part, 1>>, <<part, 2>>, ...*)
(***************************************************************************)
EXTENDS Integers, Sequences

CONSTANTS
  MaxParts,   (* bound: parts the model says                               *)
  MaxChunks   (* bound: chunks of one part                                 *)

VARIABLES
  noDelta,         (* --no-delta: a part comes whole, in its AX            *)
  phase,           (* the session: "starting", "working", "over", "closed" *)
  spoken,          (* the parts the assistant said                         *)
  message,         (* the number of the message being said                 *)
  spliced,         (* words of the user began a message within the task    *)
  failed,          (* an error was reported while the task ran             *)
  inProgress, taskStarted, hasError, finalText, finalTextID, finalFlushed,
  lastMsgHasText,
  stdout,          (* the answers printed                                  *)
  stdin,           (* "reading", "read", "bad"                             *)
  exitCh,          (* codes in the channel of the stdin goroutine          *)
  sigint,
  waitCode,        (* what the select of Start took, or Waiting            *)
  exit             (* what Start returned, or Waiting                      *)

sessionVars == <<noDelta, phase, spoken, message, spliced, failed>>
buffer == <<finalText, finalTextID, finalFlushed, lastMsgHasText, stdout>>
progress == <<inProgress, taskStarted, hasError>>
startVars == <<stdin, exitCh, sigint, waitCode, exit>>
answerVars == <<sessionVars, buffer, progress, startVars>>

Waiting == -1
NoID == 0
Kinds == {"text", "reasoning", "call"}
Part(kind) == [kind |-> kind, message |-> message, size |-> 0, is |-> "open"]

Text(p, n) == [i \in 1 .. n |-> <<p, i>>]
Whole(p) == Text(p, spoken[p].size)

Open == spoken # <<>> /\ spoken[Len(spoken)].is = "open"
Last == Len(spoken)

AnswerInit ==
  /\ noDelta \in BOOLEAN /\ phase = "starting" /\ spoken = <<>> /\ message = 0
  /\ spliced = FALSE /\ failed = FALSE
  /\ inProgress = FALSE /\ taskStarted = FALSE /\ hasError = FALSE
  /\ finalText = <<>> /\ finalTextID = NoID /\ finalFlushed = FALSE
  /\ lastMsgHasText = FALSE /\ stdout = <<>>
  /\ stdin = "reading" /\ exitCh = <<>> /\ sigint = FALSE /\ waitCode = Waiting /\ exit = Waiting

-----------------------------------------------------------------------------
(* answerOutput.                                                           *)

(* A new history ID is a new message: what was there was intermediate.     *)
BufferFinalText_Kept(id, content) ==
  /\ lastMsgHasText' = TRUE
  /\ finalTextID' = id
  /\ finalText' = finalText \o content
  /\ UNCHANGED <<finalFlushed, stdout>>

BufferFinalText(id, content) ==
  /\ lastMsgHasText' = TRUE
  /\ finalTextID' = id
  /\ finalText' = (IF finalTextID = id THEN finalText ELSE <<>>) \o content
  /\ UNCHANGED <<finalFlushed, stdout>>

FlushFinal ==
  /\ finalFlushed' = TRUE
  /\ stdout' = IF ~finalFlushed /\ lastMsgHasText /\ finalText # <<>>
               THEN Append(stdout, finalText) ELSE stdout
  /\ UNCHANGED <<finalText, finalTextID, lastMsgHasText>>

DiscardFinal_NotFlushed ==
  /\ finalText' = <<>> /\ finalTextID' = NoID
  /\ UNCHANGED <<lastMsgHasText, stdout, finalFlushed>>

DiscardFinal ==
  /\ finalText' = <<>> /\ finalTextID' = NoID /\ finalFlushed' = TRUE
  /\ UNCHANGED <<lastMsgHasText, stdout>>

(* Before a task an error is a diagnostic of the machine.                  *)
ErrorMsg ==
  /\ IF taskStarted THEN hasError' = TRUE /\ DiscardFinal ELSE UNCHANGED <<hasError, buffer>>
  /\ UNCHANGED <<inProgress, taskStarted>>

TaskMsg(going) ==
  /\ inProgress' = going
  /\ taskStarted' = (taskStarted \/ going)
  /\ IF inProgress /\ ~going THEN FlushFinal ELSE UNCHANGED buffer
  /\ UNCHANGED hasError

-----------------------------------------------------------------------------
(* The frames of a session.                                                *)

(* The prompt is sent once stdin was read to its end.                      *)
TaskBegins ==
  /\ phase = "starting" /\ stdin = "read" /\ phase' = "working" /\ TaskMsg(TRUE)
  /\ UNCHANGED <<noDelta, spoken, message, spliced, failed, startVars>>

PartBegins(kind) ==
  /\ phase = "working" /\ ~Open /\ Len(spoken) < MaxParts
  /\ spoken' = Append(spoken, Part(kind))
  /\ UNCHANGED <<noDelta, phase, message, spliced, failed, buffer, progress, startVars>>

(* handleContentDelta: an Ax frame for each chunk, unless --no-delta.  What*)
(* is no text the adapter passes over.                                     *)
ContentDelta ==
  /\ phase = "working" /\ Open /\ spoken[Last].size < MaxChunks
  /\ spoken[Last].kind = "text"
  /\ spoken' = [spoken EXCEPT ![Last].size = @ + 1]
  /\ IF ~noDelta
     THEN BufferFinalText(Last, <<<<Last, spoken[Last].size + 1>>>>) ELSE UNCHANGED buffer
  /\ UNCHANGED <<noDelta, phase, message, spliced, failed, progress, startVars>>

(* handleTextComplete: the AX frame is empty, or it is the whole text.     *)
ContentComplete ==
  /\ phase = "working" /\ Open
  /\ spoken' = [spoken EXCEPT ![Last].is = "whole"]
  /\ IF spoken[Last].kind = "text"
     THEN BufferFinalText(Last, IF noDelta THEN Whole(Last) ELSE <<>>) ELSE UNCHANGED buffer
  /\ UNCHANGED <<noDelta, phase, message, spliced, failed, progress, startVars>>

(* A UF frame: the next part belongs to a new message.                     *)
ToolOutput_Ignored ==
  /\ phase = "working" /\ ~Open /\ \E p \in 1 .. Last : spoken[p].kind = "call" /\ spoken[p].message = message
  /\ message' = message + 1
  /\ UNCHANGED <<noDelta, phase, spoken, spliced, failed, buffer, progress, startVars>>

ToolOutput ==
  /\ phase = "working" /\ ~Open
  /\ \E p \in 1 .. Last : spoken[p].kind = "call" /\ spoken[p].message = message
  /\ message' = message + 1
  /\ lastMsgHasText' = FALSE
  /\ UNCHANGED <<finalText, finalTextID, finalFlushed, stdout>>
  /\ UNCHANGED <<noDelta, phase, spoken, spliced, failed, progress, startVars>>

(* "Continue" after a stream that was cut, in the middle of a part or not, *)
(* or after a compaction.  The adapter does not look at a UX frame.        *)
UserWords ==
  /\ phase = "working" /\ spoken # <<>> /\ spoken[Last].message = message
  /\ spoken' = [spoken EXCEPT ![Last].is = IF Open THEN "cut" ELSE @]
  /\ message' = message + 1 /\ spliced' = TRUE
  /\ UNCHANGED <<noDelta, phase, failed, buffer, progress, startVars>>

(* An error of the machine, of the task, or of its backup or save.         *)
SystemError ==
  /\ phase # "closed" /\ ErrorMsg
  /\ failed' = (failed \/ phase = "working")
  /\ UNCHANGED <<noDelta, phase, spoken, message, spliced, startVars>>

CommandError ==
  /\ phase # "closed" /\ hasError' = TRUE
  /\ UNCHANGED <<sessionVars, buffer, inProgress, taskStarted, startVars>>

(* A task that did not report an error had its stream to the end.          *)
TaskEnds ==
  /\ phase = "working" /\ (Open => failed)
  /\ phase' = "over" /\ TaskMsg(FALSE)
  /\ UNCHANGED <<noDelta, spoken, message, spliced, failed, startVars>>

SessionCloses ==
  /\ phase \in {"starting", "over"} /\ phase' = "closed"
  /\ UNCHANGED <<noDelta, spoken, message, spliced, failed, buffer, progress, startVars>>

-----------------------------------------------------------------------------
(* Start.                                                                  *)

(* All of stdin is one prompt or command; a closed stdin is a read error.  *)
ReadAllPrompt ==
  /\ stdin = "reading"
  /\ \/ stdin' = "read" /\ exitCh' = <<0>>
     \/ stdin' = "bad" /\ exitCh' = <<1>>
  /\ UNCHANGED <<sessionVars, buffer, progress, sigint, waitCode, exit>>

Interrupt ==
  /\ exit = Waiting /\ sigint' = TRUE
  /\ UNCHANGED <<sessionVars, buffer, progress, stdin, exitCh, waitCode, exit>>

Awaited ==
  /\ waitCode = Waiting
  /\ \/ exitCh # <<>> /\ waitCode' = Head(exitCh) /\ exitCh' = Tail(exitCh)
     \/ hasError /\ waitCode' = 1 /\ UNCHANGED exitCh
     \/ phase = "closed" /\ waitCode' = 0 /\ UNCHANGED exitCh
  /\ UNCHANGED <<sessionVars, buffer, progress, stdin, sigint, exit>>

Returned_Early ==
  /\ waitCode # Waiting /\ exit = Waiting /\ phase = "closed"
  /\ exit' = IF sigint THEN 130 ELSE waitCode
  /\ IF sigint THEN UNCHANGED buffer ELSE FlushFinal
  /\ UNCHANGED <<sessionVars, progress, stdin, exitCh, sigint, waitCode>>

Returned ==
  /\ waitCode # Waiting /\ exit = Waiting /\ phase = "closed"
  /\ exit' = IF sigint THEN 130 ELSE IF waitCode = 0 /\ hasError THEN 1 ELSE waitCode
  /\ IF sigint THEN UNCHANGED buffer ELSE FlushFinal
  /\ UNCHANGED <<sessionVars, progress, stdin, exitCh, sigint, waitCode>>

AnswerNext ==
  \/ TaskBegins \/ \E kind \in Kinds : PartBegins(kind)
  \/ ContentDelta \/ ContentComplete \/ ToolOutput \/ UserWords
  \/ SystemError \/ CommandError \/ TaskEnds \/ SessionCloses
  \/ ReadAllPrompt \/ Interrupt \/ Awaited \/ Returned

AnswerSpec == AnswerInit /\ [][AnswerNext]_answerVars

-----------------------------------------------------------------------------
(* The texts the adapter was told of; one that was cut has no AX frame.    *)
Texts ==
  {p \in 1 .. Last : /\ spoken[p].kind = "text"
                    /\ \/ spoken[p].is = "whole"
                       \/ ~noDelta /\ spoken[p].size > 0}
IsLastText(p) == p \in Texts /\ \A q \in Texts : q <= p

(* docs/terseio.md: stdout is nothing or one text, the last one said, and  *)
(* nothing after an error; and it is whole and of the last message, unless *)
(* words of the user began that one, which the adapter does not see.       *)
StdoutIsTheAnswer ==
  /\ failed => stdout = <<>>
  /\ stdout # <<>> =>
       \E p \in Texts :
         /\ stdout = <<Whole(p)>> /\ IsLastText(p)
         /\ ~spliced => spoken[p].is = "whole" /\ spoken[p].message = message

(* A script can tell by the exit code: 0 is an answer printed whenever the *)
(* last message had one, 130 an interruption, and 1 says what went wrong.  *)
ExitIsTrue ==
  /\ exit = 0 => /\ ~hasError
                 /\ \A p \in Texts :
                      IsLastText(p) /\ spoken[p].message = message /\ Whole(p) # <<>> =>
                        stdout = <<Whole(p)>>
  /\ exit = 1 => hasError \/ stdin = "bad"
  /\ exit \in {Waiting, 0, 1, 130} /\ (exit = 130 => sigint)

AnswerTypeOK ==
  /\ {noDelta, spliced, failed, inProgress, taskStarted, hasError, finalFlushed,
      lastMsgHasText, sigint} \subseteq BOOLEAN
  /\ phase \in {"starting", "working", "over", "closed"}
  /\ spoken \in Seq([kind : Kinds, message : Nat, size : 0 .. MaxChunks, is : {"open", "whole", "cut"}])
  /\ Len(spoken) <= MaxParts /\ message \in Nat
  /\ finalTextID \in 0 .. Last
  /\ stdin \in {"reading", "read", "bad"}
  /\ exitCh \in Seq({0, 1}) /\ waitCode \in {Waiting, 0, 1} /\ exit \in {Waiting, 0, 1, 130}
=============================================================================
