--------------------------- MODULE AdapterProofs ---------------------------
(***************************************************************************)
(* The adapters without a screen, for any number of servers, parts and     *)
(* chunks: what terseio prints and its exit code (Answer), what plainio    *)
(* prints (PlainOutput), and the answer each server's authorization gets   *)
(* (AuthFlow).                                                             *)
(***************************************************************************)
EXTENDS Headless, FiniteSetTheorems, SequenceTheorems, WellFoundedInduction, TLAPS

-----------------------------------------------------------------------------
(* Answer.                                                                 *)

SpokenPart ==
  [kind : Kinds, message : Nat, size : Nat, is : {"open", "whole", "cut"}]

(* Parts are said one after the other, and one is cut by words of the user.*)
SpokenInTurn ==
  /\ spoken \in Seq(SpokenPart) /\ message \in Nat
  /\ \A p \in 1 .. Len(spoken) :
       /\ spoken[p].message <= message
       /\ spoken[p].is = "open" => p = Len(spoken) /\ spoken[p].message = message
       /\ spoken[p].is = "cut" => spliced

(* What the adapter knows of the task, and when it prints.                 *)
ProgressKnown ==
  /\ phase \in {"starting", "working", "over", "closed"}
  /\ phase = "starting" =>
       /\ ~taskStarted /\ ~inProgress /\ spoken = <<>> /\ ~failed
       /\ ~finalFlushed /\ finalText = <<>> /\ finalTextID = NoID /\ ~lastMsgHasText
  /\ phase = "working" => taskStarted /\ inProgress
  /\ phase \in {"starting", "working"} => stdout = <<>>
  /\ phase \in {"over", "closed"} => finalFlushed \/ finalText = <<>>
  /\ failed => hasError /\ finalFlushed /\ stdout = <<>>

(* While a task runs without an error, the buffer holds the last text, and *)
(* the adapter knows whether that is of the message being said.            *)
Buffered ==
  phase = "working" /\ ~failed =>
    /\ ~finalFlushed
    /\ finalTextID = NoID => Texts = {} /\ ~lastMsgHasText /\ finalText = <<>>
    /\ finalTextID # NoID =>
         /\ IsLastText(finalTextID) /\ finalText = Whole(finalTextID)
         /\ spoken[finalTextID].message = message => lastMsgHasText
         /\ lastMsgHasText /\ ~spliced => spoken[finalTextID].message = message

(* Once it is over, what was printed stands.                               *)
Printed ==
  phase \in {"over", "closed"} =>
    /\ stdout # <<>> =>
         \E p \in Texts :
           /\ stdout = <<Whole(p)>> /\ IsLastText(p)
           /\ ~spliced => spoken[p].is = "whole" /\ spoken[p].message = message
    /\ ~failed =>
         \A p \in Texts :
           IsLastText(p) /\ spoken[p].message = message /\ Whole(p) # <<>> =>
             stdout = <<Whole(p)>>

CodesAreTrue ==
  /\ exitCh \in {<<>>, <<0>>, <<1>>} /\ (exitCh = <<1>> => stdin = "bad")
  /\ waitCode \in {Waiting, 0, 1} /\ (waitCode = 1 => hasError \/ stdin = "bad")
  /\ exit \in {Waiting, 0, 1, 130} /\ (exit # Waiting => phase = "closed")
  /\ exit = 0 => ~hasError
  /\ exit = 1 => hasError \/ stdin = "bad"
  /\ exit = 130 => sigint

AnswerInv == SpokenInTurn /\ ProgressKnown /\ Buffered /\ Printed /\ CodesAreTrue

LEMMA AnswerStarts == AnswerInit => AnswerInv
<1> SUFFICES ASSUME AnswerInit PROVE AnswerInv
  OBVIOUS
<1>1. spoken = <<>> /\ Len(spoken) = 0 /\ 1 .. Len(spoken) = {}
  <2>1. spoken = <<>>
    BY DEF AnswerInit
  <2> QED
    BY <2>1
<1>2. SpokenInTurn
  BY <1>1 DEF AnswerInit, SpokenInTurn
<1>3. ProgressKnown /\ Buffered /\ Printed
  BY <1>1, Zenon DEF AnswerInit, ProgressKnown, Buffered, Printed
<1>4. CodesAreTrue
  BY DEF AnswerInit, CodesAreTrue, Waiting
<1> QED
  BY <1>2, <1>3, <1>4 DEF AnswerInv

LEMMA TextGrows ==
  ASSUME NEW p, NEW n \in Nat
  PROVE  /\ Text(p, n) \o <<<<p, n + 1>>>> = Text(p, n + 1)
         /\ Text(p, n) \o <<>> = Text(p, n)
         /\ <<>> \o Text(p, n) = Text(p, n)
         /\ Text(p, 0) = <<>>
<1> DEFINE T == {p} \X Nat
<1>1. /\ Text(p, n) \in Seq(T) /\ Len(Text(p, n)) = n
      /\ \A i \in 1 .. n : Text(p, n)[i] = <<p, i>>
  BY DEF Text
<1>2. /\ Text(p, n + 1) \in Seq(T) /\ Len(Text(p, n + 1)) = n + 1
      /\ \A i \in 1 .. n + 1 : Text(p, n + 1)[i] = <<p, i>>
  BY DEF Text
<1>3. Text(p, n) \o <<<<p, n + 1>>>> = Text(p, n + 1)
  <2> DEFINE s == Text(p, n) \o <<<<p, n + 1>>>>
  <2>1. s \in Seq(T) /\ Len(s) = n + 1 /\ \A i \in 1 .. n + 1 : s[i] = <<p, i>>
    BY <1>1
  <2>2. \A i \in 1 .. n + 1 : s[i] = Text(p, n + 1)[i]
    BY <1>2, <2>1
  <2> HIDE DEF s
  <2>3. Len(s) = Len(Text(p, n + 1)) /\ \A i \in 1 .. Len(s) : s[i] = Text(p, n + 1)[i]
    BY <1>2, <2>1, <2>2
  <2> HIDE DEF T
  <2>4. s = Text(p, n + 1)
    BY <1>2, <2>1, <2>3, SeqEqual
  <2> QED
    BY <2>4 DEF s
<1>4. Text(p, n) \o <<>> = Text(p, n) /\ <<>> \o Text(p, n) = Text(p, n)
  BY <1>1
<1>5. Text(p, 0) = <<>>
  BY DEF Text
<1> QED
  BY <1>3, <1>4, <1>5

LEMMA PartsAreSpoken ==
  ASSUME SpokenInTurn
  PROVE  /\ Len(spoken) \in Nat
         /\ \A p \in 1 .. Len(spoken) :
              /\ spoken[p] \in SpokenPart /\ spoken[p].size \in Nat
              /\ spoken[p].message \in Nat /\ spoken[p].message <= message
         /\ \A p \in Texts : p \in 1 .. Len(spoken)
<1>1. Len(spoken) \in Nat /\ \A p \in 1 .. Len(spoken) : spoken[p] \in SpokenPart
  BY DEF SpokenInTurn
<1>2. \A part \in SpokenPart : part.size \in Nat /\ part.message \in Nat
  BY DEF SpokenPart
<1> QED
  BY <1>1, <1>2 DEF SpokenInTurn, Texts, Last

(* A step that leaves the texts, the buffer and the outcome as they are.   *)
LEMMA NothingHeard ==
  ASSUME AnswerInv, SpokenInTurn',
         UNCHANGED <<phase, spoken, message, noDelta, failed, spliced, buffer, progress>>,
         CodesAreTrue'
  PROVE  AnswerInv'
<1> USE DEF AnswerInv, buffer, progress
<1>1. ProgressKnown'
  BY Zenon DEF ProgressKnown
<1>2. Texts' = Texts /\ \A p : Whole(p)' = Whole(p) /\ (IsLastText(p)' <=> IsLastText(p))
  BY DEF Texts, Whole, Text, IsLastText, Last
<1>3. Buffered'
  BY <1>2, Zenon DEF Buffered
<1>4. Printed'
  BY <1>2, Zenon DEF Printed
<1> QED
  BY <1>1, <1>3, <1>4

LEMMA StartKeeps ==
  ASSUME AnswerInv, ReadAllPrompt \/ Interrupt \/ Awaited \/ UNCHANGED answerVars
  PROVE  AnswerInv'
<1>1. /\ UNCHANGED <<phase, spoken, message, noDelta, failed, spliced, buffer, progress>>
      /\ hasError' = hasError /\ phase' = phase
  BY DEF ReadAllPrompt, Interrupt, Awaited, answerVars, sessionVars, progress
<1>2. SpokenInTurn'
  BY <1>1 DEF AnswerInv, SpokenInTurn
<1>3. CodesAreTrue'
  <2> USE DEF AnswerInv, CodesAreTrue, Waiting
  <2>1. CASE ReadAllPrompt
    BY <1>1, <2>1 DEF ReadAllPrompt
  <2>2. CASE Interrupt
    BY <1>1, <2>2 DEF Interrupt
  <2>3. CASE Awaited
    <3>1. /\ Head(<<0>>) = 0 /\ Head(<<1>>) = 1 /\ Tail(<<0>>) = <<>> /\ Tail(<<1>>) = <<>>
          /\ <<0>> # <<1>> /\ <<>> # <<1>>
      OBVIOUS
    <3>2. exit' = exit /\ stdin' = stdin /\ sigint' = sigint
      BY <2>3 DEF Awaited
    <3>3. CASE exitCh # <<>> /\ waitCode' = Head(exitCh) /\ exitCh' = Tail(exitCh)
      BY <1>1, <3>1, <3>2, <3>3
    <3>4. CASE waitCode' \in {0, 1} /\ (waitCode' = 1 => hasError) /\ exitCh' = exitCh
      BY <1>1, <3>2, <3>4
    <3> QED
      BY <2>3, <3>3, <3>4 DEF Awaited
  <2>4. CASE UNCHANGED answerVars
    BY <1>1, <2>4 DEF answerVars, startVars
  <2> QED
    BY <2>1, <2>2, <2>3, <2>4
<1> QED
  BY <1>1, <1>2, <1>3, NothingHeard

LEMMA CommandErrorKeeps == AnswerInv /\ CommandError => AnswerInv'
<1> SUFFICES ASSUME AnswerInv, CommandError PROVE AnswerInv'
  OBVIOUS
<1> USE DEF AnswerInv, CommandError, sessionVars, buffer, startVars
<1>1. Texts' = Texts /\ \A p : Whole(p)' = Whole(p) /\ (IsLastText(p)' <=> IsLastText(p))
  BY DEF Texts, Whole, Text, IsLastText, Last
<1>2. SpokenInTurn' /\ Buffered' /\ Printed'
  BY <1>1, Zenon DEF SpokenInTurn, Buffered, Printed
<1>3. ProgressKnown'
  BY Zenon DEF ProgressKnown
<1>4. CodesAreTrue'
  BY DEF CodesAreTrue, Waiting
<1> QED
  BY <1>2, <1>3, <1>4

LEMMA SystemErrorKeeps == AnswerInv /\ SystemError => AnswerInv'
<1> SUFFICES ASSUME AnswerInv, SystemError PROVE AnswerInv'
  OBVIOUS
<1> USE DEF AnswerInv, startVars
<1>1. /\ phase' = phase /\ spoken' = spoken /\ message' = message /\ spliced' = spliced
      /\ noDelta' = noDelta /\ stdout' = stdout /\ lastMsgHasText' = lastMsgHasText
      /\ taskStarted' = taskStarted /\ inProgress' = inProgress /\ phase # "closed"
      /\ UNCHANGED startVars /\ (failed' <=> failed \/ phase = "working")
  BY DEF SystemError, ErrorMsg, DiscardFinal, buffer
<1>2. Texts' = Texts /\ \A p : Whole(p)' = Whole(p) /\ (IsLastText(p)' <=> IsLastText(p))
  BY <1>1 DEF Texts, Whole, Text, IsLastText, Last
<1>3. SpokenInTurn' /\ Buffered'
  <2>1. SpokenInTurn'
    BY <1>1, Zenon DEF SpokenInTurn
  <2>2. Buffered'
    BY <1>1, Zenon DEF Buffered
  <2> QED
    BY <2>1, <2>2
<1>4. Printed'
  BY <1>1, <1>2, Zenon DEF Printed
<1>5. ProgressKnown' /\ (hasError => hasError')
  <2>1. CASE taskStarted
    <3>1. hasError' /\ finalFlushed' /\ finalText' = <<>>
      BY <2>1 DEF SystemError, ErrorMsg, DiscardFinal
    <3> QED
      BY <1>1, <2>1, <3>1 DEF ProgressKnown
  <2>2. CASE ~taskStarted
    <3>1. UNCHANGED <<hasError, buffer>>
      BY <2>2 DEF SystemError, ErrorMsg
    <3> QED
      BY <1>1, <2>2, <3>1 DEF ProgressKnown, buffer
  <2> QED
    BY <2>1, <2>2
<1>6. CodesAreTrue'
  BY <1>1, <1>5 DEF CodesAreTrue, Waiting
<1> QED
  BY <1>3, <1>4, <1>5, <1>6

LEMMA TaskBeginsKeeps == AnswerInv /\ TaskBegins => AnswerInv'
<1> SUFFICES ASSUME AnswerInv, TaskBegins PROVE AnswerInv'
  OBVIOUS
<1> USE DEF AnswerInv
<1>1. /\ ~inProgress /\ spoken = <<>> /\ ~failed /\ ~finalFlushed /\ finalText = <<>>
      /\ finalTextID = NoID /\ ~lastMsgHasText /\ stdout = <<>>
  BY DEF TaskBegins, ProgressKnown
<1>2. /\ UNCHANGED buffer /\ hasError' = hasError /\ taskStarted' /\ inProgress'
      /\ phase' = "working" /\ UNCHANGED <<noDelta, spoken, message, spliced, failed, startVars>>
  BY <1>1 DEF TaskBegins, TaskMsg
<1>3. Texts' = {}
  <2>1. Len(spoken') = 0
    BY <1>1, <1>2
  <2> QED
    BY <2>1 DEF Texts, Last
<1>4. SpokenInTurn'
  BY <1>2, Zenon DEF SpokenInTurn
<1>5. ProgressKnown'
  BY <1>1, <1>2 DEF ProgressKnown, buffer
<1>6. Buffered' /\ Printed'
  BY <1>1, <1>2, <1>3 DEF Buffered, Printed, buffer
<1>7. CodesAreTrue'
  BY <1>2 DEF CodesAreTrue, startVars, TaskBegins
<1> QED
  BY <1>4, <1>5, <1>6, <1>7

LEMMA TaskEndsKeeps == AnswerInv /\ TaskEnds => AnswerInv'
<1> SUFFICES ASSUME AnswerInv, TaskEnds PROVE AnswerInv'
  OBVIOUS
<1> USE DEF AnswerInv
<1>1. /\ phase = "working" /\ taskStarted /\ inProgress /\ stdout = <<>> /\ (Open => failed)
      /\ (failed => hasError /\ finalFlushed)
  BY DEF TaskEnds, ProgressKnown
<1>2. /\ FlushFinal /\ hasError' = hasError /\ taskStarted' /\ ~inProgress'
      /\ phase' = "over" /\ UNCHANGED <<noDelta, spoken, message, spliced, failed, startVars>>
  BY <1>1 DEF TaskEnds, TaskMsg
<1>3. Texts' = Texts /\ \A p : Whole(p)' = Whole(p) /\ (IsLastText(p)' <=> IsLastText(p))
  BY <1>2 DEF Texts, Whole, Text, IsLastText, Last
<1>4. SpokenInTurn'
  BY <1>2, Zenon DEF SpokenInTurn
<1>5. ProgressKnown'
  BY <1>1, <1>2 DEF ProgressKnown, FlushFinal
<1>6. Printed'
  <2>1. CASE failed
    <3>1. stdout' = <<>>
      BY <1>1, <1>2, <2>1 DEF FlushFinal
    <3> QED
      BY <1>2, <2>1, <3>1, Zenon DEF Printed
  <2>2. CASE ~failed
    <3>1. /\ ~finalFlushed /\ (finalTextID = NoID => Texts = {} /\ ~lastMsgHasText)
          /\ finalTextID # NoID =>
               /\ IsLastText(finalTextID) /\ finalText = Whole(finalTextID)
               /\ spoken[finalTextID].message = message => lastMsgHasText
               /\ lastMsgHasText /\ ~spliced => spoken[finalTextID].message = message
      BY <1>1, <2>2 DEF Buffered
    <3>2. stdout' = IF lastMsgHasText /\ finalText # <<>> THEN <<finalText>> ELSE <<>>
      <4>1. Append(<<>>, finalText) = <<finalText>>
        OBVIOUS
      <4> QED
        BY <1>1, <1>2, <3>1, <4>1 DEF FlushFinal
    <3>3. ASSUME stdout' # <<>>
          PROVE  /\ finalTextID \in Texts /\ stdout' = <<Whole(finalTextID)>>
                 /\ IsLastText(finalTextID)
                 /\ ~spliced => /\ spoken[finalTextID].is = "whole"
                                /\ spoken[finalTextID].message = message
      <4>1. lastMsgHasText /\ finalTextID # NoID
        BY <3>1, <3>2, <3>3
      <4>2. finalTextID \in Texts /\ stdout' = <<Whole(finalTextID)>>
        BY <3>1, <3>2, <3>3, <4>1 DEF IsLastText
      <4>3. ~Open /\ finalTextID \in 1 .. Len(spoken) /\ Len(spoken) \in Nat
        BY <1>1, <2>2, <4>2, PartsAreSpoken
      <4>4. spoken[finalTextID].is # "open"
        BY <4>3 DEF Open, SpokenInTurn
      <4>5. ~spliced => spoken[finalTextID].is = "whole"
        BY <4>3, <4>4, PartsAreSpoken DEF SpokenInTurn, SpokenPart
      <4> QED
        BY <3>1, <4>1, <4>2, <4>5
    <3>4. ASSUME NEW p \in Texts, IsLastText(p), spoken[p].message = message, Whole(p) # <<>>
          PROVE  stdout' = <<Whole(p)>>
      <4>1. finalTextID # NoID /\ IsLastText(finalTextID)
        BY <3>1
      <4>2. p = finalTextID
        BY <4>1, <3>4, PartsAreSpoken DEF IsLastText
      <4> QED
        BY <3>1, <3>2, <3>4, <4>1, <4>2
    <3> QED
      BY <1>2, <1>3, <3>3, <3>4, Zenon DEF Printed
  <2> QED
    BY <2>1, <2>2
<1>7. Buffered'
  BY <1>2 DEF Buffered
<1>8. CodesAreTrue'
  BY <1>1, <1>2 DEF CodesAreTrue, startVars
<1> QED
  BY <1>4, <1>5, <1>6, <1>7, <1>8

LEMMA SessionClosesKeeps == AnswerInv /\ SessionCloses => AnswerInv'
<1> SUFFICES ASSUME AnswerInv, SessionCloses PROVE AnswerInv'
  OBVIOUS
<1> USE DEF AnswerInv
<1>1. /\ phase \in {"starting", "over"} /\ phase' = "closed"
      /\ UNCHANGED <<noDelta, spoken, message, spliced, failed, buffer, progress, startVars>>
  BY DEF SessionCloses
<1>2. Texts' = Texts /\ \A p : Whole(p)' = Whole(p) /\ (IsLastText(p)' <=> IsLastText(p))
  BY <1>1 DEF Texts, Whole, Text, IsLastText, Last
<1>3. SpokenInTurn'
  BY <1>1, Zenon DEF SpokenInTurn
<1>4. ProgressKnown'
  BY <1>1 DEF ProgressKnown, buffer, progress
<1>5. Printed'
  <2>1. CASE phase = "starting"
    <3>1. stdout = <<>> /\ spoken = <<>>
      BY <2>1 DEF ProgressKnown
    <3>2. Texts = {}
      <4>1. Len(spoken) = 0
        BY <3>1
      <4> QED
        BY <4>1 DEF Texts, Last
    <3> QED
      BY <1>1, <1>2, <3>1, <3>2, Zenon DEF Printed, buffer
  <2>2. CASE phase = "over"
    BY <1>1, <1>2, <2>2, Zenon DEF Printed, buffer
  <2> QED
    BY <1>1, <2>1, <2>2
<1>6. Buffered'
  BY <1>1 DEF Buffered
<1>7. CodesAreTrue'
  BY <1>1 DEF CodesAreTrue, startVars, progress
<1> QED
  BY <1>3, <1>4, <1>5, <1>6, <1>7

LEMMA ReturnedKeeps == AnswerInv /\ Returned => AnswerInv'
<1> SUFFICES ASSUME AnswerInv, Returned PROVE AnswerInv'
  OBVIOUS
<1> USE DEF AnswerInv
<1>1. /\ phase = "closed" /\ UNCHANGED <<sessionVars, progress, stdin, exitCh, sigint, waitCode>>
      /\ exit' = IF sigint THEN 130 ELSE IF waitCode = 0 /\ hasError THEN 1 ELSE waitCode
  BY DEF Returned
<1>2. /\ stdout' = stdout /\ finalText' = finalText /\ (finalFlushed => finalFlushed')
  BY DEF Returned, FlushFinal, ProgressKnown, buffer
<1>3. Texts' = Texts /\ \A p : Whole(p)' = Whole(p) /\ (IsLastText(p)' <=> IsLastText(p))
  BY <1>1 DEF Texts, Whole, Text, IsLastText, Last, sessionVars
<1>4. SpokenInTurn' /\ Printed' /\ Buffered'
  <2>1. SpokenInTurn'
    BY <1>1, Zenon DEF SpokenInTurn, sessionVars
  <2>2. Printed'
    BY <1>1, <1>2, <1>3, Zenon DEF Printed, sessionVars
  <2>3. Buffered'
    BY <1>1 DEF Buffered, sessionVars
  <2> QED
    BY <2>1, <2>2, <2>3
<1>5. ProgressKnown'
  BY <1>1, <1>2 DEF ProgressKnown, sessionVars, progress
<1>6. CodesAreTrue'
  BY <1>1 DEF CodesAreTrue, sessionVars, progress, Waiting, Returned
<1> QED
  BY <1>4, <1>5, <1>6

LEMMA PartBeginsKeeps == ASSUME AnswerInv, NEW kind \in Kinds, PartBegins(kind) PROVE AnswerInv'
<1> USE DEF AnswerInv
<1> DEFINE new == Len(spoken) + 1
<1>1. /\ phase = "working" /\ phase' = phase /\ ~Open /\ spoken' = Append(spoken, Part(kind))
      /\ UNCHANGED <<noDelta, phase, message, spliced, failed, buffer, progress, startVars>>
  BY DEF PartBegins
<1>2. /\ Len(spoken) \in Nat /\ Part(kind) \in SpokenPart /\ message \in Nat
      /\ spoken \in Seq(SpokenPart)
  <2>1. message \in Nat /\ spoken \in Seq(SpokenPart)
    BY DEF SpokenInTurn
  <2> QED
    BY <2>1, PartsAreSpoken DEF Part, SpokenPart
<1>3. /\ spoken' \in Seq(SpokenPart) /\ Len(spoken') = new /\ spoken'[new] = Part(kind)
      /\ \A p \in 1 .. Len(spoken) : spoken'[p] = spoken[p]
  BY <1>1, <1>2
<1>4. Part(kind).is = "open" /\ Part(kind).size = 0 /\ Part(kind).message = message
  BY DEF Part
<1>5. \A p \in 1 .. new : p \in 1 .. Len(spoken) \/ p = new
  BY <1>2
<1>6. SpokenInTurn'
  <2>1. \A p \in 1 .. Len(spoken) : spoken[p].is # "open"
    BY <1>1, <1>2 DEF SpokenInTurn, Open
  <2>2. message' = message /\ message <= message /\ spliced' = spliced
    BY <1>1, <1>2
  <2> QED
    BY <1>2, <1>3, <1>4, <1>5, <2>1, <2>2 DEF SpokenInTurn
<1>7. /\ Texts' = Texts
      /\ \A p \in Texts : Whole(p)' = Whole(p) /\ spoken'[p] = spoken[p]
      /\ \A p : IsLastText(p)' <=> IsLastText(p)
  <2>1. Texts' = Texts
    <3>1. noDelta' = noDelta
      BY <1>1
    <3> QED
      BY <1>2, <1>3, <1>4, <1>5, <3>1 DEF Texts, Last
  <2>2. \A p \in Texts : spoken'[p] = spoken[p]
    BY <1>3 DEF Texts, Last
  <2> QED
    BY <2>1, <2>2 DEF Whole, Text, IsLastText
<1>8. ProgressKnown' /\ Printed'
  BY <1>1, Zenon DEF ProgressKnown, Printed, buffer, progress
<1>9. Buffered'
  <2>1. finalTextID \in Texts => finalText' = finalText
    BY <1>1 DEF buffer
  <2> QED
    BY <1>1, <1>7 DEF Buffered, IsLastText, buffer
<1>10. CodesAreTrue'
  BY <1>1 DEF CodesAreTrue, startVars, progress
<1> QED
  BY <1>6, <1>8, <1>9, <1>10

LEMMA ToolOutputKeeps == AnswerInv /\ ToolOutput => AnswerInv'
<1> SUFFICES ASSUME AnswerInv, ToolOutput PROVE AnswerInv'
  OBVIOUS
<1> USE DEF AnswerInv
<1>1. /\ phase = "working" /\ message' = message + 1 /\ ~lastMsgHasText'
      /\ UNCHANGED <<finalText, finalTextID, finalFlushed, stdout>>
      /\ UNCHANGED <<noDelta, phase, spoken, spliced, failed, progress, startVars>>
  BY DEF ToolOutput
<1>2. /\ Len(spoken) \in Nat /\ message \in Nat
      /\ \A p \in 1 .. Len(spoken) :
           /\ spoken[p].message \in Nat /\ spoken[p].message < message + 1
           /\ spoken[p].message <= message + 1
  <2>1. message \in Nat
    BY DEF SpokenInTurn
  <2> QED
    BY <2>1, PartsAreSpoken
<1>3. Texts' = Texts /\ \A p : Whole(p)' = Whole(p) /\ (IsLastText(p)' <=> IsLastText(p))
  BY <1>1 DEF Texts, Whole, Text, IsLastText, Last
<1>4. SpokenInTurn'
  <2>1. \A p \in 1 .. Len(spoken) : spoken[p].is # "open"
    BY <1>2 DEF ToolOutput, Open, SpokenInTurn
  <2> QED
    BY <1>1, <1>2, <2>1 DEF SpokenInTurn
<1>5. ProgressKnown' /\ Printed'
  BY <1>1 DEF ProgressKnown, Printed, progress
<1>6. Buffered'
  <2>1. \A p \in Texts : spoken[p].message # message'
    BY <1>1, <1>2, PartsAreSpoken
  <2> QED
    BY <1>1, <1>3, <2>1 DEF Buffered, IsLastText
<1>7. CodesAreTrue'
  BY <1>1 DEF CodesAreTrue, startVars, progress
<1> QED
  BY <1>4, <1>5, <1>6, <1>7

LEMMA UserWordsKeeps == AnswerInv /\ UserWords => AnswerInv'
<1> SUFFICES ASSUME AnswerInv, UserWords PROVE AnswerInv'
  OBVIOUS
<1> USE DEF AnswerInv
<1> DEFINE part == [spoken[Last] EXCEPT !.is = IF Open THEN "cut" ELSE @]
<1>1. /\ phase = "working" /\ message' = message + 1 /\ spliced' /\ spoken # <<>>
      /\ spoken' = [spoken EXCEPT ![Last] = part]
      /\ UNCHANGED <<noDelta, phase, failed, buffer, progress, startVars>>
  BY DEF UserWords
<1>2. /\ Len(spoken) \in Nat /\ message \in Nat /\ spoken \in Seq(SpokenPart)
      /\ \A p \in 1 .. Len(spoken) :
           /\ spoken[p] \in SpokenPart /\ spoken[p].message \in Nat
           /\ spoken[p].message < message + 1 /\ spoken[p].message <= message + 1
  <2>1. message \in Nat /\ spoken \in Seq(SpokenPart)
    BY DEF SpokenInTurn
  <2> QED
    BY <2>1, PartsAreSpoken
<1>3. Last \in 1 .. Len(spoken) /\ Last = Len(spoken)
  BY <1>1, <1>2 DEF Last
<1>4. /\ part \in SpokenPart /\ part.kind = spoken[Last].kind /\ part.size = spoken[Last].size
      /\ part.message = spoken[Last].message /\ part.is # "open"
      /\ (part.is = "whole" <=> spoken[Last].is = "whole")
  BY <1>1, <1>2, <1>3 DEF SpokenPart, Open, Last
<1>5. /\ spoken' \in Seq(SpokenPart) /\ Len(spoken') = Len(spoken)
      /\ \A p \in 1 .. Len(spoken) : spoken'[p] = IF p = Last THEN part ELSE spoken[p]
  <2> HIDE DEF part
  <2> QED
    BY <1>1, <1>2, <1>3, <1>4
<1> HIDE DEF part
<1>6. SpokenInTurn'
  <2>1. \A p \in 1 .. Len(spoken) : p # Last => spoken[p].is # "open"
    BY <1>3 DEF SpokenInTurn
  <2>2. \A p \in 1 .. Len(spoken) : spoken'[p].is # "open"
    BY <1>4, <1>5, <2>1
  <2>3. \A p \in 1 .. Len(spoken) : spoken'[p].message <= message + 1
    BY <1>2, <1>3, <1>4, <1>5
  <2>4. message + 1 \in Nat
    BY <1>2
  <2> QED
    BY <1>1, <1>5, <2>2, <2>3, <2>4 DEF SpokenInTurn
<1>7. /\ Texts' = Texts
      /\ \A p \in Texts : Whole(p)' = Whole(p) /\ spoken'[p].message # message'
      /\ \A p : IsLastText(p)' <=> IsLastText(p)
  <2>1. \A p \in 1 .. Len(spoken) :
          /\ spoken'[p].kind = spoken[p].kind /\ spoken'[p].size = spoken[p].size
          /\ spoken'[p].message = spoken[p].message
          /\ (spoken'[p].is = "whole" <=> spoken[p].is = "whole")
    BY <1>3, <1>4, <1>5
  <2>2. noDelta' = noDelta
    BY <1>1
  <2>3. Texts' = Texts
    BY <1>5, <2>1, <2>2 DEF Texts, Last
  <2>4. \A p \in Texts : Whole(p)' = Whole(p)
    BY <2>1, PartsAreSpoken DEF Whole, Text
  <2>5. \A p \in Texts : spoken'[p].message # message'
    BY <1>1, <1>2, <2>1, PartsAreSpoken
  <2> QED
    BY <2>3, <2>4, <2>5 DEF IsLastText
<1>8. ProgressKnown' /\ Printed'
  BY <1>1, Zenon DEF ProgressKnown, Printed, buffer, progress
<1>9. Buffered'
  BY <1>1, <1>7 DEF Buffered, IsLastText, buffer
<1>10. CodesAreTrue'
  BY <1>1 DEF CodesAreTrue, startVars, progress
<1> QED
  BY <1>6, <1>8, <1>9, <1>10

(* A part that grows or ends is the last one.                              *)
LEMMA LastPartChanges ==
  ASSUME AnswerInv, Open, NEW part \in SpokenPart, spoken' = [spoken EXCEPT ![Last] = part],
         part.kind = spoken[Last].kind, part.message = spoken[Last].message, part.is # "cut",
         message' = message, spliced' = spliced, noDelta' = noDelta
  PROVE  /\ SpokenInTurn' /\ Last' = Last /\ Last \in 1 .. Len(spoken) /\ Last # NoID
         /\ spoken'[Last] = part /\ Len(spoken') = Len(spoken) /\ Len(spoken) \in Nat
         /\ \A p \in 1 .. Len(spoken) : p # Last => spoken'[p] = spoken[p]
         /\ \A p \in 1 .. Len(spoken) : p # Last => (p \in Texts' <=> p \in Texts)
         /\ Last \in Texts' <=>
              part.kind = "text" /\ (part.is = "whole" \/ (~noDelta /\ part.size > 0))
         /\ Texts' \subseteq 1 .. Len(spoken)
<1> USE DEF AnswerInv
<1>1. /\ Len(spoken) \in Nat /\ message \in Nat /\ spoken \in Seq(SpokenPart)
  BY PartsAreSpoken DEF SpokenInTurn
<1>2. Last \in 1 .. Len(spoken) /\ Last = Len(spoken)
  <2>1. spoken # <<>>
    BY DEF Open
  <2> QED
    BY <1>1, <2>1 DEF Last
<1>3. /\ spoken' \in Seq(SpokenPart) /\ Len(spoken') = Len(spoken)
      /\ \A p \in 1 .. Len(spoken) : spoken'[p] = IF p = Last THEN part ELSE spoken[p]
  BY <1>1, <1>2
<1>4. SpokenInTurn'
  <2>1. \A p \in 1 .. Len(spoken) : spoken'[p].message = spoken[p].message
    BY <1>3
  <2>2. \A p \in 1 .. Len(spoken) :
          /\ spoken'[p].is = "open" => p = Last /\ spoken[Last].message = message
          /\ spoken'[p].is = "cut" => spoken[p].is = "cut"
    BY <1>2, <1>3 DEF SpokenInTurn, Open
  <2> QED
    BY <1>1, <1>2, <1>3, <2>1, <2>2 DEF SpokenInTurn
<1>5. Last' = Last /\ Last # NoID
  BY <1>1, <1>2, <1>3 DEF Last, NoID
<1>6. /\ Texts' \subseteq 1 .. Len(spoken)
      /\ \A p \in 1 .. Len(spoken) :
           p \in Texts' <=>
             /\ spoken'[p].kind = "text"
             /\ spoken'[p].is = "whole" \/ (~noDelta /\ spoken'[p].size > 0)
  <2>1. Texts' = {p \in 1 .. Len(spoken) :
                    /\ spoken'[p].kind = "text"
                    /\ spoken'[p].is = "whole" \/ (~noDelta /\ spoken'[p].size > 0)}
    BY <1>3 DEF Texts, Last
  <2> QED
    BY <2>1
<1> QED
  BY <1>1, <1>2, <1>3, <1>4, <1>5, <1>6 DEF Texts, Last

LEMMA TextHeard ==
  ASSUME AnswerInv, phase = "working", Open, NEW part \in SpokenPart,
         spoken' = [spoken EXCEPT ![Last] = part],
         part.kind = spoken[Last].kind, part.message = spoken[Last].message, part.is # "cut",
         UNCHANGED <<noDelta, phase, message, spliced, failed, progress, startVars>>,
         Last \in Texts', NEW content, BufferFinalText(Last, content),
         ~failed => (IF finalTextID = Last THEN finalText ELSE <<>>) \o content
                      = Text(Last, part.size)
  PROVE  AnswerInv'
<1> USE DEF AnswerInv
<1>1. /\ SpokenInTurn' /\ Last' = Last /\ Last \in 1 .. Len(spoken) /\ Last # NoID
      /\ spoken'[Last] = part /\ Len(spoken') = Len(spoken) /\ Len(spoken) \in Nat
      /\ Texts' \subseteq 1 .. Len(spoken)
  BY LastPartChanges
<1>2. ProgressKnown'
  BY DEF ProgressKnown, progress, BufferFinalText
<1>3. Printed'
  BY DEF Printed
<1>4. Buffered'
  <2>1. part.message = message
    BY <1>1 DEF Open, SpokenInTurn, Last
  <2>2. IsLastText(Last)' /\ IsLastText(finalTextID)'
    BY <1>1 DEF IsLastText, Last, BufferFinalText
  <2>3. ~failed => finalText' = Whole(finalTextID)'
    BY <1>1 DEF Whole, Text, BufferFinalText
  <2>4. finalTextID' = Last /\ lastMsgHasText' /\ finalFlushed' = finalFlushed
    BY DEF BufferFinalText
  <2> QED
    BY <1>1, <2>1, <2>2, <2>3, <2>4 DEF Buffered
<1>5. CodesAreTrue'
  BY DEF CodesAreTrue, startVars, progress
<1> QED
  BY <1>1, <1>2, <1>3, <1>4, <1>5

(* Nothing the adapter keeps, when the last part is not among the texts.   *)
LEMMA TextNotHeard ==
  ASSUME AnswerInv, phase = "working", Open, NEW part \in SpokenPart,
         spoken' = [spoken EXCEPT ![Last] = part],
         part.kind = spoken[Last].kind, part.message = spoken[Last].message, part.is # "cut",
         UNCHANGED <<noDelta, phase, message, spliced, failed, buffer, progress, startVars>>,
         Last \notin Texts, Last \notin Texts'
  PROVE  AnswerInv'
<1> USE DEF AnswerInv
<1>1. /\ SpokenInTurn' /\ Last' = Last /\ Last \in 1 .. Len(spoken) /\ Len(spoken) \in Nat
      /\ \A p \in 1 .. Len(spoken) : p # Last => spoken'[p] = spoken[p]
      /\ \A p \in 1 .. Len(spoken) : p # Last => (p \in Texts' <=> p \in Texts)
      /\ Texts' \subseteq 1 .. Len(spoken)
  BY LastPartChanges
<1>2. /\ Texts' = Texts /\ \A p \in Texts : spoken'[p] = spoken[p] /\ Whole(p)' = Whole(p)
      /\ \A p : IsLastText(p)' <=> IsLastText(p)
  <2>1. Texts \subseteq 1 .. Len(spoken)
    BY PartsAreSpoken
  <2>2. Texts' = Texts
    <3>1. \A p : p \in Texts' <=> p \in Texts
      BY <1>1, <2>1
    <3> QED
      BY <3>1
  <2> QED
    BY <1>1, <2>1, <2>2 DEF Whole, Text, IsLastText
<1>3. ProgressKnown' /\ Printed'
  BY DEF ProgressKnown, Printed, progress, buffer
<1>4. Buffered'
  BY <1>2 DEF Buffered, IsLastText, buffer
<1>5. CodesAreTrue'
  BY DEF CodesAreTrue, startVars, progress
<1> QED
  BY <1>1, <1>3, <1>4, <1>5

(* What is in the buffer of a part that is open.                           *)
LEMMA OpenIsBuffered ==
  ASSUME AnswerInv, phase = "working", ~failed, Open
  PROVE  /\ finalTextID = Last => Last \in Texts /\ finalText = Whole(Last)
         /\ Last \in Texts => finalTextID = Last
<1>1. finalTextID # NoID => IsLastText(finalTextID) /\ finalText = Whole(finalTextID)
  BY DEF AnswerInv, Buffered
<1>2. finalTextID = NoID => Texts = {}
  BY DEF AnswerInv, Buffered
<1>3. Len(spoken) \in Nat /\ Texts \subseteq 1 .. Len(spoken) /\ Last = Len(spoken)
  BY PartsAreSpoken DEF AnswerInv, Last
<1>4. Last # NoID
  <2>1. spoken # <<>> /\ spoken \in Seq(SpokenPart)
    BY DEF Open, AnswerInv, SpokenInTurn
  <2> QED
    BY <2>1 DEF Last, NoID
<1>5. finalTextID # NoID => finalTextID \in Texts /\ \A p \in Texts : p <= finalTextID
  BY <1>1 DEF IsLastText
<1>6. ASSUME finalTextID = Last PROVE Last \in Texts /\ finalText = Whole(Last)
  BY <1>1, <1>4, <1>5, <1>6
<1>7. ASSUME Last \in Texts PROVE finalTextID = Last
  <2>1. finalTextID # NoID
    BY <1>2, <1>7
  <2>2. finalTextID \in 1 .. Len(spoken) /\ Last <= finalTextID
    BY <1>3, <1>5, <1>7, <2>1
  <2> QED
    BY <1>3, <2>2
<1> QED
  BY <1>6, <1>7

LEMMA ContentDeltaKeeps == AnswerInv /\ ContentDelta => AnswerInv'
<1> SUFFICES ASSUME AnswerInv, ContentDelta PROVE AnswerInv'
  OBVIOUS
<1> DEFINE part == [spoken[Last] EXCEPT !.size = @ + 1]
<1>1. /\ phase = "working" /\ Open /\ spoken[Last].kind = "text" /\ spoken[Last].is = "open"
      /\ spoken' = [spoken EXCEPT ![Last] = part]
      /\ UNCHANGED <<noDelta, phase, message, spliced, failed, progress, startVars>>
  BY DEF ContentDelta, Open, Last
<1>2. Last \in 1 .. Len(spoken) /\ spoken[Last] \in SpokenPart /\ spoken[Last].size \in Nat
  <2>1. spoken # <<>> /\ spoken \in Seq(SpokenPart)
    BY <1>1 DEF Open, AnswerInv, SpokenInTurn
  <2>2. Last \in 1 .. Len(spoken)
    BY <2>1 DEF Last
  <2> QED
    BY <2>2, PartsAreSpoken DEF AnswerInv
<1>3. /\ part \in SpokenPart /\ part.kind = "text" /\ part.message = spoken[Last].message
      /\ part.is = "open" /\ part.size = spoken[Last].size + 1 /\ part.size > 0
  BY <1>1, <1>2 DEF SpokenPart
<1> HIDE DEF part
<1>4. /\ Last \in Texts' <=> ~noDelta
      /\ Last \in Texts <=> (~noDelta /\ spoken[Last].size > 0)
  <2>1. Last \in Texts' <=>
          part.kind = "text" /\ (part.is = "whole" \/ (~noDelta /\ part.size > 0))
    BY <1>1, <1>3, LastPartChanges
  <2> QED
    BY <1>1, <1>2, <1>3, <2>1 DEF Texts, Last
<1>5. CASE noDelta
  <2>1. UNCHANGED buffer
    BY <1>5 DEF ContentDelta
  <2> QED
    BY <1>1, <1>3, <1>4, <1>5, <2>1, TextNotHeard
<1>6. CASE ~noDelta
  <2> DEFINE content == <<<<Last, spoken[Last].size + 1>>>>
  <2>1. BufferFinalText(Last, content)
    BY <1>6 DEF ContentDelta
  <2>2. ASSUME ~failed
        PROVE  (IF finalTextID = Last THEN finalText ELSE <<>>) \o content = Text(Last, part.size)
    <3>1. /\ Text(Last, spoken[Last].size) \o content = Text(Last, part.size)
          /\ Text(Last, 0) = <<>>
      BY <1>2, <1>3, TextGrows
    <3>2. CASE finalTextID = Last
      <4>1. finalText = Text(Last, spoken[Last].size)
        BY <1>1, <2>2, <3>2, OpenIsBuffered DEF Whole
      <4> QED
        BY <3>1, <3>2, <4>1
    <3>3. CASE finalTextID # Last
      <4>1. spoken[Last].size = 0
        BY <1>1, <1>2, <1>4, <1>6, <2>2, <3>3, OpenIsBuffered
      <4> QED
        BY <3>1, <3>3, <4>1
    <3> QED
      BY <3>2, <3>3
  <2> HIDE DEF content
  <2> QED
    BY <1>1, <1>3, <1>4, <1>6, <2>1, <2>2, TextHeard
<1> QED
  BY <1>5, <1>6

LEMMA ContentCompleteKeeps == AnswerInv /\ ContentComplete => AnswerInv'
<1> SUFFICES ASSUME AnswerInv, ContentComplete PROVE AnswerInv'
  OBVIOUS
<1> DEFINE part == [spoken[Last] EXCEPT !.is = "whole"]
<1>1. /\ phase = "working" /\ Open /\ spoken[Last].is = "open"
      /\ spoken' = [spoken EXCEPT ![Last] = part]
      /\ UNCHANGED <<noDelta, phase, message, spliced, failed, progress, startVars>>
  BY DEF ContentComplete, Open, Last
<1>2. Last \in 1 .. Len(spoken) /\ spoken[Last] \in SpokenPart /\ spoken[Last].size \in Nat
  <2>1. spoken # <<>> /\ spoken \in Seq(SpokenPart)
    BY <1>1 DEF Open, AnswerInv, SpokenInTurn
  <2>2. Last \in 1 .. Len(spoken)
    BY <2>1 DEF Last
  <2> QED
    BY <2>2, PartsAreSpoken DEF AnswerInv
<1>3. /\ part \in SpokenPart /\ part.kind = spoken[Last].kind
      /\ part.message = spoken[Last].message
      /\ part.is = "whole" /\ part.size = spoken[Last].size
  BY <1>1, <1>2 DEF SpokenPart
<1> HIDE DEF part
<1>4. /\ Last \in Texts' <=> spoken[Last].kind = "text"
      /\ Last \in Texts <=> (spoken[Last].kind = "text" /\ ~noDelta /\ spoken[Last].size > 0)
  <2>1. Last \in Texts' <=>
          part.kind = "text" /\ (part.is = "whole" \/ (~noDelta /\ part.size > 0))
    BY <1>1, <1>3, LastPartChanges
  <2> QED
    BY <1>1, <1>2, <1>3, <2>1 DEF Texts, Last
<1>5. CASE spoken[Last].kind # "text"
  <2>1. UNCHANGED buffer
    BY <1>5 DEF ContentComplete
  <2> QED
    BY <1>1, <1>3, <1>4, <1>5, <2>1, TextNotHeard
<1>6. CASE spoken[Last].kind = "text"
  <2> DEFINE content == IF noDelta THEN Whole(Last) ELSE <<>>
  <2>1. BufferFinalText(Last, content)
    BY <1>6 DEF ContentComplete
  <2>2. ASSUME ~failed
        PROVE  (IF finalTextID = Last THEN finalText ELSE <<>>) \o content = Text(Last, part.size)
    <3>1. /\ Text(Last, part.size) \o <<>> = Text(Last, part.size)
          /\ <<>> \o Text(Last, part.size) = Text(Last, part.size)
          /\ Text(Last, 0) = <<>>
      BY <1>2, <1>3, TextGrows
    <3>2. CASE noDelta
      <4>1. finalTextID # Last
        BY <1>1, <1>4, <2>2, <3>2, OpenIsBuffered
      <4> QED
        BY <1>3, <3>1, <3>2, <4>1 DEF Whole
    <3>3. CASE ~noDelta /\ finalTextID = Last
      <4>1. finalText = Text(Last, part.size)
        BY <1>1, <1>3, <2>2, <3>3, OpenIsBuffered DEF Whole
      <4> QED
        BY <3>1, <3>3, <4>1
    <3>4. CASE ~noDelta /\ finalTextID # Last
      <4>1. part.size = 0
        BY <1>1, <1>2, <1>3, <1>4, <1>6, <2>2, <3>4, OpenIsBuffered
      <4> QED
        BY <3>1, <3>4, <4>1
    <3> QED
      BY <3>2, <3>3, <3>4
  <2> HIDE DEF content
  <2> QED
    BY <1>1, <1>3, <1>4, <1>6, <2>1, <2>2, TextHeard
<1> QED
  BY <1>5, <1>6

LEMMA AnswerSteps == AnswerInv /\ [AnswerNext]_answerVars => AnswerInv'
BY TaskBeginsKeeps, PartBeginsKeeps, ContentDeltaKeeps, ContentCompleteKeeps, ToolOutputKeeps,
   UserWordsKeeps, SystemErrorKeeps, CommandErrorKeeps, TaskEndsKeeps, SessionClosesKeeps,
   ReturnedKeeps, StartKeeps DEF AnswerNext

(* stdout is nothing or the last text the model said, whatever was said    *)
(* before it, and nothing once the task reported an error (flushFinal,     *)
(* discardFinal).                                                          *)
THEOREM StdoutHasTheAnswer == AnswerSpec => []StdoutIsTheAnswer
<1>1. AnswerInv => StdoutIsTheAnswer
  BY DEF AnswerInv, ProgressKnown, Printed, StdoutIsTheAnswer
<1> QED
  BY <1>1, AnswerStarts, AnswerSteps, PTL DEF AnswerSpec

(* The exit code says what happened (waitForExit, Start): 0 an answer      *)
(* printed if there was one, 1 an error or no prompt, 130 an interruption. *)
THEOREM ExitSaysIt == AnswerSpec => []ExitIsTrue
<1>1. AnswerInv => ExitIsTrue
  BY DEF AnswerInv, ProgressKnown, Printed, CodesAreTrue, ExitIsTrue, Waiting
<1> QED
  BY <1>1, AnswerStarts, AnswerSteps, PTL DEF AnswerSpec

-----------------------------------------------------------------------------
(* PlainOutput.                                                            *)

PartType == [kind : TextKinds, is : {"open", "whole", "cut", "replayed"}, size : Nat]

PlainTypes ==
  /\ whole \in BOOLEAN /\ working \in BOOLEAN /\ glued \in BOOLEAN /\ hushed \in BOOLEAN
  /\ parts \in Seq(PartType)
  /\ printed \in Seq(Nat) /\ Len(printed) = Len(parts)
  /\ lastTag \in TextKinds \cup Tags \cup {Untagged} /\ lastHistoryID \in 0 .. Len(parts)
  /\ seenDelta \subseteq 1 .. Len(parts) /\ line \in 0 .. Len(parts)

(* Blocks that are open are among the last AtOnce.                         *)
OpenIsLate == \A p \in Opened : Len(parts) - p < AtOnce

(* Without deltas none is remembered.                                      *)
SeenAndShown ==
  /\ whole => seenDelta = {}
  /\ \A p \in 1 .. Len(parts) :
       /\ printed[p] = IF whole /\ parts[p].is \in {"open", "cut"} THEN 0 ELSE parts[p].size
       /\ ~whole /\ parts[p].is = "open" /\ parts[p].size > 0 => p \in seenDelta

(* What is on the line is what was printed last.                           *)
LineIsLast ==
  /\ glued => hushed
  /\ ~hushed /\ line # NoPart => lastHistoryID = line /\ lastTag = parts[line].kind

PlainInv == PlainTypes /\ OpenIsLate /\ SeenAndShown /\ LineIsLast

LEMMA SmallestExists ==
  ASSUME NEW T, T \subseteq Nat, T # {}
  PROVE  \E i \in T : \A j \in T : i <= j
<1> DEFINE Less == {ss \in Nat \X Nat : ss[1] < ss[2]}
<1>1. PICK i \in T : \A j \in T : ~(<<j, i>> \in Less)
  <2>1. Less = OpToRel(<, Nat)
    BY DEF OpToRel
  <2>2. IsWellFoundedOn(Less, Nat)
    BY <2>1, NatLessThanWellFounded
  <2> HIDE DEF Less
  <2> QED BY <2>2, WFMin
<1>2. ASSUME NEW j \in T PROVE i <= j
  <2>1. i \in Nat /\ j \in Nat /\ ~(j < i)
    BY <1>1
  <2> QED
    BY <2>1
<1> QED
  BY <1>2

LEMMA OldestIsLeast ==
  ASSUME NEW T, T \subseteq Nat, T # {}
  PROVE  Oldest(T) \in T /\ \A j \in T : Oldest(T) <= j
BY SmallestExists DEF Oldest

(* A block that is open is not the one that makes room for another.        *)
LEMMA OpenIsKept ==
  ASSUME PlainInv, NEW id \in Opened, NEW p \in Opened, p \in seenDelta, MarkDeltaSeen(id)
  PROVE  p \in seenDelta'
<1> SUFFICES ASSUME p # id, id \notin seenDelta, Cardinality(seenDelta) >= MaxSeen,
                    p = Oldest(seenDelta)
             PROVE  FALSE
  BY DEF MarkDeltaSeen
<1> DEFINE q == IF p < id THEN p ELSE id
<1>0. /\ Len(parts) \in Nat /\ Opened \subseteq 1 .. Len(parts)
      /\ seenDelta \subseteq 1 .. Len(parts)
  <2>1. Len(parts) \in Nat
    BY DEF PlainInv, PlainTypes
  <2> QED
    BY <2>1 DEF Opened, PlainInv, PlainTypes
<1>1. /\ p \in Nat /\ id \in Nat /\ q \in Nat /\ q <= p /\ q <= id /\ q \in Opened
      /\ Len(parts) \in Nat /\ p <= Len(parts) /\ id <= Len(parts) /\ 1 <= q
      /\ seenDelta \subseteq 1 .. Len(parts)
  BY <1>0
<1>2. seenDelta \cup {id} \in SUBSET (q .. Len(parts))
  <2>1. seenDelta \subseteq Nat /\ seenDelta # {}
    BY <1>1
  <2>2. \A j \in seenDelta : p <= j
    BY <2>1, OldestIsLeast
  <2> QED
    BY <1>1, <2>2
<1>3. /\ IsFiniteSet(q .. Len(parts)) /\ Cardinality(q .. Len(parts)) = Len(parts) - q + 1
  <2>1. q \in Int /\ Len(parts) \in Int /\ ~(q > Len(parts))
    BY <1>1
  <2> HIDE DEF q
  <2> QED
    BY <2>1, FS_Interval
<1>4. /\ IsFiniteSet(seenDelta \cup {id})
      /\ Cardinality(seenDelta \cup {id}) <= Len(parts) - q + 1
  BY <1>2, <1>3, FS_Subset
<1>5. IsFiniteSet(seenDelta) /\ Cardinality(seenDelta) \in Nat
      /\ Cardinality(seenDelta \cup {id}) = Cardinality(seenDelta) + 1
  <2>1. seenDelta \in SUBSET (q .. Len(parts))
    BY <1>2
  <2>2. IsFiniteSet(seenDelta)
    BY <1>3, <2>1, FS_Subset
  <2> QED
    BY <2>2, FS_AddElement, FS_CardinalityType
<1>6. Len(parts) - q < AtOnce
  BY <1>1 DEF PlainInv, OpenIsLate
<1> QED
  BY <1>1, <1>4, <1>5, <1>6, PlainOutputAssumption

LEMMA PlainStarts == PlainInit => PlainInv
<1> SUFFICES ASSUME PlainInit PROVE PlainInv
  OBVIOUS
<1>1. Len(parts) = 0 /\ 1 .. Len(parts) = {} /\ 0 .. Len(parts) = {0}
  <2>1. Len(parts) = 0
    BY DEF PlainInit
  <2> QED
    BY <2>1
<1>2. whole \in BOOLEAN /\ working \in BOOLEAN /\ glued \in BOOLEAN /\ hushed \in BOOLEAN
  BY Zenon DEF PlainInit
<1>3. PlainTypes
  <2>1. parts = <<>> /\ printed = <<>> /\ lastTag = Untagged /\ lastHistoryID = 0 /\ seenDelta = {} /\ line = 0
    BY DEF PlainInit, NoPart
  <2>2. \A T : <<>> \in Seq(T)
    OBVIOUS
  <2>3. Len(<<>>) \in Nat /\ 0 \in 0 .. Len(parts)
    BY <1>1
  <2> QED
    BY <2>1, <2>2, <2>3, <1>2 DEF PlainTypes
<1>4. Opened = {}
  BY <1>1 DEF Opened
<1>5. OpenIsLate /\ SeenAndShown
  BY <1>1, <1>4 DEF PlainInit, OpenIsLate, SeenAndShown
<1>6. LineIsLast
  BY Zenon DEF PlainInit, LineIsLast
<1> QED
  BY <1>3, <1>5, <1>6 DEF PlainInv

(* What printing text does to the line.                                    *)
LEMMA TextIsPrinted ==
  ASSUME PlainTypes, LineIsLast, NEW kind, NEW id \in Nat \ {0}, NEW n \in Nat,
         TextDelta(kind, id, n)
  PROVE  /\ lastTag' = kind /\ lastHistoryID' = id /\ hushed' = hushed
         /\ glued' \in BOOLEAN /\ line' \in {NoPart, id, line}
         /\ glued' => hushed'
         /\ ~hushed' /\ line' # NoPart => line' = id
<1>1. lastTag' = kind /\ lastHistoryID' = id /\ hushed' = hushed
  BY DEF TextDelta, Prints
<1>2. CASE n > 0
  <2>1. Prints(id, Separates(kind, id)) /\ line' = id
    BY <1>2 DEF TextDelta, Prints
  <2>2. glued' \in BOOLEAN
    BY <2>1, Zenon DEF Prints
  <2>3. glued' => hushed'
    <3>1. ASSUME ~hushed, line \notin {NoPart, id} PROVE Separates(kind, id)
      BY <3>1 DEF Separates, LineIsLast
    <3> QED
      BY <2>1, <3>1 DEF Prints, LineIsLast
  <2> QED
    BY <1>1, <2>1, <2>2, <2>3
<1>3. CASE ~(n > 0)
  <2>1. /\ line' = IF Separates(kind, id) THEN NoPart ELSE line
        /\ glued' = glued
    BY <1>3 DEF TextDelta
  <2>2. ASSUME ~hushed, line # NoPart, ~Separates(kind, id) PROVE line = id
    BY <2>2 DEF Separates, LineIsLast
  <2>3. glued' \in BOOLEAN
    BY <2>1, Zenon DEF PlainTypes
  <2> QED
    BY <1>1, <2>1, <2>2, <2>3 DEF LineIsLast
<1> QED
  BY <1>2, <1>3

LEMMA PartsAreTyped ==
  ASSUME PlainTypes
  PROVE  /\ Len(parts) \in Nat
         /\ \A p \in 1 .. Len(parts) : parts[p] \in PartType /\ printed[p] \in Nat
BY DEF PlainTypes

LEMMA ReplayedKeeps ==
  ASSUME PlainInv, NEW kind \in TextKinds, Replayed(kind)
  PROVE  PlainInv'
<1> DEFINE new == Len(parts) + 1
<1>1. /\ PlainTypes /\ LineIsLast /\ Len(parts) \in Nat /\ new \in Nat \ {0}
      /\ \A p \in 1 .. Len(parts) : parts[p] \in PartType /\ printed[p] \in Nat
  BY PartsAreTyped DEF PlainInv
<1>2. Told(kind, "replayed", 1) \in PartType
  BY DEF Told, PartType
<1>3. /\ parts' = Append(parts, Told(kind, "replayed", 1)) /\ printed' = Append(printed, 1)
      /\ TextDelta(kind, new, 1) /\ whole' = whole /\ working' = working /\ seenDelta' = seenDelta
  BY DEF Replayed
<1>4. /\ parts' \in Seq(PartType) /\ printed' \in Seq(Nat) 
      /\ Len(parts') = new /\ Len(printed') = new
      /\ \A p \in 1 .. Len(parts) : parts'[p] = parts[p] /\ printed'[p] = printed[p]
      /\ parts'[new] = Told(kind, "replayed", 1) /\ printed'[new] = 1
  BY <1>1, <1>2, <1>3 DEF PlainTypes
<1>5. /\ lastTag' = kind /\ lastHistoryID' = new /\ hushed' = hushed
      /\ glued' \in BOOLEAN /\ line' \in {NoPart, new, line}
      /\ glued' => hushed'
      /\ ~hushed' /\ line' # NoPart => line' = new
  BY <1>1, <1>3, TextIsPrinted
<1>6. PlainTypes'
  <2>1. whole' \in BOOLEAN /\ working' \in BOOLEAN /\ glued' \in BOOLEAN /\ hushed' \in BOOLEAN
    BY <1>1, <1>3, <1>5, Zenon DEF PlainTypes
  <2>2. line' \in 0 .. new /\ seenDelta' \subseteq 1 .. new /\ lastHistoryID' \in 0 .. new
    BY <1>1, <1>3, <1>5 DEF PlainTypes, NoPart
  <2> QED
    BY <1>4, <1>5, <2>1, <2>2 DEF PlainTypes
<1>7. Opened' = {}
  <2>1. \A p \in 1 .. Len(parts) : parts[p].is = "replayed"
    BY DEF Replayed
  <2>2. \A p \in 1 .. new : parts'[p].is = "replayed"
    BY <1>1, <1>4, <2>1 DEF Told
  <2> QED
    BY <1>4, <2>2 DEF Opened
<1>8. SeenAndShown'
  <2>1. \A p \in 1 .. new : p \in 1 .. Len(parts) \/ p = new
    BY <1>1
  <2> QED
    BY <1>1, <1>3, <1>4, <2>1 DEF PlainInv, SeenAndShown, Told
<1>9. LineIsLast'
  BY <1>4, <1>5 DEF LineIsLast, Told
<1> QED
  BY <1>6, <1>7, <1>8, <1>9 DEF PlainInv, OpenIsLate

LEMMA BlockBeginsKeeps ==
  ASSUME PlainInv, NEW kind \in TextKinds, BlockBegins(kind)
  PROVE  PlainInv'
<1> DEFINE new == Len(parts) + 1
<1>1. /\ PlainTypes /\ LineIsLast /\ Len(parts) \in Nat /\ new \in Nat \ {0}
      /\ \A p \in 1 .. Len(parts) : parts[p] \in PartType /\ printed[p] \in Nat
  BY PartsAreTyped DEF PlainInv
<1>2. Told(kind, "open", 0) \in PartType
  BY DEF Told, PartType
<1>3. /\ parts' = Append(parts, Told(kind, "open", 0)) /\ printed' = Append(printed, 0)
      /\ UNCHANGED <<whole, working, outputVars, line, glued, hushed>>
  BY DEF BlockBegins
<1>4. /\ parts' \in Seq(PartType) /\ printed' \in Seq(Nat) 
      /\ Len(parts') = new /\ Len(printed') = new
      /\ \A p \in 1 .. Len(parts) : parts'[p] = parts[p] /\ printed'[p] = printed[p]
      /\ parts'[new] = Told(kind, "open", 0) /\ printed'[new] = 0
  BY <1>1, <1>2, <1>3 DEF PlainTypes
<1>5. PlainTypes'
  <2>1. whole' \in BOOLEAN /\ working' \in BOOLEAN /\ glued' \in BOOLEAN /\ hushed' \in BOOLEAN
    BY <1>1, <1>3, Zenon DEF PlainTypes
  <2>2. line' \in 0 .. new /\ seenDelta' \subseteq 1 .. new /\ lastHistoryID' \in 0 .. new
        /\ lastTag' = lastTag
    BY <1>1, <1>3 DEF PlainTypes, NoPart, outputVars
  <2> QED
    BY <1>1, <1>4, <2>1, <2>2 DEF PlainTypes
<1>6. OpenIsLate'
  <2>1. \A p \in 1 .. new : p \in 1 .. Len(parts) \/ p = new
    BY <1>1
  <2>2. SUFFICES ASSUME NEW q \in Opened' PROVE new - q < AtOnce
    BY <1>4 DEF OpenIsLate
  <2>3. CASE q = new
    BY <1>1, <2>3, PlainOutputAssumption
  <2>4. CASE q \in Opened
    <3>1. /\ q .. Len(parts) \subseteq Opened /\ Cardinality(Opened) < AtOnce
          /\ q \in 1 .. Len(parts)
      BY <2>4 DEF BlockBegins, Opened
    <3>2. IsFiniteSet(1 .. Len(parts)) /\ Opened \in SUBSET (1 .. Len(parts))
      BY <1>1, FS_Interval DEF Opened
    <3>3. IsFiniteSet(Opened) /\ Cardinality(Opened) \in Nat
      BY <3>2, FS_Subset, FS_CardinalityType
    <3>4. Cardinality(q .. Len(parts)) <= Cardinality(Opened)
      BY <3>1, <3>3, FS_Subset
    <3>5. Cardinality(q .. Len(parts)) = Len(parts) - q + 1
      <4>1. q \in Int /\ Len(parts) \in Int /\ ~(q > Len(parts))
        BY <1>1, <3>1
      <4> QED
        BY <4>1, FS_Interval
    <3> QED
      BY <1>1, <3>1, <3>3, <3>4, <3>5, PlainOutputAssumption
  <2>5. q = new \/ q \in Opened
    BY <1>4, <2>1 DEF Opened
  <2> QED
    BY <2>3, <2>4, <2>5
<1>7. SeenAndShown'
  <2>1. \A p \in 1 .. new : p \in 1 .. Len(parts) \/ p = new
    BY <1>1
  <2>2. seenDelta' = seenDelta /\ whole' = whole
    BY <1>3 DEF outputVars
  <2> QED
    BY <1>1, <1>4, <2>1, <2>2 DEF PlainInv, SeenAndShown, Told
<1>8. LineIsLast'
  <2>1. line # NoPart => line \in 1 .. Len(parts)
    BY <1>1 DEF PlainTypes, NoPart
  <2> QED
    BY <1>1, <1>3, <1>4, <2>1 DEF LineIsLast, outputVars
<1> QED
  BY <1>5, <1>6, <1>7, <1>8 DEF PlainInv

(* Chunks of an open block: the block is that of before but for its size   *)
(* and whether it is open.                                                 *)
LEMMA StreamsKeeps ==
  ASSUME PlainInv, NEW p \in 1 .. Len(parts), Streams(p)
  PROVE  PlainInv'
<1> DEFINE part == [parts[p] EXCEPT !.size = @ + 1]
<1>1. /\ PlainTypes /\ LineIsLast /\ Len(parts) \in Nat /\ p \in Nat \ {0} /\ p \in Opened
      /\ \A q \in 1 .. Len(parts) : parts[q] \in PartType /\ printed[q] \in Nat
  BY PartsAreTyped DEF PlainInv, Streams
<1>2. /\ part \in PartType /\ part.size = parts[p].size + 1 /\ part.is = "open"
      /\ part.kind = parts[p].kind
  BY <1>1 DEF PartType, Opened
<1>3. /\ parts' \in Seq(PartType) /\ Len(parts') = Len(parts)
      /\ \A q \in 1 .. Len(parts) : parts'[q] = IF q = p THEN part ELSE parts[q]
  <2>1. parts' = [parts EXCEPT ![p] = part]
    BY DEF Streams
  <2> QED
    BY <1>1, <1>2, <2>1 DEF PlainTypes
<1>4. Opened' = Opened
  BY <1>1, <1>2, <1>3 DEF Opened
<1>5. OpenIsLate'
  BY <1>3, <1>4 DEF PlainInv, OpenIsLate
<1>6. whole' = whole /\ working' = working
  BY DEF Streams
<1>7. CASE whole
  <2>1. UNCHANGED <<outputVars, screen>>
    BY <1>7 DEF Streams
  <2>2. PlainTypes'
    <3>1. whole' \in BOOLEAN /\ working' \in BOOLEAN /\ glued' \in BOOLEAN /\ hushed' \in BOOLEAN
      BY <1>1, <1>6, <2>1, Zenon DEF PlainTypes, screen
    <3> QED
      BY <1>1, <1>3, <2>1, <3>1 DEF PlainTypes, outputVars, screen
  <2>3. SeenAndShown'
    <3>1. seenDelta' = {} /\ printed' = printed /\ whole'
      BY <1>6, <1>7, <2>1 DEF PlainInv, SeenAndShown, outputVars, screen
    <3>2. \A q \in 1 .. Len(parts) :
            /\ parts'[q].is = parts[q].is
            /\ parts[q].is \notin {"open", "cut"} => parts'[q].size = parts[q].size
      BY <1>1, <1>2, <1>3 DEF Opened
    <3> QED
      BY <1>3, <1>7, <3>1, <3>2 DEF PlainInv, SeenAndShown
  <2>4. LineIsLast'
    <3>1. line # NoPart => line \in 1 .. Len(parts)
      BY <1>1 DEF PlainTypes, NoPart
    <3>2. \A q \in 1 .. Len(parts) : parts'[q].kind = parts[q].kind
      BY <1>2, <1>3
    <3> HIDE DEF part
    <3> QED
      BY <1>1, <2>1, <3>1, <3>2 DEF LineIsLast, outputVars, screen
  <2> QED
    BY <1>5, <2>2, <2>3, <2>4 DEF PlainInv
<1>8. CASE ~whole
  <2>1. /\ MarkDeltaSeen(p) /\ TextDelta(parts[p].kind, p, 1)
        /\ printed' = [printed EXCEPT ![p] = @ + 1]
    BY <1>8 DEF Streams
  <2>2. /\ lastTag' = parts[p].kind /\ lastHistoryID' = p /\ hushed' = hushed
        /\ glued' \in BOOLEAN /\ line' \in {NoPart, p, line}
        /\ glued' => hushed'
        /\ ~hushed' /\ line' # NoPart => line' = p
    BY <1>1, <2>1, TextIsPrinted
  <2>3. /\ printed' \in Seq(Nat) /\ Len(printed') = Len(parts)
        /\ \A q \in 1 .. Len(parts) : printed'[q] = IF q = p THEN printed[p] + 1 ELSE printed[q]
    BY <1>1, <2>1 DEF PlainTypes
  <2>4. p \in seenDelta' /\ seenDelta' \subseteq 1 .. Len(parts)
    BY <1>1, <2>1 DEF MarkDeltaSeen, PlainTypes
  <2>5. \A q \in Opened : q \in seenDelta => q \in seenDelta'
    BY <1>1, <2>1, OpenIsKept
  <2>6. PlainTypes'
    <3>1. whole' \in BOOLEAN /\ working' \in BOOLEAN /\ glued' \in BOOLEAN /\ hushed' \in BOOLEAN
      BY <1>1, <1>6, <2>2, Zenon DEF PlainTypes
    <3>2. parts[p].kind \in TextKinds
      BY <1>1 DEF PartType
    <3>3. line' \in 0 .. Len(parts) /\ lastHistoryID' \in 0 .. Len(parts)
      BY <1>1, <2>2 DEF PlainTypes, NoPart
    <3> QED
      BY <1>3, <2>2, <2>3, <2>4, <3>1, <3>2, <3>3 DEF PlainTypes
  <2>7. SeenAndShown'
    <3>1. printed[p] = parts[p].size
      BY <1>1, <1>8 DEF PlainInv, SeenAndShown
    <3>2. \A q \in 1 .. Len(parts) : q # p => printed[q] = parts[q].size
      BY <1>1, <1>8 DEF PlainInv, SeenAndShown
    <3>3. \A q \in Opened : q # p /\ parts[q].size > 0 => q \in seenDelta'
      BY <1>1, <1>8, <2>5 DEF PlainInv, SeenAndShown, Opened
    <3> QED
      BY <1>2, <1>3, <1>6, <1>8, <2>3, <2>4, <3>1, <3>2, <3>3 DEF SeenAndShown, Opened
  <2>8. LineIsLast'
    BY <1>2, <1>3, <2>2 DEF LineIsLast
  <2> QED
    BY <1>5, <2>6, <2>7, <2>8 DEF PlainInv
<1> QED
  BY <1>7, <1>8

LEMMA CompletedKeeps ==
  ASSUME PlainInv, NEW p \in 1 .. Len(parts), Completed(p)
  PROVE  PlainInv'
<1> DEFINE part == [parts[p] EXCEPT !.is = "whole"]
<1> DEFINE n == IF whole THEN parts[p].size ELSE 0
<1>1. /\ PlainTypes /\ LineIsLast /\ Len(parts) \in Nat /\ p \in Nat \ {0} /\ p \in Opened
      /\ \A q \in 1 .. Len(parts) : parts[q] \in PartType /\ printed[q] \in Nat
  BY PartsAreTyped DEF PlainInv, Completed
<1>2. /\ part \in PartType /\ part.size = parts[p].size /\ part.is = "whole"
      /\ part.kind = parts[p].kind /\ parts[p].is = "open" /\ parts[p].size \in Nat
      /\ parts[p].kind \in TextKinds
  BY <1>1 DEF PartType, Opened
<1>3. /\ parts' \in Seq(PartType) /\ Len(parts') = Len(parts)
      /\ \A q \in 1 .. Len(parts) : parts'[q] = IF q = p THEN part ELSE parts[q]
  <2>1. parts' = [parts EXCEPT ![p] = part]
    BY DEF Completed
  <2> QED
    BY <1>1, <1>2, <2>1 DEF PlainTypes
<1>4. Opened' \subseteq Opened
  BY <1>1, <1>2, <1>3 DEF Opened
<1>5. OpenIsLate'
  BY <1>3, <1>4 DEF PlainInv, OpenIsLate
<1>6. whole' = whole /\ working' = working
  BY DEF Completed
<1>7. CASE p \in seenDelta
  <2>1. UNCHANGED <<outputVars, screen>>
    BY <1>7 DEF Completed
  <2>2. PlainTypes'
    <3>1. whole' \in BOOLEAN /\ working' \in BOOLEAN /\ glued' \in BOOLEAN /\ hushed' \in BOOLEAN
      BY <1>1, <1>6, <2>1, Zenon DEF PlainTypes, screen
    <3> QED
      BY <1>1, <1>3, <2>1, <3>1 DEF PlainTypes, outputVars, screen
  <2>3. ~whole
    BY <1>7 DEF PlainInv, SeenAndShown
  <2>4. SeenAndShown'
    BY <1>1, <1>2, <1>3, <1>6, <2>1, <2>3 DEF PlainInv, SeenAndShown, outputVars, screen
  <2>5. LineIsLast'
    <3>1. line # NoPart => line \in 1 .. Len(parts)
      BY <1>1 DEF PlainTypes, NoPart
    <3>2. \A q \in 1 .. Len(parts) : parts'[q].kind = parts[q].kind
      BY <1>2, <1>3
    <3> HIDE DEF part
    <3> QED
      BY <1>1, <2>1, <3>1, <3>2 DEF LineIsLast, outputVars, screen
  <2> QED
    BY <1>5, <2>2, <2>4, <2>5 DEF PlainInv
<1>8. CASE p \notin seenDelta
  <2>0. n \in Nat
    BY <1>2
  <2>1. /\ TextDelta(parts[p].kind, p, n) /\ printed' = [printed EXCEPT ![p] = @ + n]
        /\ seenDelta' = seenDelta
    BY <1>8 DEF Completed
  <2>2. /\ lastTag' = parts[p].kind /\ lastHistoryID' = p /\ hushed' = hushed
        /\ glued' \in BOOLEAN /\ line' \in {NoPart, p, line}
        /\ glued' => hushed'
        /\ ~hushed' /\ line' # NoPart => line' = p
    BY <1>1, <2>0, <2>1, TextIsPrinted
  <2>3. /\ printed' \in Seq(Nat) /\ Len(printed') = Len(parts)
        /\ \A q \in 1 .. Len(parts) : printed'[q] = IF q = p THEN printed[p] + n ELSE printed[q]
    BY <1>1, <2>0, <2>1 DEF PlainTypes
  <2>4. PlainTypes'
    <3>1. whole' \in BOOLEAN /\ working' \in BOOLEAN /\ glued' \in BOOLEAN /\ hushed' \in BOOLEAN
      BY <1>1, <1>6, <2>2, Zenon DEF PlainTypes
    <3>2. line' \in 0 .. Len(parts) /\ lastHistoryID' \in 0 .. Len(parts)
      BY <1>1, <2>2 DEF PlainTypes, NoPart
    <3> QED
      BY <1>1, <1>2, <1>3, <2>1, <2>2, <2>3, <3>1, <3>2 DEF PlainTypes
  <2>5. printed'[p] = part.size
    <3>1. CASE whole
      <4>1. printed[p] = 0
        BY <1>1, <1>2, <3>1 DEF PlainInv, SeenAndShown
      <4> QED
        BY <1>1, <1>2, <2>3, <3>1, <4>1
    <3>2. CASE ~whole
      <4>1. printed[p] = parts[p].size
        BY <1>1, <1>2, <3>2 DEF PlainInv, SeenAndShown
      <4> QED
        BY <1>1, <1>2, <2>3, <3>2, <4>1
    <3> QED
      BY <3>1, <3>2
  <2>6. SeenAndShown'
    <3> HIDE DEF part, n
    <3>1. \A q \in 1 .. Len(parts) : q # p => parts'[q] = parts[q] /\ printed'[q] = printed[q]
      BY <1>3, <2>3
    <3>2. parts'[p] = part
      BY <1>3
    <3> QED
      BY <1>2, <1>3, <1>6, <2>1, <2>5, <3>1, <3>2 DEF PlainInv, SeenAndShown
  <2>7. LineIsLast'
    BY <1>2, <1>3, <2>2 DEF LineIsLast
  <2> QED
    BY <1>5, <2>4, <2>6, <2>7 DEF PlainInv
<1> QED
  BY <1>7, <1>8

LEMMA OthersKeep ==
  ASSUME PlainInv,
         (\E tag \in Tags : Framed(tag)) \/ Noticed \/ SilentResult \/ WorkBegins \/ UNCHANGED plainVars
  PROVE  PlainInv'
<1>1. PlainTypes /\ LineIsLast /\ Len(parts) \in Nat
  BY PartsAreTyped DEF PlainInv
<1>2. /\ whole' = whole /\ parts' = parts /\ printed' = printed /\ seenDelta' = seenDelta
  BY DEF Framed, Noticed, SilentResult, WorkBegins, Prints, Resets, plainVars, saidVars,
         outputVars, screen
<1>3. whole' \in BOOLEAN /\ working' \in BOOLEAN /\ glued' \in BOOLEAN /\ hushed' \in BOOLEAN
  BY <1>1, Zenon DEF PlainTypes, Framed, Noticed, SilentResult, WorkBegins, Prints, Resets,
         plainVars, saidVars, outputVars, screen
<1>4. /\ lastTag' \in TextKinds \cup Tags \cup {Untagged}
      /\ lastHistoryID' \in {NoPart, lastHistoryID} /\ line' \in {NoPart, line}
  BY <1>1 DEF PlainTypes, Framed, Noticed, SilentResult, WorkBegins, Prints, Resets, plainVars,
         saidVars, outputVars, screen, Tags
<1>5. PlainTypes'
  BY <1>1, <1>2, <1>3, <1>4 DEF PlainTypes, NoPart
<1>6. OpenIsLate' /\ SeenAndShown'
  BY <1>2 DEF PlainInv, OpenIsLate, SeenAndShown, Opened
<1>7. LineIsLast'
  <2>1. ASSUME NEW tag \in Tags, Framed(tag) PROVE LineIsLast'
    <3>1. ASSUME ~hushed, line # NoPart PROVE EndsLine(tag)
      <4>1. lastHistoryID = line /\ lastTag = parts[line].kind /\ line \in 1 .. Len(parts)
        BY <1>1, <3>1 DEF LineIsLast, PlainTypes, NoPart
      <4>2. lastTag \in TextKinds /\ lastHistoryID # NoPart
        BY <1>1, <3>1, <4>1, PartsAreTyped DEF PartType
      <4>3. lastTag # Untagged /\ lastTag \notin Tags
        BY <4>2, Zenon DEF Untagged, TextKinds, Tags
      <4> QED
        BY <4>2, <4>3, Zenon DEF EndsLine, Tags
    <3> QED
      BY <1>1, <2>1, <3>1, Zenon DEF Framed, Prints, LineIsLast
  <2>2. CASE Noticed
    BY <1>1, <2>2 DEF Noticed, Prints, LineIsLast
  <2>3. CASE SilentResult
    BY <1>1, <2>3 DEF SilentResult, LineIsLast
  <2>4. CASE WorkBegins \/ UNCHANGED plainVars
    BY <1>1, <2>4 DEF WorkBegins, plainVars, saidVars, outputVars, screen, LineIsLast
  <2> QED
    BY <2>1, <2>2, <2>3, <2>4
<1> QED
  BY <1>5, <1>6, <1>7 DEF PlainInv

LEMMA WorkEndsKeeps == PlainInv /\ WorkEnds => PlainInv'
<1> SUFFICES ASSUME PlainInv, WorkEnds PROVE PlainInv'
  OBVIOUS
<1> DEFINE cut(p) == [parts[p] EXCEPT !.is = IF @ = "open" THEN "cut" ELSE @]
<1>1. /\ PlainTypes /\ LineIsLast /\ Len(parts) \in Nat
      /\ \A p \in 1 .. Len(parts) : parts[p] \in PartType /\ printed[p] \in Nat
  BY PartsAreTyped DEF PlainInv
<1>2. \A p \in 1 .. Len(parts) :
        /\ cut(p) \in PartType /\ cut(p).kind = parts[p].kind /\ cut(p).size = parts[p].size
        /\ cut(p).is = IF parts[p].is = "open" THEN "cut" ELSE parts[p].is
  BY <1>1 DEF PartType
<1>3. parts' = [p \in 1 .. Len(parts) |-> cut(p)]
  BY DEF WorkEnds
<1>4. /\ parts' \in Seq(PartType) /\ Len(parts') = Len(parts)
      /\ \A p \in 1 .. Len(parts) : parts'[p] = cut(p)
  <2> HIDE DEF cut
  <2> QED
    BY <1>1, <1>2, <1>3
<1>5. /\ whole' = whole /\ printed' = printed /\ seenDelta' = seenDelta /\ hushed' = hushed
      /\ lastTag' = Untagged /\ lastHistoryID' = NoPart /\ line' = NoPart
      /\ glued' = (glued \/ (~TRUE /\ line \notin {NoPart, NoPart})) /\ working' = FALSE
  BY DEF WorkEnds, Prints, Resets
<1>6. PlainTypes'
  <2>1. whole' \in BOOLEAN /\ working' \in BOOLEAN /\ glued' \in BOOLEAN /\ hushed' \in BOOLEAN
    BY <1>1, <1>5, Zenon DEF PlainTypes
  <2> QED
    BY <1>1, <1>4, <1>5, <2>1 DEF PlainTypes, NoPart
<1>7. OpenIsLate'
  <2> HIDE DEF cut
  <2>1. \A p \in 1 .. Len(parts) : parts'[p].is # "open"
    BY <1>1, <1>2, <1>4
  <2>2. Opened' = {}
    BY <1>4, <2>1 DEF Opened
  <2> QED
    BY <2>2 DEF OpenIsLate
<1>8. SeenAndShown'
  <2> HIDE DEF cut
  <2>1. \A p \in 1 .. Len(parts) : parts'[p].is # "open"
    BY <1>1, <1>2, <1>4
  <2>2. \A p \in 1 .. Len(parts) :
          /\ parts'[p].size = parts[p].size
          /\ parts'[p].is \in {"open", "cut"} <=> parts[p].is \in {"open", "cut"}
    BY <1>2, <1>4
  <2> QED
    BY <1>4, <1>5, <2>1, <2>2 DEF PlainInv, SeenAndShown
<1>9. LineIsLast'
  BY <1>1, <1>5 DEF LineIsLast
<1> QED
  BY <1>6, <1>7, <1>8, <1>9 DEF PlainInv

LEMMA PlainSteps == PlainInv /\ [PlainNext]_plainVars => PlainInv'
BY ReplayedKeeps, BlockBeginsKeeps, StreamsKeeps, CompletedKeeps, OthersKeep, WorkEndsKeeps
   DEF PlainNext

(* What the model said stands on the screen once, and no part whose deltas *)
(* were printed is forgotten before the frame that completes it, for       *)
(* messages of any length, as long as no more blocks are open at once than *)
(* ids are remembered (handleTextDelta, handleTextComplete, markDeltaSeen).*)
THEOREM PrintedOnce == PlainSpec => []ShownOnce
<1>1. PlainInv => ShownOnce
  BY DEF PlainInv, SeenAndShown, ShownOnce
<1> QED
  BY <1>1, PlainStarts, PlainSteps, PTL DEF PlainSpec

(* Messages of different kinds or parts stand on lines of their own, unless*)
(* a result that prints nothing came between them (needsSeparator).        *)
THEOREM LinesAreApart == PlainSpec => []LinesApart
<1>1. PlainInv => LinesApart
  BY DEF PlainInv, LineIsLast, LinesApart
<1> QED
  BY <1>1, PlainStarts, PlainSteps, PTL DEF PlainSpec

-----------------------------------------------------------------------------
(* AuthFlow.                                                               *)

(* What one server's flow has submitted, and when.                         *)
FlowTypes ==
  /\ manual \in BOOLEAN /\ over \in BOOLEAN
  /\ needs \in [Servers -> {"quiet", "asked", "settled"}]
  /\ flow \in [Servers -> {"none", "starting", "waiting", "leaving"}]
  /\ halted \in [Servers -> BOOLEAN] /\ listening \in [Servers -> BOOLEAN]
  /\ slot \in [Servers -> {<<>>, <<"code">>, <<"error">>}]
  /\ first \in [Servers -> {"none", "code", "error"}]
  /\ submitted \in [Servers -> {<<>>, <<"confirm">>, <<"decline">>}]
  /\ offered \subseteq Servers

(* A flow is begun by the one announcement of its server, and submits as   *)
(* it leaves.                                                              *)
BegunOnce ==
  \A s \in Servers :
    /\ needs[s] = "quiet" => flow[s] = "none"
    /\ needs[s] = "quiet" \/ flow[s] \in {"starting", "waiting"} => submitted[s] = <<>>

(* While a flow waits, its slot holds the first outcome or there is none.  *)
SlotIsFirst ==
  \A s \in Servers :
    /\ listening[s] => flow[s] \in {"waiting", "leaving"}
    /\ flow[s] = "waiting" => slot[s] = IF first[s] = "none" THEN <<>> ELSE <<first[s]>>
    /\ submitted[s] = <<"confirm">> => first[s] = "code"

LeavesAnswered ==
  \A s \in Servers :
    needs[s] # "quiet" /\ flow[s] \in {"leaving", "none"} =>
      submitted[s] # <<>> \/ halted[s] \/ (manual /\ s \in offered)

FlowInv == FlowTypes /\ BegunOnce /\ SlotIsFirst /\ LeavesAnswered

LEMMA FlowStarts == FlowInit => FlowInv
<1> SUFFICES ASSUME FlowInit PROVE FlowInv
  OBVIOUS
<1>1. FlowTypes
  BY DEF FlowInit, FlowTypes
<1>2. BegunOnce /\ LeavesAnswered
  BY DEF FlowInit, BegunOnce, LeavesAnswered
<1>3. SlotIsFirst
  BY DEF FlowInit, SlotIsFirst
<1> QED
  BY <1>1, <1>2, <1>3 DEF FlowInv

LEMMA FlowSteps == FlowInv /\ [FlowNext]_flowVars => FlowInv'
<1> SUFFICES ASSUME FlowInv, [FlowNext]_flowVars PROVE FlowInv'
  OBVIOUS
<1> USE DEF FlowInv, FlowTypes, BegunOnce, SlotIsFirst, LeavesAnswered
<1>1. CASE Abort
  BY <1>1 DEF Abort, Stop, callback
<1>2. ASSUME NEW s \in Servers, AuthRequired(s) PROVE FlowInv'
  <2>1. FlowTypes'
    <3>1. halted' \in [Servers -> BOOLEAN]
      BY <1>2, ZenonT(40) DEF AuthRequired, Start
    <3> QED
      BY <1>2, <3>1 DEF AuthRequired, Start, callback
  <2>2. BegunOnce'
    BY <1>2 DEF AuthRequired, Start, callback
  <2>3. SlotIsFirst'
    BY <1>2 DEF AuthRequired, Start, callback
  <2>4. LeavesAnswered'
    BY <1>2 DEF AuthRequired, Start, callback
  <2> QED
    BY <2>1, <2>2, <2>3, <2>4
<1>3. ASSUME NEW s \in Servers, Connected(s) PROVE FlowInv'
  BY <1>3 DEF Connected, Stop, callback
<1>4. ASSUME NEW s \in Servers, Fails(s) PROVE FlowInv'
  BY <1>4 DEF Fails, callback
<1>0. ASSUME NEW s \in Servers, submitted[s] = <<>>, NEW command \in {"confirm", "decline"},
             Submits(s, command)
      PROVE  /\ submitted' = [submitted EXCEPT ![s] = <<command>>]
             /\ submitted' \in [Servers -> {<<>>, <<"confirm">>, <<"decline">>}]
  <2>1. Append(submitted[s], command) = <<command>>
    BY <1>0
  <2> QED
    BY <1>0, <2>1 DEF Submits
<1>5. ASSUME NEW s \in Servers, Opens(s) PROVE FlowInv'
  <2>1. FlowTypes'
    <3>1. listening' \in [Servers -> BOOLEAN]
      BY <1>5, Zenon DEF Opens, Listen
    <3>2. submitted' \in [Servers -> {<<>>, <<"confirm">>, <<"decline">>}]
      BY <1>5, <1>0 DEF Opens, Unresolved
    <3> QED
      BY <1>5, <3>1, <3>2 DEF Opens, Listen, Unresolved, Goes, sessionSays
  <2>2. BegunOnce'
    BY <1>5 DEF Opens, Listen, Unresolved, Goes, Submits, sessionSays
  <2>3. SlotIsFirst'
    BY <1>5 DEF Opens, Listen, Unresolved, Goes, Submits, sessionSays
  <2>4. LeavesAnswered'
    BY <1>5 DEF Opens, Listen, Unresolved, Goes, Submits, sessionSays
  <2> QED
    BY <2>1, <2>2, <2>3, <2>4
<1>6. ASSUME NEW s \in Servers, Settles(s) PROVE FlowInv'
  <2>1. FlowTypes'
    BY <1>6, <1>0 DEF Settles, Goes, sessionSays
  <2>2. BegunOnce'
    BY <1>6 DEF Settles, Goes, Submits, sessionSays
  <2>3. SlotIsFirst'
    <3>1. PICK command \in {"confirm", "decline"} :
            /\ submitted' = [submitted EXCEPT ![s] = <<command>>]
            /\ command = IF slot[s] = <<"code">> THEN "confirm" ELSE "decline"
      BY <1>6, <1>0 DEF Settles
    <3>2. <<command>> = <<"confirm">> => first[s] = "code"
      BY <1>6, <3>1 DEF Settles
    <3> QED
      BY <1>6, <3>1, <3>2 DEF Settles, Goes, sessionSays
  <2>4. LeavesAnswered'
    BY <1>6 DEF Settles, Goes, Submits, sessionSays
  <2> QED
    BY <2>1, <2>2, <2>3, <2>4
<1>7. ASSUME NEW s \in Servers, Stopped(s) PROVE FlowInv'
  BY <1>7 DEF Stopped, Goes, sessionSays, callback
<1>8. ASSUME NEW s \in Servers, TimesOut(s) PROVE FlowInv'
  <2>1. FlowTypes'
    BY <1>8, <1>0 DEF TimesOut, Unresolved, Goes, sessionSays, callback
  <2>2. BegunOnce'
    BY <1>8 DEF TimesOut, Unresolved, Goes, Submits, sessionSays, callback
  <2>3. SlotIsFirst'
    BY <1>8 DEF TimesOut, Unresolved, Goes, Submits, sessionSays, callback
  <2>4. LeavesAnswered'
    BY <1>8 DEF TimesOut, Unresolved, Goes, Submits, sessionSays, callback
  <2> QED
    BY <2>1, <2>2, <2>3, <2>4
<1>9. ASSUME NEW s \in Servers, Leaves(s) PROVE FlowInv'
  BY <1>9 DEF Leaves, Goes, sessionSays
<1>10. ASSUME NEW s \in Servers, NEW request \in {"stray", "code", "denied"}, Request(s, request)
       PROVE  FlowInv'
  BY <1>10 DEF Request, Concludes, sessionSays
<1>11. CASE UNCHANGED flowVars
  BY <1>11 DEF flowVars, sessionSays, callback
<1> QED
  BY <1>1, <1>2, <1>3, <1>4, <1>5, <1>6, <1>7, <1>8, <1>9, <1>10, <1>11 DEF FlowNext

(* Each server is answered once, by the first genuine outcome of its       *)
(* authorization, and no flow leaves it unanswered unless it was stopped or*)
(* the user was told what to type (Flow.run, StartCallbackServer).         *)
THEOREM ServersAreAnswered == FlowSpec => []EachIsAnswered
<1>1. ASSUME FlowInv PROVE EachIsAnswered
  <2>1. \A s \in Servers : submitted[s] \in {<<>>, <<"confirm">>, <<"decline">>}
    BY <1>1 DEF FlowInv, FlowTypes
  <2>2. Len(<<>>) <= 1 /\ Len(<<"confirm">>) <= 1 /\ Len(<<"decline">>) <= 1
    OBVIOUS
  <2>3. \A s \in Servers : Len(submitted[s]) <= 1
    BY <2>1, <2>2
  <2> QED
    BY <1>1, <2>3 DEF FlowInv, SlotIsFirst, LeavesAnswered, EachIsAnswered
<1> QED
  BY <1>1, FlowStarts, FlowSteps, PTL DEF FlowSpec

(* Together: whatever the three do side by side, what the adapters print,  *)
(* exit with and answer is true.                                           *)
THEOREM AdaptersTellTheTruth == AnswerSpec /\ PlainSpec /\ FlowSpec => []AdaptersAreTrue
<1>1. StdoutIsTheAnswer /\ ExitIsTrue /\ ShownOnce /\ LinesApart /\ EachIsAnswered
        => AdaptersAreTrue
  BY DEF AdaptersAreTrue
<1> QED
  BY <1>1, StdoutHasTheAnswer, ExitSaysIt, PrintedOnce, LinesAreApart, ServersAreAnswered, PTL
=============================================================================
