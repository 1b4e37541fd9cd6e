---------------------------- MODULE SessionProofs ----------------------------
(* What holds of every session, for any set of prompts and any limits.     *)
EXTENDS Readout, FiniteSetTheorems, TLAPS

(* run()'s own state: it has stopped exactly when the session is closed,   *)
(* and an orderly close leaves nothing behind.                             *)
LoopAgrees ==
  /\ state = "closed" <=> runPc = "stopped"
  /\ state = "closed" => ctxDone
  /\ orderly => state = "closed" /\ activeTask = "none" /\ pending = NoPrompt
  /\ runPc = "settle" => activeTask # "none"

(* A cancel claims the queue before run() looks at another message, and    *)
(* only then can words be marked as fresh; swept words do not outlive it.  *)
CancelClaims ==
  /\ taskCanceled /\ runPc # "settle" => drained
  /\ \A p \in Prompts : fate[p] = "fresh" => drained
  /\ \A p \in Prompts : fate[p] = "swept" => runPc = "settle" /\ cancelFate = "drop"

(* The inductive invariant.                                                *)
IInv == /\ TypeOK
        /\ SlotDiscipline
        /\ WaitingIsWatched
        /\ NoDeliveredLost
        /\ OneTask
        /\ LoopAgrees
        /\ CancelClaims

(* The inductive invariant holds at the start.                             *)
LEMMA InitIInv == Init => IInv
<1> SUFFICES ASSUME Init PROVE IInv
  OBVIOUS
<1> USE SessionAssumption DEF Init
<1>1. TypeOK
  BY DEF TypeOK, RunPcs, TaskPcs, TaskKinds, Fates
<1>2. SlotDiscipline
  BY DEF SlotDiscipline
<1>3. WaitingIsWatched
  BY DEF WaitingIsWatched, InQueue
<1>4. NoDeliveredLost /\ OneTask /\ LoopAgrees /\ CancelClaims
  BY DEF NoDeliveredLost, OneTask, LoopAgrees, CancelClaims
<1> QED
  BY <1>1, <1>2, <1>3, <1>4 DEF IInv

(* What each answer of the gate says of the session.                       *)
LEMMA Refusals ==
  ASSUME NEW ready \in BOOLEAN, quitting \in BOOLEAN, NEW task
  PROVE  /\ BeginRefusal(ready, task) = "none" => ~quitting /\ ready /\ task = "none"
         /\ BeginRefusal(ready, task) = "notReady" => ~quitting /\ ~ready
         /\ BeginRefusal(ready, task) = "busy" => ~quitting /\ ready /\ task # "none"
BY DEF BeginRefusal

(* A task begins, on the words of S, with nothing left to wait.            *)
LEMMA BeginIInv ==
  ASSUME IInv,
         NEW kind \in TaskKinds, NEW S \in SUBSET Prompts, NEW f \in {"started", "promoted"},
         steering \subseteq S, pending \in S \cup {NoPrompt}, runPc = "select",
         BeginTask(kind), Settle(S, f), agentReady' = TRUE, steering' = {},
         pending' = NoPrompt, state' = "ready", runPc' = "top",
         UNCHANGED <<inputOpen, inputEnded, quitting, ctxDone, orderly, cancelFate>>
  PROVE  IInv'
<1> USE SessionAssumption DEF BeginTask, sumVars
<1>1. fate' \in [Prompts -> Fates]
  BY DEF IInv, TypeOK, Settle, Fates
<1>2. \A p \in Prompts : fate'[p] \notin InQueue \cup {"held", "lost"}
  BY DEF IInv, TypeOK, WaitingIsWatched, NoDeliveredLost, Settle, InQueue
<1>3. TypeOK'
  <2>1. /\ state' \in {"initializing", "ready", "closed"}
        /\ runPc' \in RunPcs /\ cancelFate' \in {"drop", "keep"}
        /\ activeTask' \in TaskKinds \cup {"none"}
        /\ taskPc' \in TaskPcs /\ resumeAt' \in TaskPcs \ {"none", "start"}
        /\ step' \in Nat /\ sumTry' \in {1, 2}
        /\ sumFor' \in {"command", "start", "boundary"}
        /\ pending' \in Prompts \cup {NoPrompt} /\ steering' \in SUBSET Prompts
    BY DEF IInv, TypeOK, RunPcs, TaskPcs
  <2>2. /\ inputOpen' \in BOOLEAN /\ inputEnded' \in BOOLEAN /\ quitting' \in BOOLEAN
        /\ ctxDone' \in BOOLEAN /\ orderly' \in BOOLEAN
    BY DEF IInv, TypeOK
  <2>3. taskCanceled' \in BOOLEAN /\ drained' \in BOOLEAN /\ agentReady' \in BOOLEAN
    OBVIOUS
  <2> QED
    BY <1>1, <2>1, <2>2, <2>3 DEF TypeOK
<1>4. SlotDiscipline'
  BY DEF SlotDiscipline
<1>5. WaitingIsWatched'
  BY <1>2 DEF WaitingIsWatched
<1>6. NoDeliveredLost' /\ OneTask'
  BY <1>2 DEF NoDeliveredLost, OneTask, TaskKinds
<1>7. LoopAgrees'
  BY DEF IInv, LoopAgrees
<1>8. CancelClaims'
  BY <1>2 DEF CancelClaims, InQueue
<1> QED
  BY <1>3, <1>4, <1>5, <1>6, <1>7, <1>8 DEF IInv

(* A task ends with nothing waiting, what was queued dropped.              *)
LEMMA EndIInv ==
  ASSUME IInv, runPc = "select", taskPc = "result",
         activeTask' = "none", taskPc' = "none", taskCanceled' = FALSE, step' = 0,
         steering' = {}, Settle(steering, "dropQuit"), runPc' = "top",
         UNCHANGED <<lifeVars, cancelFate, pending, agentReady, drained, resumeAt, sumVars>>
  PROVE  IInv'
<1> USE DEF lifeVars, sumVars
<1>1. fate' \in [Prompts -> Fates]
  BY DEF IInv, TypeOK, Settle, Fates, Dropped
<1>2. \A p \in Prompts : /\ fate'[p] \notin InQueue \cup {"lost"}
                         /\ p = pending <=> fate'[p] = "held"
  BY DEF IInv, TypeOK, WaitingIsWatched, NoDeliveredLost, Settle, InQueue
<1>3. TypeOK'
  <2>1. /\ state' \in {"initializing", "ready", "closed"}
        /\ runPc' \in RunPcs /\ cancelFate' \in {"drop", "keep"}
        /\ activeTask' \in TaskKinds \cup {"none"}
        /\ taskPc' \in TaskPcs /\ resumeAt' \in TaskPcs \ {"none", "start"}
        /\ step' \in Nat /\ sumTry' \in {1, 2}
        /\ sumFor' \in {"command", "start", "boundary"}
        /\ pending' \in Prompts \cup {NoPrompt} /\ steering' \in SUBSET Prompts
    BY DEF IInv, TypeOK, RunPcs, TaskPcs
  <2>2. /\ inputOpen' \in BOOLEAN /\ inputEnded' \in BOOLEAN /\ quitting' \in BOOLEAN
        /\ ctxDone' \in BOOLEAN /\ orderly' \in BOOLEAN
    BY DEF IInv, TypeOK
  <2>3. taskCanceled' \in BOOLEAN /\ drained' \in BOOLEAN /\ agentReady' \in BOOLEAN
    BY DEF IInv, TypeOK
  <2> QED
    BY <1>1, <2>1, <2>2, <2>3 DEF TypeOK
<1>4. SlotDiscipline' /\ LoopAgrees'
  BY DEF IInv, SlotDiscipline, LoopAgrees
<1>5. WaitingIsWatched'
  BY <1>2 DEF WaitingIsWatched
<1>6. NoDeliveredLost' /\ OneTask'
  BY <1>2 DEF NoDeliveredLost, OneTask
<1>7. CancelClaims'
  BY <1>2 DEF CancelClaims, InQueue
<1> QED
  BY <1>3, <1>4, <1>5, <1>6, <1>7 DEF IInv

(* Every step preserves it.                                                *)
LEMMA NextIInv == IInv /\ [Next]_vars => IInv'
<1> SUFFICES ASSUME IInv, [Next]_vars PROVE IInv'
  OBVIOUS
<1> USE SessionAssumption
<1> USE DEF IInv, TypeOK, SlotDiscipline, WaitingIsWatched, NoDeliveredLost, OneTask,
            LoopAgrees, CancelClaims, RunPcs, TaskPcs, TaskKinds, Fates, InQueue,
            Dropped, lifeVars, taskVars, sumVars, queueVars
<1>1. CASE EnterSelect
  BY <1>1 DEF EnterSelect
<1>2. CASE SelectDone
  BY <1>2 DEF SelectDone
<1>3. CASE Exit
  BY <1>3 DEF Exit, ExitDue
<1>4. CASE CancelSteering
  BY <1>4 DEF CancelSteering, CancelKeeps, Settle
<1>5. CASE TellQueued
  BY <1>5 DEF TellQueued
<1>6. CASE TellCanceled
  BY <1>6 DEF TellCanceled
<1>7. ASSUME NEW p \in Prompts, SubmitPrompt(p)
      PROVE  IInv'
  <2> DEFINE refusal == BeginRefusal(state = "ready", activeTask)
  <2> USE DEF Handles, NoTask, Settle
  <2>0. /\ (state = "ready") \in BOOLEAN
        /\ runPc = "select" /\ fate[p] = "unsent" /\ p # pending /\ p \notin steering
        /\ UNCHANGED <<lifeVars, cancelFate>>
    BY <1>7 DEF SubmitPrompt
  <2>1. ASSUME NEW ok \in BOOLEAN,
               refusal = "none", EnsureAgent(ok),
               IF ok THEN BeginTask("prompt") ELSE NoTask,
               Settle({p}, IF ok THEN "started" ELSE "refused"),
               runPc' = "top", UNCHANGED <<pending, steering>>
        PROVE  IInv'
    <3>1. /\ ~quitting /\ state = "ready" /\ activeTask = "none"
          /\ pending = NoPrompt /\ steering = {}
      BY <2>0, <2>1, Refusals
    <3>2. CASE ok
      <4>1. agentReady' = TRUE /\ BeginTask("prompt") /\ Settle({p}, "started")
        BY <2>1, <3>2 DEF EnsureAgent
      <4>2. /\ steering' = {} /\ pending' = NoPrompt /\ state' = "ready"
            /\ UNCHANGED <<inputOpen, inputEnded, quitting, ctxDone, orderly, cancelFate>>
        BY <2>0, <2>1, <3>1
      <4>3. "prompt" \in TaskKinds /\ {p} \in SUBSET Prompts
        OBVIOUS
      <4> HIDE DEF IInv, Settle, TaskKinds
      <4> QED
        BY <2>0, <2>1, <3>1, <4>1, <4>2, <4>3, BeginIInv
    <3>3. CASE ~ok
      BY <2>0, <2>1, <3>1, <3>3 DEF EnsureAgent
    <3> QED
      BY <3>2, <3>3
  <2>2. ASSUME refusal = "notReady", pending = NoPrompt, pending' = p,
               Settle({p}, "held"), runPc' = "top",
               NoTask, UNCHANGED <<steering, agentReady>>
        PROVE  IInv'
    <3>1. ~quitting /\ state # "ready"
      BY <2>0, <2>2, Refusals
    <3> QED
      BY <2>0, <2>2, <3>1
  <2>3. ASSUME refusal = "busy", steering' = steering \cup {p},
               Settle({p}, IF taskCanceled THEN "fresh" ELSE "queued"),
               runPc' = "tellQueued",
               NoTask, UNCHANGED <<pending, agentReady>>
        PROVE  IInv'
    <3>1. ~quitting /\ state = "ready" /\ activeTask # "none"
      BY <2>0, <2>3, Refusals
    <3> QED
      BY <2>0, <2>3, <3>1
  <2>4. ASSUME Settle({p}, "refused"), runPc' = "top",
               NoTask, UNCHANGED <<pending, steering, agentReady>>
        PROVE  IInv'
    BY <2>0, <2>4
  <2> QED
    BY <1>7, <2>1, <2>2, <2>3, <2>4 DEF SubmitPrompt
<1>8. ASSUME NEW kind \in {"continue", "summarize"}, TaskCommand(kind)
      PROVE  IInv'
  <2>1. ~quitting /\ state = "ready" /\ activeTask = "none"
    BY <1>8, Refusals DEF TaskCommand
  <2>2. PICK ok \in BOOLEAN :
          /\ EnsureAgent(ok)
          /\ IF ok THEN BeginTask(kind) ELSE NoTask
    BY <1>8 DEF TaskCommand
  <2>3. CASE ok
    <3>1. agentReady' = TRUE /\ BeginTask(kind) /\ Settle({}, "started")
      BY <1>8, <2>2, <2>3 DEF TaskCommand, EnsureAgent, Settle
    <3> QED
      BY <1>8, <2>1, <3>1, BeginIInv DEF TaskCommand, Handles
  <2>4. CASE ~ok
    BY <1>8, <2>1, <2>2, <2>4 DEF TaskCommand, Handles, EnsureAgent, NoTask
  <2> QED
    BY <2>3, <2>4
<1>9. CASE ModelSet
  BY <1>9 DEF ModelSet, Handles
<1>10. CASE Quit
  BY <1>10 DEF Quit, Handles, Settle
<1>11. ASSUME NEW eof \in BOOLEAN, InputEnd(eof)
      PROVE  IInv'
  BY <1>11 DEF InputEnd, Handles
<1>12. ASSUME NEW what \in {"drop", "keep"}, CancelTask(what)
       PROVE  IInv'
  <2> USE DEF Settle
  <2>1. CASE pending # NoPrompt
    BY <1>12, <2>1 DEF CancelTask
  <2>2. CASE pending = NoPrompt
    BY <1>12, <2>2 DEF CancelTask
  <2> QED
    BY <2>1, <2>2
<1>13. ASSUME NEW done \in BOOLEAN, MCPSettles(done)
       PROVE  IInv'
  <2>1. CASE pending = NoPrompt
    <3>1. agentReady' \in BOOLEAN
      BY <1>13, <2>1 DEF MCPSettles
    <3>2. TypeOK'
      BY <1>13, <2>1, <3>1 DEF MCPSettles, NoTask
    <3> QED
      BY <1>13, <2>1, <3>2 DEF MCPSettles, NoTask
  <2>2. CASE pending # NoPrompt
    <3>1. ~quitting /\ activeTask = "none" /\ steering = {}
      BY <1>13, <2>2 DEF MCPSettles
    <3>2. PICK ok \in BOOLEAN :
            /\ agentReady' = ok
            /\ IF ok THEN BeginTask("prompt") ELSE NoTask
            /\ Settle({pending}, IF ok THEN "started" ELSE "refused")
      BY <1>13, <2>2, <3>1 DEF MCPSettles, BeginRefusal
    <3>3. CASE ok
      <4>1. agentReady' = TRUE /\ BeginTask("prompt") /\ Settle({pending}, "started")
        BY <3>2, <3>3
      <4> QED
        BY <1>13, <2>2, <3>1, <4>1, BeginIInv DEF MCPSettles
    <3>4. CASE ~ok
      BY <1>13, <2>2, <3>1, <3>2, <3>4 DEF MCPSettles, NoTask, Settle
    <3> QED
      BY <3>3, <3>4
  <2> QED
    BY <2>1, <2>2
<1>14. CASE HandleTaskDone
  <2>1. CASE steering = {}
    <3>1. Settle(steering, "dropQuit")
      BY <1>14, <2>1 DEF HandleTaskDone, Leftover, Settle
    <3> QED
      BY <1>14, <2>1, <3>1, EndIInv DEF HandleTaskDone, Leftover
  <2>2. CASE steering # {} /\ quitting
    BY <1>14, <2>2, EndIInv DEF HandleTaskDone, Leftover
  <2>3. CASE steering # {} /\ ~quitting
    <3>1. agentReady /\ state = "ready" /\ pending = NoPrompt
      BY <1>14, <2>3 DEF HandleTaskDone, Leftover
    <3>2. /\ steering' = {}
          /\ EnsureAgent(TRUE) /\ BeginTask("prompt")
          /\ Settle(steering, "promoted")
          /\ runPc' = "top" /\ UNCHANGED <<lifeVars, cancelFate, pending>>
      BY <1>14, <2>3, <3>1 DEF HandleTaskDone, Leftover, EnsureAgent, BeginRefusal
    <3> QED
      BY <1>14, <3>1, <3>2, BeginIInv DEF HandleTaskDone, Leftover, EnsureAgent
  <2> QED
    BY <2>1, <2>2, <2>3
<1>15. CASE OutputBreaks
  BY <1>15 DEF OutputBreaks
<1>16. CASE SummarizeCall
  BY <1>16 DEF SummarizeCall, RetriesLeft, TaskOnly, TaskGoes, runVars, AfterSummary
<1>17. CASE Stream
  BY <1>17 DEF Stream, TaskOnly, TaskGoes, runVars
<1>18. CASE TaskStart
  BY <1>18 DEF TaskStart, TaskOnly, TaskGoes, runVars
<1>19. CASE Boundary
  BY <1>19 DEF Boundary, TaskOnly, TaskGoes, runVars
<1>20. CASE Splice
  BY <1>20 DEF Splice, TaskOnly, TaskGoes, runVars, Settle
<1>21. CASE Send
  BY <1>21 DEF Send, TaskOnly, TaskGoes, runVars
<1>22. CASE Unwind
  BY <1>22 DEF Unwind, TaskOnly, TaskGoes, runVars, Discard, DiscardDue, Settle
<1>23. CASE Abandon
  BY <1>23 DEF Abandon, TaskOnly, TaskGoes, runVars, Discard, DiscardDue, Settle
<1>24. CASE SummarizeUnwind
  BY <1>24 DEF SummarizeUnwind, TaskOnly, TaskGoes, runVars, Discard, DiscardDue, Settle
<1>25. CASE SummaryError
  BY <1>25 DEF SummaryError, TaskOnly, TaskGoes, runVars
<1>26. CASE TellDelivered
  BY <1>26 DEF TellDelivered, TaskOnly, TaskGoes, runVars
<1>27. CASE TellDropped
  BY <1>27 DEF TellDropped, TaskOnly, TaskGoes, runVars
<1>28. CASE UNCHANGED vars
  BY <1>28 DEF vars, runVars
<1> QED
  BY <1>1, <1>2, <1>3, <1>4, <1>5, <1>6, <1>7, <1>8, <1>9, <1>10, <1>11, <1>12, <1>13, <1>14, <1>15, <1>16, <1>17, <1>18, <1>19, <1>20, <1>21, <1>22, <1>23, <1>24, <1>25, <1>26, <1>27, <1>28
     DEF Next, RunInternal, RunLoop, RunInput, MCPEvent, ProviderStep, TaskInternal,
         TaskWork, Finished

(* The inductive invariant holds of every behaviour.                       *)
THEOREM Invariance == Spec => []IInv
  BY InitIInv, NextIInv, PTL DEF Spec

(* Every variable of the session keeps to its type.                        *)
THEOREM TypeCorrect == Spec => []TypeOK
<1>1. IInv => TypeOK
  BY DEF IInv
<1> QED
  BY <1>1, Invariance, PTL

(* The holding slot and the running task never coexist, and a quitting     *)
(* session holds nothing.                                                  *)
THEOREM SlotIsDisciplined == Spec => []SlotDiscipline
<1>1. IInv => SlotDiscipline
  BY DEF IInv
<1> QED
  BY <1>1, Invariance, PTL

(* Words wait only where somebody will come for them.                      *)
THEOREM WordsAreWatched == Spec => []WaitingIsWatched
<1>1. IInv => WaitingIsWatched
  BY DEF IInv
<1> QED
  BY <1>1, Invariance, PTL

(* Words reported delivered are taken by a task.                           *)
THEOREM NothingDeliveredIsLost == Spec => []NoDeliveredLost
<1>1. IInv => NoDeliveredLost
  BY DEF IInv
<1> QED
  BY <1>1, Invariance, PTL

(* run() and the task goroutine agree on whether there is a task.          *)
THEOREM TasksAgree == Spec => []OneTask
<1>1. IInv => OneTask
  BY DEF IInv
<1> QED
  BY <1>1, Invariance, PTL

(* A session that closes with its output alive has settled every word.     *)
THEOREM ClosesInOrder == Spec => []OrderlyClose
<1>1. IInv => OrderlyClose
  BY SessionAssumption
  DEF IInv, OrderlyClose, LoopAgrees, OneTask, WaitingIsWatched, TypeOK
<1> QED
  BY <1>1, Invariance, PTL

(* The places that hold words, together.                                   *)
THEOREM WordsKeepTheirPlace == Spec => []WordsInPlace
BY SlotIsDisciplined, WordsAreWatched, TasksAgree, NothingDeliveredIsLost, ClosesInOrder, PTL
DEF WordsInPlace

-----------------------------------------------------------------------------
(* What a step can do to the fates: it settles one set of prompts one way; *)
(* only an unclaimed queue is dropped as failed, and only run(), taking a  *)
(* result, promotes.  What was heard of in the queue stays so.             *)
FateStep ==
  \/ UNCHANGED fate
  \/ \E S \in SUBSET Prompts, f \in Fates :
       /\ Settle(S, f)
       /\ f = "dropFailed" => S = steering /\ ~drained
       /\ f = "promoted" => runPc = "select"
       /\ f \in Unheard => \A p \in S : fate[p] \in Unheard

LEMMA NextFate == IInv /\ [Next]_vars => FateStep
<1> SUFFICES ASSUME IInv, [Next]_vars PROVE FateStep
  OBVIOUS
<1> USE SessionAssumption DEF FateStep, Fates, InQueue, Dropped, Unheard
<1>1. ASSUME NEW p \in Prompts, SubmitPrompt(p)
      PROVE  FateStep
  BY <1>1 DEF SubmitPrompt
<1>2. CASE Quit
  BY <1>2 DEF Quit
<1>3. ASSUME NEW what \in {"drop", "keep"}, CancelTask(what)
      PROVE  FateStep
  BY <1>3 DEF CancelTask, IInv, TypeOK
<1>4. CASE CancelSteering
  BY <1>4 DEF CancelSteering, CancelKeeps, IInv, TypeOK
<1>5. ASSUME NEW done \in BOOLEAN, MCPSettles(done)
      PROVE  FateStep
  <2>1. CASE pending = NoPrompt
    BY <1>5, <2>1 DEF MCPSettles
  <2>2. CASE pending # NoPrompt
    <3>1. pending \in Prompts /\ fate[pending] = "held"
      BY <2>2 DEF IInv, TypeOK, WaitingIsWatched
    <3>2. \E f \in {"started", "refused"} : Settle({pending}, f)
      BY <1>5, <2>2 DEF MCPSettles
    <3> QED BY <3>1, <3>2
  <2> QED BY <2>1, <2>2
<1>6. CASE HandleTaskDone
  BY <1>6 DEF HandleTaskDone, Leftover, IInv, TypeOK
<1>7. CASE Splice
  BY <1>7 DEF Splice, TaskGoes, IInv, TypeOK
<1>8. CASE Unwind \/ Abandon \/ SummarizeUnwind
  BY <1>8 DEF Unwind, Abandon, SummarizeUnwind, TaskGoes, Discard, DiscardDue, IInv, TypeOK
<1>9. CASE EnterSelect \/ SelectDone \/ Exit \/ TellQueued \/ TellCanceled \/ OutputBreaks
  BY <1>9 DEF EnterSelect, SelectDone, Exit, TellQueued, TellCanceled, OutputBreaks
<1>10. ASSUME NEW kind \in {"continue", "summarize"}, TaskCommand(kind)
       PROVE  FateStep
  BY <1>10 DEF TaskCommand
<1>11. CASE ModelSet \/ \E eof \in BOOLEAN : InputEnd(eof)
  BY <1>11 DEF ModelSet, InputEnd
<1>12. CASE SummarizeCall \/ Stream \/ TaskStart \/ Boundary \/ Send \/ SummaryError
            \/ TellDelivered \/ TellDropped
  BY <1>12
  DEF SummarizeCall, Stream, TaskStart, Boundary, Send, SummaryError, TellDelivered,
      TellDropped, TaskGoes
<1>13. CASE UNCHANGED vars
  BY <1>13 DEF vars
<1> QED
  BY <1>1, <1>2, <1>3, <1>4, <1>5, <1>6, <1>7, <1>8, <1>9, <1>10, <1>11, <1>12, <1>13
  DEF Next, RunInternal, RunLoop, RunInput, MCPEvent, ProviderStep, TaskInternal,
      TaskWork, Finished

(* A plain cancel means stop: what it found queued never starts a task.    *)
THEOREM CancelStops == Spec => StopMeansStop
<1>1. IInv /\ [Next]_vars =>
        [\A p \in Prompts : fate[p] = "swept" => fate'[p] # "promoted"]_vars
  <2> SUFFICES ASSUME IInv, [Next]_vars, NEW p \in Prompts, fate[p] = "swept"
               PROVE  fate'[p] # "promoted"
    OBVIOUS
  <2>1. runPc = "settle"
    BY DEF IInv, CancelClaims
  <2> QED
    BY <2>1, NextFate DEF FateStep, Settle
<1> QED
  BY <1>1, Invariance, PTL DEF Spec, StopMeansStop

(* The unwinding of a canceled task leaves the words typed after the       *)
(* cancel alone.                                                           *)
THEOREM FreshWordsSurvive == Spec => FreshSurvives
<1>1. IInv /\ [Next]_vars =>
        [\A p \in Prompts : fate[p] = "fresh" => fate'[p] # "dropFailed"]_vars
  <2> SUFFICES ASSUME IInv, [Next]_vars, NEW p \in Prompts, fate[p] = "fresh"
               PROVE  fate'[p] # "dropFailed"
    OBVIOUS
  <2>1. drained
    BY DEF IInv, CancelClaims
  <2> QED
    BY <2>1, NextFate DEF FateStep, Settle
<1> QED
  BY <1>1, Invariance, PTL DEF Spec, FreshSurvives

(* :quit is final.                                                         *)
THEOREM QuitEndsStarts == Spec => QuitIsFinal
<1>1. IInv /\ [Next]_vars =>
        [quitting => ~(taskPc # "start" /\ taskPc' = "start")]_vars
  <2> SUFFICES ASSUME IInv, [Next]_vars, quitting, taskPc # "start", taskPc' = "start"
               PROVE  FALSE
    OBVIOUS
  <2>1. CASE \E p \in Prompts : SubmitPrompt(p)
    BY <2>1 DEF SubmitPrompt, BeginRefusal, NoTask, taskVars
  <2>2. CASE \E kind \in {"continue", "summarize"} : TaskCommand(kind)
    BY <2>2 DEF TaskCommand, BeginRefusal
  <2>3. CASE MCPEvent
    BY <2>3 DEF MCPEvent, MCPSettles, NoTask, taskVars, IInv, SlotDiscipline
  <2>4. CASE HandleTaskDone
    BY <2>4 DEF HandleTaskDone, Leftover
  <2>5. CASE \/ EnterSelect \/ SelectDone \/ Exit \/ CancelSteering \/ TellQueued
             \/ TellCanceled \/ ModelSet \/ Quit \/ OutputBreaks \/ UNCHANGED vars
             \/ \E eof \in BOOLEAN : InputEnd(eof)
             \/ \E what \in {"drop", "keep"} : CancelTask(what)
    BY <2>5 DEF EnterSelect, SelectDone, Exit, CancelSteering, CancelKeeps, TellQueued, TellCanceled,
                ModelSet, Quit, OutputBreaks, InputEnd, CancelTask, taskVars, vars
  <2>6. CASE SummarizeCall
    BY <2>6 DEF SummarizeCall, AfterSummary, IInv, TypeOK
  <2>7. CASE \/ Stream \/ TaskStart \/ Boundary \/ Splice \/ Send \/ Unwind \/ Abandon
             \/ SummarizeUnwind \/ SummaryError \/ TellDelivered \/ TellDropped
    BY <2>7 DEF Stream, TaskStart, Boundary, Splice, Send, Unwind, Abandon,
                SummarizeUnwind, SummaryError, TellDelivered, TellDropped, TaskGoes,
                Discard, DiscardDue, IInv, TypeOK
  <2> QED
    BY <2>1, <2>2, <2>3, <2>4, <2>5, <2>6, <2>7
    DEF Next, RunInternal, RunLoop, RunInput, MCPEvent, ProviderStep, TaskInternal,
        TaskWork, Finished
<1> QED
  BY <1>1, Invariance, PTL DEF Spec, QuitIsFinal

(* No word starts after a stop.                                            *)
THEOREM StopsHold == Spec => StopsAreKept
BY QuitEndsStarts, CancelStops, FreshWordsSurvive DEF StopsAreKept

(* Words settled together share their fate.                                *)
LEMMA SettledTogether ==
  ASSUME steering \in SUBSET Prompts, NEW f, Settle(steering, f)
  PROVE  \A p, q \in steering : fate'[p] = fate'[q]
BY DEF Settle

(* The words of one queue leave it together, to one end: what a boundary   *)
(* takes, a cancel or an unwinding drops, or the next task starts with is  *)
(* the whole queue, whatever run() and the task do in between.             *)
THEOREM QueueEndsTogether == Spec => QueueSharesFate
<1> DEFINE Shared == /\ steering' = {}
                     /\ \A p, q \in steering : fate'[p] = fate'[q]
<1>1. IInv /\ [Next]_vars => [steering' \subseteq steering /\ steering' # steering => Shared]_vars
  <2> SUFFICES ASSUME IInv, [Next]_vars, steering' \subseteq steering, steering' # steering
               PROVE  Shared
    OBVIOUS
  <2>1. steering \in SUBSET Prompts
    BY DEF IInv, TypeOK
  <2>2. ASSUME NEW p \in Prompts, SubmitPrompt(p)
        PROVE  FALSE                          \* a submission only adds
    BY <2>2 DEF SubmitPrompt
  <2>3. CASE CancelSteering
    BY <2>1, <2>3, SettledTogether DEF CancelSteering
  <2>4. CASE HandleTaskDone
    BY <2>1, <2>4, SettledTogether DEF HandleTaskDone
  <2>5. CASE Splice
    BY <2>1, <2>5, SettledTogether DEF Splice, TaskGoes
  <2>6. CASE Unwind \/ Abandon \/ SummarizeUnwind
    BY <2>1, <2>6, SettledTogether DEF Unwind, Abandon, SummarizeUnwind, Discard, TaskGoes
  <2>7. CASE \/ EnterSelect \/ SelectDone \/ Exit \/ TellQueued \/ TellCanceled \/ ModelSet
             \/ Quit \/ OutputBreaks \/ MCPEvent \/ UNCHANGED vars
             \/ \E kind \in {"continue", "summarize"} : TaskCommand(kind)
             \/ \E eof \in BOOLEAN : InputEnd(eof)
             \/ \E what \in {"drop", "keep"} : CancelTask(what)
    BY <2>7 DEF EnterSelect, SelectDone, Exit, TellQueued, TellCanceled, ModelSet, Quit,
                OutputBreaks, MCPEvent, MCPSettles, TaskCommand, InputEnd, CancelTask,
                queueVars, vars
  <2>8. CASE \/ SummarizeCall \/ Stream \/ TaskStart \/ Boundary \/ Send \/ SummaryError
             \/ TellDelivered \/ TellDropped
    BY <2>8 DEF SummarizeCall, Stream, TaskStart, Boundary, Send, SummaryError, TellDelivered,
                TellDropped, TaskGoes
  <2> QED
    BY <2>2, <2>3, <2>4, <2>5, <2>6, <2>7, <2>8
    DEF Next, RunInternal, RunLoop, RunInput, MCPEvent, ProviderStep, TaskInternal,
        TaskWork, Finished
<1> QED
  BY <1>1, Invariance, PTL DEF Spec, QueueSharesFate

-----------------------------------------------------------------------------
(* The readout of one word.                                                *)

Tells == {"tellDelivered", "tellDropped"}

(* A "delivered" or "dropped" is yet to be written, and by whom.           *)
Owed == taskPc \in Tells \/ runPc = "tellDropped"

Views == [pending : Nat, ahead : BOOLEAN]

(* Of one word, the readout knows the frames that were written: its        *)
(* "queued", unless run() is about to write it, and its end, unless that is*)
(* owed.  One goroutine owes it, and the queue is empty by then.           *)
ViewTells ==
  /\ resumeAt \notin Tells /\ view \in Views
  /\ (\A p, q \in Heard : p = q) =>
       /\ Owed => steering = {} /\ Heard # {} /\ ~(taskPc \in Tells /\ runPc = "tellDropped")
       /\ runPc = "tellQueued" => Heard # {}
       /\ view.pending = IF runPc # "tellQueued" /\ (steering # {} \/ Owed) THEN 1 ELSE 0
       /\ view.ahead <=> runPc = "tellQueued" /\ steering = {} /\ ~Owed

(* What a frame makes of the readout.                                      *)
LEMMA Ends ==
  ASSUME NEW v \in Views, NEW phase, phase # "queued"
  PROVE  LET w == UpdateSteering(v, phase)
         IN  w \in Views /\ w.pending = 0 /\ (w.ahead <=> v.ahead \/ v.pending = 0)
BY DEF UpdateSteering, Views

LEMMA Queues ==
  ASSUME NEW v \in Views
  PROVE  LET w == UpdateSteering(v, "queued")
         IN  /\ w \in Views /\ ~w.ahead
             /\ w.pending = IF v.ahead THEN v.pending ELSE v.pending + 1
<1>1. CASE v.ahead
  <2>1. UpdateSteering(v, "queued") = [v EXCEPT !.ahead = FALSE]
    BY <1>1 DEF UpdateSteering
  <2>2. [v EXCEPT !.ahead = FALSE] \in Views /\ [v EXCEPT !.ahead = FALSE].ahead = FALSE
    BY DEF Views
  <2>3. [v EXCEPT !.ahead = FALSE].pending = v.pending
    BY DEF Views
  <2> QED BY <1>1, <2>1, <2>2, <2>3
<1>2. CASE ~v.ahead
  <2>1. UpdateSteering(v, "queued") = [v EXCEPT !.pending = @ + 1]
    BY <1>2 DEF UpdateSteering
  <2>2. [v EXCEPT !.pending = @ + 1] \in Views /\ [v EXCEPT !.pending = @ + 1].pending = v.pending + 1
    BY DEF Views
  <2>3. [v EXCEPT !.pending = @ + 1].ahead = v.ahead
    BY DEF Views
  <2> QED BY <1>2, <2>1, <2>2, <2>3
<1> QED BY <1>1, <1>2

LEMMA IsAStep == RNext => Next
BY DEF RNext, Next, RunInternal, TaskInternal

LEMMA InitView == RInit => Init /\ ViewTells
<1> SUFFICES ASSUME RInit PROVE Init /\ ViewTells
  OBVIOUS
<1>1. Init /\ view = LiveEdgeInit
  BY DEF RInit
<1>2. runPc = "top" /\ taskPc = "none" /\ resumeAt = "result" /\ steering = {}
  BY <1>1 DEF Init
<1> QED BY <1>1, <1>2 DEF ViewTells, Owed, Tells, LiveEdgeInit, Views

LEMMA NextView == IInv /\ IInv' /\ ViewTells /\ [RNext]_<<vars, view>> => ViewTells'
<1> SUFFICES ASSUME IInv, IInv', ViewTells, [RNext]_<<vars, view>> PROVE ViewTells'
  OBVIOUS
<1>1. Heard \subseteq Heard'
  <2>1. FateStep
    BY IsAStep, NextFate DEF vars
  <2> QED BY <2>1 DEF FateStep, Settle, Heard, Unheard, IInv, TypeOK
<1>2. steering \subseteq Heard
  BY DEF IInv, TypeOK, WaitingIsWatched, InQueue, Heard, Unheard
(* Nothing is said, taken or owed.                                         *)
<1>3. ASSUME UNCHANGED <<steering, view>>, resumeAt' \notin Tells,
             runPc' = "tellQueued" <=> runPc = "tellQueued",
             runPc' = "tellDropped" <=> runPc = "tellDropped",
             taskPc' \in Tells <=> taskPc \in Tells
      PROVE  ViewTells'
  BY <1>1, <1>2, <1>3 DEF ViewTells, Owed
(* A batch is taken, and its frame owed.                                   *)
<1>4. ASSUME steering # {}, steering' = {}, UNCHANGED view, resumeAt' \notin Tells,
             \/ taskPc' \in Tells /\ UNCHANGED runPc
             \/ UNCHANGED taskPc /\ runPc = "settle" /\ runPc' = "tellDropped"
      PROVE  ViewTells'
  <2>1. Heard' # {}
    BY <1>1, <1>2, <1>4
  <2> QED BY <1>1, <1>4, <2>1 DEF ViewTells, Owed
(* The frame that was owed.                                                *)
<1>5. ASSUME UNCHANGED steering, resumeAt' \notin Tells, \E phase \in {"delivered", "dropped"} : Frame(phase),
             \/ taskPc \in Tells /\ taskPc' \notin Tells /\ UNCHANGED runPc
             \/ UNCHANGED taskPc /\ runPc = "tellDropped" /\ runPc' = "top"
      PROVE  ViewTells'
  <2>1. CASE runPc = "tellQueued"
    BY <1>1, <1>5, <2>1, Ends DEF ViewTells, Owed, Frame
  <2>2. CASE runPc # "tellQueued"
    BY <1>1, <1>5, <2>2, Ends DEF ViewTells, Owed, Frame
  <2> QED BY <2>1, <2>2
<1>6. CASE TellQueued /\ Frame("queued")
  <2>1. /\ runPc = "tellQueued" /\ runPc' = "top"
        /\ UNCHANGED <<steering, taskPc, resumeAt, fate>>
    BY <1>6 DEF TellQueued, queueVars, taskVars
  <2> QED BY <1>1, <1>6, <2>1, Queues DEF ViewTells, Owed, Frame
<1>7. CASE TellDelivered /\ Frame("delivered")
  <2>1. /\ taskPc = "tellDelivered" /\ taskPc' = "send"
        /\ UNCHANGED <<runPc, steering, resumeAt>>
    BY <1>7 DEF TellDelivered, TaskOnly, runVars
  <2> QED BY <1>5, <1>7, <2>1 DEF ViewTells, Tells
<1>8. CASE TellCanceled /\ Frame("dropped")
  <2>1. /\ runPc = "tellDropped" /\ runPc' = "top"
        /\ UNCHANGED <<steering, taskPc, resumeAt>>
    BY <1>8 DEF TellCanceled, queueVars, taskVars
  <2> QED BY <1>5, <1>8, <2>1 DEF ViewTells
<1>9. CASE TellDropped /\ Frame("dropped")
  <2>1. /\ taskPc = "tellDropped" /\ taskPc' = resumeAt /\ resumeAt' = "result"
        /\ UNCHANGED <<runPc, steering>>
    BY <1>9 DEF TellDropped, TaskOnly, runVars
  <2> QED BY <1>5, <1>9, <2>1 DEF ViewTells, Tells
(* Left-over words are delivered or dropped as the task's result is taken. *)
<1>10. CASE HandleTaskDone /\ LeftoverFrame
  <2>1. /\ runPc = "select" /\ taskPc = "result" /\ runPc' = "top" /\ steering' = {}
        /\ taskPc' \in {"none", "start"} /\ resumeAt' \in {resumeAt, "result"}
    BY <1>10 DEF HandleTaskDone, Leftover, BeginTask
  <2>2. CASE steering = {}
    BY <1>3, <1>10, <2>1, <2>2 DEF LeftoverFrame, ViewTells, Tells
  <2>3. CASE steering # {}
    <3>1. \E phase \in {"delivered", "dropped"} : Frame(phase)
      BY <1>10, <2>3 DEF LeftoverFrame
    <3> QED BY <1>1, <2>1, <2>3, <3>1, Ends DEF ViewTells, Owed, Tells, Frame
  <2> QED BY <2>2, <2>3
<1>11. ASSUME NEW p \in Prompts, SubmitPrompt(p), UNCHANGED view PROVE ViewTells'
  <2>1. /\ runPc = "select" /\ fate[p] = "unsent"
        /\ taskPc' \in {taskPc, "start"} /\ resumeAt' \in {resumeAt, "result"}
    BY <1>11 DEF SubmitPrompt, Handles, BeginTask, NoTask, taskVars
  <2>2. CASE steering' = steering /\ runPc' = "top"
    <3>1. taskPc' # taskPc => taskPc = "none" /\ taskPc' = "start"
      BY <1>11, <2>2, <2>1, Refusals DEF SubmitPrompt, BeginTask, NoTask, taskVars, IInv, TypeOK, OneTask
    <3> QED BY <1>3, <1>11, <2>1, <2>2, <3>1 DEF ViewTells, Tells
  <2>3. CASE steering' = steering \cup {p} /\ runPc' = "tellQueued" /\ UNCHANGED taskPc
    <3>1. p \in Heard' /\ p \notin Heard
      BY <2>1, <2>3 DEF IInv, TypeOK, WaitingIsWatched, InQueue, Heard, Unheard
    <3>2. (\A q, r \in Heard' : q = r) => Heard = {}
      BY <1>1, <3>1
    <3> QED BY <1>1, <1>2, <1>11, <2>1, <2>3, <3>1, <3>2 DEF ViewTells, Owed, Tells
  <2> QED BY <1>11, <2>2, <2>3 DEF SubmitPrompt, NoTask, taskVars
<1>12. ASSUME NEW kind \in {"continue", "summarize"}, TaskCommand(kind), UNCHANGED view
       PROVE  ViewTells'
  <2>1. /\ runPc = "select" /\ runPc' = "top" /\ UNCHANGED steering
        /\ taskPc' \in {taskPc, "start"} /\ UNCHANGED resumeAt
    BY <1>12 DEF TaskCommand, Handles, BeginTask, NoTask, taskVars
  <2>2. taskPc = "none"
    BY <1>12, Refusals DEF TaskCommand, IInv, TypeOK, OneTask
  <2> QED BY <1>3, <1>12, <2>1, <2>2 DEF ViewTells, Tells
<1>13. ASSUME NEW done \in BOOLEAN, MCPSettles(done), UNCHANGED view PROVE ViewTells'
  <2>1. /\ runPc = "select" /\ runPc' = "top" /\ UNCHANGED steering
        /\ taskPc' \in {taskPc, "start"} /\ UNCHANGED resumeAt
    BY <1>13 DEF MCPSettles, BeginTask, NoTask, taskVars
  <2>2. taskPc = "none"
    BY <1>13 DEF MCPSettles, IInv, TypeOK, OneTask
  <2> QED BY <1>3, <1>13, <2>1, <2>2 DEF ViewTells, Tells
<1>14. CASE CancelSteering /\ UNCHANGED view
  <2>1. CASE CancelKeeps
    <3>1. runPc = "settle" /\ runPc' = "top" /\ UNCHANGED <<steering, taskPc, resumeAt>>
      BY <1>14, <2>1 DEF CancelSteering, taskVars
    <3> QED BY <1>3, <1>14, <3>1 DEF ViewTells
  <2>2. CASE ~CancelKeeps
    <3>1. /\ runPc = "settle" /\ runPc' = "tellDropped" /\ steering # {} /\ steering' = {}
          /\ UNCHANGED <<taskPc, resumeAt>>
      BY <1>14, <2>2 DEF CancelSteering, CancelKeeps, taskVars
    <3> QED BY <1>4, <1>14, <3>1 DEF ViewTells
  <2> QED BY <2>1, <2>2
<1>15. ASSUME \/ EnterSelect \/ SelectDone \/ Exit \/ ModelSet \/ Quit
              \/ \E eof \in BOOLEAN : InputEnd(eof)
              \/ \E what \in {"drop", "keep"} : CancelTask(what),
              UNCHANGED view
       PROVE  ViewTells'
  <2>1. /\ runPc \in {"top", "select"} /\ runPc' \in {"top", "select", "settle", "stopped"}
        /\ UNCHANGED <<steering, taskPc, resumeAt>>
    BY <1>15 DEF EnterSelect, SelectDone, Exit, ModelSet, Quit, InputEnd, CancelTask, Handles,
                 queueVars, taskVars
  <2> QED BY <1>3, <1>15, <2>1 DEF ViewTells
<1>16. ASSUME OutputBreaks \/ UNCHANGED vars, UNCHANGED view PROVE ViewTells'
  <2>1. UNCHANGED <<steering, runPc, taskPc, resumeAt>>
    BY <1>16 DEF OutputBreaks, vars, runVars, queueVars, taskVars
  <2> QED BY <1>3, <1>16, <2>1 DEF ViewTells
<1>17. ASSUME Splice \/ Unwind \/ Abandon \/ SummarizeUnwind, UNCHANGED view PROVE ViewTells'
  <2>1. /\ UNCHANGED runPc /\ taskPc \notin Tells /\ resumeAt' \notin Tells
        /\ \/ UNCHANGED steering /\ taskPc' \notin Tells
           \/ steering # {} /\ steering' = {} /\ taskPc' \in Tells
    BY <1>17 DEF Splice, Unwind, Abandon, SummarizeUnwind, Discard, DiscardDue, TaskGoes,
                 TaskOnly, runVars, Tells, ViewTells
  <2> QED BY <1>3, <1>4, <1>17, <2>1
<1>18. ASSUME SummarizeCall \/ Stream \/ TaskStart \/ Boundary \/ Send \/ SummaryError,
              UNCHANGED view
       PROVE  ViewTells'
  <2>1. /\ UNCHANGED <<runPc, steering>> /\ taskPc \notin Tells /\ taskPc' \notin Tells
        /\ resumeAt' \notin Tells
    BY <1>18 DEF SummarizeCall, Stream, TaskStart, Boundary, Send, SummaryError, TaskGoes,
                 TaskOnly, runVars, AfterSummary, Tells, ViewTells, IInv, TypeOK
  <2> QED BY <1>3, <1>18, <2>1
<1> QED
  BY <1>6, <1>7, <1>8, <1>9, <1>10, <1>11, <1>12, <1>13, <1>14, <1>15, <1>16, <1>17, <1>18
  DEF RNext, RunLoop, RunInput, MCPEvent, ProviderStep, TaskWork, Finished

(* Until a second word is queued the terminal's count is the queue's, once *)
(* both writers are at rest, in whatever order they write.                 *)
THEOREM OneWordIsRead == RSpec => []OneWordReadout
<1>1. [RNext]_<<vars, view>> => [Next]_vars
  BY IsAStep
<1>2. IInv /\ ViewTells => OneWordReadout
  <2> SUFFICES ASSUME IInv, ViewTells, \A p, q \in Heard : p = q, AtRest
               PROVE  view.pending = Cardinality(steering) /\ ~view.ahead
    BY DEF OneWordReadout
  <2>1. view.pending = (IF steering # {} THEN 1 ELSE 0) /\ ~view.ahead
    BY DEF ViewTells, Owed, Tells, AtRest
  <2>2. CASE steering = {}
    BY <2>1, <2>2, FS_EmptySet
  <2>3. CASE steering # {}
    <3>1. PICK p : steering = {p}
      BY <2>3 DEF IInv, TypeOK, WaitingIsWatched, InQueue, Heard, Unheard
    <3> QED BY <2>1, <3>1, FS_Singleton
  <2> QED BY <2>2, <2>3
<1> QED
  BY <1>1, <1>2, InitView, InitIInv, NextIInv, NextView, PTL DEF RSpec

-----------------------------------------------------------------------------
(* The session keeps the promise of PromptFate.                            *)

(* What the abstract specification sees waiting is the slot and the queue. *)
LEMMA WaitingIs ==
  ASSUME IInv
  PROVE  Promise!Waiting = steering \cup ({pending} \cap Prompts)
BY DEF IInv, TypeOK, WaitingIsWatched, Promise!Waiting, Place, Fates, InQueue, Dropped

(* Settling prompts moves them in the abstract specification.              *)
LEMMA SettleMoves ==
  ASSUME IInv, NEW S \in SUBSET Prompts, NEW f, Settle(S, f)
  PROVE  Promise!Move(S, Place(f))
BY DEF Settle, Promise!Move

(* What each fate is in the abstract specification.                        *)
LEMMA Places ==
  /\ Place("unsent") = "unsent" /\ Place("held") = "waiting"
  /\ \A f \in InQueue : Place(f) = "waiting"
  /\ \A f \in {"started", "spliced", "promoted"} : Place(f) = "ran"
  /\ Place("refused") = "refused"
  /\ \A f \in Dropped : Place(f) = "dropped"
BY DEF Place, InQueue, Dropped

(* The abstract variables a step leaves alone unless it touches these.     *)
LEMMA Stutters ==
  UNCHANGED <<fate, activeTask, state, orderly>> => UNCHANGED Promise!avars
BY DEF Promise!avars

LEMMA InitPromise == Init => Promise!AInit
BY Places DEF Init, Promise!AInit

(* A step of the session is a step of its promise, or none at all.         *)
LEMMA NextPromise == IInv /\ [Next]_vars => [Promise!ANext]_(Promise!avars)
<1> SUFFICES ASSUME IInv, [Next]_vars
             PROVE  Promise!ANext \/ UNCHANGED Promise!avars
  OBVIOUS
<1> USE SessionAssumption
<1>1. ASSUME NEW p \in Prompts, SubmitPrompt(p)
      PROVE  Promise!ANext \/ UNCHANGED Promise!avars
  <2>1. /\ Place(fate[p]) = "unsent" /\ state # "closed"
        /\ UNCHANGED <<state, orderly>>
    BY <1>1, Places DEF SubmitPrompt, Handles, IInv, LoopAgrees, lifeVars
  <2>2. CASE BeginRefusal(state = "ready", activeTask) = "none"
    <3>1. ~quitting /\ state = "ready" /\ activeTask = "none"
      BY <2>2, Refusals DEF IInv, TypeOK
    <3>2. Promise!Waiting = {}
      BY <3>1, WaitingIs DEF IInv, SlotDiscipline, WaitingIsWatched
    <3>3. PICK ok \in BOOLEAN :
            /\ IF ok THEN BeginTask("prompt") ELSE NoTask
            /\ Settle({p}, IF ok THEN "started" ELSE "refused")
      BY <1>1, <2>2 DEF SubmitPrompt
    <3>4. CASE ok
      <4>1. Promise!Move({p}, "ran") /\ activeTask' = "prompt"
        BY <3>3, <3>4, SettleMoves, Places DEF BeginTask
      <4> QED
        BY <2>1, <3>1, <3>2, <4>1 DEF Promise!ANext, Promise!Begin
    <3>5. CASE ~ok
      <4>1. Promise!Move({p}, "refused") /\ activeTask' = activeTask
        BY <3>3, <3>5, SettleMoves, Places DEF NoTask
      <4> QED
        BY <2>1, <4>1 DEF Promise!ANext, Promise!Answer
    <3> QED
      BY <3>4, <3>5
  <2>3. CASE BeginRefusal(state = "ready", activeTask) # "none"
    <3>1. PICK f \in {"held", "fresh", "queued", "refused"} :
            Settle({p}, f) /\ activeTask' = activeTask
      BY <1>1, <2>3 DEF SubmitPrompt, NoTask
    <3>2. Promise!Move({p}, "refused") \/ Promise!Move({p}, "waiting")
      BY <3>1, SettleMoves, Places DEF InQueue
    <3> QED
      BY <2>1, <3>1, <3>2 DEF Promise!ANext, Promise!Answer
  <2> QED
    BY <2>2, <2>3
<1>2. ASSUME NEW kind \in {"continue", "summarize"}, TaskCommand(kind)
      PROVE  Promise!ANext \/ UNCHANGED Promise!avars
  <2>1. ~quitting /\ state = "ready" /\ activeTask = "none" /\ UNCHANGED <<fate, state, orderly>>
    BY <1>2, Refusals DEF TaskCommand, IInv, TypeOK, lifeVars
  <2>2. Promise!Waiting = {}
    BY <2>1, WaitingIs DEF IInv, SlotDiscipline, WaitingIsWatched
  <2>3. activeTask' = kind \/ activeTask' = activeTask
    BY <1>2 DEF TaskCommand, BeginTask, NoTask
  <2>4. CASE activeTask' = kind
    <3>1. Promise!Move(Promise!Waiting, "ran")
      BY <2>1, <2>2 DEF Promise!Move
    <3> QED
      BY <2>1, <2>4, <3>1 DEF Promise!ANext, Promise!Begin
  <2>5. CASE activeTask' = activeTask
    BY <2>1, <2>5, Stutters
  <2> QED
    BY <2>3, <2>4, <2>5
<1>3. CASE HandleTaskDone
  <2>1. /\ activeTask # "none" /\ pending = NoPrompt /\ state # "closed" /\ state # "initializing"
        /\ agentReady /\ UNCHANGED <<state, orderly>>
    BY <1>3 DEF HandleTaskDone, Leftover, IInv, OneTask, SlotDiscipline, LoopAgrees, lifeVars
  <2>2. Promise!Waiting = steering
    BY <2>1, WaitingIs
  <2>3. steering \in SUBSET Prompts
    BY DEF IInv, TypeOK
  <2>4. CASE steering # {} /\ ~quitting
    <3>1. Settle(steering, "promoted") /\ activeTask' = "prompt"
      BY <1>3, <2>1, <2>4
      DEF HandleTaskDone, Leftover, EnsureAgent, BeginRefusal, BeginTask, IInv, TypeOK
    <3>2. Promise!Move(Promise!Waiting, "ran")
      BY <3>1, <2>2, <2>3, SettleMoves, Places
    <3> QED
      BY <2>1, <2>2, <2>4, <3>1, <3>2 DEF Promise!ANext, Promise!Join
  <2>5. CASE steering = {} \/ quitting
    <3>1. Settle(steering, "dropQuit") /\ activeTask' = "none"
      BY <1>3, <2>5 DEF HandleTaskDone, Leftover, Settle, IInv, TypeOK
    <3>2. Promise!Move(Promise!Waiting, "dropped")
      BY <3>1, <2>2, <2>3, SettleMoves, Places DEF Dropped
    <3> QED
      BY <2>1, <3>1, <3>2 DEF Promise!ANext, Promise!End
  <2> QED
    BY <2>4, <2>5
<1>4. ASSUME NEW done \in BOOLEAN, MCPSettles(done)
      PROVE  Promise!ANext \/ UNCHANGED Promise!avars
  <2>1. state # "closed" /\ state' # "closed" /\ activeTask = "none"
    BY <1>4 DEF MCPSettles, IInv, OneTask
  <2>2. CASE pending = NoPrompt
    BY <1>4, <2>1, <2>2 DEF MCPSettles, NoTask, Promise!avars
  <2>3. CASE pending # NoPrompt
    <3>1. /\ ~quitting /\ pending \in Prompts /\ Promise!Waiting = {pending}
          /\ {pending} \in SUBSET Prompts
      BY <2>3, WaitingIs DEF IInv, TypeOK, SlotDiscipline
    <3>2. PICK ok \in BOOLEAN :
            /\ IF ok THEN BeginTask("prompt") ELSE NoTask
            /\ Settle({pending}, IF ok THEN "started" ELSE "refused")
      BY <1>4, <2>1, <2>3, <3>1 DEF MCPSettles, BeginRefusal
    <3>3. CASE ok
      <4>1. Promise!Move(Promise!Waiting, "ran") /\ activeTask' = "prompt"
        BY <3>1, <3>2, <3>3, SettleMoves, Places DEF BeginTask
      <4> QED
        BY <2>1, <4>1 DEF Promise!ANext, Promise!Begin
    <3>4. CASE ~ok
      <4>1. Promise!Move(Promise!Waiting, "refused") /\ activeTask' = activeTask
        BY <3>1, <3>2, <3>4, SettleMoves, Places DEF NoTask
      <4> QED
        BY <2>1, <3>1, <4>1 DEF Promise!ANext, Promise!Drop
    <3> QED
      BY <3>3, <3>4
  <2> QED
    BY <2>2, <2>3
<1>5. ASSUME NEW what \in {"drop", "keep"}, CancelTask(what)
      PROVE  Promise!ANext \/ UNCHANGED Promise!avars
  <2>1. UNCHANGED <<state, orderly, activeTask>>
    BY <1>5 DEF CancelTask, lifeVars
  <2>2. CASE pending # NoPrompt
    <3>1. Promise!Waiting = {pending} /\ {pending} \in SUBSET Prompts
      BY <2>2, WaitingIs DEF IInv, TypeOK, SlotDiscipline
    <3>2. Promise!Move(Promise!Waiting, "dropped")
      BY <1>5, <2>2, <3>1, SettleMoves, Places DEF CancelTask, Dropped
    <3> QED
      BY <2>1, <3>1, <3>2 DEF Promise!ANext, Promise!Drop
  <2>3. CASE pending = NoPrompt
    <3>1. PICK f \in InQueue : Settle(steering, f)
      BY <1>5, <2>3 DEF CancelTask, InQueue
    <3>2. \A p \in steering : Place(fate[p]) = "waiting"
      BY Places DEF IInv, TypeOK, WaitingIsWatched
    <3>3. [p \in Prompts |-> Place(fate[p])]' = [p \in Prompts |-> Place(fate[p])]
      BY <3>1, <3>2, Places DEF Settle
    <3> QED
      BY <2>1, <3>3 DEF Promise!avars
  <2> QED
    BY <2>2, <2>3
<1>6. CASE Quit
  <2>1. UNCHANGED <<state, orderly, activeTask>>
    BY <1>6 DEF Quit
  <2>2. CASE pending = NoPrompt
    <3>1. UNCHANGED fate
      BY <1>6, <2>2 DEF Quit, Settle, IInv, TypeOK
    <3> QED
      BY <2>1, <3>1, Stutters
  <2>3. CASE pending # NoPrompt
    <3>1. Promise!Waiting = {pending} /\ {pending} \in SUBSET Prompts
          /\ {pending} \cap Prompts = {pending}
      BY <2>3, WaitingIs DEF IInv, TypeOK, SlotDiscipline
    <3>2. Promise!Move(Promise!Waiting, "dropped")
      BY <1>6, <3>1, SettleMoves, Places DEF Quit, Dropped
    <3> QED
      BY <2>1, <3>1, <3>2 DEF Promise!ANext, Promise!Drop
  <2> QED
    BY <2>2, <2>3
<1>7. CASE CancelSteering \/ Splice \/ Unwind \/ Abandon \/ SummarizeUnwind
  <2>1. UNCHANGED <<state, orderly, activeTask>>
    BY <1>7 DEF CancelSteering, CancelKeeps, Splice, Unwind, Abandon, SummarizeUnwind, TaskOnly,
                lifeVars, runVars
  <2>2. \/ UNCHANGED fate
        \/ steering # {} /\ \E f \in Dropped \cup {"spliced"} : Settle(steering, f)
    BY <1>7 DEF CancelSteering, CancelKeeps, Splice, Unwind, Abandon, SummarizeUnwind, TaskGoes,
                Discard, DiscardDue, Dropped
  <2>3. CASE UNCHANGED fate
    BY <2>1, <2>3, Stutters
  <2>4. ASSUME steering # {}, NEW f \in Dropped \cup {"spliced"}, Settle(steering, f)
        PROVE  Promise!ANext
    <3>1. Promise!Waiting = steering /\ steering \in SUBSET Prompts /\ activeTask # "none"
      BY <2>4, WaitingIs DEF IInv, TypeOK, SlotDiscipline, WaitingIsWatched
    <3>2. Promise!Move(Promise!Waiting, "ran") \/ Promise!Move(Promise!Waiting, "dropped")
      BY <2>4, <3>1, SettleMoves, Places
    <3> QED
      BY <2>1, <2>4, <3>1, <3>2 DEF Promise!ANext, Promise!Join, Promise!Drop
  <2> QED
    BY <2>2, <2>3, <2>4
<1>8. CASE Exit
  <2>1. /\ state # "closed" /\ state' = "closed" /\ UNCHANGED <<fate, activeTask>>
        /\ orderly' \in BOOLEAN
    BY <1>8 DEF Exit, IInv, LoopAgrees, TypeOK
  <2>2. CASE orderly'
    <3>1. activeTask = "none" /\ pending = NoPrompt
      BY <1>8, <2>2 DEF Exit, ExitDue, IInv, TypeOK
    <3>2. Promise!Waiting = {}
      BY <3>1, WaitingIs DEF IInv, WaitingIsWatched
    <3> QED
      BY <2>1, <2>2, <3>1, <3>2 DEF Promise!ANext, Promise!Close
  <2>3. CASE ~orderly'
    BY <2>1, <2>3 DEF Promise!ANext, Promise!Break
  <2> QED
    BY <2>1, <2>2, <2>3
<1>9. CASE \/ EnterSelect \/ SelectDone \/ TellQueued \/ TellCanceled \/ OutputBreaks
           \/ ModelSet \/ UNCHANGED vars \/ \E eof \in BOOLEAN : InputEnd(eof)
  <2>1. UNCHANGED <<fate, activeTask, state, orderly>>
    BY <1>9 DEF EnterSelect, SelectDone, TellQueued, TellCanceled, OutputBreaks, ModelSet,
                InputEnd, lifeVars, runVars, vars
  <2> QED
    BY <2>1, Stutters
<1>10. CASE \/ SummarizeCall \/ Stream \/ TaskStart \/ Boundary \/ Send \/ SummaryError
            \/ TellDelivered \/ TellDropped
  <2>1. UNCHANGED <<fate, activeTask, state, orderly>>
    BY <1>10 DEF SummarizeCall, Stream, TaskStart, Boundary, Send, SummaryError,
                 TellDelivered, TellDropped, TaskGoes, TaskOnly, runVars
  <2> QED
    BY <2>1, Stutters
<1> QED
  BY <1>1, <1>2, <1>3, <1>4, <1>5, <1>6, <1>7, <1>8, <1>9, <1>10
  DEF Next, RunInternal, RunLoop, RunInput, MCPEvent, ProviderStep, TaskInternal,
      TaskWork, Finished

(* The session implements the promise.                                     *)
THEOREM Implements == Spec => Refines
  BY InitPromise, NextPromise, Invariance, PTL DEF Spec, Refines, Promise!ASpec
=============================================================================
