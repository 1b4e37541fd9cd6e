------------------------------- MODULE Session -------------------------------
(***************************************************************************)
(* The session: the run() goroutine that owns every decision, the one task *)
(* goroutine it may have started, and the steering queue between them.     *)
(*                                                                         *)
(* run() is a loop: at the top it decides whether to exit, then it selects *)
(* one ready input and handles it.  A handler is atomic except where it    *)
(* meets the task goroutine: the queue is guarded by a mutex, but the      *)
(* frame that reports what was done to it is written after the unlock, and *)
(* a cancel ends the task's context before it settles the queue.  Those    *)
(* handlers are split at exactly those points (runPc).  The task goroutine *)
(* is split the same way (taskPc).                                         *)
(*                                                                         *)
(* A prompt is a member of Prompts and occupies one part of the queue.     *)
(* What a prompt or an answer says, and the conversation itself, are left  *)
(* to module Turn.                                                         *)
(*                                                                         *)
(* A definition named X_Y, in this and the other modules, is a mutant of   *)
(* X: a plausible bug at the place X models.  No specification uses it.    *)
(***************************************************************************)
EXTENDS Naturals, FiniteSets

CONSTANTS
  Prompts,      (* the prompts the adapter will ever submit               *)
  NoPrompt,     (* the empty holding slot                                 *)
  MaxSteering,  (* how many parts the steering queue takes                *)
  MaxSteps      (* how many steps the agent loop gives one task           *)

ASSUME SessionAssumption ==
  /\ NoPrompt \notin Prompts
  /\ IsFiniteSet(Prompts)
  /\ MaxSteering \in Nat \ {0}
  /\ MaxSteps \in Nat \ {0}

VARIABLES
  state,        (* the lifecycle phase published by State()               *)
  inputOpen,    (* inputMsgCh may still yield a message                   *)
  inputEnded,   (* EOF or a CE frame was handled                          *)
  quitting,     (* :quit was handled                                      *)
  ctxDone,      (* sessionCtx is done                                     *)
  orderly,      (* run() returned with its context still alive            *)
  runPc,        (* where run() is                                         *)
  cancelFate,   (* what the cancel in progress does with the queue        *)
  activeTask,   (* what started the task in flight, or "none"             *)
  taskCanceled, (* the task's own cancel function was called              *)
  agentReady,   (* the lazily built agent exists                          *)
  pending,      (* the prompt held for MCP readiness, or NoPrompt         *)
  steering,     (* the steering queue                                     *)
  drained,      (* steeringDrained: a cancel settled this task's queue    *)
  taskPc,       (* where the task goroutine is                            *)
  resumeAt,     (* where it goes after reporting a drop                   *)
  step,         (* the agent step it is on                                *)
  sumFor,       (* what a summarize call in progress was made for         *)
  sumTry,       (* which of the summarize's two attempts it is            *)
  fate          (* what became of each prompt                             *)

runVars   == <<state, inputOpen, inputEnded, quitting, ctxDone, orderly, runPc>>
lifeVars  == <<state, inputOpen, inputEnded, quitting, ctxDone, orderly>>
taskVars  == <<taskPc, resumeAt, step, sumFor, sumTry>>
sumVars   == <<sumFor, sumTry>>
queueVars == <<steering, drained>>
vars == <<runVars, cancelFate, activeTask, taskCanceled, agentReady, pending,
          queueVars, taskVars, fate>>

TaskKinds == {"prompt", "continue", "summarize"}

(***************************************************************************)
(* The fate of a prompt.  "held" waits for MCP.  A queued prompt is        *)
(* "queued", or tells of the cancel of its task: "fresh" arrived after it, *)
(* "kept" and "swept" were found by it.  The others are final: "spliced"   *)
(* entered a running task at a step boundary, "promoted" was left over and *)
(* started the next task, and "lost" was reported delivered although no    *)
(* task would take it.                                                     *)
(***************************************************************************)
InQueue == {"queued", "fresh", "kept", "swept"}
Dropped == {"dropCanceled", "dropFailed", "dropQuit"}
Fates == {"unsent", "held", "started", "spliced", "promoted", "refused", "lost"}
         \cup InQueue \cup Dropped

RunPcs  == {"top", "select", "settle", "tellQueued", "tellDropped", "stopped"}
TaskPcs == {"none", "start", "summarize", "boundary", "splice", "tellDelivered",
            "send", "stream", "landed", "failed", "sumDiscard", "sumError",
            "abandon", "tellDropped", "result"}

(* The task's context: its own, or the session's it derives from.          *)
TaskCtxDone_SessionOnly == ctxDone

TaskCtxDone == taskCanceled \/ ctxDone

(* Move every prompt of S to fate f.                                       *)
Settle(S, f) == fate' = [p \in Prompts |-> IF p \in S THEN f ELSE fate[p]]

-----------------------------------------------------------------------------
(* With MCP servers configured the session starts Initializing, without    *)
(* them it is Ready from the start.                                        *)
Init ==
  /\ state \in {"initializing", "ready"}
  /\ inputOpen = TRUE /\ inputEnded = FALSE /\ quitting = FALSE
  /\ ctxDone = FALSE /\ orderly = FALSE
  /\ runPc = "top" /\ cancelFate = "drop"
  /\ activeTask = "none" /\ taskCanceled = FALSE
  /\ agentReady = FALSE
  /\ pending = NoPrompt
  /\ steering = {} /\ drained = FALSE
  /\ taskPc = "none" /\ resumeAt = "result" /\ step = 0
  /\ sumFor = "command" /\ sumTry = 1
  /\ fate = [p \in Prompts |-> "unsent"]

-----------------------------------------------------------------------------
(* The gate every task start passes, given whether the session is ready    *)
(* and which task it runs.  Its order decides which refusal a prompt gets: *)
(* shutting down, then not ready, then busy, then no agent.                *)
BeginRefusal_ReadyOnly(ready, task) == IF ~ready THEN "notReady" ELSE "none"

BeginRefusal_Unready(ready, task) ==
  IF quitting THEN "shutdown" ELSE IF task # "none" THEN "busy" ELSE "none"

BeginRefusal(ready, task) ==
  IF quitting THEN "shutdown"
  ELSE IF ~ready THEN "notReady"
  ELSE IF task # "none" THEN "busy"
  ELSE "none"

(* The agent is built by the first task start; building it can fail, but   *)
(* not when it is there already.                                           *)
EnsureAgent(ok) ==
  /\ agentReady => ok
  /\ agentReady' = ok

(* beginTask's assignments, and the goroutine its callers then start.      *)
BeginTask(kind) ==
  /\ activeTask' = kind
  /\ taskCanceled' = FALSE
  /\ drained' = FALSE
  /\ taskPc' = "start"
  /\ step' = 1
  /\ UNCHANGED <<resumeAt, sumVars>>

NoTask == UNCHANGED <<activeTask, taskCanceled, drained, taskVars>>

-----------------------------------------------------------------------------
(* The loop of run().                                                      *)

ExitDue_HeldPrompt ==
  ctxDone \/ ((quitting \/ inputEnded) /\ activeTask = "none")

ExitDue_QuitAtOnce ==
  \/ ctxDone \/ quitting
  \/ inputEnded /\ activeTask = "none" /\ pending = NoPrompt

ExitDue_QuitOnly ==
  ctxDone \/ (quitting /\ activeTask = "none" /\ pending = NoPrompt)

ExitDue ==
  \/ ctxDone
  \/ (quitting \/ inputEnded) /\ activeTask = "none" /\ pending = NoPrompt

(* The exit: the deferred cancel of the session context and the Closed     *)
(* phase.  A task goroutine still unwinding is left to itself.             *)
Exit ==
  /\ runPc = "top" /\ ExitDue
  /\ runPc' = "stopped"
  /\ state' = "closed"
  /\ orderly' = ~ctxDone
  /\ ctxDone' = TRUE
  /\ UNCHANGED <<inputOpen, inputEnded, quitting, cancelFate, activeTask,
                 taskCanceled, agentReady, pending, queueVars, taskVars,
                 fate>>

EnterSelect ==
  /\ runPc = "top" /\ ~ExitDue
  /\ runPc' = "select"
  /\ UNCHANGED <<lifeVars, cancelFate, activeTask, taskCanceled, agentReady,
                 pending, queueVars, taskVars, fate>>

(* sessionCtx.Done() is a select case of its own and returns at once.      *)
SelectDone ==
  /\ runPc = "select" /\ ctxDone
  /\ runPc' = "top"
  /\ UNCHANGED <<lifeVars, cancelFate, activeTask, taskCanceled, agentReady,
                 pending, queueVars, taskVars, fate>>

(* The first failed frame write cancels the session context.  Any          *)
(* goroutine may be the writer, so it can happen at any time.              *)
OutputBreaks ==
  /\ ~ctxDone
  /\ ctxDone' = TRUE
  /\ UNCHANGED <<state, inputOpen, inputEnded, quitting, orderly, runPc,
                 cancelFate, activeTask, taskCanceled, agentReady, pending,
                 queueVars, taskVars, fate>>

-----------------------------------------------------------------------------
(* Input messages.                                                         *)

Handles == runPc = "select" /\ inputOpen

(* A prompt starts a task, is held, is queued as steering, or is refused.  *)
SubmitPrompt(p) ==
  /\ Handles /\ fate[p] = "unsent"
  /\ LET refusal == BeginRefusal(state = "ready", activeTask) IN
     \/ /\ refusal = "none"
        /\ \E ok \in BOOLEAN :
             /\ EnsureAgent(ok)
             /\ IF ok THEN BeginTask("prompt") ELSE NoTask
             /\ Settle({p}, IF ok THEN "started" ELSE "refused")
        /\ runPc' = "top"
        /\ UNCHANGED <<pending, steering>>
     \/ /\ refusal = "notReady" /\ pending = NoPrompt
        /\ pending' = p
        /\ Settle({p}, "held")
        /\ runPc' = "top"
        /\ NoTask /\ UNCHANGED <<steering, agentReady>>
     \/ /\ refusal = "busy" /\ Cardinality(steering) < MaxSteering
        /\ steering' = steering \cup {p}
        /\ Settle({p}, IF taskCanceled THEN "fresh" ELSE "queued")
        /\ runPc' = "tellQueued"
        /\ NoTask /\ UNCHANGED <<pending, agentReady>>
     \/ /\ \/ refusal = "shutdown"
           \/ refusal = "notReady" /\ pending # NoPrompt
           \/ refusal = "busy" /\ Cardinality(steering) >= MaxSteering
        /\ Settle({p}, "refused")
        /\ runPc' = "top"
        /\ NoTask /\ UNCHANGED <<pending, steering, agentReady>>
  /\ UNCHANGED <<lifeVars, cancelFate>>

(* The "queued" frame is written after queueSteering has unlocked.         *)
TellQueued ==
  /\ runPc = "tellQueued"
  /\ runPc' = "top"
  /\ UNCHANGED <<lifeVars, cancelFate, activeTask, taskCanceled, agentReady,
                 pending, queueVars, taskVars, fate>>

(* :continue and :summarize start a task or answer with an error.          *)
TaskCommand(kind) ==
  /\ Handles /\ BeginRefusal(state = "ready", activeTask) = "none"
  /\ \E ok \in BOOLEAN :
       /\ EnsureAgent(ok)
       /\ IF ok THEN BeginTask(kind) ELSE NoTask
  /\ runPc' = "top"
  /\ UNCHANGED <<lifeVars, cancelFate, pending, steering, fate>>

(* :model_set builds an agent; like every command that changes what a task *)
(* reads it is refused while one runs (cmdIdle).                           *)
ModelSet ==
  /\ Handles /\ activeTask = "none"
  /\ agentReady' = TRUE
  /\ runPc' = "top"
  /\ UNCHANGED <<lifeVars, cancelFate, activeTask, taskCanceled, pending,
                 queueVars, taskVars, fate>>

(* :quit.  The held prompt goes, the running task stays.                   *)
Quit_KeepsSlot ==
  /\ Handles
  /\ quitting' = TRUE /\ runPc' = "top"
  /\ UNCHANGED <<state, inputOpen, inputEnded, ctxDone, orderly, cancelFate,
                 activeTask, taskCanceled, agentReady, pending, queueVars,
                 taskVars, fate>>

Quit ==
  /\ Handles
  /\ quitting' = TRUE
  /\ pending' = NoPrompt
  /\ Settle({pending} \cap Prompts, "dropQuit")
  /\ runPc' = "top"
  /\ UNCHANGED <<state, inputOpen, inputEnded, ctxDone, orderly, cancelFate,
                 activeTask, taskCanceled, agentReady, queueVars, taskVars>>

(* A CE frame ends the input on a stream that stays open; EOF closes it.   *)
InputEnd(eof) ==
  /\ Handles
  /\ inputEnded' = TRUE
  /\ inputOpen' = ~eof
  /\ runPc' = "top"
  /\ UNCHANGED <<state, quitting, ctxDone, orderly, cancelFate, activeTask,
                 taskCanceled, agentReady, pending, queueVars, taskVars,
                 fate>>

(***************************************************************************)
(* A cancel: the :cancel command (which may keep the queue) or a signal    *)
(* through cancelReqCh (which never does, and outlives the input).  A held *)
(* prompt is dropped and that is all.  Otherwise the task's context ends   *)
(* here, and the queue is settled by the next step, CancelSteering.        *)
(***************************************************************************)
CancelTask(what) ==
  /\ runPc = "select"
  /\ inputOpen \/ what = "drop"
  /\ \/ /\ pending # NoPrompt
        /\ pending' = NoPrompt
        /\ Settle({pending}, "dropCanceled")
        /\ runPc' = "top"
        /\ UNCHANGED <<cancelFate, taskCanceled>>
     \/ /\ pending = NoPrompt /\ activeTask # "none"
        /\ taskCanceled' = TRUE
        /\ cancelFate' = what
        /\ Settle(steering, IF what = "keep" THEN "kept" ELSE "swept")
        /\ runPc' = "settle"
        /\ UNCHANGED pending
  /\ UNCHANGED <<lifeVars, activeTask, agentReady, queueVars, taskVars>>

CancelKeeps_Everything == TRUE

CancelKeeps == cancelFate = "keep" \/ steering = {}

CancelSteering ==
  /\ runPc = "settle"
  /\ drained' = TRUE /\ cancelFate' = "drop"
  /\ IF CancelKeeps
     THEN /\ runPc' = "top"
          /\ UNCHANGED <<steering, fate>>
     ELSE /\ steering' = {}
          /\ Settle(steering, "dropCanceled")
          /\ runPc' = "tellDropped"
  /\ UNCHANGED <<lifeVars, activeTask, taskCanceled, agentReady, pending,
                 taskVars>>

TellCanceled ==
  /\ runPc = "tellDropped"
  /\ runPc' = "top"
  /\ UNCHANGED <<lifeVars, cancelFate, activeTask, taskCanceled, agentReady,
                 pending, queueVars, taskVars, fate>>

-----------------------------------------------------------------------------
(* MCP readiness and task completion.                                      *)

(* MCP initialization settles.  "done" brings new tools, so an agent built *)
(* earlier is thrown away; the other endings leave it.  The Ready phase is *)
(* published first, then the held prompt starts.                           *)
MCPSettles(done) ==
  /\ runPc = "select" /\ state = "initializing"
  /\ state' = "ready"
  /\ IF pending = NoPrompt
     THEN /\ agentReady' = IF done THEN FALSE ELSE agentReady
          /\ NoTask /\ UNCHANGED <<pending, fate>>
     ELSE /\ pending' = NoPrompt
          /\ \E ok \in BOOLEAN :
               LET begins == ok /\ BeginRefusal(TRUE, activeTask) = "none" IN
               /\ agentReady /\ ~done => ok
               /\ agentReady' = ok
               /\ IF begins THEN BeginTask("prompt") ELSE NoTask
               /\ Settle({pending}, IF begins THEN "started" ELSE "refused")
  /\ runPc' = "top"
  /\ UNCHANGED <<inputOpen, inputEnded, quitting, ctxDone, orderly,
                 cancelFate, steering>>

(* deliverLeftoverSteering: what happens to the words still in the queue   *)
(* when the task is over.                                                  *)
Leftover_Forgotten == "nothing"

Leftover_IgnoresQuit == IF steering = {} THEN "nothing" ELSE "deliver"

Leftover ==
  IF steering = {} THEN "nothing" ELSE IF quitting THEN "drop" ELSE "deliver"

(***************************************************************************)
(* The task's result is taken: the task is over, and whatever is still in  *)
(* the queue becomes the next prompt, unless the session is quitting.  It  *)
(* is reported delivered before the gate is asked.  No task goroutine      *)
(* exists here, so taking the queue, reporting it and submitting it are    *)
(* one step.                                                               *)
(***************************************************************************)
HandleTaskDone ==
  /\ runPc = "select" /\ taskPc = "result"
  /\ LET TaskOver == /\ activeTask' = "none" /\ taskPc' = "none"
                     /\ taskCanceled' = FALSE
                     /\ step' = 0 /\ UNCHANGED <<drained, resumeAt, sumVars>>
     IN
     \/ /\ Leftover = "nothing"
        /\ TaskOver
        /\ UNCHANGED <<steering, agentReady, fate>>
     \/ /\ Leftover = "drop"
        /\ steering' = {}
        /\ Settle(steering, "dropQuit")
        /\ TaskOver
        /\ UNCHANGED agentReady
     \/ /\ Leftover = "deliver"
        /\ steering' = {}
        /\ \E ok \in BOOLEAN :
             LET begins == ok /\ BeginRefusal(state = "ready", "none") = "none" IN
             /\ EnsureAgent(ok)
             /\ IF begins THEN BeginTask("prompt") ELSE TaskOver
             /\ Settle(steering, IF begins THEN "promoted" ELSE "lost")
  /\ runPc' = "top"
  /\ UNCHANGED <<lifeVars, cancelFate, pending>>

-----------------------------------------------------------------------------
(* The task goroutine.  It shares the queue, nothing else, with run().     *)

TaskOnly == UNCHANGED <<runVars, cancelFate, activeTask, taskCanceled,
                        agentReady, pending, drained>>

TaskGoes(pc) == taskPc' = pc /\ UNCHANGED <<steering, fate>>

(* A prompt or a :continue may first have to summarize to make room; a     *)
(* :continue with nothing to resend ends; :summarize is only the call.     *)
TaskStart ==
  /\ taskPc = "start"
  /\ \/ /\ activeTask # "summarize"
        /\ TaskGoes("boundary")
        /\ UNCHANGED sumVars
     \/ /\ activeTask = "continue"
        /\ TaskGoes("result")
        /\ UNCHANGED sumVars
     \/ /\ TaskGoes("summarize")
        /\ sumFor' = IF activeTask = "summarize" THEN "command" ELSE "start"
        /\ sumTry' = 1
  /\ TaskOnly /\ UNCHANGED <<resumeAt, step>>

(* Where the caller of a summarize goes on, once it has its answer.        *)
AfterSummary(ok) ==
  CASE sumFor = "command" /\ ok   -> "result"
    [] sumFor = "command" /\ ~ok  -> "sumError"
    [] sumFor = "start" /\ ok     -> "boundary"
    [] sumFor = "start" /\ ~ok    -> "abandon"
    [] sumFor = "boundary" /\ ok  -> "splice"
    [] sumFor = "boundary" /\ ~ok -> "failed"

(* One summarize request: it fails, answers with a summary, or answers     *)
(* without text, which is retried once.  The call is a processPrompt of    *)
(* its own, so its deferred discard runs when it failed or was canceled.   *)
RetriesLeft_OneMore == sumTry <= 2

RetriesLeft == sumTry < 2

SummarizeCall ==
  /\ taskPc = "summarize"
  /\ \E reply \in {"text", "textless", "error"} :
       LET again == reply = "textless" /\ RetriesLeft
           next  == IF again THEN "summarize" ELSE AfterSummary(reply = "text")
       IN /\ sumTry' = IF again THEN sumTry + 1 ELSE 1
          /\ sumFor' = IF again THEN sumFor ELSE "command"
          /\ IF reply = "error" \/ TaskCtxDone
             THEN taskPc' = "sumDiscard" /\ resumeAt' = next
             ELSE taskPc' = next /\ UNCHANGED resumeAt
  /\ TaskOnly /\ UNCHANGED <<steering, step, fate>>

(* The head of a step boundary: compact first when the last step's usage   *)
(* says so, which the first step cannot.                                   *)
Boundary ==
  /\ taskPc = "boundary"
  /\ \/ /\ TaskGoes("splice")
        /\ UNCHANGED sumVars
     \/ /\ step > 1
        /\ TaskGoes("summarize")
        /\ sumFor' = "boundary" /\ sumTry' = 1
  /\ TaskOnly /\ UNCHANGED <<resumeAt, step>>

(* takeSteering at the boundary: the whole queue goes into the request.    *)
Splice_FirstOnly ==
  /\ taskPc = "splice"
  /\ IF steering = {}
     THEN TaskGoes("send")
     ELSE /\ \E p \in steering :
               steering' = steering \ {p} /\ Settle({p}, "spliced")
          /\ taskPc' = "tellDelivered"
  /\ TaskOnly /\ UNCHANGED <<resumeAt, step, sumVars>>

Splice ==
  /\ taskPc = "splice"
  /\ IF steering = {}
     THEN TaskGoes("send")
     ELSE /\ steering' = {}
          /\ Settle(steering, "spliced")
          /\ taskPc' = "tellDelivered"
  /\ TaskOnly /\ UNCHANGED <<resumeAt, step, sumVars>>

TellDelivered ==
  /\ taskPc = "tellDelivered"
  /\ taskPc' = "send"
  /\ TaskOnly /\ UNCHANGED <<steering, resumeAt, step, sumVars, fate>>

(* A request made on a finished context is not made.                       *)
Send ==
  /\ taskPc = "send"
  /\ TaskGoes(IF TaskCtxDone THEN "failed" ELSE "stream")
  /\ TaskOnly /\ UNCHANGED <<resumeAt, step, sumVars>>

(* The step's stream ends: with the answer, with tool calls to go on from, *)
(* cut and resumed (never once canceled), or in failure.  The last step    *)
(* allowed cannot be followed by another.                                  *)
Stream ==
  /\ taskPc = "stream"
  /\ \/ TaskGoes("landed") /\ UNCHANGED step
     \/ /\ step < MaxSteps
        /\ TaskGoes("boundary")
        /\ step' = step + 1
     \/ TaskGoes("failed") /\ UNCHANGED step
  /\ TaskOnly /\ UNCHANGED <<resumeAt, sumVars>>

(* discardQueuedSteering: drop the queue and say so, unless a cancel has   *)
(* settled it already.  The report is a step of its own.                   *)
DiscardDue_Undrained == steering # {}

DiscardDue == ~drained /\ steering # {}

Discard(next) ==
  IF DiscardDue
  THEN /\ steering' = {}
       /\ Settle(steering, "dropFailed")
       /\ taskPc' = "tellDropped" /\ resumeAt' = next
  ELSE TaskGoes(next) /\ resumeAt' = "result"

(* processPrompt returns.  Its deferred discard passes over a task that    *)
(* landed with its context alive.                                          *)
Unwind ==
  /\ taskPc \in {"landed", "failed"}
  /\ IF taskPc = "landed" /\ ~TaskCtxDone
     THEN TaskGoes("result") /\ UNCHANGED resumeAt
     ELSE Discard("result")
  /\ TaskOnly /\ UNCHANGED <<step, sumVars>>

(* A task whose opening summarize failed never started.                    *)
Abandon ==
  /\ taskPc = "abandon"
  /\ Discard("result")
  /\ TaskOnly /\ UNCHANGED <<step, sumVars>>

SummarizeUnwind ==
  /\ taskPc = "sumDiscard"
  /\ Discard(resumeAt)
  /\ TaskOnly /\ UNCHANGED <<step, sumVars>>

(* A :summarize that failed says so and is over.                           *)
SummaryError ==
  /\ taskPc = "sumError"
  /\ TaskGoes("result")
  /\ TaskOnly /\ UNCHANGED <<resumeAt, step, sumVars>>

TellDropped ==
  /\ taskPc = "tellDropped"
  /\ taskPc' = resumeAt /\ resumeAt' = "result"
  /\ TaskOnly /\ UNCHANGED <<steering, step, sumVars, fate>>

-----------------------------------------------------------------------------
(* What run() does by itself, what its input makes it do, and the task.    *)
RunLoop == EnterSelect \/ SelectDone \/ Exit \/ CancelSteering

RunInternal == RunLoop \/ TellQueued \/ TellCanceled

RunInput ==
  \/ \E p \in Prompts : SubmitPrompt(p)
  \/ \E kind \in {"continue", "summarize"} : TaskCommand(kind)
  \/ ModelSet
  \/ Quit
  \/ \E eof \in BOOLEAN : InputEnd(eof)
  \/ \E what \in {"drop", "keep"} : CancelTask(what)

MCPEvent == \E done \in BOOLEAN : MCPSettles(done)

(* The steps that wait for the provider, and those that wait for nothing.  *)
ProviderStep == SummarizeCall \/ Stream

TaskWork == TaskStart \/ Boundary \/ Splice \/ Send \/ Unwind \/ Abandon
            \/ SummarizeUnwind \/ SummaryError

TaskInternal == TaskWork \/ TellDelivered \/ TellDropped

(* run() has returned and no task goroutine is left.                       *)
Finished == runPc = "stopped" /\ taskPc \in {"none", "result"} /\ UNCHANGED vars

Next == RunInternal \/ RunInput \/ MCPEvent \/ HandleTaskDone \/ OutputBreaks
        \/ ProviderStep \/ TaskInternal \/ Finished

Spec == Init /\ [][Next]_vars

(***************************************************************************)
(* The code's own scheduling: goroutines run, a select that is ready again *)
(* and again takes each ready case in the end (it chooses at random), and  *)
(* a request whose context is done comes back.  Nothing is assumed of the  *)
(* adapter, of the provider or of MCP.                                     *)
(***************************************************************************)
CodeFairness ==
  /\ WF_vars(RunInternal)
  /\ SF_vars(HandleTaskDone)
  /\ WF_vars(TaskInternal)
  /\ WF_vars(ProviderStep /\ TaskCtxDone)

FairSpec == Spec /\ CodeFairness

(* In addition every request is answered or fails, every confirmation is   *)
(* given, and MCP initialization settles.                                  *)
WorldFairness ==
  /\ WF_vars(ProviderStep)
  /\ SF_vars(MCPEvent)

-----------------------------------------------------------------------------
(* Properties.                                                             *)

(* Every variable keeps to its type.                                       *)
TypeOK ==
  /\ state \in {"initializing", "ready", "closed"}
  /\ inputOpen \in BOOLEAN /\ inputEnded \in BOOLEAN /\ quitting \in BOOLEAN
  /\ ctxDone \in BOOLEAN /\ orderly \in BOOLEAN
  /\ runPc \in RunPcs /\ cancelFate \in {"drop", "keep"}
  /\ activeTask \in TaskKinds \cup {"none"} /\ taskCanceled \in BOOLEAN
  /\ agentReady \in BOOLEAN
  /\ pending \in Prompts \cup {NoPrompt}
  /\ steering \in SUBSET Prompts /\ drained \in BOOLEAN
  /\ taskPc \in TaskPcs /\ resumeAt \in TaskPcs \ {"none", "start"}
  /\ step \in Nat /\ sumTry \in {1, 2}
  /\ sumFor \in {"command", "start", "boundary"}
  /\ fate \in [Prompts -> Fates]

(* The holding slot is for a session that cannot start a task yet: while   *)
(* it is full nothing runs, nothing is queued behind a task, and the       *)
(* session is not quitting (startDeferredPrompt and cancelTask rest on it).*)
SlotDiscipline ==
  pending # NoPrompt =>
    /\ state # "ready"
    /\ activeTask = "none" /\ steering = {} /\ ~quitting

(* Words wait only where somebody will come for them: the queue belongs to *)
(* a task, and the words of the slot and of the queue are exactly those    *)
(* that were reported held or queued and not yet settled.                  *)
WaitingIsWatched ==
  /\ steering # {} => activeTask # "none"
  /\ \A p \in Prompts : /\ p \in steering <=> fate[p] \in InQueue
                        /\ p = pending   <=> fate[p] = "held"

(* Leftover words are reported delivered before they are submitted as the  *)
(* next prompt: no session state may then refuse them.                     *)
NoDeliveredLost == \A p \in Prompts : fate[p] # "lost"

(* A plain cancel means stop: what it found queued never starts a task.    *)
StopMeansStop ==
  [][\A p \in Prompts : fate[p] = "swept" => fate'[p] # "promoted"]_vars

(* Words typed after a cancel are a fresh intent: the unwinding of the     *)
(* canceled task does not discard them.                                    *)
FreshSurvives ==
  [][\A p \in Prompts : fate[p] = "fresh" => fate'[p] # "dropFailed"]_vars

(* A session that closes with its output alive has settled every word it   *)
(* accepted and has no task left.                                          *)
OrderlyClose ==
  orderly => /\ activeTask = "none" /\ taskPc = "none"
             /\ \A p \in Prompts : fate[p] \notin InQueue \cup {"held"}

(* run() and the task goroutine agree on whether there is a task, and the  *)
(* task has the agent its start required.                                  *)
OneTask ==
  /\ taskPc = "none" <=> activeTask = "none"
  /\ activeTask # "none" => agentReady /\ state # "initializing"

(* :quit is final: no task starts in a quitting session.                   *)
QuitIsFinal ==
  [][quitting => ~(taskPc # "start" /\ taskPc' = "start")]_vars

(* What the prompts and the places that hold them always satisfy.          *)
WordsInPlace ==
  SlotDiscipline /\ WaitingIsWatched /\ OneTask /\ NoDeliveredLost /\ OrderlyClose

(* What no step does after :quit or after a cancel.                        *)
StopsAreKept == QuitIsFinal /\ StopMeansStop /\ FreshSurvives

(* The words of one queue share one end: when a queued prompt leaves the   *)
(* queue, all do, the same way.                                            *)
QueueSharesFate ==
  [][steering' \subseteq steering /\ steering' # steering =>
       /\ steering' = {}
       /\ \A p, q \in steering : fate'[p] = fate'[q]]_vars

(* How the session keeps the promise of PromptFate.                        *)
Place(f) ==
  CASE f = "unsent"                             -> "unsent"
    [] f \in InQueue \cup {"held"}              -> "waiting"
    [] f \in {"started", "spliced", "promoted"} -> "ran"
    [] f = "refused"                            -> "refused"
    [] f \in Dropped                            -> "dropped"
    [] OTHER                                    -> "lost"

Promise == INSTANCE PromptFate WITH
  place <- [p \in Prompts |-> Place(fate[p])],
  busy  <- activeTask # "none",
  phase <- IF state # "closed" THEN "open"
           ELSE IF orderly THEN "closed" ELSE "broken"

Refines == Promise!ASpec

(* After :quit, or after the input has ended, the session closes if the    *)
(* world answers.                                                          *)
Closes == WorldFairness => ((quitting \/ inputEnded) ~> (state = "closed"))

(* Words that wait do not wait for ever, unless the session was torn down: *)
(* the slot and the queue are emptied, again and again if they refill.     *)
WordsSettle ==
  WorldFairness =>
    ((pending # NoPrompt \/ steering # {}) ~>
       (ctxDone \/ (pending = NoPrompt /\ steering = {})))

(* A canceled task ends, whatever the provider does.                       *)
CancelEnds == taskCanceled ~> (taskPc \in {"none", "result"} \/ ~taskCanceled)
=============================================================================
