-------------------------------- MODULE Turn --------------------------------
(***************************************************************************)
(* The conversation while tasks work on it.                                *)
(*                                                                         *)
(* run() owns the session's Contents.  A task copies it, appends the       *)
(* user's parts and the model's parts to its own copy, and tells run() of  *)
(* each addition or replacement through a bounded FIFO of events; when it  *)
(* ends it sends its copy as the result, which replaces Contents.  What    *)
(* was already told is tracked by one record (stepRecord), and the same    *)
(* record rebuilds the history of a step that was sent and never landed.   *)
(*                                                                         *)
(* A part is its history id and its role.  Steering is a batch of new user *)
(* parts that may or may not be there at a step boundary (module Session   *)
(* says when it is).                                                       *)
(***************************************************************************)
EXTENDS Naturals, Sequences, SequencesExt

CONSTANTS
  MaxId,       (* bound: how many parts are ever numbered                  *)
  MaxSteps,    (* steps the agent loop gives one task                      *)
  MaxResumes,  (* resumes in a row of a step that was cut (maxRetries)     *)
  EventCap     (* capacity of taskEventCh                                  *)

ASSUME TurnAssumption ==
  MaxId \in Nat /\ MaxSteps \in Nat \ {0} /\ MaxResumes \in Nat /\ EventCap \in Nat

VARIABLES
  contents,  (* run(): the session's Contents                              *)
  events,    (* taskEventCh                                                *)
  runDone,   (* run() has returned                                         *)
  pc,        (* where the task goroutine is                                *)
  kind,      (* the task: "prompt", "continue" or "summarize"              *)
  ctxDone,   (* the task's context is done                                 *)
  hist,      (* the task's history: the caller's, then the agent loop's    *)
  caller,    (* the history the task falls back on when nothing landed     *)
  full,      (* fullContents: the history as of the last finished step     *)
  rec,       (* the step record                                            *)
  step,      (* the agent step                                             *)
  resumes,   (* steps in a row that were cut and resumed                   *)
  heavy,     (* the last usage seen is over the auto-summarize threshold   *)
  nextId,    (* the next history id                                        *)
  echoed,    (* user parts whose echo the adapter has been shown           *)
  asked,     (* parts that were in a request of a userPrompt               *)
  folded     (* parts a summary has replaced                               *)

runSide    == <<contents, runDone>>
taskSide   == <<kind, caller, full, rec, step, resumes, heavy>>
turnGhosts == <<echoed, asked, folded>>
turnVars   == <<runSide, events, pc, ctxDone, hist, taskSide, nextId, turnGhosts>>

-----------------------------------------------------------------------------
(* Parts.                                                                  *)

Part(id, role) == [id |-> id, role |-> role]

User(id) == Part(id, "user")

EndsOnAssistant(h) == h # <<>> /\ Last(h).role = "assistant"

(* What one step can record: text, or tool calls with their results.       *)
Outputs(id) ==
  {<<Part(id, "assistant")>>, <<Part(id, "assistant"), Part(id + 1, "tool")>>}

CallsTools(output) == Len(output) = 2

Room(n) == nextId + n <= MaxId + 1

-----------------------------------------------------------------------------
(* The step record.                                                        *)

NewStepRecord(history) ==
  [publishedLen |-> Len(history), base |-> <<>>, injected |-> <<>>]

Replaced_KeepsLen(r, compacted) == r

Replaced(r, compacted) == [r EXCEPT !.publishedLen = Len(compacted)]

SentOn(r, h) == [r EXCEPT !.base = h]

Spliced(r, parts) ==
  [r EXCEPT !.publishedLen = @ + Len(parts), !.injected = parts]

(* A step landed on h: the parts nobody was told of yet, and the record.   *)
NewParts(r, h) == SubSeq(h, r.publishedLen + 1, Len(h))

Finished(r, h) == [r EXCEPT !.publishedLen = Len(h), !.injected = <<>>]

(* The history of a step that was sent and never landed: what was injected *)
(* at its boundary, on what it was injected into.                          *)
Salvaged_Nothing(r, landed) == landed

Salvaged(r, landed) ==
  IF r.injected = <<>> THEN landed ELSE r.base \o r.injected

-----------------------------------------------------------------------------
(* Events.                                                                 *)

Told(parts) == [type |-> "append", parts |-> parts]

ReplacedBy(parts) == [type |-> "replace", parts |-> parts]

Apply(c, ev) == IF ev.type = "append" THEN c \o ev.parts ELSE ev.parts

(* The history c after each of the events, and what run() will hold once   *)
(* it has handled what it was told.                                        *)
Hears(c, evs) ==
  LET after[n \in 0 .. Len(evs)] == IF n = 0 THEN c ELSE Apply(after[n - 1], evs[n])
  IN after[Len(evs)]

Known == Hears(contents, events)

(* sendEvent waits for room in the channel, unless nobody will drain it.   *)
SendEvent_Waits(ev) == Len(events) < EventCap /\ events' = Append(events, ev)

SendEvent(ev) ==
  \/ Len(events) < EventCap /\ events' = Append(events, ev)
  \/ runDone /\ UNCHANGED events

-----------------------------------------------------------------------------
(* run().                                                                  *)

TurnInit ==
  /\ contents = <<>> /\ events = <<>> /\ runDone = FALSE
  /\ pc = "idle" /\ kind = "prompt" /\ ctxDone = FALSE
  /\ hist = <<>> /\ caller = <<>> /\ full = <<>>
  /\ rec = NewStepRecord(<<>>)
  /\ step = 0 /\ resumes = 0 /\ heavy = FALSE
  /\ nextId = 1
  /\ echoed = {} /\ asked = {} /\ folded = {}

(* beginTask, and the copy of Contents the task goroutine starts from.     *)
Start(k) ==
  /\ pc = "idle" /\ ~runDone /\ Room(3)
  /\ kind' = k /\ pc' = "open" /\ ctxDone' = FALSE
  /\ hist' = contents /\ caller' = contents /\ full' = <<>>
  /\ UNCHANGED <<runSide, events, rec, step, resumes, heavy, nextId, turnGhosts>>

Cancel ==
  /\ pc # "idle" /\ ~ctxDone
  /\ ctxDone' = TRUE
  /\ UNCHANGED <<runSide, events, pc, hist, taskSide, nextId, turnGhosts>>

(* Every event of this task is handled before or with its result, because  *)
(* a select may see the result first (flushPendingEvents).                 *)
TakeEvent ==
  /\ ~runDone /\ events # <<>>
  /\ contents' = Apply(contents, Head(events))
  /\ events' = Tail(events)
  /\ UNCHANGED <<runDone, pc, ctxDone, hist, taskSide, nextId, turnGhosts>>

(* What the task returns: nothing landed leaves the caller's history.      *)
Result == IF full = <<>> THEN caller ELSE full

TakeResult ==
  /\ ~runDone /\ pc = "ended"
  /\ contents' = IF Result = <<>> THEN Known ELSE Result
  /\ events' = <<>>
  /\ pc' = "idle"
  /\ UNCHANGED <<runDone, ctxDone, hist, taskSide, nextId, turnGhosts>>

(* run() leaves while a task is in flight only when the session's context  *)
(* is done, and the task's context derives from it.                        *)
RunExit ==
  /\ ~runDone
  /\ runDone' = TRUE /\ ctxDone' = TRUE
  /\ UNCHANGED <<contents, events, pc, hist, taskSide, nextId, turnGhosts>>

-----------------------------------------------------------------------------
(* The task: before the agent loop.                                        *)

(* A :continue with nothing to resend ends.  A :summarize, and a task that *)
(* starts over the threshold, summarizes first.                            *)
Open ==
  /\ pc = "open"
  /\ \/ kind = "continue" /\ hist = <<>> /\ pc' = "ended"
     \/ kind = "prompt" /\ pc' = "prompt"
     \/ kind = "continue" /\ hist # <<>> /\ pc' = "prompt"
     \/ (kind = "summarize" \/ hist # <<>>) /\ pc' = "summarize"
  /\ UNCHANGED <<runSide, events, ctxDone, hist, taskSide, nextId, turnGhosts>>

(* A summary is the request it answers and its text.                       *)
Summary == <<User(nextId), Part(nextId + 1, "assistant")>>

Fold(summary) ==
  /\ Room(3)
  /\ hist' = summary
  /\ nextId' = nextId + 2
  /\ folded' = folded \cup ToSet(hist)

(* The task-start summarize.  A failure ends the task on the history it    *)
(* had.  That of :summarize is told to run() only as the task's result.    *)
OpeningSummary ==
  /\ pc = "summarize"
  /\ \/ /\ pc' = "ended"
        /\ UNCHANGED <<events, hist, caller, nextId, folded>>
     \/ /\ Fold(Summary)
        /\ caller' = Summary
        /\ IF kind = "summarize"
           THEN pc' = "ended" /\ UNCHANGED events
           ELSE pc' = "prompt" /\ SendEvent(ReplacedBy(Summary))
  /\ UNCHANGED <<runSide, ctxDone, kind, full, rec, step, resumes, heavy,
                 echoed, asked>>

(* processPrompt's locals.  Only this task's own usage counts for its      *)
(* mid-task summarize.                                                     *)
NewLoop_KeepsUsage(h) ==
  /\ rec' = NewStepRecord(h) /\ step' = 1 /\ resumes' = 0
  /\ UNCHANGED heavy

NewLoop(h) ==
  /\ rec' = NewStepRecord(h) /\ step' = 1 /\ resumes' = 0
  /\ heavy' = FALSE

(* The parts of a fresh prompt, or the "Continue" of a :continue whose     *)
(* history ends on the model, are numbered, echoed, appended and told.     *)
Prompt ==
  /\ pc = "prompt"
  /\ LET parts == IF kind = "prompt" \/ EndsOnAssistant(hist)
                  THEN <<User(nextId)>> ELSE <<>>
     IN /\ hist' = hist \o parts /\ caller' = hist'
        /\ nextId' = nextId + Len(parts)
        /\ echoed' = echoed \cup ToSet(parts)
        /\ IF parts = <<>> THEN UNCHANGED events ELSE SendEvent(Told(parts))
        /\ NewLoop(hist')
  /\ pc' = "boundary"
  /\ UNCHANGED <<runSide, ctxDone, kind, full, asked, folded>>

-----------------------------------------------------------------------------
(* The task: one step of the agent loop.                                   *)

Boundary ==
  /\ pc = "boundary"
  /\ pc' = IF heavy THEN "compact" ELSE "splice"
  /\ UNCHANGED <<runSide, events, ctxDone, hist, taskSide, nextId, turnGhosts>>

(* compactForContinuation.  A failure ends the task.                       *)
Compact ==
  /\ pc = "compact"
  /\ \/ /\ pc' = "failed"
        /\ UNCHANGED <<events, hist, rec, nextId, folded>>
     \/ /\ Fold(Summary)
        /\ SendEvent(ReplacedBy(Summary))
        /\ rec' = Replaced(rec, Summary)
        /\ pc' = "splice"
  /\ UNCHANGED <<runSide, ctxDone, kind, caller, full, step, resumes, heavy,
                 echoed, asked>>

(* The user parts the next request needs: steering if any waits, else a    *)
(* "Continue" when the history ends on the model.                          *)
StepUserParts ==
  IF EndsOnAssistant(hist) THEN {<<User(nextId)>>}
  ELSE {<<>>} \cup (IF Room(1) THEN {<<User(nextId)>>} ELSE {})

Splice ==
  /\ pc = "splice"
  /\ \E parts \in StepUserParts :
       /\ hist' = hist \o parts
       /\ nextId' = nextId + Len(parts)
       /\ echoed' = echoed \cup ToSet(parts)
       /\ IF parts = <<>>
          THEN rec' = SentOn(rec, hist) /\ UNCHANGED events
          ELSE /\ SendEvent(Told(parts))
               /\ rec' = Spliced(SentOn(rec, hist), parts)
  /\ pc' = "send"
  /\ UNCHANGED <<runSide, ctxDone, kind, caller, full, step, resumes, heavy,
                 asked, folded>>

(* The request goes out, or is not made on a finished context.             *)
Send ==
  /\ pc = "send"
  /\ IF ctxDone
     THEN pc' = "failed" /\ UNCHANGED asked
     ELSE pc' = "stream" /\ asked' = asked \cup ToSet(hist)
  /\ UNCHANGED <<runSide, events, ctxDone, hist, taskSide, nextId, echoed,
                 folded>>

(* OnStepFinish on what this step recorded.                                *)
FinishStep(output) ==
  /\ Room(Len(output) + 1)
  /\ hist' = hist \o output /\ full' = hist'
  /\ nextId' = nextId + Len(output)
  /\ SendEvent(Told(NewParts(rec, hist')))
  /\ rec' = Finished(rec, hist')
  /\ heavy' \in BOOLEAN

NextStep == step' = step + 1 /\ pc' = "boundary"

(* The step lands.  A truncated answer and a last step that still calls    *)
(* tools end the task with an error.                                       *)
StepLands ==
  /\ pc = "stream"
  /\ \E output \in Outputs(nextId) :
       /\ FinishStep(output)
       /\ \/ pc' = "failed" /\ UNCHANGED step
          \/ ~CallsTools(output) /\ pc' = "done" /\ UNCHANGED step
          \/ CallsTools(output) /\ step < MaxSteps /\ NextStep
  /\ resumes' = 0
  /\ UNCHANGED <<runSide, ctxDone, kind, caller, turnGhosts>>

(* resumeStep: a budget of resumes in a row, and of steps; never a cancel. *)
Resumable_NoBudget == step < MaxSteps /\ ~ctxDone

Resumable == resumes < MaxResumes /\ step < MaxSteps /\ ~ctxDone

(* The step fails.  What it salvaged is finished like a step; a step that  *)
(* salvaged nothing is not.  Only a stream that had opened a block is cut, *)
(* and only a cut one is resumed.                                          *)
Fail ==
  /\ pc = "stream"
  /\ \E salvage \in {<<>>} \cup Outputs(nextId), cut \in BOOLEAN :
       /\ salvage # <<>> => cut
       /\ IF salvage = <<>>
          THEN UNCHANGED <<events, hist, full, rec, heavy, nextId>>
          ELSE FinishStep(salvage)
       /\ pc' = IF cut /\ Resumable THEN "wait" ELSE "failed"
  /\ UNCHANGED <<runSide, ctxDone, kind, caller, step, resumes, turnGhosts>>

(* The wait before a resume, which a cancel interrupts.                    *)
Resume ==
  /\ pc = "wait"
  /\ \/ NextStep /\ resumes' = resumes + 1
     \/ ctxDone /\ pc' = "failed" /\ UNCHANGED <<step, resumes>>
  /\ UNCHANGED <<runSide, events, ctxDone, hist, kind, caller, full, rec,
                 heavy, nextId, turnGhosts>>

(* processPrompt returns, and its caller sends the result.  The channel    *)
(* has room: one task, one result.                                         *)
TaskReturns ==
  /\ pc \in {"done", "failed"}
  /\ full' = IF pc = "failed" THEN Salvaged(rec, full) ELSE full
  /\ pc' = "ended"
  /\ UNCHANGED <<runSide, events, ctxDone, hist, kind, caller, rec, step,
                 resumes, heavy, nextId, turnGhosts>>

-----------------------------------------------------------------------------
ModelSteps == OpeningSummary \/ Compact \/ StepLands \/ Fail

TaskAlone == Open \/ Prompt \/ Boundary \/ Splice \/ Send \/ Resume \/ TaskReturns

RunWorks == TakeEvent \/ TakeResult

(* Nothing more to do: the bound on parts is reached, or run() has left.   *)
Rests == (runDone \/ (pc = "idle" /\ ~Room(3))) /\ UNCHANGED turnVars

TurnNext == \/ \E k \in {"prompt", "continue", "summarize"} : Start(k)
            \/ Cancel \/ RunExit \/ RunWorks \/ ModelSteps \/ TaskAlone \/ Rests

TurnSpec == TurnInit /\ [][TurnNext]_turnVars

-----------------------------------------------------------------------------
(* Properties.                                                             *)

Parts == [id : 1 .. MaxId, role : {"user", "assistant", "tool"}]

Pcs == {"idle", "open", "summarize", "prompt", "boundary", "compact", "splice",
        "send", "stream", "wait", "done", "failed", "ended"}

(* Every variable keeps to its type.                                       *)
TurnTypeOK ==
  /\ {contents, hist, caller, full} \subseteq Seq(Parts)
  /\ rec \in [publishedLen : Nat, base : Seq(Parts), injected : Seq(Parts)]
  /\ events \in Seq([type : {"append", "replace"}, parts : Seq(Parts)])
  /\ Len(events) <= EventCap
  /\ pc \in Pcs /\ kind \in {"prompt", "continue", "summarize"}
  /\ runDone \in BOOLEAN /\ ctxDone \in BOOLEAN /\ heavy \in BOOLEAN
  /\ step \in 0 .. MaxSteps /\ resumes \in 0 .. MaxResumes
  /\ nextId \in 1 .. MaxId + 1
  /\ {echoed, asked, folded} \subseteq SUBSET Parts

(* While a task works, what run() was told adds up to the history the task *)
(* is on: a :save or :fork in mid-task sees what the transcript shows.     *)
LiveAgrees ==
  ~runDone /\ pc \notin {"idle", "ended"} => Known = hist

(* The result that replaces Contents adds nothing to what run() was told   *)
(* and leaves nothing out, though it may say a part again (TurnDocs).      *)
ResultCovers ==
  ~runDone /\ pc = "ended" /\ kind # "summarize" =>
    IsPrefix(Known, Result) /\ ToSet(Result) = ToSet(Known)

(* An id the adapter was shown resolves: the part is in the conversation   *)
(* unless a summary has replaced it, whatever became of its step.          *)
EchoResolves ==
  ~runDone =>
    /\ echoed \ folded \subseteq ToSet(Known)
    /\ pc = "ended" => echoed \ folded \subseteq ToSet(Result)

(* A request never ends on the model's own words.                          *)
RequestEndsOnUser == pc = "stream" => ~EndsOnAssistant(hist)

(* A mid-task summary never swallows words the model has not been asked:   *)
(* it comes before the splice, and only after a step of this task.         *)
FoldsOnlyAsked == pc = "compact" => echoed \cap ToSet(hist) \subseteq asked

(* run(), the task goroutine and the adapter agree on the history, while   *)
(* the task works and when it leaves its result.                           *)
HistoriesAgree == TurnTypeOK /\ LiveAgrees /\ ResultCovers /\ EchoResolves

(* What a request ends on, and what a summary may swallow.                 *)
RequestsAreDue == RequestEndsOnUser /\ FoldsOnlyAsked
=============================================================================
