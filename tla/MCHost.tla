------------------------------- MODULE MCHost -------------------------------
(***************************************************************************)
(* What a session stands on, each part by itself on small instances: how   *)
(* input reaches it (InputPump and, byte by byte, Lines), what a model is  *)
(* sent and says (Request and Provider, for either API), which model that  *)
(* is (Settings, with a session file and without), the tools that reach the*)
(* machine (Commands and Files), the file a session is kept in             *)
(* (SessionFile), and the tokens an MCP server is reached with (MCPTokens).*)
(* And the adapters that have no screen: what they print (Answer and       *)
(* PlainOutput) and how they get an MCP server authorized (AuthFlow).      *)
(* part says which of them a behaviour is of; the variables of the others  *)
(* stay at "-", or as they start where this module extends the part's own, *)
(* so that a run checks the property a theorem is about.                   *)
(***************************************************************************)
EXTENDS Settings, MCPTokens, InputPump, Headless, Integers, Sequences

VARIABLES
  part,
  raw, open, mode, d,
  attempt, said, parser, blocks, begun, completed, record, canceled, shown,
  history, declared,
  ctx, proc, code, heir, pipes, wrote, held, snap, lastWriter, dirty, lastSent, answer,
  exists, writable, ask, ed, changed,
  up, contents, counter, name, temp, given, runs,
  pc

(* sent is a name of InputPump and Lines, pc of Provider and Files, disk   *)
(* and told of Settings, Files and SessionFile, file of Settings and Files.*)
ofPump     == <<issued, written, names, pipe, taken, staged, msgs, handled, pump, loop, nameless>>
ofLines    == <<raw, open, mode, d>>
ofStream   == <<attempt, said, parser, blocks, begun, completed, record, canceled, shown>>
ofRequest  == <<history, declared>>
ofSettings == <<hasFile, conf, other, models, active, rm, saving, meta, level, agent, chosen, changes>>
ofCommand  == <<ctx, proc, code, heir, pipes, wrote, held, snap, lastWriter, dirty, lastSent, answer>>
ofFiles    == <<exists, writable, ask, ed, changed>>
ofSession  == <<up, contents, counter, name, temp, given, runs>>
ofAnswer   == <<inProgress, noDelta, phase, spoken, message, spliced, failed, taskStarted, hasError,
                finalText, finalTextID, finalFlushed, lastMsgHasText, stdout, stdin, exitCh,
                sigint, waitCode, exit>>
ofPlain    == <<whole, parts, printed, working, lastTag, lastHistoryID, seenDelta, line, glued, hushed>>
ofFlow     == <<manual, needs, over, flow, halted, listening, slot, first, submitted, offered>>
ofAdapter  == <<ofAnswer, ofPlain, ofFlow>>

NoPump ==
  /\ issued = <<>> /\ written = <<>> /\ names = {} /\ pipe = "open" /\ taken = <<>>
  /\ staged = <<>> /\ msgs = <<>> /\ handled = 0 /\ pump = "reading" /\ loop = "running"
  /\ nameless = {}
NoLines ==
  /\ raw = "-" /\ open = "-" /\ mode = "-" /\ d = "-"
NoStream ==
  /\ attempt = "-" /\ said = "-" /\ parser = "-" /\ blocks = "-" /\ begun = "-"
  /\ completed = "-" /\ record = "-" /\ canceled = "-" /\ shown = "-"
NoRequest ==
  /\ history = "-" /\ declared = "-"
NoSettings ==
  /\ hasFile = FALSE /\ agent = None
  /\ conf = "-" /\ other = "-" /\ models = "-" /\ active = "-" /\ rm = "-" /\ saving = "-"
  /\ meta = "-" /\ level = "-" /\ chosen = "-" /\ changes = "-"
NoCommand ==
  /\ ctx = "-" /\ proc = "-" /\ code = "-" /\ heir = "-" /\ pipes = "-" /\ wrote = "-"
  /\ held = "-" /\ snap = "-" /\ lastWriter = "-" /\ dirty = "-" /\ lastSent = "-"
  /\ answer = "-"
NoFiles ==
  /\ exists = "-" /\ writable = "-" /\ ask = "-" /\ ed = "-" /\ changed = "-"
NoSession ==
  /\ up = "-" /\ contents = "-" /\ counter = "-" /\ name = "-" /\ temp = "-" /\ given = "-"
  /\ runs = "-"
NoAnswer == AnswerInit /\ ~noDelta
NoPlain == PlainInit /\ ~whole
NoFlow == FlowInit /\ ~manual
NoAdapter == NoAnswer /\ NoPlain /\ NoFlow

-----------------------------------------------------------------------------
(* Frames of one client, some of them wrong; an adapter's goroutines.      *)
Plain == INSTANCE InputPump WITH Writers <- "plain"
Stream == INSTANCE Lines WITH Limit <- 4, Chunk <- 3, MaxBytes <- 6

Small == [is |-> "medium", kind |-> "image", uri |-> "data", fit |-> "fits"]
SomeMedia ==
  {Small, [Small EXCEPT !.fit = "large"], [Small EXCEPT !.fit = "odd"],
   [Small EXCEPT !.uri = "path"], [Small EXCEPT !.kind = "audio", !.uri = "http"],
   [Small EXCEPT !.kind = "document"]}
Anthropic == INSTANCE Provider WITH
  Api <- "anthropic", Indices <- {0, 1}, LateIds <- FALSE, MaxRetries <- 1, MaxEvents <- 4
(* openai.go: an index may be negative; it sorts before text.              *)
OpenAI == INSTANCE Provider WITH
  Api <- "openai", Indices <- {-1, 1}, LateIds <- FALSE, MaxRetries <- 1, MaxEvents <- 4
ToAnthropic == INSTANCE Request WITH Api <- "anthropic", Media <- SomeMedia, MaxParts <- 6
ToOpenAI == INSTANCE Request WITH Api <- "openai", Media <- SomeMedia, MaxParts <- 6

(* Models gone, rejected, twice there, and one no provider is built for.   *)
Model(n) == [name |-> n, ok |-> TRUE]
Rejected(n) == [name |-> n, ok |-> FALSE]
SomeConfs ==
  {<<>>, <<Model("a"), Model("b")>>, <<Model("b"), Rejected("a")>>, <<Rejected("a")>>,
   <<Model("x"), Model("b"), Model("b"), Model("a")>>}
Command == INSTANCE Commands WITH
  Tool <- "execute_command", Bytes <- {"x", "n"}, Budget <- 2, PreviewLen <- 2, MaxBytes <- 3,
  Chunk <- 2
Searching == INSTANCE Commands WITH
  Tool <- "search_content", Bytes <- {"x", "L", "C", "n", "r"}, Budget <- 2, PreviewLen <- 2,
  MaxBytes <- 3, Chunk <- 2

(* Matches across chunks, twice, and none; lines around the page's budget. *)
FileTexts ==
  {<<>>, <<"a", "b">>, <<"a", "a", "b">>, <<"b", "a", "n">>, <<"a", "b", "a", "b">>,
   <<"a", "n", "n", "b", "a">>,
   <<"a", "a", "a", "a", "n", "a">>}
SomeCalls ==
  {[do |-> "edit", old |-> o, new |-> n] :
     o \in {<<"a">>, <<"a", "b">>, <<"a", "a", "b">>}, n \in {<<>>, <<"b", "a">>}}
  \cup {[do |-> "write", new |-> <<"b", "n">>]}
  \cup {[do |-> "read", start |-> s, num |-> 0] : s \in {0, 1, 2}}
  \cup {[do |-> "read", start |-> 1, num |-> 1]}
OnOneFile == INSTANCE Files WITH
  Calls <- {"first", "second"}, Asked <- SomeCalls, Contents <- FileTexts, Chunk <- 2, Budget <- 3

(* Steps with calls answered out of order and parts that can not be        *)
(* written; files of this and of older generations, good and bad.          *)
Piece(is, call, how) == [is |-> is, call |-> call, how |-> how]
Words == Piece("user", "", "well")
Call(c) == Piece("call", c, "well")
Result(c) == Piece("result", c, "well")
SomeSteps ==
  {<<Words>>,
   <<Call("c1"), Piece("call", "c2", "broken"), Piece("result", "c1", "odd"), Result("c2")>>}
Line(tag, type, call) == [tag |-> tag, type |-> type, call |-> call, how |-> "well"]
FileOf(version, framing, frames) ==
  [there |-> TRUE, version |-> version, framing |-> framing, front |-> <<"q", "a", "q">>,
   frames |-> frames]
Was == <<Words, Piece("thought", "", "well"), Call("c1"), Result("c1")>>
Old(f, frames) == [file |-> f, stands |-> frames, good |-> frames # <<>>]
SomeOlds ==
  {Old([there |-> FALSE], <<>>),
   Old(FileOf(13, "lengths", <<Line("UT", "", ""), Line("AR", "", ""), Line("AF", "", "c1"),
                               Line("UF", "", "c1")>>), Was),
   Old(FileOf(15, "lines", <<Line("UX", "user", ""), Line("AX", "thought", ""),
                             Line("AF", "call", "c1"), Line("UF", "result", "c1")>>), Was),
   Old(FileOf(18, "lines", <<Line("UX", "user", ""), Line("UE", "", "")>>), <<>>),
   Old(FileOf(18, "lines", <<Line("AX", "user", "")>>), <<>>),
   Old(FileOf(18, "lines", <<Line("UX", "user", ""), Line("AX", "text", ""),
                             Line("AF", "call", "c9")>>),
       <<Words, Piece("text", "", "well"), Call("c9")>>),
   Old(FileOf(18, "lines", <<Line("AF", "call", ""), Line("AF", "call", "c9"),
                             Line("UX", "user", "")>>), <<Call("c9"), Words>>)}
Kept == INSTANCE SessionFile WITH
  Names <- {<<"q", "b", "n", "N", "b">>}, Olds <- SomeOlds, Steps <- SomeSteps, MaxParts <- 5,
  MaxRuns <- 2

-----------------------------------------------------------------------------
InputParts == {"raw", "plain"}
StreamParts == {"anthropic", "openai"}
RequestParts == {"to anthropic", "to openai"}
CommandParts == {"command", "search"}
AdapterParts == {"answer", "printer", "asking"}

PartInit ==
  \/ /\ part \in InputParts /\ PumpInit
     /\ pc = "-" /\ disk = "-" /\ told = "-" /\ file = "-"
     /\ NoLines /\ NoStream /\ NoRequest /\ NoSettings /\ NoCommand /\ NoFiles /\ NoSession /\ NoAdapter
  \/ /\ part = "lines" /\ Stream!LinesInit
     /\ pc = "-" /\ disk = "-" /\ told = "-" /\ file = "-"
     /\ NoPump /\ NoStream /\ NoRequest /\ NoSettings /\ NoCommand /\ NoFiles /\ NoSession /\ NoAdapter
  \/ /\ part \in StreamParts
     /\ part = "anthropic" => Anthropic!ProviderInit
     /\ part = "openai" => OpenAI!ProviderInit
     /\ sent = "-" /\ disk = "-" /\ told = "-" /\ file = "-"
     /\ NoPump /\ NoLines /\ NoRequest /\ NoSettings /\ NoCommand /\ NoFiles /\ NoSession /\ NoAdapter
  \/ /\ part \in RequestParts /\ ToAnthropic!RequestInit
     /\ sent = "-" /\ pc = "-" /\ disk = "-" /\ told = "-" /\ file = "-"
     /\ NoPump /\ NoLines /\ NoStream /\ NoSettings /\ NoCommand /\ NoFiles /\ NoSession /\ NoAdapter
  \/ /\ part = "settings" /\ SettingsInit
     /\ sent = "-" /\ pc = "-"
     /\ NoPump /\ NoLines /\ NoStream /\ NoRequest /\ NoCommand /\ NoFiles /\ NoSession /\ NoAdapter
  \/ /\ part \in CommandParts /\ Command!CommandsInit
     /\ sent = "-" /\ pc = "-" /\ disk = "-" /\ told = "-" /\ file = "-"
     /\ NoPump /\ NoLines /\ NoStream /\ NoRequest /\ NoSettings /\ NoFiles /\ NoSession /\ NoAdapter
  \/ /\ part = "files" /\ OnOneFile!FilesInit /\ sent = "-"
     /\ NoPump /\ NoLines /\ NoStream /\ NoRequest /\ NoSettings /\ NoCommand /\ NoSession /\ NoAdapter
  \/ /\ part = "session file" /\ Kept!SessionFileInit /\ sent = "-" /\ pc = "-" /\ file = "-"
     /\ NoPump /\ NoLines /\ NoStream /\ NoRequest /\ NoSettings /\ NoCommand /\ NoFiles /\ NoAdapter
  \/ /\ part = "tokens"
     /\ sent = "-" /\ pc = "-" /\ disk = "-" /\ told = "-" /\ file = "-"
     /\ NoPump /\ NoLines /\ NoStream /\ NoRequest /\ NoSettings /\ NoCommand /\ NoFiles /\ NoSession /\ NoAdapter
  \/ /\ part \in AdapterParts
     /\ part = "answer" => AnswerInit /\ NoPlain /\ NoFlow
     /\ part = "printer" => PlainInit /\ NoAnswer /\ NoFlow
     /\ part = "asking" => FlowInit /\ NoAnswer /\ NoPlain
     /\ sent = "-" /\ pc = "-" /\ disk = "-" /\ told = "-" /\ file = "-"
     /\ NoPump /\ NoLines /\ NoStream /\ NoRequest /\ NoSettings /\ NoCommand /\ NoFiles /\ NoSession

Init == PartInit /\ TokensInit

PartNext ==
  \/ /\ \/ part = "raw" /\ PumpNext
        \/ part = "plain" /\ Plain!PumpNext
     /\ UNCHANGED <<part, pc, disk, told, file>>
     /\ UNCHANGED <<ofLines, ofStream, ofRequest, ofSettings, ofCommand, ofFiles, ofSession, ofAdapter>>
  \/ /\ part = "lines" /\ Stream!Next
     /\ UNCHANGED <<part, pc, disk, told, file>>
     /\ UNCHANGED <<ofPump, ofStream, ofRequest, ofSettings, ofCommand, ofFiles, ofSession, ofAdapter>>
  \/ /\ \/ part = "anthropic" /\ Anthropic!ProviderNext
        \/ part = "openai" /\ OpenAI!ProviderNext
     /\ UNCHANGED <<part, sent, disk, told, file>>
     /\ UNCHANGED <<ofPump, ofLines, ofRequest, ofSettings, ofCommand, ofFiles, ofSession, ofAdapter>>
  \/ /\ \/ part = "to anthropic" /\ ToAnthropic!RequestNext
        \/ part = "to openai" /\ ToOpenAI!RequestNext
     /\ UNCHANGED <<part, sent, pc, disk, told, file>>
     /\ UNCHANGED <<ofPump, ofLines, ofStream, ofSettings, ofCommand, ofFiles, ofSession, ofAdapter>>
  \/ /\ part = "settings" /\ SettingsNext
     /\ UNCHANGED <<part, sent, pc>>
     /\ UNCHANGED <<ofPump, ofLines, ofStream, ofRequest, ofCommand, ofFiles, ofSession, ofAdapter>>
  \/ /\ \/ part = "command" /\ Command!CommandsNext
        \/ part = "search" /\ Searching!CommandsNext
     /\ UNCHANGED <<part, sent, pc, disk, told, file>>
     /\ UNCHANGED <<ofPump, ofLines, ofStream, ofRequest, ofSettings, ofFiles, ofSession, ofAdapter>>
  \/ /\ part = "files" /\ OnOneFile!FilesNext
     /\ UNCHANGED <<part, sent>>
     /\ UNCHANGED <<ofPump, ofLines, ofStream, ofRequest, ofSettings, ofCommand, ofSession, ofAdapter>>
  \/ /\ part = "session file" /\ Kept!SessionFileNext
     /\ UNCHANGED <<part, sent, pc, file>>
     /\ UNCHANGED <<ofPump, ofLines, ofStream, ofRequest, ofSettings, ofCommand, ofFiles, ofAdapter>>
  \/ /\ \/ part = "answer" /\ AnswerNext /\ UNCHANGED <<ofPlain, ofFlow>>
        \/ part = "printer" /\ PlainNext /\ UNCHANGED <<ofAnswer, ofFlow>>
        \/ part = "asking" /\ FlowNext /\ UNCHANGED <<ofAnswer, ofPlain>>
     /\ UNCHANGED <<part, sent, pc, disk, told, file>>
     /\ UNCHANGED <<ofPump, ofLines, ofStream, ofRequest, ofSettings, ofCommand, ofFiles,
                    ofSession>>

PartVars == <<ofPump, ofLines, ofStream, ofRequest, ofSettings, ofCommand, ofFiles,
              ofSession, ofAdapter, sent, pc, disk, told, file>>

(* A disturbed behaviour of MCPTokens is not followed: TokenKept says      *)
(* nothing of it.                                                          *)
Next ==
  \/ PartNext /\ UNCHANGED tokenVars
  \/ part = "tokens" /\ ~disturbed /\ TokensNext /\ UNCHANGED <<part, PartVars>>

hostVars == <<part, PartVars, tokenVars>>
input == <<ofPump, sent>>

IsInput == part \in InputParts

(* Goroutines get their turn; run() returns once its input has ended, and  *)
(* the adapter then closes the pipe.                                       *)
PumpFairness ==
  /\ \A e \in 1..3 :
       /\ WF_input(part = "raw" /\ e \in Entries /\ GoesOn(e))
       /\ WF_input(part = "plain" /\ e \in Plain!Entries /\ Plain!GoesOn(e))
  /\ WF_input(IsInput /\ PumpSend) /\ WF_input(IsInput /\ PumpEOF)
  /\ WF_input(IsInput /\ LoopTake) /\ WF_input(IsInput /\ LoopSeesClosed)
  /\ WF_input(IsInput /\ loop = "ending" /\ RunReturns)
  /\ WF_input(part = "raw" /\ loop = "returned" /\ ClosePipe)
  /\ WF_input(part = "plain" /\ loop = "returned" /\ Plain!ClosePipe)

(* The exec package lets pipes go after WaitDelay, and Wait returns.       *)
CommandsFairness ==
  /\ WF_ofCommand(part = "command" /\ Command!WaitDelay)
  /\ WF_ofCommand(part = "command" /\ Command!Drained)
  /\ WF_ofCommand(part = "command" /\ Command!Answer)

Spec == Init /\ [][Next]_hostVars /\ PumpFairness /\ CommandsFairness

-----------------------------------------------------------------------------
(* What crosses a wire is what was meant.  Lines: however the bytes were   *)
(* cut, a reader hands over the stream's lines, and says which one it      *)
(* refused.  Provider: what the server said is what is recorded and run, a *)
(* stream that stopped early is no finished answer, and one attempt shows. *)
(* Request: no history makes a request its API refuses for its shape or for*)
(* a medium in it, and no medium is dropped without a word.                *)
WireIsTrue ==
  /\ part = "lines" => Stream!LinesAreTheStreams
  /\ part = "anthropic" => /\ Anthropic!RecordIsTheAnswer /\ Anthropic!CutIsNoAnswer
                           /\ Anthropic!OneAttemptShows
  /\ part = "openai" => /\ OpenAI!RecordIsTheAnswer /\ OpenAI!CutIsNoAnswer
                        /\ OpenAI!OneAttemptShows
  /\ part = "to anthropic" => /\ ToAnthropic!WellFormed /\ ToAnthropic!NothingRejected
                              /\ ToAnthropic!NothingSwallowed
  /\ part = "to openai" => /\ ToOpenAI!WellFormed /\ ToOpenAI!NothingRejected
                           /\ ToOpenAI!NothingSwallowed

(* Commands: an answer is the output whole or says that it is cut, a search*)
(* that failed is no "no matches", the preview is the line a terminal would*)
(* show.  Files: the pages of a read are the file.                         *)
ToolAnswersAreTrue ==
  /\ part = "command" => Command!AnswerIsTheOutput /\ Command!PreviewIsTheLine
  /\ part = "search" => /\ Searching!AnswerIsTheOutput /\ Searching!IncompleteIsSaid
                        /\ Searching!PreviewIsTheLine
  /\ part = "files" => OnOneFile!PagesAreTheFile

(* Files: a change is what was asked, of the file as it was, and no read   *)
(* sees one half done.                                                     *)
ChangesAreExact ==
  [][part = "files" => OnOneFile!EditsAreExact /\ OnOneFile!ReadsAreWhole]_hostVars

(* SessionFile: the session opened is the session saved, whatever crashed. *)
LoadIsWhatWasSaved == [][part = "session file" => Kept!LoadIsWhatWasSaved]_hostVars
(* SessionFile: a fork holds no call without its result.                   *)
ForkIsPaired == part = "session file" => Kept!ForkIsPaired

(* InputPump: a goroutine that writes does not hang.  Commands: a command  *)
(* that ended or was stopped is answered, whatever it left behind.         *)
CallsReturn ==
  /\ \A e \in 1..3 : (IsInput /\ e \in Entries) ~> (IsInput => e \in Entries /\ ~Left(e))
  /\ (part = "command" /\ (proc = "gone" \/ ctx # "live")) ~> (part = "command" => ~Command!Open)
=============================================================================
