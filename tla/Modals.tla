------------------------------- MODULE Modals -------------------------------
(* Who has the keyboard (internal/adapters/terminal: tui.go, tui_focus.go,   *)
(* input_layers.go, keybinds.go, confirm_dialog.go, filtered_list.go,        *)
(* session_state.go): two panes, four selector overlays, the confirmation    *)
(* dialog and the MCP box, opened by keys and by what the session asks.      *)
(* The terminal is the record m, passed and returned as in the code; m.out   *)
(* is the output writer's status, which the session writes, and m.pipe the   *)
(* commands whose goroutines have not written them yet (those that ask the   *)
(* session for nothing it does here, such as :model_set and :mcp_skip, are   *)
(* left out).                                                                *)
EXTENDS Integers, Sequences, FiniteSets, SequencesExt

CONSTANTS MaxTools,      \* bound: tool confirmations asked
          MaxServers,    \* bound: MCP servers that ask to be authorized
          MaxTasks,      \* bound: tasks started
          Keys,          \* the keys pressed
          Texts          \* what is typed: "words", or a command

\* Bounds may be zero: a session without tools, servers or tasks.
ASSUME ModalsAssumption == MaxTools \in Nat /\ MaxServers \in Nat /\ MaxTasks \in Nat

VARIABLES m,             \* the Terminal
          asked,         \* how many tools and servers asked
          said,          \* answers given, per tool and per server
          life           \* the session: "initializing", "settled", "ready", "closed"

Commands == {":quit", ":cancel", ":cancel keep"}

(***************************************************************************)
(* Layers: the first that applies takes the key.                           *)
(***************************************************************************)
IsOpen(t) == t.confirm # "none"
IsBlocked(t) == t.overlay # "none" \/ IsOpen(t) \/ t.mcpInit

KeyboardTarget(t) ==
    CASE t.loading -> "nothing"
      [] ~t.loading /\ (IsOpen(t) \/ t.mcpInit) -> "modal"
      [] ~t.loading /\ ~IsOpen(t) /\ ~t.mcpInit /\ t.overlay # "none" ->
            IF t.filter THEN "overlay-filter" ELSE "overlay-list"
      [] OTHER -> t.focused

(***************************************************************************)
(* Focus.                                                                  *)
(***************************************************************************)
FocusPrompt(t) == [t EXCEPT !.focused = "input", !.lit = FALSE]
FocusDisplay(t) == [t EXCEPT !.focused = "display", !.lit = TRUE]
RestoreFocus(t) == IF t.focused = "display" THEN FocusDisplay(t) ELSE FocusPrompt(t)
RestoreFocusAfterConfirm_Never(t) == t
RestoreFocusAfterConfirm(t) ==
    IF t.overlay \in {"model", "theme", "help"} \/ t.mcpInit THEN t ELSE RestoreFocus(t)

OpenOverlay(t, o) == [t EXCEPT !.overlay = o, !.filter = TRUE, !.lit = FALSE]
OpenConfirm(t, kind, who) == [t EXCEPT !.confirm = kind, !.who = who, !.lit = FALSE]

Emit(t, command) == [t EXCEPT !.pipe = @ \cup {command}]
SubmitCommand(t, command, clear) ==
    [Emit(t, command) EXCEPT !.prompt = IF clear THEN "" ELSE @]

(***************************************************************************)
(* The answer of a dialog; it is closed before its answer is folded.       *)
(***************************************************************************)
Cleared(t, fromCmd) == [t EXCEPT !.prompt = IF fromCmd THEN "" ELSE @]

NextTool_Kept(t) ==
    IF t.out.tools = <<>> THEN t ELSE OpenConfirm(t, "tool", Head(t.out.tools))
NextTool(t) ==
    IF t.out.tools = <<>> THEN t
    ELSE OpenConfirm([t EXCEPT !.out.tools = Tail(@)], "tool", Head(t.out.tools))
NextAuth(t) ==
    IF t.out.auths = <<>> THEN t
    ELSE OpenConfirm([t EXCEPT !.out.auths = Tail(@)], "auth", Head(t.out.auths))

HandleConfirmQuit(t, yes, fromCmd) ==
    IF yes THEN Emit([t EXCEPT !.quitting = TRUE], ":quit")
    ELSE RestoreFocusAfterConfirm(Cleared(t, fromCmd))

HandleConfirmCancel(t, yes, fromCmd) ==
    LET back == RestoreFocusAfterConfirm(Cleared(t, fromCmd))
    IN  IF ~yes THEN back
        ELSE IF t.out.queued > 0 THEN [OpenConfirm(back, "steering", 0) EXCEPT !.fromCmd = fromCmd]
        ELSE SubmitCommand(back, ":cancel", fromCmd)

HandleConfirmCancelSteering(t, key, fromCmd) ==
    LET back == RestoreFocusAfterConfirm(t)
    IN  CASE key = "y" -> SubmitCommand(back, ":cancel", fromCmd)
          [] key = "n" -> SubmitCommand(back, ":cancel keep", fromCmd)
          [] OTHER -> back

HandleConfirmTool(t, fromCmd) == NextTool(RestoreFocusAfterConfirm(Cleared(t, fromCmd)))

HandleConfirmMCPAuth(t, key, fromCmd) ==
    LET gone == IF key = "ctrl+g" THEN [t EXCEPT !.out.auths = <<>>] ELSE t
    IN  NextAuth(RestoreFocusAfterConfirm(Cleared(gone, fromCmd)))

HandleConfirmQuitWaiting(t) == Emit([t EXCEPT !.quitCancelSent = TRUE], ":cancel")

\* The keys a dialog takes; the rest leave it as it is.
Takes(t, key) ==
    CASE t.confirm = "canceling" -> FALSE
      [] t.confirm = "waiting" -> key \in {"c", "ctrl+g"}
      [] t.confirm = "auth" -> key \in {"y", "n", "esc", "ctrl+g"}
      [] OTHER -> key \in {"y", "n", "esc"}

Closed_StillCmd(t) == [t EXCEPT !.confirm = "none", !.who = 0]
Closed(t) == [t EXCEPT !.confirm = "none", !.who = 0, !.fromCmd = FALSE]

HandleConfirmResult(t, key) ==
    LET c == Closed(t) IN
    CASE t.confirm = "quit" -> HandleConfirmQuit(c, key = "y", t.fromCmd)
      [] t.confirm = "cancel" -> HandleConfirmCancel(c, key = "y", t.fromCmd)
      [] t.confirm = "steering" -> HandleConfirmCancelSteering(c, key, t.fromCmd)
      [] t.confirm = "tool" -> HandleConfirmTool(c, t.fromCmd)
      [] t.confirm = "auth" -> HandleConfirmMCPAuth(c, key, t.fromCmd)
      [] OTHER -> HandleConfirmQuitWaiting(c)

(***************************************************************************)
(* Ticks.                                                                  *)
(***************************************************************************)
HandleQuitWaitingOverlay_NoKey(t) ==
    IF ~t.quitting \/ ~t.out.inProgress \/ IsOpen(t) THEN t ELSE [t EXCEPT !.confirm = "canceling"]
HandleQuitWaitingOverlay(t) ==
    IF ~t.quitting \/ ~t.out.inProgress \/ IsOpen(t) THEN t
    ELSE [t EXCEPT !.confirm = IF t.quitCancelSent THEN "canceling" ELSE "waiting"]

HandleMCPProgress_Reopens(t) ==
    IF t.out.ready THEN [t EXCEPT !.out.ready = FALSE, !.out.auths = <<>>, !.mcpInit = FALSE]
    ELSE [t EXCEPT !.mcpInit = @ \/ t.out.mcpStatus # ""]
\* The ready flag closes the box; else a tool, else a server may ask; else
\* progress opens the box.
HandleMCPProgress(t) ==
    LET seen == [t EXCEPT !.out.ready = FALSE, !.out.auths = <<>>] IN
    CASE t.out.ready -> IF t.mcpInit THEN RestoreFocusAfterConfirm([seen EXCEPT !.mcpInit = FALSE]) ELSE seen
      [] ~t.out.ready /\ ~IsOpen(t) /\ t.out.tools # <<>> ->
            [t EXCEPT !.out.tools = Tail(@), !.confirm = "tool", !.who = Head(t.out.tools)]
      [] ~t.out.ready /\ ~IsOpen(t) /\ t.out.tools = <<>> /\ t.out.auths # <<>> ->
            [t EXCEPT !.out.auths = Tail(@), !.confirm = "auth", !.who = Head(t.out.auths)]
      [] OTHER -> [t EXCEPT !.mcpInit = @ \/ t.out.mcpStatus = "connecting"]

HandlePostLoading(t) ==
    IF t.postLoading /\ ~IsBlocked(t) THEN RestoreFocus([t EXCEPT !.postLoading = FALSE])
    ELSE [t EXCEPT !.postLoading = FALSE]

HandleSessionClosed(t) == [t EXCEPT !.out.closed = FALSE, !.gone = TRUE]

TickWork(t) ==
    CASE t.loading -> t
      [] ~t.loading /\ t.out.closed -> HandleSessionClosed(t)
      [] OTHER -> HandlePostLoading(HandleMCPProgress(HandleQuitWaitingOverlay(t)))

HandleSessionLoaded(t) == HandleMCPProgress([t EXCEPT !.loading = FALSE, !.postLoading = TRUE])

(***************************************************************************)
(* Keys.                                                                   *)
(***************************************************************************)
HandleModal(t, key) ==
    IF IsOpen(t) THEN IF Takes(t, key) THEN HandleConfirmResult(t, key) ELSE t
    ELSE t

CloseOverlay(t) == RestoreFocus([t EXCEPT !.overlay = "none", !.filter = TRUE])

\* What a selector does with Tab, Esc, and Enter when it has a match.
HandleSelector(t, key) ==
    CASE key = "tab" -> [t EXCEPT !.filter = ~@]
      [] key = "esc" -> CloseOverlay(t)
      [] key = "enter" /\ t.overlay = "help" ->
            CloseOverlay([FocusPrompt(t) EXCEPT !.prompt = "command"])
      [] key = "enter" /\ t.overlay # "help" -> CloseOverlay(t)
      [] OTHER -> t

ToggleFocus(t) == IF t.focused = "display" THEN FocusPrompt(t) ELSE FocusDisplay(t)

HandleSubmit(t) ==
    CASE t.prompt = ":quit" -> [OpenConfirm(t, "quit", 0) EXCEPT !.fromCmd = TRUE]
      [] t.prompt = ":cancel" -> [OpenConfirm(t, "cancel", 0) EXCEPT !.fromCmd = TRUE]
      [] t.prompt = ":help" -> OpenOverlay([t EXCEPT !.prompt = ""], "help")
      [] OTHER -> [t EXCEPT !.prompt = ""]

HandlePromptKey(t, key) ==
    CASE key = "enter" -> HandleSubmit(t)
      [] key = "ctrl+a" -> OpenOverlay(t, "attach")
      [] key = "ctrl+c" -> [t EXCEPT !.prompt = ""]
      [] OTHER -> t

HandleDisplayKey(t, key) == IF key = ":" THEN [FocusPrompt(t) EXCEPT !.prompt = "command"] ELSE t

HandleGlobalKey(t, key) ==
    CASE key = "tab" -> ToggleFocus(t)
      [] key = "ctrl+g" -> [OpenConfirm(t, "cancel", 0) EXCEPT !.fromCmd = FALSE]
      [] key = "ctrl+l" -> OpenOverlay(t, "model")
      [] key = "ctrl+p" -> OpenOverlay(t, "theme")
      [] key = "ctrl+h" -> OpenOverlay(t, "help")
      [] key = "ctrl+s" -> [FocusPrompt(t) EXCEPT !.prompt = "command"]

GlobalKeys == {"tab", "ctrl+g", "ctrl+l", "ctrl+p", "ctrl+h", "ctrl+s"}

HandleKeyMsg(t, key) ==
    LET target == KeyboardTarget(t) IN
    CASE target = "nothing" -> t
      [] target = "modal" -> HandleModal(t, key)
      [] target \in {"overlay-filter", "overlay-list"} -> HandleSelector(t, key)
      [] target \in {"input", "display"} /\ key \in GlobalKeys -> HandleGlobalKey(t, key)
      [] target = "input" /\ key \notin GlobalKeys -> HandlePromptKey(t, key)
      [] OTHER -> HandleDisplayKey(t, key)

(***************************************************************************)
(* Updates.                                                                *)
(***************************************************************************)
ModalsInit ==
    /\ m = [overlay |-> "none", filter |-> TRUE, confirm |-> "none", who |-> 0, mcpInit |-> FALSE,
            focused |-> "input", lit |-> FALSE, hasFocus |-> TRUE, prompt |-> "",
            fromCmd |-> FALSE, quitting |-> FALSE, quitCancelSent |-> FALSE, loading |-> TRUE,
            postLoading |-> FALSE, gone |-> FALSE, pipe |-> {},
            out |-> [tools |-> <<>>, auths |-> <<>>, ready |-> FALSE, closed |-> FALSE,
                     mcpStatus |-> "", inProgress |-> FALSE, queued |-> 0]]
    /\ asked = [tools |-> 0, auths |-> 0, tasks |-> 0]
    /\ said = [tools |-> [i \in 1 .. MaxTools |-> 0], auths |-> [i \in 1 .. MaxServers |-> 0]]
    /\ life = "initializing"

Running == ~m.gone

\* A key answers what the dialog on top asks, and nothing else does.
Said(key) ==
    LET answer == KeyboardTarget(m) = "modal" /\ IsOpen(m) /\ Takes(m, key)
    IN  CASE answer /\ m.confirm = "tool" -> [said EXCEPT !.tools[m.who] = @ + 1]
          [] answer /\ m.confirm = "auth" /\ key # "ctrl+g" -> [said EXCEPT !.auths[m.who] = @ + 1]
          [] answer /\ m.confirm = "auth" /\ key = "ctrl+g" ->
                [said EXCEPT !.auths = [i \in DOMAIN @ |->
                    IF i = m.who \/ Contains(m.out.auths, i) THEN @[i] + 1 ELSE @[i]]]
          [] OTHER -> said

Key(key) ==
    /\ Running
    /\ m' = HandleKeyMsg(m, key)
    /\ said' = Said(key)
    /\ UNCHANGED <<asked, life>>

Type(text) ==
    /\ Running /\ KeyboardTarget(m) = "input" /\ m.prompt = ""
    /\ m' = [m EXCEPT !.prompt = text]
    /\ UNCHANGED <<asked, said, life>>

\* What came from an editor replaces the prompt.
EditorFinished ==
    /\ Running /\ ~m.loading /\ m.prompt = "words"
    /\ m' = FocusPrompt([m EXCEPT !.prompt = "command"])
    /\ UNCHANGED <<asked, said, life>>

Blur ==
    /\ Running /\ m.hasFocus
    /\ m' = [m EXCEPT !.hasFocus = FALSE, !.lit = FALSE]
    /\ UNCHANGED <<asked, said, life>>

Focus ==
    /\ Running /\ ~m.hasFocus
    /\ m' = IF IsBlocked(m) THEN [m EXCEPT !.hasFocus = TRUE]
            ELSE RestoreFocus([m EXCEPT !.hasFocus = TRUE])
    /\ UNCHANGED <<asked, said, life>>

Drained == [i \in 1 .. MaxServers |->
    IF ~m.loading /\ ~m.out.closed /\ m.out.ready /\ Contains(m.out.auths, i) THEN 1 ELSE 0]

Tick ==
    /\ Running
    /\ m' = TickWork(m)
    /\ said' = [said EXCEPT !.auths = [i \in DOMAIN @ |-> @[i] + Drained[i]]]
    /\ UNCHANGED <<asked, life>>

SessionLoaded ==
    /\ Running /\ m.loading
    /\ m' = HandleSessionLoaded(m)
    /\ said' = [said EXCEPT !.auths = [i \in DOMAIN @ |->
                    IF m.out.ready /\ Contains(m.out.auths, i) THEN @[i] + 1 ELSE @[i]]]
    /\ UNCHANGED <<asked, life>>

(***************************************************************************)
(* The session, as far as its frames and the commands it takes show.       *)
(***************************************************************************)
Says(out) == m' = [m EXCEPT !.out = out]

Connect ==
    /\ life = "initializing" /\ m.out.mcpStatus = ""
    /\ Says([m.out EXCEPT !.mcpStatus = "connecting"])
    /\ UNCHANGED <<asked, said, life>>

AskAuth ==
    /\ life = "initializing" /\ m.out.mcpStatus = "connecting" /\ asked.auths < MaxServers
    /\ asked' = [asked EXCEPT !.auths = @ + 1]
    /\ Says([m.out EXCEPT !.auths = Append(@, asked.auths + 1)])
    /\ UNCHANGED <<said, life>>

\* MCP settles, and the loop then says it is ready; without MCP it is at once.
MCPDone ==
    /\ life = "initializing"
    /\ life' = "settled"
    /\ Says([m.out EXCEPT !.mcpStatus = IF @ = "" THEN "" ELSE "done"])
    /\ UNCHANGED <<asked, said>>

Ready ==
    /\ life = "settled"
    /\ life' = "ready"
    /\ Says([m.out EXCEPT !.ready = TRUE])
    /\ UNCHANGED <<asked, said>>

TaskStart ==
    /\ life = "ready" /\ ~m.out.inProgress /\ asked.tasks < MaxTasks
    /\ asked' = [asked EXCEPT !.tasks = @ + 1]
    /\ Says([m.out EXCEPT !.inProgress = TRUE])
    /\ UNCHANGED <<said, life>>

AskTool ==
    /\ m.out.inProgress /\ asked.tools < MaxTools
    /\ asked' = [asked EXCEPT !.tools = @ + 1]
    /\ Says([m.out EXCEPT !.tools = Append(@, asked.tools + 1)])
    /\ UNCHANGED <<said, life>>

QueueSteering ==
    /\ m.out.inProgress /\ m.out.queued = 0
    /\ Says([m.out EXCEPT !.queued = 1])
    /\ UNCHANGED <<asked, said, life>>

TaskEnd ==
    /\ m.out.inProgress /\ \A i \in 1 .. asked.tools : said.tools[i] > 0
    /\ Says([m.out EXCEPT !.inProgress = FALSE, !.queued = 0])
    /\ UNCHANGED <<asked, said, life>>

Take(command) ==
    /\ command \in m.pipe
    /\ life' = IF command = ":quit" /\ life # "closed" THEN "quitting" ELSE life
    /\ m' = [m EXCEPT !.pipe = @ \ {command},
                      !.out.inProgress = @ /\ command \notin {":cancel", ":cancel keep"},
                      !.out.queued = IF command \in {":cancel", ":cancel keep"} THEN 0 ELSE @]
    /\ UNCHANGED <<asked, said>>

Close ==
    /\ life = "quitting" /\ ~m.out.inProgress
    /\ life' = "closed"
    /\ Says([m.out EXCEPT !.closed = TRUE])
    /\ UNCHANGED <<asked, said>>

ModalsNext ==
    \/ \E key \in Keys : Key(key)
    \/ \E text \in Texts : Type(text)
    \/ EditorFinished \/ Blur \/ Focus \/ Tick \/ SessionLoaded
    \/ Connect \/ AskAuth \/ MCPDone \/ Ready \/ TaskStart \/ AskTool \/ QueueSteering \/ TaskEnd \/ Close
    \/ \E command \in Commands : Take(command)

modalsVars == <<m, asked, said, life>>
ModalsSpec == ModalsInit /\ [][ModalsNext]_modalsVars

Answer == \E key \in {"y", "c"} : IsOpen(m) /\ Takes(m, key) /\ Key(key)

(***************************************************************************)
(* Properties.                                                             *)
(***************************************************************************)
\* Every tool confirmation and every authorization is in one place: waiting
\* its turn, in the dialog, or answered, once.
AskedOnce ==
    /\ \A i \in 1 .. asked.tools :
          Cardinality({j \in DOMAIN m.out.tools : m.out.tools[j] = i})
            + (IF m.confirm = "tool" /\ m.who = i THEN 1 ELSE 0) + said.tools[i] = 1
    /\ \A i \in 1 .. asked.auths :
          Cardinality({j \in DOMAIN m.out.auths : m.out.auths[j] = i})
            + (IF m.confirm = "auth" /\ m.who = i THEN 1 ELSE 0) + said.auths[i] = 1

\* Words in the prompt go when they are sent, cleared or replaced by a command
\* or by what the editor returns: no dialog's answer takes them.
WordsStay ==
    (m.prompt = "words" /\ m'.prompt # "words") =>
        EditorFinished \/ \E key \in {"enter", "ctrl+c", "ctrl+s", ":"} : Key(key)

\* The MCP box is open only while something is still to come that closes it.
BoxCloses ==
    m.mcpInit => m.out.ready \/ life \in {"initializing", "settled", "quitting", "closed"}

\* With no box open, the pane that takes the keys is the pane that is lit.
LitTakesKeys ==
    (m.hasFocus /\ ~IsBlocked(m) /\ ~m.quitting) => (m.lit <=> m.focused = "display")
=============================================================================
