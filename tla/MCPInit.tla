------------------------------ MODULE MCPInit ------------------------------
(***************************************************************************)
(* The initialization of the MCP servers: one goroutine per server, the    *)
(* initializer's run() that collects their results, and the session that   *)
(* reads its events and hands it the user's answers.                       *)
(*                                                                         *)
(* Events travel through one bounded channel.  Progress is dropped when it *)
(* is full; the terminal "done" waits, holding the initializer's mutex.    *)
(* An answer to an authorization goes the other way: the session looks the *)
(* server's channel up under that mutex and sends after releasing it, on a *)
(* channel of one slot, in the goroutine of its main loop.                 *)
(*                                                                         *)
(* The session is reduced to what meets the initializer: its main loop     *)
(* does one thing at a time, and it can end.  Module Session has the rest. *)
(***************************************************************************)
EXTENDS Naturals, Sequences, FiniteSets

CONSTANTS
  Servers,     (* the servers there are                                    *)
  OAuth,       (* those that need an interactive authorization             *)
  EventCaps,   (* capacities the event channel may have                    *)
  MaxAnswers,  (* bound: answers accepted for one server                   *)
  Idle         (* the main loop of the session is not serving an answer    *)

ASSUME MCPInitAssumption ==
  EventCaps \subseteq Nat /\ MaxAnswers \in Nat /\ Idle \notin Servers

VARIABLES
  configured,   (* the servers of the configuration                        *)
  eventCap,     (* capacity of the event channel                           *)
  server,       (* where each server's goroutine is                        *)
  collected,    (* servers whose result run() has                          *)
  initRun,      (* run(): "collect", "deliver", "holding", "leave", "done" *)
  ctxDone,      (* the initializer's context is done                       *)
  events,       (* the event channel                                       *)
  eventsClosed,
  panicked,     (* a send met the closed channel                           *)
  authCodeChs,  (* servers registered for an answer                        *)
  codes,        (* answers in each server's channel                        *)
  looking,      (* session: the server it is about to look up, or Idle     *)
  sending,      (* session: the server it is sending an answer to, or Idle *)
  answers,      (* answers accepted so far                                 *)
  asked,        (* servers the adapter was told to ask the user about      *)
  settled,      (* session: how the initialization ended for it            *)
  sessionEnds,  (* the session's run() has returned                        *)
  skipped       (* the user asked to skip the initialization               *)

config      == <<configured, eventCap>>
initVars    == <<collected, initRun>>
channel     == <<events, eventsClosed, panicked>>
authVars    == <<authCodeChs, codes>>
sessionVars == <<looking, sending, answers, asked, settled, sessionEnds, skipped>>
moving == <<server, initVars, ctxDone, channel, authVars, sessionVars>>
vars == <<config, moving>>

Event(type, s) == [type |-> type, server |-> s]
EventTypes == {"connecting", "connected", "failed", "authRequired",
               "authRunning", "done", "canceled"}
ServerStates == {"start", "connecting", "discoveringAS", "registered", "awaiting", "took",
                 "tookNo", "gaveUp", "exchanging", "discovering", "degraded", "failing", "ended"}

TypeOK ==
  /\ configured \subseteq Servers /\ eventCap \in EventCaps
  /\ server \in [configured -> ServerStates]
  /\ collected \subseteq configured
  /\ initRun \in {"collect", "deliver", "holding", "leave", "done"}
  /\ {ctxDone, eventsClosed, panicked, sessionEnds, skipped} \subseteq BOOLEAN
  /\ events \in Seq([type : EventTypes, server : configured \cup {Idle}])
  /\ Len(events) <= eventCap
  /\ authCodeChs \subseteq configured
  /\ codes \in [configured -> Seq({"code", "declined"})]
  /\ \A s \in configured : Len(codes[s]) <= 1
  /\ {looking, sending} \subseteq configured \cup {Idle}
  /\ answers \in [configured -> 0 .. MaxAnswers]
  /\ asked \subseteq configured
  /\ settled \in {"none", "done", "canceled", "aborted"}

Init ==
  /\ configured \in SUBSET Servers /\ eventCap \in EventCaps
  /\ server = [s \in configured |-> "start"] /\ collected = {}
  /\ initRun = "collect" /\ ctxDone = FALSE
  /\ events = <<>> /\ eventsClosed = FALSE /\ panicked = FALSE
  /\ authCodeChs = {} /\ codes = [s \in configured |-> <<>>]
  /\ looking = Idle /\ sending = Idle /\ answers = [s \in configured |-> 0]
  /\ asked = {} /\ settled = "none" /\ sessionEnds = FALSE /\ skipped = FALSE

(* The mutex: only deliverEvent keeps it across a step.                    *)
MuFree == initRun # "holding"

-----------------------------------------------------------------------------
(* Events.                                                                 *)

HasRoom_OneMore == Len(events) <= eventCap

HasRoom == Len(events) < eventCap

(* sendEvent: under the mutex, nothing after the close, dropped when full. *)
SendEvent_Unchecked(type, s) ==
  /\ MuFree
  /\ events' = IF HasRoom /\ ~eventsClosed THEN Append(events, Event(type, s)) ELSE events
  /\ panicked' = (panicked \/ eventsClosed)
  /\ UNCHANGED eventsClosed

SendEvent(type, s) ==
  /\ MuFree
  /\ events' = IF HasRoom /\ ~eventsClosed THEN Append(events, Event(type, s)) ELSE events
  /\ UNCHANGED <<eventsClosed, panicked>>

-----------------------------------------------------------------------------
(* A server's goroutine: collectServerResult.                              *)

Goes(s, from, to) == server[s] = from /\ server' = [server EXCEPT ![s] = to]

AnnounceConnecting(s) ==
  /\ Goes(s, "start", "connecting") /\ SendEvent("connecting", s)
  /\ UNCHANGED <<initVars, ctxDone, authVars, sessionVars>>

(* Connect, or the discovery of the authorization server, ends.            *)
Connect(s) ==
  /\ \/ s \notin OAuth /\ Goes(s, "connecting", "discovering")
     \/ s \in OAuth /\ Goes(s, "connecting", "discoveringAS")
     \/ Goes(s, "connecting", "failing")
  /\ UNCHANGED <<initVars, ctxDone, channel, authVars, sessionVars>>

(* The channel is registered before the user is asked.                     *)
Register_Forgotten(s) == Goes(s, "discoveringAS", "registered") /\ UNCHANGED authCodeChs

Register(s) ==
  /\ Goes(s, "discoveringAS", "registered")
  /\ authCodeChs' = authCodeChs \cup {s}

RegisterAuthCodeCh(s) ==
  /\ MuFree /\ Register(s)
  /\ UNCHANGED <<initVars, ctxDone, channel, codes, sessionVars>>

AskForAuth(s) ==
  /\ Goes(s, "registered", "awaiting") /\ SendEvent("authRequired", s)
  /\ UNCHANGED <<initVars, ctxDone, authVars, sessionVars>>

(* The select of runOAuthForServer: the answer, or the context.            *)
TakeCode(s) ==
  /\ codes[s] # <<>> /\ codes' = [codes EXCEPT ![s] = Tail(@)]
  /\ Goes(s, "awaiting", IF Head(codes[s]) = "code" THEN "took" ELSE "tookNo")
  /\ UNCHANGED <<initVars, ctxDone, channel, authCodeChs, sessionVars>>

GiveUp(s) ==
  /\ Goes(s, "awaiting", "gaveUp") /\ ctxDone
  /\ UNCHANGED <<initVars, ctxDone, channel, authVars, sessionVars>>

(* Whatever it was, the server is unregistered; a code that names its      *)
(* issuer right is exchanged.                                              *)
Unregister(s) ==
  /\ MuFree /\ authCodeChs' = authCodeChs \ {s}
  /\ \/ /\ server[s] \in {"took", "tookNo", "gaveUp"}
        /\ server' = [server EXCEPT ![s] = "failing"] /\ UNCHANGED channel
     \/ Goes(s, "took", "exchanging") /\ SendEvent("authRunning", s)
  /\ UNCHANGED <<initVars, ctxDone, codes, sessionVars>>

ExchangeCode(s) ==
  /\ Goes(s, "exchanging", "discovering") \/ Goes(s, "exchanging", "failing")
  /\ UNCHANGED <<initVars, ctxDone, channel, authVars, sessionVars>>

(* A list fails; the server goes on with what it has.                      *)
DiscoveryFails(s) ==
  /\ Goes(s, "discovering", "degraded") /\ ~ctxDone
  /\ SendEvent("failed", s)
  /\ UNCHANGED <<initVars, ctxDone, authVars, sessionVars>>

(* The end is reported, unless the initialization is being torn down.      *)
ReportConnected(s) ==
  /\ Goes(s, "discovering", "ended") \/ Goes(s, "degraded", "ended")
  /\ IF ctxDone THEN UNCHANGED channel ELSE SendEvent("connected", s)
  /\ UNCHANGED <<initVars, ctxDone, authVars, sessionVars>>

FailServer(s) ==
  /\ Goes(s, "failing", "ended")
  /\ IF ctxDone THEN UNCHANGED channel ELSE SendEvent("failed", s)
  /\ UNCHANGED <<initVars, ctxDone, authVars, sessionVars>>

ServerStep(s) ==
  \/ AnnounceConnecting(s) \/ RegisterAuthCodeCh(s) \/ AskForAuth(s)
  \/ TakeCode(s) \/ GiveUp(s) \/ Unregister(s)
  \/ DiscoveryFails(s) \/ ReportConnected(s) \/ FailServer(s)

(* What takes a network, and ends on its own or with the context.          *)
NetworkStep(s) == Connect(s) \/ ExchangeCode(s)

-----------------------------------------------------------------------------
(* run(): it collects one result per server, unless the context ends.      *)

CollectResult(s) ==
  /\ initRun = "collect" /\ server[s] = "ended" /\ s \notin collected
  /\ collected' = collected \cup {s}
  /\ UNCHANGED <<server, initRun, ctxDone, channel, authVars, sessionVars>>

AllIn_Some == collected # {}

AllIn == collected = configured

InitGoes(from, to) == initRun = from /\ initRun' = to /\ UNCHANGED collected

StopsForContext_Never == FALSE

StopsForContext == ctxDone

CollectingEnds ==
  /\ \/ AllIn /\ ~ctxDone /\ InitGoes("collect", "deliver")
     \/ StopsForContext /\ InitGoes("collect", "leave")
  /\ UNCHANGED <<server, ctxDone, channel, authVars, sessionVars>>

(* deliverEvent takes the mutex ...                                        *)
LockToDeliver ==
  /\ InitGoes("deliver", "holding")
  /\ UNCHANGED <<server, ctxDone, channel, authVars, sessionVars>>

(* ... and waits with it for room, or for the context.                     *)
DeliverDone_Lossy ==
  IF HasRoom THEN events' = Append(events, Event("done", Idle)) ELSE UNCHANGED events

DeliverDone ==
  \/ HasRoom /\ events' = Append(events, Event("done", Idle))
  \/ ctxDone /\ UNCHANGED events

DeliverEvent ==
  /\ InitGoes("holding", "leave") /\ DeliverDone
  /\ UNCHANGED <<server, ctxDone, eventsClosed, panicked, authVars, sessionVars>>

(* The deferred end of run(): a canceled one says so, if there is room,    *)
(* and the channel is closed.                                              *)
CloseEvents ==
  /\ InitGoes("leave", "done")
  /\ events' = IF ctxDone /\ HasRoom THEN Append(events, Event("canceled", Idle)) ELSE events
  /\ eventsClosed' = TRUE
  /\ UNCHANGED <<server, ctxDone, panicked, authVars, sessionVars>>

InitStep ==
  \/ \E s \in configured : CollectResult(s)
  \/ CollectingEnds \/ LockToDeliver \/ DeliverEvent \/ CloseEvents

-----------------------------------------------------------------------------
(* The session's main loop.                                                *)

AtSelect == looking = Idle /\ sending = Idle /\ ~sessionEnds

(* handleMCPEvent: what comes after the end of the initialization is stale.*)
ReadEvent ==
  /\ AtSelect /\ events # <<>> /\ events' = Tail(events)
  /\ LET e == Head(events) IN
     /\ asked' = IF e.type = "authRequired" /\ settled = "none"
                 THEN asked \cup {e.server} ELSE asked
     /\ settled' = IF e.type \in {"done", "canceled"} /\ settled = "none"
                   THEN e.type ELSE settled
  /\ UNCHANGED <<server, initVars, ctxDone, eventsClosed, panicked, authVars,
                 looking, sending, answers, sessionEnds, skipped>>

(* The channel is closed and empty.                                        *)
ReadClosed ==
  /\ AtSelect /\ events = <<>> /\ eventsClosed /\ settled = "none"
  /\ settled' = "aborted"
  /\ UNCHANGED <<server, initVars, ctxDone, channel, authVars,
                 looking, sending, answers, asked, sessionEnds, skipped>>

(* :mcp_skip                                                               *)
MCPSkip ==
  /\ AtSelect /\ settled = "none" /\ ~skipped
  /\ skipped' = TRUE /\ ctxDone' = TRUE
  /\ UNCHANGED <<server, initVars, channel, authVars,
                 looking, sending, answers, asked, settled, sessionEnds>>

(* :mcp_confirm and :mcp_decline, asked for or not: the lookup waits for   *)
(* the mutex (a server without OAuth is never found, like an early answer  *)
(* to one with it) ...                                                     *)
MCPAnswer(s) ==
  /\ AtSelect /\ s \in OAuth /\ settled = "none" /\ answers[s] < MaxAnswers
  /\ looking' = s
  /\ UNCHANGED <<server, initVars, ctxDone, channel, authVars,
                 sending, answers, asked, settled, sessionEnds, skipped>>

(* ... and finds a channel, or answers the command with "not found".       *)
LookUp(s) ==
  /\ looking = s /\ looking' = Idle /\ MuFree
  /\ \/ s \notin authCodeChs /\ UNCHANGED <<sending, answers>>
     \/ /\ s \in authCodeChs /\ sending' = s
        /\ answers' = [answers EXCEPT ![s] = @ + 1]
  /\ UNCHANGED <<server, initVars, ctxDone, channel, authVars,
                 asked, settled, sessionEnds, skipped>>

SendAuthCodeResult(s) ==
  /\ sending = s /\ sending' = Idle
  /\ codes[s] = <<>>
  /\ \E a \in {"code", "declined"} : codes' = [codes EXCEPT ![s] = Append(@, a)]
  /\ UNCHANGED <<server, initVars, ctxDone, channel, authCodeChs,
                 looking, answers, asked, settled, sessionEnds, skipped>>

(* The session ends, and its context with it.                              *)
SessionEnds ==
  /\ AtSelect
  /\ sessionEnds' = TRUE /\ ctxDone' = TRUE
  /\ UNCHANGED <<server, initVars, channel, authVars,
                 looking, sending, answers, asked, settled, skipped>>

SessionStep ==
  \/ ReadEvent \/ ReadClosed
  \/ \E s \in configured : LookUp(s) \/ SendAuthCodeResult(s)

-----------------------------------------------------------------------------
Next ==
  /\ UNCHANGED config
  /\ \/ \E s \in configured : ServerStep(s) \/ NetworkStep(s) \/ MCPAnswer(s)
     \/ InitStep \/ SessionStep \/ MCPSkip \/ SessionEnds

Spec == Init /\ [][Next]_vars

(* The goroutines run.  The mutex is not held for ever by a goroutine that *)
(* runs, but it is taken by several: a waiter gets it in the end (Go's     *)
(* mutex is fair to waiters), and the select of the main loop does not     *)
(* pass over the events for ever.                                          *)
CodeFairness ==
  /\ \A s \in Servers : /\ SF_moving(s \in configured /\ ServerStep(s))
                         /\ SF_moving(s \in configured /\ LookUp(s))
                         /\ WF_moving(s \in configured /\ SendAuthCodeResult(s))
  /\ WF_moving(InitStep) /\ SF_moving(ReadEvent \/ ReadClosed)

(* Networks answer or time out, and a user who is asked answers.           *)
WorldFairness ==
  \A s \in Servers : /\ WF_moving(s \in configured /\ NetworkStep(s))
                      /\ SF_moving(s \in asked /\ MCPAnswer(s))

CodeSpec == Spec /\ CodeFairness
FairSpec == CodeSpec /\ WorldFairness

-----------------------------------------------------------------------------
(* Properties.                                                             *)

(* No goroutine of a server sends on the channel run() has closed: they    *)
(* outlive it when the initialization is canceled (sendEvent's check).     *)
NeverPanics == ~panicked

(* "Done" is the last word of an initialization: what the session applies  *)
(* is the result of every server (run, buildFinalResults).                 *)
DoneIsLast ==
  \A i \in DOMAIN events : events[i].type = "done" =>
    /\ \A s \in configured : server[s] = "ended"
    /\ \A j \in i + 1 .. Len(events) : events[j].type = "canceled"

(* An initialization nobody canceled is never taken for an aborted one:    *)
(* its "done" is not dropped, however full the channel is (deliverEvent).  *)
AbortedOnlyIfCanceled == settled = "aborted" => ctxDone

(* A server the user has been asked about takes the answer from that       *)
(* moment on, until it has one or gives up (registerAuthCodeCh).           *)
AskedIsFindable ==
  \A s \in configured :
    /\ server[s] = "awaiting"
    /\ s \in asked \/ \E i \in DOMAIN events : events[i] = Event("authRequired", s)
    => s \in authCodeChs

(* What the session and the user are told of the initialization is so, and *)
(* no goroutine sends on a channel that was closed.                        *)
ToldIsSo == NeverPanics /\ DoneIsLast /\ AbortedOnlyIfCanceled /\ AskedIsFindable
=============================================================================
