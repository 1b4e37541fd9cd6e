----------------------------- MODULE MCPInitProofs -----------------------------
(***************************************************************************)
(* What the session and the user are told of the MCP initialization, for   *)
(* any configuration and any capacity of the event channel; and a call over*)
(* HTTP is never left waiting for a word that no goroutine will say, and   *)
(* its channel is closed once, for any number of calls at a time.          *)
(***************************************************************************)
EXTENDS MCPInit, MCPHttp, TLAPS

-----------------------------------------------------------------------------
(* MCPInit.                                                                *)

(* What is in the channel: questions about servers there are, and a "done" *)
(* only when every result is in, with no more than "canceled" behind it.   *)
Talk ==
  \A i \in DOMAIN events :
    /\ events[i].type = "authRequired" => events[i].server \in configured
    /\ events[i].type = "done" =>
         /\ initRun \in {"leave", "done"} /\ collected = configured
         /\ \A j \in i + 1 .. Len(events) : events[j].type = "canceled"

(* run(): whose results it has, and what it has left to do.                *)
Progress ==
  /\ \A s \in collected : server[s] = "ended"
  /\ initRun \in {"deliver", "holding"} => collected = configured
  /\ eventsClosed <=> initRun = "done"

(* A run that leaves without having been canceled has said "done".         *)
Settling ==
  /\ initRun \in {"leave", "done"} /\ ~ctxDone =>
       settled # "none" \/ \E i \in DOMAIN events : events[i].type = "done"
  /\ settled = "aborted" => ctxDone

(* From before the user is asked until an answer is there.                 *)
Registered ==
  \A s \in configured :
    server[s] \in {"registered", "awaiting", "took", "tookNo", "gaveUp"} => s \in authCodeChs

(* An answer is looked up within its bound.                                *)
Looking == looking # Idle => answers[looking] < MaxAnswers

IInv ==
  /\ TypeOK /\ Talk /\ Progress /\ Settling /\ Registered /\ Looking
  /\ NeverPanics

Events == Seq([type : EventTypes, server : configured \cup {Idle}])

-----------------------------------------------------------------------------
(* The first state.                                                        *)
LEMMA InitIInv == Init => IInv
<1> SUFFICES ASSUME Init PROVE IInv
  OBVIOUS
<1> USE MCPInitAssumption DEF Init
<1>1. TypeOK
  <2>1. events \in Events /\ Len(events) <= eventCap
    BY DEF Events
  <2>2. /\ codes \in [configured -> Seq({"code", "declined"})]
        /\ \A s \in configured : Len(codes[s]) <= 1
    OBVIOUS
  <2>3. {ctxDone, eventsClosed, panicked, sessionEnds, skipped} \subseteq BOOLEAN
    OBVIOUS
  <2> QED BY <2>1, <2>2, <2>3 DEF TypeOK, Events, ServerStates
<1>2. Talk /\ Progress /\ Settling
  BY DEF Talk, Progress, Settling
<1>3. Registered /\ Looking /\ NeverPanics
  BY DEF Registered, Looking, NeverPanics
<1> QED BY <1>1, <1>2, <1>3 DEF IInv

(* A word more in the channel, and one less.                               *)
LEMMA Spoken ==
  ASSUME events \in Events, NEW type \in EventTypes, NEW s \in configured \cup {Idle},
         Len(events) < eventCap, eventCap \in Nat, events' = Append(events, Event(type, s))
  PROVE  /\ events' \in Events /\ Len(events') = Len(events) + 1 /\ Len(events') <= eventCap
         /\ \A i \in DOMAIN events : i \in DOMAIN events' /\ events'[i] = events[i]
         /\ DOMAIN events' = DOMAIN events \cup {Len(events) + 1}
         /\ events'[Len(events) + 1].type = type /\ events'[Len(events) + 1].server = s
<1>1. Event(type, s) \in [type : EventTypes, server : configured \cup {Idle}]
  BY DEF Event
<1>2. Event(type, s).type = type /\ Event(type, s).server = s
  BY DEF Event
<1> QED BY <1>1, <1>2 DEF Events

LEMMA Heard ==
  ASSUME events \in Events, events # <<>>, events' = Tail(events)
  PROVE  /\ events' \in Events /\ Len(events') = Len(events) - 1 /\ Head(events) = events[1]
         /\ 1 \in DOMAIN events
         /\ \A i \in DOMAIN events' : i + 1 \in DOMAIN events /\ events'[i] = events[i + 1]
         /\ \A i \in DOMAIN events : i # 1 => i - 1 \in DOMAIN events' /\ events'[i - 1] = events[i]
BY DEF Events

(* sendEvent, of a server that has not ended: no "done" is in the channel  *)
(* then, and none is lost of what is.                                      *)
LEMMA SentIsTold ==
  ASSUME IInv, NEW s \in configured, server[s] # "ended",
         NEW type \in EventTypes \ {"done"}, SendEvent(type, s)
  PROVE  /\ events' \in Events /\ Len(events') <= eventCap
         /\ \A i \in DOMAIN events' :
              /\ events'[i].type # "done"
              /\ events'[i].type = "authRequired" => events'[i].server \in configured
         /\ UNCHANGED <<eventsClosed, panicked>>
<1>1. events \in Events /\ eventCap \in Nat /\ Len(events) <= eventCap
  BY MCPInitAssumption DEF IInv, TypeOK, Events
<1>2. \A i \in DOMAIN events : events[i].type # "done"
  BY DEF IInv, Talk, Progress
<1>3. \A i \in DOMAIN events : events[i].type = "authRequired" => events[i].server \in configured
  BY DEF IInv, Talk
<1>4. CASE events' = events
  BY <1>1, <1>2, <1>3, <1>4 DEF SendEvent
<1>5. CASE HasRoom /\ events' = Append(events, Event(type, s))
  <2>1. Len(events) < eventCap /\ type \in EventTypes
    BY <1>5 DEF HasRoom
  <2> QED BY <1>1, <1>2, <1>3, <1>5, <2>1, Spoken DEF SendEvent
<1> QED BY <1>4, <1>5 DEF SendEvent

-----------------------------------------------------------------------------
(* Every step keeps the invariant.  Under each action, the conjuncts whose *)
(* variables it leaves alone come first, together.                         *)
LEMMA NextIInv == IInv /\ [Next]_vars => IInv'
<1> SUFFICES ASSUME IInv, [Next]_vars PROVE IInv'
  OBVIOUS
<1>1. UNCHANGED <<configured, eventCap>>
  BY DEF Next, vars, config
<1> USE <1>1 DEF initVars, channel, authVars, sessionVars
<1>2. ASSUME NEW s \in configured, AnnounceConnecting(s) PROVE IInv'
  <2> USE <1>2 DEF AnnounceConnecting
  <2>0. /\ events' \in Events /\ Len(events') <= eventCap /\ UNCHANGED <<eventsClosed, panicked>>
        /\ \A i \in DOMAIN events' :
             /\ events'[i].type # "done"
             /\ events'[i].type = "authRequired" => events'[i].server \in configured
    <3>1. server[s] # "ended" /\ "connecting" \in EventTypes \ {"done"}
      BY DEF Goes, EventTypes
    <3> QED BY <3>1, SentIsTold
  <2>1. Looking'
    BY DEF IInv, Looking
  <2>2. TypeOK'
    BY <2>0 DEF IInv, TypeOK, ServerStates, Events, Goes
  <2>3. Talk'
    BY <2>0 DEF Talk
  <2>4. Progress'
    BY <2>0 DEF IInv, TypeOK, Progress, Goes
  <2>5. Settling'
    <3>1. \A i \in DOMAIN events : events[i].type # "done"
      BY DEF IInv, Talk, Progress, Goes
    <3> QED BY <3>1 DEF IInv, Settling
  <2>6. Registered'
    BY DEF IInv, Registered, TypeOK, Goes
  <2>7. NeverPanics'
    BY <2>0 DEF IInv, NeverPanics
  <2> QED BY <2>1, <2>2, <2>3, <2>4, <2>5, <2>6, <2>7 DEF IInv
<1>3. ASSUME NEW s \in configured, Connect(s) PROVE IInv'
  <2> USE <1>3 DEF Connect
  <2>1. Talk' /\ Settling' /\ Looking' /\ NeverPanics'
    BY DEF IInv, Talk, Settling, Looking, NeverPanics
  <2>2. TypeOK'
    BY DEF IInv, TypeOK, ServerStates, Goes
  <2>3. Progress'
    BY DEF IInv, Progress, TypeOK, Goes
  <2>4. Registered'
    BY DEF IInv, Registered, TypeOK, Goes
  <2> QED BY <2>1, <2>2, <2>3, <2>4 DEF IInv
<1>4. ASSUME NEW s \in configured, RegisterAuthCodeCh(s) PROVE IInv'
  <2> USE <1>4 DEF RegisterAuthCodeCh
  <2>1. Talk' /\ Settling' /\ Looking' /\ NeverPanics'
    BY DEF IInv, Talk, Settling, Looking, NeverPanics
  <2>2. TypeOK'
    BY DEF IInv, TypeOK, ServerStates, Register, Goes
  <2>3. Progress'
    BY DEF IInv, Progress, TypeOK, Register, Goes
  <2>4. Registered'
    BY DEF IInv, Registered, TypeOK, Register, Goes
  <2> QED BY <2>1, <2>2, <2>3, <2>4 DEF IInv
<1>5. ASSUME NEW s \in configured, AskForAuth(s) PROVE IInv'
  <2> USE <1>5 DEF AskForAuth
  <2>0. /\ events' \in Events /\ Len(events') <= eventCap /\ UNCHANGED <<eventsClosed, panicked>>
        /\ \A i \in DOMAIN events' :
             /\ events'[i].type # "done"
             /\ events'[i].type = "authRequired" => events'[i].server \in configured
    <3>1. server[s] # "ended" /\ "authRequired" \in EventTypes \ {"done"}
      BY DEF Goes, EventTypes
    <3> QED BY <3>1, SentIsTold
  <2>1. Looking'
    BY DEF IInv, Looking
  <2>2. TypeOK'
    BY <2>0 DEF IInv, TypeOK, ServerStates, Events, Goes
  <2>3. Talk'
    BY <2>0 DEF Talk
  <2>4. Progress'
    BY <2>0 DEF IInv, TypeOK, Progress, Goes
  <2>5. Settling'
    <3>1. \A i \in DOMAIN events : events[i].type # "done"
      BY DEF IInv, Talk, Progress, Goes
    <3> QED BY <3>1 DEF IInv, Settling
  <2>6. Registered'
    BY DEF IInv, Registered, TypeOK, Goes
  <2>7. NeverPanics'
    BY <2>0 DEF IInv, NeverPanics
  <2> QED BY <2>1, <2>2, <2>3, <2>4, <2>5, <2>6, <2>7 DEF IInv
<1>6. ASSUME NEW s \in configured, TakeCode(s) PROVE IInv'
  <2> USE <1>6 DEF TakeCode
  <2>1. Talk' /\ Settling' /\ Looking' /\ NeverPanics'
    BY DEF IInv, Talk, Settling, Looking, NeverPanics
  <2>2. TypeOK'
    BY DEF IInv, TypeOK, ServerStates, Goes
  <2>3. Progress'
    BY DEF IInv, Progress, TypeOK, Goes
  <2>4. Registered'
    BY DEF IInv, Registered, TypeOK, Goes
  <2> QED BY <2>1, <2>2, <2>3, <2>4 DEF IInv
<1>7. ASSUME NEW s \in configured, GiveUp(s) PROVE IInv'
  <2> USE <1>7 DEF GiveUp
  <2>1. Talk' /\ Settling' /\ Looking' /\ NeverPanics'
    BY DEF IInv, Talk, Settling, Looking, NeverPanics
  <2>2. TypeOK'
    BY DEF IInv, TypeOK, ServerStates, Goes
  <2>3. Progress'
    BY DEF IInv, Progress, TypeOK, Goes
  <2>4. Registered'
    BY DEF IInv, Registered, TypeOK, Goes
  <2> QED BY <2>1, <2>2, <2>3, <2>4 DEF IInv
<1>8. ASSUME NEW s \in configured, Unregister(s) PROVE IInv'
  <2> USE <1>8 DEF Unregister
  <2>0. /\ events' \in Events /\ Len(events') <= eventCap /\ UNCHANGED <<eventsClosed, panicked>>
        /\ \A i \in DOMAIN events' :
             /\ events'[i].type # "done"
             /\ events'[i].type = "authRequired" => events'[i].server \in configured
    <3>1. server[s] # "ended" /\ "authRunning" \in EventTypes \ {"done"}
      BY DEF Goes, EventTypes
    <3>2. CASE UNCHANGED channel
      BY <3>1, <3>2 DEF IInv, TypeOK, Talk, Progress, Events
    <3>3. CASE SendEvent("authRunning", s)
      BY <3>1, <3>3, SentIsTold
    <3> QED BY <3>2, <3>3
  <2>1. Looking'
    BY DEF IInv, Looking
  <2>2. TypeOK'
    BY <2>0 DEF IInv, TypeOK, ServerStates, Events, Goes
  <2>3. Talk'
    BY <2>0 DEF Talk
  <2>4. Progress'
    BY <2>0 DEF IInv, TypeOK, Progress, Goes
  <2>5. Settling'
    <3>1. \A i \in DOMAIN events : events[i].type # "done"
      BY DEF IInv, Talk, Progress, Goes
    <3> QED BY <3>1 DEF IInv, Settling
  <2>6. Registered'
    BY DEF IInv, Registered, TypeOK, Goes
  <2>7. NeverPanics'
    BY <2>0 DEF IInv, NeverPanics
  <2> QED BY <2>1, <2>2, <2>3, <2>4, <2>5, <2>6, <2>7 DEF IInv
<1>9. ASSUME NEW s \in configured, ExchangeCode(s) PROVE IInv'
  <2> USE <1>9 DEF ExchangeCode
  <2>1. Talk' /\ Settling' /\ Looking' /\ NeverPanics'
    BY DEF IInv, Talk, Settling, Looking, NeverPanics
  <2>2. TypeOK'
    BY DEF IInv, TypeOK, ServerStates, Goes
  <2>3. Progress'
    BY DEF IInv, Progress, TypeOK, Goes
  <2>4. Registered'
    BY DEF IInv, Registered, TypeOK, Goes
  <2> QED BY <2>1, <2>2, <2>3, <2>4 DEF IInv
<1>10. ASSUME NEW s \in configured, DiscoveryFails(s) PROVE IInv'
  <2> USE <1>10 DEF DiscoveryFails
  <2>0. /\ events' \in Events /\ Len(events') <= eventCap /\ UNCHANGED <<eventsClosed, panicked>>
        /\ \A i \in DOMAIN events' :
             /\ events'[i].type # "done"
             /\ events'[i].type = "authRequired" => events'[i].server \in configured
    <3>1. server[s] # "ended" /\ "failed" \in EventTypes \ {"done"}
      BY DEF Goes, EventTypes
    <3> QED BY <3>1, SentIsTold
  <2>1. Looking'
    BY DEF IInv, Looking
  <2>2. TypeOK'
    BY <2>0 DEF IInv, TypeOK, ServerStates, Events, Goes
  <2>3. Talk'
    BY <2>0 DEF Talk
  <2>4. Progress'
    BY <2>0 DEF IInv, TypeOK, Progress, Goes
  <2>5. Settling'
    <3>1. \A i \in DOMAIN events : events[i].type # "done"
      BY DEF IInv, Talk, Progress, Goes
    <3> QED BY <3>1 DEF IInv, Settling
  <2>6. Registered'
    BY DEF IInv, Registered, TypeOK, Goes
  <2>7. NeverPanics'
    BY <2>0 DEF IInv, NeverPanics
  <2> QED BY <2>1, <2>2, <2>3, <2>4, <2>5, <2>6, <2>7 DEF IInv
<1>11. ASSUME NEW s \in configured, ReportConnected(s) PROVE IInv'
  <2> USE <1>11 DEF ReportConnected
  <2>0. /\ events' \in Events /\ Len(events') <= eventCap /\ UNCHANGED <<eventsClosed, panicked>>
        /\ \A i \in DOMAIN events' :
             /\ events'[i].type # "done"
             /\ events'[i].type = "authRequired" => events'[i].server \in configured
    <3>1. server[s] # "ended" /\ "connected" \in EventTypes \ {"done"}
      BY DEF Goes, EventTypes
    <3>2. CASE ctxDone
      BY <3>1, <3>2 DEF IInv, TypeOK, Talk, Progress, Events
    <3>3. CASE ~ctxDone
      BY <3>1, <3>3, SentIsTold
    <3> QED BY <3>2, <3>3
  <2>1. Looking'
    BY DEF IInv, Looking
  <2>2. TypeOK'
    BY <2>0 DEF IInv, TypeOK, ServerStates, Events, Goes
  <2>3. Talk'
    BY <2>0 DEF Talk
  <2>4. Progress'
    BY <2>0 DEF IInv, TypeOK, Progress, Goes
  <2>5. Settling'
    <3>1. \A i \in DOMAIN events : events[i].type # "done"
      BY DEF IInv, Talk, Progress, Goes
    <3> QED BY <3>1 DEF IInv, Settling
  <2>6. Registered'
    BY DEF IInv, Registered, TypeOK, Goes
  <2>7. NeverPanics'
    BY <2>0 DEF IInv, NeverPanics
  <2> QED BY <2>1, <2>2, <2>3, <2>4, <2>5, <2>6, <2>7 DEF IInv
<1>12. ASSUME NEW s \in configured, FailServer(s) PROVE IInv'
  <2> USE <1>12 DEF FailServer
  <2>0. /\ events' \in Events /\ Len(events') <= eventCap /\ UNCHANGED <<eventsClosed, panicked>>
        /\ \A i \in DOMAIN events' :
             /\ events'[i].type # "done"
             /\ events'[i].type = "authRequired" => events'[i].server \in configured
    <3>1. server[s] # "ended" /\ "failed" \in EventTypes \ {"done"}
      BY DEF Goes, EventTypes
    <3>2. CASE ctxDone
      BY <3>1, <3>2 DEF IInv, TypeOK, Talk, Progress, Events
    <3>3. CASE ~ctxDone
      BY <3>1, <3>3, SentIsTold
    <3> QED BY <3>2, <3>3
  <2>1. Looking'
    BY DEF IInv, Looking
  <2>2. TypeOK'
    BY <2>0 DEF IInv, TypeOK, ServerStates, Events, Goes
  <2>3. Talk'
    BY <2>0 DEF Talk
  <2>4. Progress'
    BY <2>0 DEF IInv, TypeOK, Progress, Goes
  <2>5. Settling'
    <3>1. \A i \in DOMAIN events : events[i].type # "done"
      BY DEF IInv, Talk, Progress, Goes
    <3> QED BY <3>1 DEF IInv, Settling
  <2>6. Registered'
    BY DEF IInv, Registered, TypeOK, Goes
  <2>7. NeverPanics'
    BY <2>0 DEF IInv, NeverPanics
  <2> QED BY <2>1, <2>2, <2>3, <2>4, <2>5, <2>6, <2>7 DEF IInv
<1>13. ASSUME NEW s \in configured, MCPAnswer(s) PROVE IInv'
  <2> USE <1>13 DEF MCPAnswer
  <2>1. Talk' /\ Progress' /\ Settling' /\ Registered' /\ NeverPanics'
    BY DEF IInv, Talk, Progress, Settling, Registered, NeverPanics
  <2>2. TypeOK'
    BY DEF IInv, TypeOK, ServerStates, AtSelect
  <2>3. Looking'
    BY DEF IInv, Looking, TypeOK, AtSelect
  <2> QED BY <2>1, <2>2, <2>3 DEF IInv
<1>14. ASSUME NEW s \in configured, CollectResult(s) PROVE IInv'
  <2> USE <1>14 DEF CollectResult
  <2>1. Settling' /\ Registered' /\ Looking' /\ NeverPanics'
    BY DEF IInv, Settling, Registered, Looking, NeverPanics
  <2>2. TypeOK'
    BY DEF IInv, TypeOK, ServerStates
  <2>3. Talk'
    BY DEF IInv, Talk, TypeOK, Progress
  <2>4. Progress'
    BY DEF IInv, Progress, TypeOK
  <2> QED BY <2>1, <2>2, <2>3, <2>4 DEF IInv
<1>15. ASSUME CollectingEnds PROVE IInv'
  <2> USE <1>15 DEF CollectingEnds
  <2>1. Registered' /\ Looking' /\ NeverPanics'
    BY DEF IInv, Registered, Looking, NeverPanics, InitGoes
  <2>2. TypeOK'
    BY DEF IInv, TypeOK, ServerStates, InitGoes, AllIn, StopsForContext
  <2>3. Talk'
    BY DEF IInv, Talk, TypeOK, Progress, InitGoes, AllIn, StopsForContext
  <2>4. Progress'
    BY DEF IInv, Progress, TypeOK, InitGoes, AllIn, StopsForContext
  <2>5. Settling'
    BY DEF IInv, Settling, TypeOK, InitGoes, AllIn, StopsForContext
  <2> QED BY <2>1, <2>2, <2>3, <2>4, <2>5 DEF IInv
<1>16. ASSUME LockToDeliver PROVE IInv'
  <2> USE <1>16 DEF LockToDeliver
  <2>1. Registered' /\ Looking' /\ NeverPanics'
    BY DEF IInv, Registered, Looking, NeverPanics, InitGoes
  <2>2. TypeOK'
    BY DEF IInv, TypeOK, ServerStates, InitGoes
  <2>3. Talk'
    BY DEF IInv, Talk, TypeOK, Progress, InitGoes
  <2>4. Progress'
    BY DEF IInv, Progress, TypeOK, InitGoes
  <2>5. Settling'
    BY DEF IInv, Settling, TypeOK, InitGoes
  <2> QED BY <2>1, <2>2, <2>3, <2>4, <2>5 DEF IInv
<1>17. ASSUME DeliverEvent PROVE IInv'
  <2> USE <1>17 DEF DeliverEvent
  <2>0. events \in Events /\ eventCap \in Nat /\ Len(events) <= eventCap
    BY MCPInitAssumption DEF IInv, TypeOK, Events
  <2>1. Registered' /\ Looking' /\ NeverPanics'
    BY DEF IInv, Registered, Looking, NeverPanics, InitGoes
  <2>2. TypeOK'
    <3>1. "done" \in EventTypes
      BY DEF EventTypes
    <3>2. events' \in Events /\ Len(events') <= eventCap
      BY <2>0, <3>1, Spoken DEF HasRoom, DeliverDone
    <3> QED BY <3>2 DEF IInv, TypeOK, Events, InitGoes
  <2>3. Talk'
    <3>1. \A i \in DOMAIN events : events[i].type # "done"
      BY DEF IInv, Talk, InitGoes
    <3>2. collected' = configured /\ initRun' = "leave"
      BY DEF IInv, Progress, InitGoes
    <3>3. CASE events' = events
      BY <3>1, <3>3 DEF IInv, Talk
    <3>4. CASE HasRoom /\ events' = Append(events, Event("done", Idle))
      <4>1. /\ DOMAIN events' = DOMAIN events \cup {Len(events) + 1}
            /\ \A i \in DOMAIN events : events'[i] = events[i]
            /\ events'[Len(events) + 1].type = "done" /\ Len(events') = Len(events) + 1
        BY <2>0, <3>4, Spoken DEF HasRoom, EventTypes
      <4>2. Len(events) \in Nat
        BY <2>0 DEF Events
      <4> QED BY <3>1, <3>2, <4>1, <4>2 DEF IInv, Talk
    <3> QED BY <3>3, <3>4 DEF DeliverDone
  <2>4. Progress'
    BY <2>0 DEF IInv, Progress, TypeOK, InitGoes, DeliverDone
  <2>5. Settling'
    <3>1. CASE HasRoom /\ events' = Append(events, Event("done", Idle))
      <4>1. \E i \in DOMAIN events' : events'[i].type = "done"
        BY <2>0, <3>1, Spoken DEF HasRoom, EventTypes
      <4> QED BY <4>1 DEF IInv, Settling
    <3>2. CASE ctxDone
      BY <3>2 DEF IInv, Settling
    <3> QED BY <3>1, <3>2 DEF DeliverDone
  <2> QED BY <2>1, <2>2, <2>3, <2>4, <2>5 DEF IInv
<1>18. ASSUME CloseEvents PROVE IInv'
  <2> USE <1>18 DEF CloseEvents
  <2>0. events \in Events /\ eventCap \in Nat /\ Len(events) <= eventCap
    BY MCPInitAssumption DEF IInv, TypeOK, Events
  <2>1. Registered' /\ Looking' /\ NeverPanics'
    BY DEF IInv, Registered, Looking, NeverPanics, InitGoes
  <2>2. TypeOK'
    <3>1. "canceled" \in EventTypes
      BY DEF EventTypes
    <3>2. events' \in Events /\ Len(events') <= eventCap
      BY <2>0, <3>1, Spoken DEF HasRoom
    <3> QED BY <3>2 DEF IInv, TypeOK, Events, InitGoes
  <2>3. Talk'
    <3>1. CASE events' = events
      BY <3>1 DEF IInv, Talk, InitGoes
    <3>2. CASE HasRoom /\ events' = Append(events, Event("canceled", Idle))
      <4>1. /\ DOMAIN events' = DOMAIN events \cup {Len(events) + 1}
            /\ \A i \in DOMAIN events : events'[i] = events[i]
            /\ events'[Len(events) + 1].type = "canceled" /\ Len(events') = Len(events) + 1
        BY <2>0, <3>2, Spoken DEF HasRoom, EventTypes
      <4>2. Len(events) \in Nat
        BY <2>0 DEF Events
      <4> QED BY <4>1, <4>2 DEF IInv, Talk, InitGoes
    <3> QED BY <3>1, <3>2
  <2>4. Progress'
    BY <2>0 DEF IInv, Progress, TypeOK, InitGoes
  <2>5. Settling'
    BY <2>0 DEF IInv, Settling, TypeOK, InitGoes
  <2> QED BY <2>1, <2>2, <2>3, <2>4, <2>5 DEF IInv
<1>19. ASSUME ReadEvent PROVE IInv'
  <2> USE <1>19 DEF ReadEvent
  <2>0. /\ events \in Events /\ events' \in Events /\ Len(events') <= eventCap
        /\ 1 \in DOMAIN events /\ Head(events) = events[1]
        /\ \A i \in DOMAIN events' : i + 1 \in DOMAIN events /\ events'[i] = events[i + 1]
        /\ \A i \in DOMAIN events : i # 1 => i - 1 \in DOMAIN events' /\ events'[i - 1] = events[i]
    <3>1. events \in Events /\ eventCap \in Nat /\ Len(events) <= eventCap /\ Len(events) \in Nat
      BY MCPInitAssumption DEF IInv, TypeOK, Events
    <3> QED BY <3>1, Heard
  <2>1. Progress' /\ Registered' /\ Looking' /\ NeverPanics'
    BY DEF IInv, Progress, Registered, Looking, NeverPanics
  <2>2. TypeOK'
    <3>1. asked' \subseteq configured
      BY <2>0 DEF IInv, TypeOK, Talk
    <3>2. settled' \in {"none", "done", "canceled", "aborted"}
      BY DEF IInv, TypeOK
    <3> QED BY <2>0, <3>1, <3>2 DEF IInv, TypeOK, Events
  <2>3. Talk'
    <3>1. Len(events') = Len(events) - 1 /\ Len(events) \in Nat /\ Len(events') \in Nat
      BY <2>0, Heard DEF Events
    <3> QED BY <2>0, <3>1 DEF IInv, Talk, Events
  <2>4. Settling'
    <3>1. settled # "none" => settled' = settled
      OBVIOUS
    <3>2. ASSUME NEW i \in DOMAIN events, events[i].type = "done", settled = "none"
          PROVE  settled' # "none" \/ \E j \in DOMAIN events' : events'[j].type = "done"
      BY <2>0, <3>2
    <3>3. settled' = "aborted" => settled = "aborted"
      OBVIOUS
    <3> QED BY <3>1, <3>2, <3>3 DEF IInv, Settling
  <2> QED BY <2>1, <2>2, <2>3, <2>4 DEF IInv
<1>20. ASSUME ReadClosed PROVE IInv'
  <2> USE <1>20 DEF ReadClosed
  <2>1. Talk' /\ Progress' /\ Registered' /\ Looking' /\ NeverPanics'
    BY DEF IInv, Talk, Progress, Registered, Looking, NeverPanics
  <2>2. TypeOK'
    BY DEF IInv, TypeOK, ServerStates, AtSelect
  <2>3. Settling'
    <3>1. ctxDone
      BY DEF IInv, Settling, Progress
    <3> QED BY <3>1 DEF Settling
  <2> QED BY <2>1, <2>2, <2>3 DEF IInv
<1>21. ASSUME NEW s \in configured, LookUp(s) PROVE IInv'
  <2> USE <1>21 DEF LookUp
  <2>1. Talk' /\ Progress' /\ Settling' /\ Registered' /\ NeverPanics'
    BY DEF IInv, Talk, Progress, Settling, Registered, NeverPanics
  <2>2. TypeOK'
    <3>1. /\ MaxAnswers \in Nat /\ answers \in [configured -> 0 .. MaxAnswers]
          /\ looking = s /\ s # Idle /\ answers[s] < MaxAnswers
      BY MCPInitAssumption DEF IInv, TypeOK, Looking
    <3>2. answers[s] + 1 \in 0 .. MaxAnswers
      BY <3>1
    <3>3. answers' \in [configured -> 0 .. MaxAnswers]
      BY <3>1, <3>2
    <3> QED BY <3>1, <3>3 DEF IInv, TypeOK
  <2>3. Looking'
    BY DEF IInv, Looking, TypeOK
  <2> QED BY <2>1, <2>2, <2>3 DEF IInv
<1>22. ASSUME NEW s \in configured, SendAuthCodeResult(s) PROVE IInv'
  <2> USE <1>22 DEF SendAuthCodeResult
  <2>1. Talk' /\ Progress' /\ Settling' /\ Registered' /\ Looking' /\ NeverPanics'
    BY DEF IInv, Talk, Progress, Settling, Registered, Looking, NeverPanics
  <2>2. TypeOK'
    BY DEF IInv, TypeOK, ServerStates
  <2> QED BY <2>1, <2>2 DEF IInv
<1>23. ASSUME MCPSkip PROVE IInv'
  <2> USE <1>23 DEF MCPSkip
  <2>1. Talk' /\ Progress' /\ Registered' /\ Looking' /\ NeverPanics'
    BY DEF IInv, Talk, Progress, Registered, Looking, NeverPanics
  <2>2. TypeOK'
    BY DEF IInv, TypeOK, ServerStates
  <2>3. Settling'
    BY DEF IInv, Settling, TypeOK
  <2> QED BY <2>1, <2>2, <2>3 DEF IInv
<1>24. ASSUME SessionEnds PROVE IInv'
  <2> USE <1>24 DEF SessionEnds
  <2>1. Talk' /\ Progress' /\ Registered' /\ Looking' /\ NeverPanics'
    BY DEF IInv, Talk, Progress, Registered, Looking, NeverPanics
  <2>2. TypeOK'
    BY DEF IInv, TypeOK, ServerStates
  <2>3. Settling'
    BY DEF IInv, Settling, TypeOK
  <2> QED BY <2>1, <2>2, <2>3 DEF IInv
<1>25. CASE UNCHANGED vars
  BY <1>25 DEF vars, moving, IInv, TypeOK, Talk, Progress, Settling, Registered, Looking, NeverPanics
<1> QED
  BY <1>2, <1>3, <1>4, <1>5, <1>6, <1>7, <1>8, <1>9, <1>10, <1>11,
     <1>12, <1>13, <1>14, <1>15, <1>16, <1>17, <1>18, <1>19, <1>20, <1>21,
     <1>22, <1>23, <1>24, <1>25
  DEF Next, ServerStep, NetworkStep, InitStep, SessionStep

(* So it holds in every state.                                             *)
LEMMA Invariance == Spec => []IInv
BY InitIInv, NextIInv, PTL DEF Spec

(* The states of the servers' goroutines, of run() and of the session, and *)
(* an event channel within its capacity (Initializer, collectServerResult).*)
THEOREM TypeCorrect == Spec => []TypeOK
<1>1. IInv => TypeOK
  BY DEF IInv
<1> QED BY <1>1, Invariance, PTL

(* No goroutine sends on the closed channel, "done" comes last and only    *)
(* when every result is in, only a canceled initialization can look        *)
(* aborted, and a server the user was asked about can be answered          *)
(* (sendEvent, run, deliverEvent, registerAuthCodeCh).                     *)
THEOREM WhatIsToldIsSo == Spec => []ToldIsSo
<1>1. IInv => DoneIsLast
  BY DEF IInv, Talk, Progress, DoneIsLast
<1>2. IInv => AbortedOnlyIfCanceled /\ NeverPanics
  BY DEF IInv, Settling, AbortedOnlyIfCanceled
<1>3. IInv => AskedIsFindable
  BY DEF IInv, Registered, AskedIsFindable
<1> QED BY <1>1, <1>2, <1>3, Invariance, PTL DEF ToldIsSo

-----------------------------------------------------------------------------
(* MCPHttp.                                                                *)

Early == {"idle", "post", "body", "opened", "slotted"}
Alive == {"read", "reply", "deliver", "over"}

HttpTypeOK ==
  /\ rpc \in [Callers -> Early \cup {"wait", "forget", "shut", "tell", "ended"}]
  /\ got \in [Callers -> {"none", "answer", "failed", "canceled"}]
  /\ table \subseteq Callers /\ owes \subseteq Callers
  /\ box \in [Callers -> {"none", "open", "full", "shut"}]
  /\ shuts \in [Callers -> 0 .. 1]
  /\ reader \in [Streams -> Alive \cup {"none", "close", "ended"}]
  /\ holding \in [Streams -> Callers \cup {Nobody}]
  /\ httpDone \in BOOLEAN

(* An entry is in the table, or in one reader's hands, or its channel was  *)
(* closed; in the table, its own reader is still to come by.               *)
OneHand ==
  /\ \A s \in Streams : holding[s] # Nobody <=> reader[s] \in {"deliver", "close"}
  /\ \A c \in Callers : reader[c] = "close" => holding[c] = c
  /\ \A s \in Streams :
       holding[s] # Nobody => holding[s] \notin table /\ box[holding[s]] = "open"
  /\ \A s, t \in Streams : holding[s] # Nobody /\ holding[s] = holding[t] => s = t
  /\ \A c \in table : box[c] = "open" /\ reader[c] \in Alive

ClosedOnce == \A c \in Callers : shuts[c] = 1 <=> box[c] \in {"full", "shut"}

(* Before a call has its entry, or the GET stream is there, nothing of it. *)
NotYet ==
  /\ \A c \in Callers : rpc[c] \in Early =>
       reader[c] = "none" /\ box[c] = "none" /\ got[c] = "none"
  /\ ready # "up" => reader[Get] = "none"

Told ==
  \A c \in Callers :
    /\ rpc[c] = "wait" => \/ box[c] \in {"full", "shut"} \/ c \in table
                          \/ \E s \in Streams : holding[s] = c
    /\ got[c] = "failed" => httpDone \/ box[c] \in {"none", "shut"}

HttpInv == HttpTypeOK /\ OneHand /\ ClosedOnce /\ NotYet /\ Told

-----------------------------------------------------------------------------
USE HttpAssumption DEF Streams, Early, Alive

LEMMA HttpInitInv == HttpInit => HttpInv
<1> SUFFICES ASSUME HttpInit PROVE HttpInv
  OBVIOUS
<1>1. HttpTypeOK
  <2>1. shuts \in [Callers -> 0 .. 1]
    BY DEF HttpInit
  <2>2. reader \in [Streams -> Alive \cup {"none", "close", "ended"}]
        /\ holding \in [Streams -> Callers \cup {Nobody}]
    BY DEF HttpInit
  <2> QED BY <2>1, <2>2 DEF HttpInit, HttpTypeOK
<1>2. OneHand
  BY DEF HttpInit, OneHand
<1>3. ClosedOnce /\ NotYet /\ Told
  BY DEF HttpInit, ClosedOnce, NotYet, Told
<1> QED BY <1>1, <1>2, <1>3 DEF HttpInv

LEMMA CallInv ==
  ASSUME HttpInv, NEW c \in Callers, CallStep(c) \/ Post(c) \/ PostReturns(c) \/ ReadBody(c)
  PROVE  HttpInv'
<1> USE DEF HttpInv
<1> USE DEF calls, tables, readers, closing, Turns, Gives, Over
<1>1. CASE HaltPost(c) \/ TakeSlot(c) \/ Forget(c) \/ CloseStream(c) \/ TellCanceled(c)
  BY <1>1 DEF HttpTypeOK, OneHand, ClosedOnce, NotYet, Told,
              HaltPost, TakeSlot, Forget, CloseStream, TellCanceled
<1>2. CASE Enter(c)
  BY <1>2 DEF HttpTypeOK, OneHand, ClosedOnce, NotYet, Told, Enter
<1>3. CASE WaitAnswer(c)
  BY <1>3 DEF HttpTypeOK, OneHand, ClosedOnce, NotYet, Told, WaitAnswer
<1>4. CASE Post(c) \/ PostReturns(c) \/ ReadBody(c)
  BY <1>4 DEF HttpTypeOK, OneHand, ClosedOnce, NotYet, Told, Post, PostReturns, ReadBody
<1> QED BY <1>1, <1>2, <1>3, <1>4 DEF CallStep

LEMMA StreamInv ==
  ASSUME HttpInv, NEW s \in Streams,
         StreamStep(s) \/ StreamHalts(s) \/ ReadAnswer(s) \/ ReadRequest(s) \/ StreamBreaks(s)
  PROVE  HttpInv'
<1> USE DEF HttpInv
<1> USE DEF calls, tables, readers, closing, Reads, TakesOut, Tells, Over
<1>1. CASE ReadAnswer(s)
  BY <1>1 DEF HttpTypeOK, OneHand, ClosedOnce, NotYet, Told, ReadAnswer
<1>2. CASE Deliver(s)
  BY <1>2 DEF HttpTypeOK, OneHand, ClosedOnce, NotYet, Told, Deliver
<1>3. CASE Replied(s) \/ ReadEnds(s) \/ StreamHalts(s) \/ ReadRequest(s) \/ StreamBreaks(s)
  BY <1>3 DEF HttpTypeOK, OneHand, ClosedOnce, NotYet, Told,
              Replied, ReadEnds, StreamHalts, ReadRequest, StreamBreaks
<1>4. CASE s \in Callers /\ EndWaiting(s)
  BY <1>4 DEF HttpTypeOK, OneHand, ClosedOnce, NotYet, Told, EndWaiting
<1>5. CASE s \in Callers /\ ShutBox(s)
  BY <1>5 DEF HttpTypeOK, OneHand, ClosedOnce, NotYet, Told, ShutBox
<1> QED BY <1>1, <1>2, <1>3, <1>4, <1>5 DEF StreamStep

LEMMA RestInv ==
  ASSUME HttpInv,
         CloseHttpStep \/ OpenGet \/ GetReturns \/ ConnectOver \/ CloseHttp
           \/ \E c \in Callers : HaltCall(c)
  PROVE  HttpInv'
<1> USE DEF HttpInv
<1> USE DEF calls, tables, readers, closing, Over
<1>1. CASE GetReturns
  BY <1>1 DEF HttpTypeOK, OneHand, ClosedOnce, NotYet, Told, GetReturns
<1>2. CASE EndGet \/ JoinGet \/ Deleted
  BY <1>2 DEF HttpTypeOK, OneHand, ClosedOnce, NotYet, Told, EndGet, JoinGet, Deleted
<1>3. CASE CloseSlot
  BY <1>3 DEF HttpTypeOK, OneHand, ClosedOnce, NotYet, Told, CloseSlot
<1>4. CASE SignalHttp
  BY <1>4 DEF HttpTypeOK, OneHand, ClosedOnce, NotYet, Told, SignalHttp
<1>5. CASE OpenGet \/ ConnectOver \/ CloseHttp \/ \E c \in Callers : HaltCall(c)
  BY <1>5 DEF HttpTypeOK, OneHand, ClosedOnce, NotYet, Told,
              OpenGet, ConnectOver, CloseHttp, HaltCall
<1> QED BY <1>1, <1>2, <1>3, <1>4, <1>5 DEF CloseHttpStep

LEMMA HttpInductive == HttpSpec => []HttpInv
<1>1. HttpInit => HttpInv
  BY HttpInitInv
<1>2. HttpInv /\ [HttpNext]_httpVars => HttpInv'
  <2> SUFFICES ASSUME HttpInv, [HttpNext]_httpVars PROVE HttpInv'
    OBVIOUS
  <2>1. CASE HttpNext
    BY <2>1, CallInv, StreamInv, RestInv DEF HttpNext, HttpWorld
  <2>2. CASE UNCHANGED httpVars
    BY <2>2 DEF httpVars, calls, tables, readers, closing,
                HttpInv, HttpTypeOK, OneHand, ClosedOnce, NotYet, Told
  <2> QED BY <2>1, <2>2
<1> QED BY <1>1, <1>2, PTL DEF HttpSpec

(* Whichever stream, cancellation or end comes first, a call that waits has*)
(* somebody to wake it, no channel is closed twice, and no answer that was *)
(* delivered is reported as a stream that ended.                           *)
THEOREM NobodyIsForgotten == HttpSpec => []NobodyForgotten
<1>1. ASSUME HttpInv, NEW c \in Callers PROVE shuts[c] <= 1
  BY <1>1 DEF HttpInv, HttpTypeOK
<1>2. HttpInv => NobodyForgotten
  BY <1>1 DEF HttpInv, OneHand, Told, NobodyForgotten
<1> QED BY <1>2, HttpInductive, PTL
================================================================================
