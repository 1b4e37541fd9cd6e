---------------------------- MODULE MCPClientProofs ----------------------------
(***************************************************************************)
(* The table of a client's pending requests, for any callers and any pipe. *)
(***************************************************************************)
EXTENDS MCPClient, TLAPS

-----------------------------------------------------------------------------
(* What is in the pipes.                                                   *)
Lines ==
  /\ stdin \in Seq(Requests \cup {Other})
  /\ stdout \in Seq(Requests \cup Unasked)

(* A request that has not been entered has no channel and no result, and   *)
(* one that goes for its answer has no result yet; the handshake does not  *)
(* begin before the transport is there.                                    *)
Stages ==
  /\ conn \in {"idle", "spawned"} => pc[Hello] = "idle"
  /\ \A r \in Requests :
       /\ pc[r] \in {"idle", "begin"} => ch[r] = "none" /\ closes[r] = 0 /\ out[r] = "none"
       /\ pc[r] \in {"recheck", "wait"} => out[r] = "none"

IInv == TypeOK /\ Lines /\ TableAgrees /\ Stages

-----------------------------------------------------------------------------
(* The first state.                                                        *)
LEMMA InitIInv == Init => IInv
<1> SUFFICES ASSUME Init PROVE IInv
  OBVIOUS
<1> USE MCPClientAssumption DEF Init
<1>1. TypeOK
  <2>1. Len(stdin) <= PipeCap /\ Len(stdout) <= PipeCap
    OBVIOUS
  <2>2. /\ pc \in [Requests -> {"idle"}] /\ out \in [Requests -> {"none"}]
        /\ ch \in [Requests -> {"none"}] /\ closes \in [Requests -> 0 .. 1]
    OBVIOUS
  <2>3. {stored, stdinOpen, stdoutShut, exited, done, stdoutEnded} \subseteq BOOLEAN
    OBVIOUS
  <2> QED BY <2>1, <2>2, <2>3 DEF TypeOK
<1>2. Lines /\ TableAgrees /\ Stages
  BY DEF Lines, TableAgrees, Stages, Requests
<1> QED BY <1>1, <1>2 DEF IInv

-----------------------------------------------------------------------------
(* Every step keeps the invariant.  A step that leaves the requests and    *)
(* the table alone keeps what is said of them.                             *)
LEMMA NextIInv == IInv /\ [Next]_vars => IInv'
<1> SUFFICES ASSUME IInv, [Next]_vars PROVE IInv'
  OBVIOUS
<1> USE DEF clientVars, callVars, tableVars, procVars, serverVars
<1>1. ASSUME UNCHANGED <<pc, out, tableVars, closedCh, conn>> PROVE TableAgrees' /\ Stages'
  BY <1>1 DEF IInv, TableAgrees, Stages
<1>2. ASSUME UNCHANGED <<stdin, stdout>> PROVE Lines'
  BY <1>2 DEF IInv, Lines
<1>3. ASSUME ConnectSpawns PROVE IInv'
  <2> USE <1>3 DEF ConnectSpawns
  <2>1. TypeOK'
    BY DEF IInv, TypeOK
  <2>2. Lines'
    BY <1>2
  <2>3. TableAgrees'
    BY DEF IInv, TypeOK, TableAgrees, Stages
  <2>4. Stages'
    BY DEF IInv, TypeOK, TableAgrees, Stages
  <2> QED BY <2>1, <2>2, <2>3, <2>4 DEF IInv
<1>4. ASSUME ConnectStores PROVE IInv'
  <2> USE <1>4 DEF ConnectStores
  <2>1. TypeOK'
    BY DEF IInv, TypeOK, Requests
  <2>2. Lines'
    BY <1>2
  <2>3. TableAgrees'
    BY DEF IInv, TypeOK, TableAgrees, Stages, Requests
  <2>4. Stages'
    BY DEF IInv, TypeOK, TableAgrees, Stages, Requests
  <2> QED BY <2>1, <2>2, <2>3, <2>4 DEF IInv
<1>5. ASSUME HandshakeEnds PROVE IInv'
  <2> USE <1>5 DEF HandshakeEnds
  <2>1. TypeOK'
    BY DEF IInv, TypeOK
  <2>2. Lines'
    BY <1>2
  <2>3. TableAgrees'
    BY DEF IInv, TypeOK, TableAgrees, Stages
  <2>4. Stages'
    BY DEF IInv, TypeOK, TableAgrees, Stages
  <2> QED BY <2>1, <2>2, <2>3, <2>4 DEF IInv
<1>6. ASSUME StartMonitor PROVE IInv'
  <2> USE <1>6 DEF StartMonitor
  <2>1. TypeOK'
    BY DEF IInv, TypeOK
  <2>2. Lines'
    BY <1>2
  <2>3. TableAgrees'
    BY DEF IInv, TypeOK, TableAgrees, Stages
  <2>4. Stages'
    BY DEF IInv, TypeOK, TableAgrees, Stages
  <2> QED BY <2>1, <2>2, <2>3, <2>4 DEF IInv
<1>7. ASSUME ConnectFails PROVE IInv'
  <2> USE <1>7 DEF ConnectFails
  <2>1. TypeOK'
    BY DEF IInv, TypeOK
  <2>2. Lines'
    BY <1>2
  <2>3. TableAgrees'
    BY DEF IInv, TypeOK, TableAgrees, Stages
  <2>4. Stages'
    BY DEF IInv, TypeOK, TableAgrees, Stages
  <2> QED BY <2>1, <2>2, <2>3, <2>4 DEF IInv
<1>8. ASSUME MonitorDeath PROVE IInv'
  <2> USE <1>8 DEF MonitorDeath
  <2>1. TypeOK'
    BY DEF IInv, TypeOK
  <2>2. Lines'
    BY <1>2
  <2>3. TableAgrees'
    BY DEF IInv, TypeOK, TableAgrees, Stages
  <2>4. Stages'
    BY DEF IInv, TypeOK, TableAgrees, Stages
  <2> QED BY <2>1, <2>2, <2>3, <2>4 DEF IInv
<1>9. ASSUME NEW r \in Requests, CallTool(r) PROVE IInv'
  <2> USE <1>9 DEF CallTool
  <2>1. TypeOK'
    BY DEF IInv, TypeOK, Goes, Returns
  <2>2. Lines'
    BY <1>2
  <2>3. TableAgrees'
    BY DEF IInv, TypeOK, TableAgrees, Stages, Goes, Returns
  <2>4. Stages'
    BY DEF IInv, TypeOK, TableAgrees, Stages, Goes, Returns
  <2> QED BY <2>1, <2>2, <2>3, <2>4 DEF IInv
<1>10. ASSUME NEW r \in Requests, Register(r) PROVE IInv'
  <2> USE <1>10 DEF Register
  <2>1. TypeOK'
    BY DEF IInv, TypeOK, Goes, Returns
  <2>2. Lines'
    BY <1>2
  <2>3. TableAgrees'
    BY DEF IInv, TypeOK, TableAgrees, Stages, Goes, Returns
  <2>4. Stages'
    BY DEF IInv, TypeOK, Stages, Requests, Goes, Returns
  <2> QED BY <2>1, <2>2, <2>3, <2>4 DEF IInv
<1>11. ASSUME NEW r \in Requests, Recheck(r) PROVE IInv'
  <2> USE <1>11 DEF Recheck
  <2>1. TypeOK'
    BY DEF IInv, TypeOK, Goes, Returns
  <2>2. Lines'
    BY <1>2
  <2>3. TableAgrees'
    BY DEF IInv, TypeOK, TableAgrees, Stages, Goes, Returns
  <2>4. Stages'
    BY DEF IInv, TypeOK, Stages, Requests, Goes, Returns
  <2> QED BY <2>1, <2>2, <2>3, <2>4 DEF IInv
<1>12. ASSUME NEW r \in Requests, LockSend(r) PROVE IInv'
  <2> USE <1>12 DEF LockSend
  <2>1. TypeOK'
    BY DEF IInv, TypeOK, Goes
  <2>2. Lines'
    BY <1>2
  <2>3. TableAgrees'
    BY DEF IInv, TypeOK, TableAgrees, Stages, Goes
  <2>4. Stages'
    BY DEF IInv, TypeOK, TableAgrees, Stages, Goes
  <2> QED BY <2>1, <2>2, <2>3, <2>4 DEF IInv
<1>13. ASSUME NEW r \in Requests, WriteLine(r) PROVE IInv'
  <2> USE <1>13 DEF WriteLine
  <2>1. TypeOK'
    <3>1. Len(stdin') <= PipeCap
      BY MCPClientAssumption DEF IInv, Lines, TypeOK, Goes, Returns
    <3> QED BY <3>1 DEF IInv, TypeOK, Goes, Returns
  <2>2. Lines'
    BY DEF IInv, Lines, Goes, Returns
  <2>3. TableAgrees'
    BY DEF IInv, TypeOK, TableAgrees, Stages, Goes, Returns
  <2>4. Stages'
    BY DEF IInv, TypeOK, Stages, Requests, Goes, Returns
  <2> QED BY <2>1, <2>2, <2>3, <2>4 DEF IInv
<1>14. ASSUME NEW r \in Requests, Await(r) PROVE IInv'
  <2> USE <1>14 DEF Await
  <2>1. TypeOK'
    BY DEF IInv, TypeOK, Goes, Returns
  <2>2. Lines'
    BY <1>2
  <2>3. TableAgrees'
    BY DEF IInv, TypeOK, TableAgrees, Stages, Goes, Returns
  <2>4. Stages'
    BY DEF IInv, TypeOK, Stages, Requests, Goes, Returns
  <2> QED BY <2>1, <2>2, <2>3, <2>4 DEF IInv
<1>15. ASSUME NEW r \in Requests, Drop(r) PROVE IInv'
  <2> USE <1>15 DEF Drop
  <2>1. TypeOK'
    BY DEF IInv, TypeOK, Goes
  <2>2. Lines'
    BY <1>2
  <2>3. TableAgrees'
    BY DEF IInv, TypeOK, TableAgrees, Stages, Goes
  <2>4. Stages'
    BY DEF IInv, TypeOK, TableAgrees, Stages, Goes
  <2> QED BY <2>1, <2>2, <2>3, <2>4 DEF IInv
<1>16. ASSUME NEW r \in Requests, Cancel(r) PROVE IInv'
  <2> USE <1>16 DEF Cancel
  <2>1. TypeOK'
    BY DEF IInv, TypeOK
  <2>2. Lines'
    BY <1>2
  <2>3. TableAgrees' /\ Stages'
    BY <1>1
  <2> QED BY <2>1, <2>2, <2>3 DEF IInv
<1>17. ASSUME NEW r \in Requests, DispatchResponse(r) PROVE IInv'
  <2> USE <1>17 DEF DispatchResponse
  <2>1. TypeOK'
    <3>1. Len(stdout') <= PipeCap
      BY MCPClientAssumption DEF IInv, Lines, TypeOK, NextLine
    <3>2. r \in pending => closes[r] = 0
      BY DEF IInv, TypeOK, TableAgrees
    <3> QED BY <3>1, <3>2 DEF IInv, TypeOK, NextLine
  <2>2. Lines'
    BY DEF IInv, Lines, NextLine
  <2>3. TableAgrees'
    BY DEF IInv, TypeOK, TableAgrees, Stages, NextLine
  <2>4. Stages'
    BY DEF IInv, TypeOK, TableAgrees, Stages, NextLine
  <2> QED BY <2>1, <2>2, <2>3, <2>4 DEF IInv
<1>18. ASSUME MarkStale PROVE IInv'
  <2> USE <1>18 DEF MarkStale
  <2>1. TypeOK'
    <3>1. Len(stdout') <= PipeCap
      BY MCPClientAssumption DEF IInv, Lines, TypeOK, NextLine
    <3> QED BY <3>1 DEF IInv, TypeOK, NextLine
  <2>2. Lines'
    BY DEF IInv, Lines, NextLine
  <2>3. TableAgrees' /\ Stages'
    BY <1>1 DEF NextLine
  <2> QED BY <2>1, <2>2, <2>3 DEF IInv
<1>19. ASSUME ServerRequest PROVE IInv'
  <2> USE <1>19 DEF ServerRequest
  <2>1. TypeOK'
    <3>1. Len(stdout') <= PipeCap
      BY MCPClientAssumption DEF IInv, Lines, TypeOK, NextLine
    <3> QED BY <3>1 DEF IInv, TypeOK, NextLine
  <2>2. Lines'
    BY DEF IInv, Lines, NextLine
  <2>3. TableAgrees' /\ Stages'
    BY <1>1 DEF NextLine
  <2> QED BY <2>1, <2>2, <2>3 DEF IInv
<1>20. ASSUME LockReply PROVE IInv'
  <2> USE <1>20 DEF LockReply
  <2>1. TypeOK'
    BY DEF IInv, TypeOK
  <2>2. Lines'
    BY <1>2
  <2>3. TableAgrees' /\ Stages'
    BY <1>1
  <2> QED BY <2>1, <2>2, <2>3 DEF IInv
<1>21. ASSUME Reply PROVE IInv'
  <2> USE <1>21 DEF Reply
  <2>1. TypeOK'
    <3>1. Len(stdin') <= PipeCap
      BY MCPClientAssumption DEF IInv, Lines, TypeOK
    <3> QED BY <3>1 DEF IInv, TypeOK
  <2>2. Lines'
    BY DEF IInv, Lines
  <2>3. TableAgrees' /\ Stages'
    BY <1>1
  <2> QED BY <2>1, <2>2, <2>3 DEF IInv
<1>22. ASSUME ReadLoopEnds PROVE IInv'
  <2> USE <1>22 DEF ReadLoopEnds
  <2>1. TypeOK'
    <3>1. \A r \in pending : closes[r] = 0
      BY DEF IInv, TypeOK, TableAgrees
    <3>2. closes' \in [Requests -> 0 .. 1]
      BY <3>1 DEF IInv, TypeOK
    <3> QED BY <3>2 DEF IInv, TypeOK
  <2>2. Lines'
    BY <1>2
  <2>3. TableAgrees'
    BY DEF IInv, TypeOK, TableAgrees, Stages
  <2>4. Stages'
    BY DEF IInv, TypeOK, TableAgrees, Stages
  <2> QED BY <2>1, <2>2, <2>3, <2>4 DEF IInv
<1>23. ASSUME ProcessWaited PROVE IInv'
  <2> USE <1>23 DEF ProcessWaited
  <2>1. TypeOK'
    <3>1. Len(stdout') <= PipeCap
      BY MCPClientAssumption
    <3>2. {stored', stdinOpen', stdoutShut', exited', done', stdoutEnded'} \subseteq BOOLEAN
      BY DEF IInv, TypeOK
    <3> QED BY <3>1, <3>2 DEF IInv, TypeOK
  <2>2. Lines'
    BY DEF IInv, Lines
  <2>3. TableAgrees' /\ Stages'
    BY <1>1
  <2> QED BY <2>1, <2>2, <2>3 DEF IInv
<1>24. ASSUME SignalDone PROVE IInv'
  <2> USE <1>24 DEF SignalDone
  <2>1. TypeOK'
    BY DEF IInv, TypeOK
  <2>2. Lines'
    BY <1>2
  <2>3. TableAgrees' /\ Stages'
    BY <1>1
  <2> QED BY <2>1, <2>2, <2>3 DEF IInv
<1>25. ASSUME CloseClient PROVE IInv'
  <2> USE <1>25 DEF CloseClient
  <2>1. TypeOK'
    BY DEF IInv, TypeOK
  <2>2. Lines'
    BY <1>2
  <2>3. TableAgrees'
    BY DEF IInv, TypeOK, TableAgrees, Stages
  <2>4. Stages'
    BY DEF IInv, TypeOK, TableAgrees, Stages
  <2> QED BY <2>1, <2>2, <2>3, <2>4 DEF IInv
<1>26. ASSUME CloseLoads PROVE IInv'
  <2> USE <1>26 DEF CloseLoads
  <2>1. TypeOK'
    BY DEF IInv, TypeOK
  <2>2. Lines'
    BY <1>2
  <2>3. TableAgrees' /\ Stages'
    BY <1>1
  <2> QED BY <2>1, <2>2, <2>3 DEF IInv
<1>27. ASSUME CloseReturns PROVE IInv'
  <2> USE <1>27 DEF CloseReturns
  <2>1. TypeOK'
    BY DEF IInv, TypeOK
  <2>2. Lines'
    BY <1>2
  <2>3. TableAgrees' /\ Stages'
    BY <1>1
  <2> QED BY <2>1, <2>2, <2>3 DEF IInv
<1>28. ASSUME CloseStdin PROVE IInv'
  <2> USE <1>28 DEF CloseStdin
  <2>1. TypeOK'
    BY ZenonT(40) DEF IInv, TypeOK, Escalates
  <2>2. Lines'
    BY <1>2
  <2>3. TableAgrees' /\ Stages'
    BY <1>1 DEF Escalates
  <2> QED BY <2>1, <2>2, <2>3 DEF IInv
<1>29. ASSUME Signals PROVE IInv'
  <2> USE <1>29 DEF Signals
  <2>1. TypeOK'
    <3>1. Len(stdin') <= PipeCap
      BY MCPClientAssumption DEF IInv, Lines, TypeOK, Escalates, Leave
    <3> QED BY <3>1 DEF IInv, TypeOK, Escalates, Leave
  <2>2. Lines'
    <3>1. stdin' \in {<<>>, stdin} /\ stdout' = stdout
      BY DEF Escalates, Leave
    <3>2. <<>> \in Seq(Requests \cup {Other})
      OBVIOUS
    <3> QED BY <3>1, <3>2 DEF IInv, Lines
  <2>3. TableAgrees' /\ Stages'
    BY <1>1 DEF Escalates, Leave
  <2> QED BY <2>1, <2>2, <2>3 DEF IInv
<1>30. ASSUME ProcessGone PROVE IInv'
  <2> USE <1>30 DEF ProcessGone
  <2>1. TypeOK'
    BY DEF IInv, TypeOK, Escalates
  <2>2. Lines'
    BY <1>2
  <2>3. TableAgrees' /\ Stages'
    BY <1>1 DEF Escalates
  <2> QED BY <2>1, <2>2, <2>3 DEF IInv
<1>31. ASSUME JoinReader PROVE IInv'
  <2> USE <1>31 DEF JoinReader
  <2>1. TypeOK'
    BY DEF IInv, TypeOK, Escalates
  <2>2. Lines'
    BY <1>2
  <2>3. TableAgrees' /\ Stages'
    BY <1>1 DEF Escalates
  <2> QED BY <2>1, <2>2, <2>3 DEF IInv
<1>32. ASSUME ServerReads PROVE IInv'
  <2> USE <1>32 DEF ServerReads
  <2>1. TypeOK'
    <3>1. Len(stdin') <= PipeCap
      BY MCPClientAssumption DEF IInv, Lines, TypeOK
    <3> QED BY <3>1 DEF IInv, TypeOK
  <2>2. Lines'
    BY DEF IInv, Lines
  <2>3. TableAgrees' /\ Stages'
    BY <1>1
  <2> QED BY <2>1, <2>2, <2>3 DEF IInv
<1>33. ASSUME ServerEndsOutput PROVE IInv'
  <2> USE <1>33 DEF ServerEndsOutput
  <2>1. TypeOK'
    BY DEF IInv, TypeOK
  <2>2. Lines'
    BY <1>2
  <2>3. TableAgrees' /\ Stages'
    BY <1>1
  <2> QED BY <2>1, <2>2, <2>3 DEF IInv
<1>34. ASSUME NEW r \in Requests, ServerAnswers(r) PROVE IInv'
  <2> USE <1>34 DEF ServerAnswers
  <2>1. TypeOK'
    <3>1. Len(stdout') <= PipeCap
      BY MCPClientAssumption DEF IInv, Lines, TypeOK, ServerWrites
    <3> QED BY <3>1 DEF IInv, TypeOK, ServerWrites
  <2>2. Lines'
    BY DEF IInv, Lines, ServerWrites
  <2>3. TableAgrees' /\ Stages'
    BY <1>1 DEF ServerWrites
  <2> QED BY <2>1, <2>2, <2>3 DEF IInv
<1>35. ASSUME NEW line \in Unasked, ServerChatters(line) PROVE IInv'
  <2> USE <1>35 DEF ServerChatters
  <2>1. TypeOK'
    <3>1. Len(stdout') <= PipeCap
      BY MCPClientAssumption DEF IInv, Lines, TypeOK, ServerWrites
    <3> QED BY <3>1, MCPClientAssumption DEF IInv, TypeOK, ServerWrites
  <2>2. Lines'
    BY DEF IInv, Lines, ServerWrites
  <2>3. TableAgrees' /\ Stages'
    BY <1>1 DEF ServerWrites
  <2> QED BY <2>1, <2>2, <2>3 DEF IInv
<1>36. ASSUME NEW p \in {"child", "heir"}, ProcessExits(p) PROVE IInv'
  <2> USE <1>36 DEF ProcessExits
  <2>1. TypeOK'
    <3>1. Len(stdin') <= PipeCap
      BY MCPClientAssumption DEF IInv, Lines, TypeOK, Leave
    <3> QED BY <3>1 DEF IInv, TypeOK, Leave
  <2>2. Lines'
    <3>1. stdin' \in {<<>>, stdin} /\ stdout' = stdout
      BY DEF Leave
    <3>2. <<>> \in Seq(Requests \cup {Other})
      OBVIOUS
    <3> QED BY <3>1, <3>2 DEF IInv, Lines
  <2>3. TableAgrees' /\ Stages'
    BY <1>1 DEF Leave
  <2> QED BY <2>1, <2>2, <2>3 DEF IInv
<1>37. CASE UNCHANGED vars
  BY <1>37 DEF vars, IInv, TypeOK, Lines, TableAgrees, Stages
<1> QED
  BY <1>3, <1>4, <1>5, <1>6, <1>7, <1>8, <1>9, <1>10, <1>11, <1>12,
     <1>13, <1>14, <1>15, <1>16, <1>17, <1>18, <1>19, <1>20, <1>21, <1>22,
     <1>23, <1>24, <1>25, <1>26, <1>27, <1>28, <1>29, <1>30, <1>31, <1>32,
     <1>33, <1>34, <1>35, <1>36, <1>37
  DEF Next, ConnectStep, CloseStep, RequestStep, ReaderStep, ServerStep, Rests

(* So it holds in every state.                                             *)
LEMMA Invariance == Spec => []IInv
BY InitIInv, NextIInv, PTL DEF Spec

(* The states of the client, of its requests and of the transport, and     *)
(* pipes that hold no more than they can (Client, StdioTransport).         *)
THEOREM TypeCorrect == Spec => []TypeOK
<1>1. IInv => TypeOK
  BY DEF IInv
<1> QED BY <1>1, Invariance, PTL

(* The table of pending requests holds those that wait for an answer and   *)
(* no others, whoever took out the rest, and no channel is closed twice    *)
(* (SendReceive, dispatchResponse, readLoop, Client.Close and the monitor).*)
THEOREM TableIsTrue == Spec => []TableAgrees
<1>1. IInv => TableAgrees
  BY DEF IInv
<1> QED BY <1>1, Invariance, PTL

(* A client that was told its lists changed is not made ready again once   *)
(* Connect has returned: neither Connect nor the monitor writes over it    *)
(* (onNotification, monitorTransport, Close).                              *)
THEOREM StaleForGood == Spec => StaleSticks
<1>1. ASSUME [Next]_vars, state = "stale", conn = "done"
      PROVE  state' \in {"stale", "disconnected"} \/ UNCHANGED state
  <2> USE DEF clientVars
  <2>1. CASE ConnectStep \/ MonitorDeath
    BY <1>1, <2>1
    DEF ConnectStep, ConnectSpawns, ConnectStores, HandshakeEnds, StartMonitor, ConnectFails,
        MonitorDeath
  <2>2. ASSUME NEW r \in Requests, CallTool(r) \/ RequestStep(r) \/ Cancel(r)
        PROVE  UNCHANGED state
    BY <2>2
    DEF CallTool, RequestStep, Register, Recheck, LockSend, WriteLine, Await, Drop, Cancel
  <2>3. CASE ReaderStep
    BY <1>1, <2>3
    DEF ReaderStep, DispatchResponse, MarkStale, ServerRequest, LockReply, Reply, ReadLoopEnds
  <2>4. CASE CloseClient \/ CloseStep
    BY <1>1, <2>4
    DEF CloseClient, CloseStep, CloseLoads, CloseReturns, CloseStdin, Signals, ProcessGone,
        JoinReader
  <2>5. CASE ProcessWaited \/ SignalDone \/ ServerStep
    BY <2>5
    DEF ProcessWaited, SignalDone, ServerStep, ServerReads, ServerEndsOutput, ServerAnswers,
        ServerChatters, ServerWrites, ProcessExits
  <2>6. CASE Rests \/ UNCHANGED vars
    BY <2>6 DEF Rests, vars
  <2> QED BY <1>1, <2>1, <2>2, <2>3, <2>4, <2>5, <2>6 DEF Next
<1> QED BY <1>1, PTL DEF Spec, StaleSticks
=============================================================================
