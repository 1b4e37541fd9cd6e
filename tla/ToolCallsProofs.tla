--------------------------- MODULE ToolCallsProofs ---------------------------
(***************************************************************************)
(* What holds of the tool calls of every step: any calls, any capacity of  *)
(* the result channel, either driver.                                      *)
(***************************************************************************)
EXTENDS ToolCalls, FiniteSetTheorems, TLAPS

-----------------------------------------------------------------------------
(* The step leaves once, for one reason, and cancels its stream then.      *)
Leaves ==
  /\ outcome = "none" <=> phase \in {"stream", "completed", "finish"}
  /\ streamDone => phase \in {"unwind", "returned"}
  /\ phase = "returned" => streamDone

(* Where a call is, and what that says of it.                              *)
Places == \A c \in Calls :
  /\ call[c] \in {"absent", "opened"} <=> c \notin Elements(begun)
  /\ call[c] = "sent" <=> c \in Elements(resultCh) \cup Elements(results)
  /\ c \in ran => call[c] \in {"running", "answered", "blocked", "sent", "dropped"}
  /\ call[c] = "running" => c \in ran
  /\ call[c] \in {"answered", "blocked", "sent", "dropped"} => c \in ran \cup denied
  /\ call[c] \in {"blocked", "dropped"} => ~serial /\ Len(begun) > ResultCap

(* No result twice, in the channel or collected.                           *)
Distinct ==
  /\ Cardinality(Elements(results)) = Len(results)
  /\ Cardinality(Elements(resultCh)) = Len(resultCh)
  /\ Elements(results) \cap Elements(resultCh) = {}
  /\ serial => resultCh = <<>>

(* A confirmation that waits has no answer yet, and a call that has not    *)
(* asked has neither.                                                      *)
Asked == \A c \in Calls :
  /\ Len(answers[c]) <= 1
  /\ c \in confirmChs => answers[c] = <<>>
  /\ call[c] \in {"absent", "opened", "queued", "starting"} =>
       c \notin confirmChs /\ answers[c] = <<>>

(* What the step returns: all its calls, or what could be salvaged.        *)
Returned ==
  /\ record \subseteq ran \cup denied
  /\ outcome = "landed" => record = Elements(begun)
  /\ phase = "returned" /\ outcome # "landed" => record = Salvage

(* The serial driver: one call at a time, in order, after the stream.      *)
OneByOne == serial =>
  /\ \A i, j \in DOMAIN begun : i < j /\ call[begun[j]] # "queued" => call[begun[i]] = "sent"
  /\ phase \in {"stream", "completed"} \/ outcome \in {"broke", "cut", "failed"} =>
       \A c \in Calls : call[c] \in {"absent", "opened", "queued"}
  /\ phase = "unwind" => Live = {}

IInv ==
  /\ TypeOK
  /\ Leaves
  /\ Places
  /\ Distinct
  /\ Asked
  /\ Returned
  /\ OneByOne
  /\ NothingRunsBehind
  /\ AlwaysPaired

-----------------------------------------------------------------------------
(* The places of a sequence, counted.                                      *)
LEMMA PlacesOf ==
  ASSUME NEW S, NEW s \in Seq(S)
  PROVE  /\ IsFiniteSet(DOMAIN s) /\ Cardinality(DOMAIN s) = Len(s)
         /\ s \in Surjection(DOMAIN s, Elements(s))
<1>1. s \in Surjection(DOMAIN s, Elements(s))
  BY DEF Surjection, Elements
<1>2. Len(s) \in Nat /\ DOMAIN s = 1 .. Len(s) /\ 1 \in Int /\ Len(s) \in Int
  OBVIOUS
<1>3. /\ IsFiniteSet(1 .. Len(s))
      /\ Cardinality(1 .. Len(s)) = IF 1 > Len(s) THEN 0 ELSE Len(s) - 1 + 1
  BY <1>2, FS_Interval, Zenon
<1>4. (IF 1 > Len(s) THEN 0 ELSE Len(s) - 1 + 1) = Len(s)
  BY <1>2
<1> QED BY <1>1, <1>2, <1>3, <1>4

(* The elements of a sequence are no more than its length.                 *)
LEMMA ElementsBound ==
  ASSUME NEW S, NEW s \in Seq(S)
  PROVE  /\ IsFiniteSet(Elements(s)) /\ Cardinality(Elements(s)) \in Nat
         /\ Cardinality(Elements(s)) <= Len(s)
         /\ Elements(s) \subseteq S
<1>1. Elements(s) \subseteq S
  BY DEF Elements
<1> QED BY <1>1, PlacesOf, FS_Surjection, FS_CardinalityType

(* A sequence of as many elements as it is long names nobody twice.        *)
LEMMA NoneTwice ==
  ASSUME NEW S, NEW s \in Seq(S), Cardinality(Elements(s)) = Len(s)
  PROVE  \A i, j \in DOMAIN s : s[i] = s[j] => i = j
<1>1. s \in Injection(DOMAIN s, Elements(s))
  BY PlacesOf, FS_Surjection
<1> QED BY <1>1 DEF Injection, IsInjective

(* What Append does to the elements of a sequence and to their number.     *)
LEMMA Appended ==
  ASSUME NEW S, NEW s \in Seq(S), NEW x \in S
  PROVE  /\ Append(s, x) \in Seq(S) /\ Len(Append(s, x)) = Len(s) + 1
         /\ Elements(Append(s, x)) = Elements(s) \cup {x}
         /\ x \notin Elements(s) /\ Cardinality(Elements(s)) = Len(s) =>
              Cardinality(Elements(Append(s, x))) = Len(Append(s, x))
<1>1. Append(s, x) \in Seq(S) /\ Len(Append(s, x)) = Len(s) + 1
  OBVIOUS
<1>2. Elements(Append(s, x)) = Elements(s) \cup {x}
  <2>1. /\ DOMAIN Append(s, x) = DOMAIN s \cup {Len(s) + 1}
        /\ \A i \in DOMAIN s : Append(s, x)[i] = s[i]
        /\ Append(s, x)[Len(s) + 1] = x
    OBVIOUS
  <2> QED BY <2>1, Zenon DEF Elements
<1>3. IsFiniteSet(Elements(s))
  BY ElementsBound
<1> QED BY <1>1, <1>2, <1>3, FS_AddElement

(* What Tail does.                                                         *)
LEMMA Tailed ==
  ASSUME NEW S, NEW s \in Seq(S), s # <<>>, Cardinality(Elements(s)) = Len(s)
  PROVE  /\ Tail(s) \in Seq(S) /\ Len(Tail(s)) = Len(s) - 1 /\ Head(s) \in S
         /\ Elements(s) = Elements(Tail(s)) \cup {Head(s)}
         /\ Head(s) \notin Elements(Tail(s))
         /\ Cardinality(Elements(Tail(s))) = Len(Tail(s))
<1>1. Tail(s) \in Seq(S) /\ Len(Tail(s)) = Len(s) - 1 /\ Head(s) \in S
  OBVIOUS
<1>2. Elements(s) = Elements(Tail(s)) \cup {Head(s)}
  <2>1. ASSUME NEW x \in Elements(s) PROVE x \in Elements(Tail(s)) \cup {Head(s)}
    <3>1. PICK i \in 1 .. Len(s) : x = s[i]
      BY <2>1 DEF Elements
    <3>2. CASE i = 1
      BY <3>1, <3>2
    <3>3. CASE i # 1
      <4>1. i - 1 \in DOMAIN Tail(s) /\ Tail(s)[i - 1] = x
        BY <3>1, <3>3
      <4> QED BY <4>1 DEF Elements
    <3> QED BY <3>2, <3>3
  <2>2. ASSUME NEW x \in Elements(Tail(s)) PROVE x \in Elements(s)
    <3>1. PICK i \in 1 .. Len(s) - 1 : x = Tail(s)[i]
      BY <2>2 DEF Elements
    <3>2. i + 1 \in DOMAIN s /\ s[i + 1] = x
      BY <3>1
    <3> QED BY <3>2 DEF Elements
  <2>3. Head(s) \in Elements(s)
    BY DEF Elements
  <2> QED BY <2>1, <2>2, <2>3
<1>3. /\ IsFiniteSet(Elements(Tail(s))) /\ Cardinality(Elements(Tail(s))) \in Nat
      /\ Cardinality(Elements(Tail(s))) <= Len(s) - 1
  BY <1>1, ElementsBound
<1>4. Cardinality(Elements(s)) = IF Head(s) \in Elements(Tail(s))
                                 THEN Cardinality(Elements(Tail(s)))
                                 ELSE Cardinality(Elements(Tail(s))) + 1
  BY <1>2, <1>3, FS_AddElement
<1> QED BY <1>1, <1>2, <1>3, <1>4

(* The empty sequence has no elements.                                     *)
LEMMA Empty == Elements(<<>>) = {} /\ Cardinality(Elements(<<>>)) = 0
BY FS_EmptySet DEF Elements

(* A result that finds no room in the channel is one too many of the step. *)
LEMMA Full ==
  ASSUME IInv, NEW c \in Calls, ~HasRoom,
         call[c] \notin {"absent", "opened", "sent"}
  PROVE  Len(begun) > ResultCap
<1>1. resultCh \in Seq(Calls) /\ begun \in Seq(Calls) /\ Len(resultCh) >= ResultCap
  BY ToolAssumption DEF IInv, TypeOK, HasRoom
<1>2. /\ IsFiniteSet(Elements(resultCh)) /\ Elements(resultCh) \subseteq Calls
      /\ IsFiniteSet(Elements(begun))
  BY <1>1, ElementsBound
<1>3. c \notin Elements(resultCh) /\ Elements(resultCh) \cup {c} \subseteq Elements(begun)
  BY <1>2 DEF IInv, Places
<1>4. Cardinality(Elements(resultCh) \cup {c}) = Len(resultCh) + 1
  BY <1>2, <1>3, FS_AddElement DEF IInv, Distinct
<1>5. Cardinality(Elements(resultCh) \cup {c}) <= Cardinality(Elements(begun))
  BY <1>2, <1>3, FS_Subset
<1>6. Cardinality(Elements(begun)) = Len(begun) /\ Len(begun) \in Nat /\ Len(resultCh) \in Nat
  BY <1>1 DEF IInv, TypeOK
<1> QED BY <1>1, <1>4, <1>5, <1>6, ToolAssumption

(* When the serial driver has a call that runs, is answered or withdrawn,  *)
(* all others have their results or have not started.                      *)
LEMMA OneAtATime ==
  ASSUME IInv, serial, NEW c \in Calls, call[c] \in LiveStates \cup {"withdrawn"},
         NEW d \in Calls, d # c
  PROVE  call[d] \notin LiveStates \cup {"withdrawn"}
<1> SUFFICES ASSUME call[d] \in LiveStates \cup {"withdrawn"} PROVE FALSE
  OBVIOUS
<1>1. c \in Elements(begun) /\ d \in Elements(begun)
  BY DEF IInv, Places, LiveStates
<1>2. PICK i \in DOMAIN begun : begun[i] = c
  BY <1>1 DEF Elements
<1>3. PICK j \in DOMAIN begun : begun[j] = d
  BY <1>1 DEF Elements
<1>4. i \in Nat /\ j \in Nat /\ i # j
  BY <1>2, <1>3 DEF IInv, TypeOK
<1>5. i < j \/ j < i
  BY <1>4
<1> QED BY <1>2, <1>3, <1>5 DEF IInv, OneByOne, LiveStates

-----------------------------------------------------------------------------
(* Every step of a tool, of the stream, of the user and of the end of the  *)
(* step keeps the invariant.  Under each action, the conjuncts whose       *)
(* variables it leaves alone come first, together.                         *)
LEMMA NextIInv == IInv /\ [Next]_vars => IInv'
<1> SUFFICES ASSUME IInv, [Next]_vars PROVE IInv'
  OBVIOUS
<1> USE DEF config, stream, confirm, pairs, ghosts
<1>1. ASSUME NEW c \in Calls, OpenCall(c) PROVE IInv'
  <2> USE <1>1 DEF OpenCall
  <2>1. Leaves' /\ Distinct' /\ Returned' /\ AlwaysPaired'
    BY DEF IInv, Leaves, Distinct, Returned, AlwaysPaired
  <2>2. TypeOK'
    BY DEF IInv, TypeOK, States, LiveStates
  <2>3. Places'
    BY DEF IInv, Places
  <2>4. Asked'
    BY DEF IInv, Asked
  <2>5. OneByOne'
    BY DEF IInv, OneByOne
  <2>6. NothingRunsBehind'
    BY DEF NothingRunsBehind
  <2> QED BY <2>1, <2>2, <2>3, <2>4, <2>5, <2>6 DEF IInv
<1>2. ASSUME NEW c \in Calls, BeginCall(c) PROVE IInv'
  <2> USE <1>2 DEF BeginCall
  <2>1. Leaves' /\ Distinct' /\ AlwaysPaired'
    BY DEF IInv, Leaves, Distinct, AlwaysPaired
  <2>2. TypeOK'
    <3>1. begun \in Seq(Calls) /\ c \notin Elements(begun) /\ Cardinality(Elements(begun)) = Len(begun)
      BY DEF IInv, TypeOK, Places
    <3>2. begun' \in Seq(Calls) /\ Cardinality(Elements(begun')) = Len(begun')
      BY <3>1, Appended
    <3>3. call' \in [Calls -> States]
      BY DEF IInv, TypeOK, States, LiveStates, Added
    <3> QED BY <3>2, <3>3 DEF IInv, TypeOK
  <2>3. Places'
    <3>1. begun \in Seq(Calls) /\ Len(begun) \in Nat
      BY DEF IInv, TypeOK
    <3>2. Elements(begun') = Elements(begun) \cup {c} /\ Len(begun') = Len(begun) + 1
      BY <3>1, Appended
    <3>3. serial' = serial /\ resultCh' = resultCh /\ results' = results /\ ran' = ran /\ denied' = denied
      OBVIOUS
    <3>4. Len(begun) > ResultCap => Len(begun') > ResultCap
      BY <3>1, <3>2, ToolAssumption
    <3> QED BY <3>2, <3>3, <3>4 DEF IInv, TypeOK, Places, Added
  <2>4. Asked'
    BY DEF IInv, Asked
  <2>5. Returned'
    BY DEF IInv, Returned, Leaves
  <2>6. OneByOne'
    BY DEF IInv, OneByOne, TypeOK, Live, LiveStates, Leaves, Places, Added
  <2>7. NothingRunsBehind'
    BY DEF NothingRunsBehind
  <2> QED BY <2>1, <2>2, <2>3, <2>4, <2>5, <2>6, <2>7 DEF IInv
<1>3. ASSUME CompleteStream PROVE IInv'
  <2> USE <1>3 DEF CompleteStream
  <2>1. Places' /\ Distinct' /\ Asked' /\ AlwaysPaired'
    BY DEF IInv, Places, Distinct, Asked, AlwaysPaired
  <2>2. TypeOK'
    BY DEF IInv, TypeOK
  <2>3. Leaves'
    BY DEF IInv, Leaves
  <2>4. Returned'
    BY DEF IInv, Returned
  <2>5. OneByOne'
    BY DEF IInv, OneByOne
  <2>6. NothingRunsBehind'
    BY DEF NothingRunsBehind
  <2> QED BY <2>1, <2>2, <2>3, <2>4, <2>5, <2>6 DEF IInv
<1>4. ASSUME EndStream PROVE IInv'
  <2> USE <1>4 DEF EndStream
  <2>1. Places' /\ Distinct' /\ Asked' /\ AlwaysPaired'
    BY DEF IInv, Places, Distinct, Asked, AlwaysPaired
  <2>2. TypeOK'
    BY DEF IInv, TypeOK
  <2>3. Leaves'
    BY DEF IInv, Leaves
  <2>4. Returned'
    BY DEF IInv, Returned
  <2>5. OneByOne'
    BY DEF IInv, OneByOne
  <2>6. NothingRunsBehind'
    BY DEF NothingRunsBehind
  <2> QED BY <2>1, <2>2, <2>3, <2>4, <2>5, <2>6 DEF IInv
<1>5. ASSUME BreakStream PROVE IInv'
  <2> USE <1>5 DEF BreakStream
  <2>1. Places' /\ Distinct' /\ Asked'
    BY DEF IInv, Places, Distinct, Asked, Leave
  <2>2. TypeOK'
    BY DEF IInv, TypeOK, Leave
  <2>3. Leaves'
    BY DEF Leaves, Leave
  <2>4. Returned'
    BY DEF IInv, Returned, Leave
  <2>5. OneByOne'
    BY ZenonT(40) DEF IInv, OneByOne, TypeOK, Live, LiveStates, Leaves, Places, Leave
  <2>6. NothingRunsBehind'
    BY DEF NothingRunsBehind, Leave
  <2>7. AlwaysPaired'
    BY DEF AlwaysPaired, Leave
  <2> QED BY <2>1, <2>2, <2>3, <2>4, <2>5, <2>6, <2>7 DEF IInv
<1>6. ASSUME FailStream PROVE IInv'
  <2> USE <1>6 DEF FailStream
  <2>1. Places' /\ Distinct' /\ Asked'
    BY DEF IInv, Places, Distinct, Asked, Leave
  <2>2. TypeOK'
    BY DEF IInv, TypeOK, Leave
  <2>3. Leaves'
    BY DEF Leaves, Leave
  <2>4. Returned'
    BY DEF IInv, Returned, Leave
  <2>5. OneByOne'
    BY DEF IInv, OneByOne, Live, LiveStates, Leave
  <2>6. NothingRunsBehind'
    BY DEF NothingRunsBehind, Leave
  <2>7. AlwaysPaired'
    BY DEF AlwaysPaired, Leave
  <2> QED BY <2>1, <2>2, <2>3, <2>4, <2>5, <2>6, <2>7 DEF IInv
<1>7. ASSUME CancelTask PROVE IInv'
  <2> USE <1>7 DEF CancelTask
  <2>1. Leaves' /\ Places' /\ Distinct' /\ Asked' /\ Returned' /\ OneByOne' /\ NothingRunsBehind' /\ AlwaysPaired'
    BY DEF IInv, Leaves, Places, Distinct, Asked, Returned, OneByOne, NothingRunsBehind,
           AlwaysPaired, Live
  <2>2. TypeOK'
    BY DEF IInv, TypeOK
  <2> QED BY <2>1, <2>2 DEF IInv
<1>8. ASSUME NEW c \in Calls, RunAtOnce(c) PROVE IInv'
  <2> USE <1>8 DEF RunAtOnce
  <2>1. Leaves' /\ Distinct' /\ AlwaysPaired'
    BY DEF IInv, Leaves, Distinct, AlwaysPaired
  <2>2. TypeOK'
    BY DEF IInv, TypeOK, States, LiveStates, Move
  <2>3. Places'
    BY DEF IInv, Places, TypeOK, Move
  <2>4. Asked'
    BY DEF IInv, Asked, Move
  <2>5. Returned'
    BY DEF IInv, Returned, Salvage
  <2>6. OneByOne'
    BY DEF IInv, OneByOne, Live, LiveStates, Move
  <2>7. NothingRunsBehind'
    BY DEF IInv, NothingRunsBehind, Live, LiveStates
  <2> QED BY <2>1, <2>2, <2>3, <2>4, <2>5, <2>6, <2>7 DEF IInv
<1>9. ASSUME NEW c \in Calls, Register(c) PROVE IInv'
  <2> USE <1>9 DEF Register
  <2>1. Leaves' /\ Distinct' /\ Returned' /\ AlwaysPaired'
    BY DEF IInv, Leaves, Distinct, Returned, AlwaysPaired, Salvage
  <2>2. TypeOK'
    <3>1. answers \in [Calls -> Seq({"yes", "no"})] /\ Append(answers[c], "no") \in Seq({"yes", "no"})
      BY DEF IInv, TypeOK
    <3>2. answers' \in [Calls -> Seq({"yes", "no"})]
      BY <3>1
    <3>3. call' \in [Calls -> States]
      BY DEF IInv, TypeOK, States, LiveStates, Move
    <3> QED BY <3>2, <3>3 DEF IInv, TypeOK
  <2>3. Places'
    BY DEF IInv, Places, TypeOK, Move
  <2>4. Asked'
    BY DEF IInv, Asked, TypeOK, Move
  <2>5. OneByOne'
    <3>1. \A d \in Calls : call'[d] = "queued" <=> call[d] = "queued"
      BY DEF IInv, TypeOK, Move
    <3>2. \A d \in Calls : call[d] = "sent" => call'[d] = "sent"
      BY DEF IInv, TypeOK, Move
    <3>3. serial' = serial /\ begun' = begun /\ phase' = phase /\ outcome' = outcome
      OBVIOUS
    <3>4. serial => phase = "finish" /\ outcome = "none"
      BY DEF IInv, OneByOne, NothingRunsBehind, TypeOK, States, LiveStates, Leaves, Live
    <3>5. begun \in Seq(Calls)
      BY DEF IInv, TypeOK
    <3> QED BY <3>1, <3>2, <3>3, <3>4, <3>5 DEF IInv, OneByOne
  <2>6. NothingRunsBehind'
    BY DEF IInv, NothingRunsBehind, Live, LiveStates
  <2> QED BY <2>1, <2>2, <2>3, <2>4, <2>5, <2>6 DEF IInv
<1>10. ASSUME NEW c \in Calls, Announce(c) PROVE IInv'
  <2> USE <1>10 DEF Announce
  <2>1. Leaves' /\ Distinct' /\ Returned' /\ AlwaysPaired'
    BY DEF IInv, Leaves, Distinct, Returned, AlwaysPaired, Salvage
  <2>2. TypeOK'
    <3>1. answers \in [Calls -> Seq({"yes", "no"})] /\ Append(answers[c], "no") \in Seq({"yes", "no"})
      BY DEF IInv, TypeOK
    <3>2. answers' \in [Calls -> Seq({"yes", "no"})]
      BY <3>1 DEF RefuseUnasked
    <3>3. call' \in [Calls -> States]
      BY DEF IInv, TypeOK, States, LiveStates, Move, RefuseUnasked
    <3> QED BY <3>2, <3>3 DEF IInv, TypeOK, RefuseUnasked
  <2>3. Places'
    BY DEF IInv, Places, Move
  <2>4. Asked'
    BY DEF IInv, Asked, TypeOK, Move, RefuseUnasked
  <2>5. OneByOne'
    BY DEF IInv, OneByOne, Live, LiveStates, Move
  <2>6. NothingRunsBehind'
    BY DEF IInv, NothingRunsBehind, Live, LiveStates
  <2> QED BY <2>1, <2>2, <2>3, <2>4, <2>5, <2>6 DEF IInv
<1>11. ASSUME NEW c \in Calls, TakeAnswer(c) PROVE IInv'
  <2> USE <1>11 DEF TakeAnswer
  <2>1. Leaves' /\ Distinct' /\ AlwaysPaired'
    BY DEF IInv, Leaves, Distinct, AlwaysPaired
  <2>2. TypeOK'
    <3>1. answers \in [Calls -> Seq({"yes", "no"})] /\ Tail(answers[c]) \in Seq({"yes", "no"})
      BY DEF IInv, TypeOK
    <3>2. answers' \in [Calls -> Seq({"yes", "no"})]
      BY <3>1
    <3>3. call' \in [Calls -> States]
      BY DEF IInv, TypeOK, States, LiveStates, Move
    <3> QED BY <3>2, <3>3 DEF IInv, TypeOK
  <2>3. Places'
    BY DEF IInv, Places, TypeOK, Move
  <2>4. Asked'
    BY DEF IInv, Asked, TypeOK, Move
  <2>5. Returned'
    BY DEF IInv, Returned, Salvage
  <2>6. OneByOne'
    <3>1. \A d \in Calls : call'[d] = "queued" <=> call[d] = "queued"
      BY DEF IInv, TypeOK, Move
    <3>2. \A d \in Calls : call[d] = "sent" => call'[d] = "sent"
      BY DEF IInv, TypeOK, Move
    <3>3. serial' = serial /\ begun' = begun /\ phase' = phase /\ outcome' = outcome
      OBVIOUS
    <3>4. serial => phase = "finish" /\ outcome = "none"
      BY DEF IInv, OneByOne, NothingRunsBehind, TypeOK, States, LiveStates, Leaves, Live
    <3>5. begun \in Seq(Calls)
      BY DEF IInv, TypeOK
    <3> QED BY <3>1, <3>2, <3>3, <3>4, <3>5 DEF IInv, OneByOne
  <2>7. NothingRunsBehind'
    BY DEF IInv, NothingRunsBehind, Live, LiveStates
  <2> QED BY <2>1, <2>2, <2>3, <2>4, <2>5, <2>6, <2>7 DEF IInv
<1>12. ASSUME NEW c \in Calls, Withdraw(c) PROVE IInv'
  <2> USE <1>12 DEF Withdraw
  <2>1. Leaves' /\ Distinct' /\ Returned' /\ AlwaysPaired'
    BY DEF IInv, Leaves, Distinct, Returned, AlwaysPaired, Salvage
  <2>2. TypeOK'
    BY DEF IInv, TypeOK, States, LiveStates, Move, Withdrawn
  <2>3. Places'
    BY DEF IInv, Places, Move, Withdrawn
  <2>4. Asked'
    BY DEF IInv, Asked, Move, Withdrawn
  <2>5. OneByOne'
    BY DEF IInv, OneByOne, Live, LiveStates, Move
  <2>6. NothingRunsBehind'
    BY DEF IInv, NothingRunsBehind, Live, LiveStates
  <2> QED BY <2>1, <2>2, <2>3, <2>4, <2>5, <2>6 DEF IInv
<1>13. ASSUME NEW c \in Calls, ToolReturns(c) PROVE IInv'
  <2> USE <1>13 DEF ToolReturns
  <2>1. Leaves' /\ Distinct' /\ Returned' /\ AlwaysPaired'
    BY DEF IInv, Leaves, Distinct, Returned, AlwaysPaired, Salvage
  <2>2. TypeOK'
    BY DEF IInv, TypeOK, States, LiveStates, Move
  <2>3. Places'
    BY DEF IInv, Places, Move
  <2>4. Asked'
    BY DEF IInv, Asked, Move
  <2>5. OneByOne'
    BY DEF IInv, OneByOne, Live, LiveStates, Move
  <2>6. NothingRunsBehind'
    BY DEF IInv, NothingRunsBehind, Live, LiveStates
  <2> QED BY <2>1, <2>2, <2>3, <2>4, <2>5, <2>6 DEF IInv
<1>14. ASSUME NEW c \in Calls, ResolveToolConfirm(c) PROVE IInv'
  <2> USE <1>14 DEF ResolveToolConfirm
  <2>1. Leaves' /\ Places' /\ Distinct' /\ Returned' /\ OneByOne' /\ NothingRunsBehind' /\ AlwaysPaired'
    BY DEF IInv, Leaves, Places, Distinct, Returned, OneByOne, NothingRunsBehind,
           AlwaysPaired, Live, Salvage
  <2>2. TypeOK'
    BY DEF IInv, TypeOK
  <2>3. Asked'
    BY DEF IInv, Asked
  <2> QED BY <2>1, <2>2, <2>3 DEF IInv
<1>15. ASSUME CleanupConfirmChannels PROVE IInv'
  <2> USE <1>15 DEF CleanupConfirmChannels
  <2>1. Leaves' /\ Places' /\ Distinct' /\ Returned' /\ OneByOne' /\ NothingRunsBehind' /\ AlwaysPaired'
    BY DEF IInv, Leaves, Places, Distinct, Returned, OneByOne, NothingRunsBehind,
           AlwaysPaired, Live, Salvage
  <2>2. TypeOK'
    BY DEF IInv, TypeOK
  <2>3. Asked'
    BY DEF IInv, Asked
  <2> QED BY <2>1, <2>2, <2>3 DEF IInv
<1>16. ASSUME NEW c \in Calls, SendToolResult(c) PROVE IInv'
  <2> USE <1>16 DEF SendToolResult
  <2>1. Leaves' /\ AlwaysPaired'
    BY DEF IInv, Leaves, AlwaysPaired
  <2>2. TypeOK'
    <3>1. resultCh \in Seq(Calls) /\ Len(resultCh) \in Nat /\ Len(resultCh) <= ResultCap
      BY DEF IInv, TypeOK
    <3>2. resultCh' \in Seq(Calls) /\ Len(resultCh') <= ResultCap
      BY <3>1, Appended, ToolAssumption DEF DeliverFirst, HasRoom
    <3>3. call' \in [Calls -> States]
      BY DEF IInv, TypeOK, States, LiveStates, DeliverFirst, Move
    <3> QED BY <3>2, <3>3 DEF IInv, TypeOK, DeliverFirst
  <2>3. Places'
    <3>1. resultCh \in Seq(Calls)
      BY DEF IInv, TypeOK
    <3>2. ~HasRoom => Len(begun) > ResultCap
      BY Full
    <3>3. UNCHANGED <<serial, begun, results, ran, denied>>
      OBVIOUS
    <3>4. CASE resultCh' = Append(resultCh, c) /\ Move(c, "sent")
      <4>1. Elements(resultCh') = Elements(resultCh) \cup {c}
        BY <3>1, <3>4, Appended
      <4> QED BY <3>3, <3>4, <4>1 DEF IInv, TypeOK, Places, Move
    <3>5. CASE UNCHANGED resultCh /\ ~HasRoom /\ Move(c, "blocked")
      BY <3>2, <3>3, <3>5 DEF IInv, Places, Move
    <3> QED BY <3>4, <3>5 DEF DeliverFirst
  <2>4. Distinct'
    <3>1. /\ resultCh \in Seq(Calls) /\ ~serial
          /\ c \notin Elements(resultCh) /\ c \notin Elements(results)
      BY DEF IInv, TypeOK, Places
    <3>2. UNCHANGED <<serial, results>>
      OBVIOUS
    <3>3. CASE resultCh' = Append(resultCh, c)
      BY <3>1, <3>2, <3>3, Appended DEF IInv, Distinct
    <3>4. CASE UNCHANGED resultCh
      BY <3>2, <3>4 DEF IInv, Distinct
    <3> QED BY <3>3, <3>4 DEF DeliverFirst
  <2>5. Asked'
    BY DEF IInv, Asked, TypeOK, DeliverFirst, Move
  <2>6. Returned'
    <3>1. phase # "returned"
      BY DEF IInv, NothingRunsBehind, Live, LiveStates
    <3> QED BY <3>1 DEF IInv, Returned
  <2>7. OneByOne'
    BY DEF OneByOne
  <2>8. NothingRunsBehind'
    BY DEF IInv, NothingRunsBehind, Live, LiveStates
  <2> QED BY <2>1, <2>2, <2>3, <2>4, <2>5, <2>6, <2>7, <2>8 DEF IInv
<1>17. ASSUME NEW c \in Calls, WaitForRoom(c) PROVE IInv'
  <2> USE <1>17 DEF WaitForRoom
  <2>1. Leaves' /\ AlwaysPaired'
    BY DEF IInv, Leaves, AlwaysPaired
  <2>2. TypeOK'
    <3>1. resultCh \in Seq(Calls) /\ Len(resultCh) \in Nat /\ Len(resultCh) <= ResultCap
      BY DEF IInv, TypeOK
    <3>2. resultCh' \in Seq(Calls) /\ Len(resultCh') <= ResultCap
      BY <3>1, Appended, ToolAssumption DEF HasRoom
    <3>3. call' \in [Calls -> States]
      BY DEF IInv, TypeOK, States, LiveStates, Move
    <3> QED BY <3>2, <3>3 DEF IInv, TypeOK
  <2>3. Places'
    <3>1. resultCh \in Seq(Calls)
      BY DEF IInv, TypeOK
    <3>2. ~HasRoom => Len(begun) > ResultCap
      BY Full
    <3>3. UNCHANGED <<serial, begun, results, ran, denied>>
      OBVIOUS
    <3>4. CASE resultCh' = Append(resultCh, c) /\ Move(c, "sent")
      <4>1. Elements(resultCh') = Elements(resultCh) \cup {c}
        BY <3>1, <3>4, Appended
      <4> QED BY <3>3, <3>4, <4>1 DEF IInv, TypeOK, Places, Move
    <3>5. CASE UNCHANGED resultCh /\ Move(c, "dropped")
      BY <3>2, <3>3, <3>5 DEF IInv, Places, Move
    <3> QED BY <3>4, <3>5
  <2>4. Distinct'
    <3>1. /\ resultCh \in Seq(Calls) /\ ~serial
          /\ c \notin Elements(resultCh) /\ c \notin Elements(results)
      BY DEF IInv, TypeOK, Places
    <3>2. UNCHANGED <<serial, results>>
      OBVIOUS
    <3>3. CASE resultCh' = Append(resultCh, c)
      BY <3>1, <3>2, <3>3, Appended DEF IInv, Distinct
    <3>4. CASE UNCHANGED resultCh
      BY <3>2, <3>4 DEF IInv, Distinct
    <3> QED BY <3>3, <3>4
  <2>5. Asked'
    BY DEF IInv, Asked, TypeOK, Move
  <2>6. Returned'
    <3>1. phase # "returned"
      BY DEF IInv, NothingRunsBehind, Live, LiveStates
    <3> QED BY <3>1 DEF IInv, Returned
  <2>7. OneByOne'
    BY DEF IInv, OneByOne, Places
  <2>8. NothingRunsBehind'
    BY DEF IInv, NothingRunsBehind, Live, LiveStates
  <2> QED BY <2>1, <2>2, <2>3, <2>4, <2>5, <2>6, <2>7, <2>8 DEF IInv
<1>18. ASSUME Collect PROVE IInv'
  <2> USE <1>18 DEF Collect
  <2>1. Leaves' /\ Asked' /\ OneByOne' /\ NothingRunsBehind' /\ AlwaysPaired'
    BY DEF IInv, Leaves, Asked, OneByOne, NothingRunsBehind, AlwaysPaired
  <2>2. TypeOK'
    BY ToolAssumption DEF IInv, TypeOK, States, LiveStates
  <2>3. Places'
    <3>1. /\ resultCh \in Seq(Calls) /\ results \in Seq(Calls)
          /\ Cardinality(Elements(resultCh)) = Len(resultCh)
      BY DEF IInv, TypeOK, Distinct
    <3>2. Elements(resultCh) = Elements(resultCh') \cup {Head(resultCh)} /\ Head(resultCh) \in Calls
      BY <3>1, Tailed
    <3>3. Elements(results') = Elements(results) \cup {Head(resultCh)}
      BY <3>1, <3>2, Appended
    <3>4. UNCHANGED <<serial, begun, call, ran, denied>>
      OBVIOUS
    <3> QED BY <3>2, <3>3, <3>4 DEF IInv, Places
  <2>4. Distinct'
    <3>1. /\ resultCh \in Seq(Calls) /\ results \in Seq(Calls)
          /\ Cardinality(Elements(resultCh)) = Len(resultCh)
          /\ Cardinality(Elements(results)) = Len(results)
          /\ Elements(results) \cap Elements(resultCh) = {}
      BY DEF IInv, TypeOK, Distinct
    <3>2. /\ Elements(resultCh) = Elements(resultCh') \cup {Head(resultCh)}
          /\ Head(resultCh) \in Calls /\ Head(resultCh) \notin Elements(resultCh')
          /\ Cardinality(Elements(resultCh')) = Len(resultCh')
      BY <3>1, Tailed
    <3>3. /\ Elements(results') = Elements(results) \cup {Head(resultCh)}
          /\ Cardinality(Elements(results')) = Len(results')
      BY <3>1, <3>2, Appended
    <3> QED BY <3>1, <3>2, <3>3 DEF Distinct
  <2>5. Returned'
    BY DEF IInv, Returned
  <2> QED BY <2>1, <2>2, <2>3, <2>4, <2>5 DEF IInv
<1>19. ASSUME StopCollecting PROVE IInv'
  <2> USE <1>19 DEF StopCollecting
  <2>1. Places' /\ Distinct' /\ Asked'
    BY DEF IInv, Places, Distinct, Asked, Leave
  <2>2. TypeOK'
    BY DEF IInv, TypeOK, Leave
  <2>3. Leaves'
    BY DEF Leaves, Leave
  <2>4. Returned'
    BY DEF IInv, Returned, Leave
  <2>5. OneByOne'
    BY DEF OneByOne
  <2>6. NothingRunsBehind'
    BY DEF NothingRunsBehind, Leave
  <2>7. AlwaysPaired'
    BY DEF AlwaysPaired, Leave
  <2> QED BY <2>1, <2>2, <2>3, <2>4, <2>5, <2>6, <2>7 DEF IInv
<1>20. ASSUME NEW c \in Calls, StartNext(c) PROVE IInv'
  <2> USE <1>20 DEF StartNext
  <2>1. Leaves' /\ Distinct' /\ Returned' /\ AlwaysPaired'
    BY DEF IInv, Leaves, Distinct, Returned, AlwaysPaired
  <2>2. TypeOK'
    BY DEF IInv, TypeOK, States, LiveStates, Move
  <2>3. Places'
    BY DEF IInv, Places, Move
  <2>4. Asked'
    BY DEF IInv, Asked, Move
  <2>5. OneByOne'
    <3> SUFFICES ASSUME NEW i \in DOMAIN begun, NEW j \in DOMAIN begun, i < j, call'[begun[j]] # "queued"
                 PROVE  call'[begun[i]] = "sent"
      BY DEF OneByOne, IInv, Leaves
    <3>1. begun \in Seq(Calls) /\ \A k, l \in DOMAIN begun : begun[k] = begun[l] => k = l
      BY NoneTwice DEF IInv, TypeOK
    <3>2. PICK k \in DOMAIN begun : begun[k] = c /\ \A l \in 1 .. k - 1 : call[begun[l]] = "sent"
      BY DEF Turns
    <3>3. CASE j = k
      <4>1. i \in 1 .. k - 1 /\ begun[i] # c /\ begun[i] \in Calls
        BY <3>1, <3>2, <3>3
      <4> QED BY <3>2, <4>1 DEF Move
    <3>4. CASE j # k
      <4>1. begun[j] # c /\ begun[i] \in Calls /\ begun[j] \in Calls
        BY <3>1, <3>2, <3>4
      <4>2. call[begun[j]] # "queued"
        BY <4>1 DEF Move
      <4>3. call[begun[i]] = "sent"
        BY <4>2 DEF IInv, OneByOne
      <4> QED BY <4>1, <4>3 DEF Move
    <3> QED BY <3>3, <3>4
  <2>6. NothingRunsBehind'
    BY DEF NothingRunsBehind
  <2> QED BY <2>1, <2>2, <2>3, <2>4, <2>5, <2>6 DEF IInv
<1>21. ASSUME NEW c \in Calls, ReturnResult(c) PROVE IInv'
  <2> USE <1>21 DEF ReturnResult
  <2>0. /\ phase = "finish" /\ outcome = "none" /\ resultCh = <<>>
        /\ results \in Seq(Calls) /\ begun \in Seq(Calls) /\ c \notin Elements(results)
        /\ Elements(results') = Elements(results) \cup {c}
    <3>1. /\ phase = "finish" /\ outcome = "none" /\ resultCh = <<>>
          /\ results \in Seq(Calls) /\ begun \in Seq(Calls)
      BY DEF IInv, TypeOK, States, LiveStates, OneByOne, NothingRunsBehind, Leaves, Distinct, Live
    <3>2. c \notin Elements(results)
      BY DEF IInv, Places
    <3> QED BY <3>1, <3>2, Appended
  <2>1. TypeOK'
    BY DEF IInv, TypeOK, States, LiveStates, Move, NextOrStop, Leave
  <2>2. Leaves'
    BY DEF IInv, Leaves, NextOrStop, Leave
  <2>3. Places'
    BY <2>0, Empty DEF IInv, TypeOK, Places, Move, NextOrStop, Leave
  <2>4. Distinct'
    <3>1. Cardinality(Elements(results)) = Len(results)
      BY DEF IInv, Distinct
    <3>2. results \in Seq(Calls) /\ results' = Append(results, c)
      BY <2>0
    <3>3a. Cardinality(Elements(Append(results, c))) = Len(Append(results, c))
      BY ONLY <2>0, <3>1, <3>2, c \in Calls, Appended
    <3>3b. Cardinality(Elements(results')) = Len(results')
      BY <3>2, <3>3a
    <3>3. UNCHANGED <<serial, resultCh>>
      OBVIOUS
    <3> QED BY <2>0, <3>3b, <3>3, Empty DEF Distinct
  <2>5. Asked'
    BY DEF IInv, Asked, Move
  <2>6. Returned'
    BY <2>0 DEF IInv, Returned, NextOrStop, Leave
  <2>7. OneByOne'
    <3>1. UNCHANGED <<serial, begun>>
      BY DEF NextOrStop, Leave
    <3>2. \A i, j \in DOMAIN begun : i < j /\ call'[begun[j]] # "queued" => call'[begun[i]] = "sent"
      BY <2>0 DEF IInv, OneByOne, Move
    <3>3. Live' = {}
      BY OneAtATime DEF IInv, TypeOK, Live, LiveStates, Move
    <3> QED BY <2>0, <3>1, <3>2, <3>3 DEF OneByOne, NextOrStop, Leave
  <2>8. NothingRunsBehind'
    BY DEF IInv, NothingRunsBehind, Live, LiveStates, NextOrStop, Leave
  <2>9. AlwaysPaired'
    BY DEF IInv, AlwaysPaired, NextOrStop, Leave
  <2> QED BY <2>1, <2>2, <2>3, <2>4, <2>5, <2>6, <2>7, <2>8, <2>9 DEF IInv
<1>22. ASSUME NEW c \in Calls, SkipResult(c) PROVE IInv'
  <2> USE <1>22 DEF SkipResult
  <2>1. Places' /\ Distinct' /\ Asked'
    BY DEF IInv, Places, Distinct, Asked, Leave
  <2>2. TypeOK'
    BY DEF IInv, TypeOK, Leave
  <2>3. Leaves'
    BY DEF Leaves, Leave
  <2>4. Returned'
    BY DEF IInv, Returned, Leave
  <2>5. OneByOne'
    <3>1. Live' = {}
      BY OneAtATime DEF Live, LiveStates
    <3> QED BY <3>1 DEF IInv, OneByOne, Leave
  <2>6. NothingRunsBehind'
    BY DEF NothingRunsBehind, Leave
  <2>7. AlwaysPaired'
    BY DEF AlwaysPaired, Leave
  <2> QED BY <2>1, <2>2, <2>3, <2>4, <2>5, <2>6, <2>7 DEF IInv
<1>23. ASSUME Land PROVE IInv'
  <2> USE <1>23 DEF Land
  <2>0. Elements(begun) \subseteq Elements(results)
    <3>1. begun \in Seq(Calls) /\ results \in Seq(Calls)
      BY DEF IInv, TypeOK
    <3>2. /\ IsFiniteSet(Elements(begun)) /\ Elements(begun) \subseteq Calls
          /\ Elements(results) \subseteq Calls
      BY <3>1, ElementsBound
    <3>3. CASE serial
      BY <3>2, <3>3, Empty DEF IInv, Places, Distinct, FinishReturns
    <3>4. CASE ~serial
      <4>1. Elements(results) \subseteq Elements(begun)
        BY <3>2 DEF IInv, Places
      <4>2. Cardinality(Elements(begun)) = Cardinality(Elements(results))
        BY <3>4 DEF IInv, TypeOK, Distinct, FinishReturns
      <4> QED BY <3>2, <4>1, <4>2, FS_Subset
    <3> QED BY <3>3, <3>4
  <2>1. Places' /\ Distinct' /\ Asked'
    BY DEF IInv, Places, Distinct, Asked, Leave
  <2>2. TypeOK'
    BY ElementsBound DEF IInv, TypeOK, Leave
  <2>3. Leaves'
    BY DEF Leaves, Leave
  <2>4. Returned'
    <3>1. Elements(begun) \subseteq ran \cup denied
      <4>1. Elements(results) \subseteq Calls
        BY ElementsBound DEF IInv, TypeOK
      <4> QED BY <2>0, <4>1 DEF IInv, Places
    <3> QED BY <2>0, <3>1 DEF Returned, Paired, Leave
  <2>5. OneByOne'
    BY DEF IInv, OneByOne, TypeOK, Live, LiveStates, Leaves, Places, Leave, FinishReturns,
           Paired
  <2>6. NothingRunsBehind'
    BY DEF NothingRunsBehind, Leave
  <2>7. AlwaysPaired'
    BY <2>0 DEF Paired, AlwaysPaired, Leave
  <2> QED BY <2>1, <2>2, <2>3, <2>4, <2>5, <2>6, <2>7 DEF IInv
<1>24. ASSUME CancelStream PROVE IInv'
  <2> USE <1>24 DEF CancelStream
  <2>1. Places' /\ Distinct' /\ Asked' /\ Returned' /\ OneByOne' /\ NothingRunsBehind' /\ AlwaysPaired'
    BY DEF IInv, Places, Distinct, Asked, Returned, OneByOne, NothingRunsBehind,
           AlwaysPaired, Live
  <2>2. TypeOK'
    BY DEF IInv, TypeOK
  <2>3. Leaves'
    BY DEF IInv, Leaves
  <2> QED BY <2>1, <2>2, <2>3 DEF IInv
<1>25. ASSUME Return PROVE IInv'
  <2> USE <1>25 DEF Return
  <2>0. Salvage \subseteq Calls
    BY ElementsBound DEF IInv, TypeOK, Salvage
  <2>1. Places' /\ Distinct' /\ Asked' /\ AlwaysPaired'
    BY DEF IInv, Places, Distinct, Asked, AlwaysPaired
  <2>2. TypeOK'
    BY <2>0 DEF IInv, TypeOK
  <2>3. Leaves'
    BY DEF IInv, Leaves, WaitOver
  <2>4. Returned'
    <3>1. Salvage \subseteq ran \cup denied
      BY <2>0 DEF IInv, Places, Salvage
    <3> QED BY <3>1 DEF IInv, Returned, Salvage
  <2>5. OneByOne'
    BY DEF IInv, OneByOne
  <2>6. NothingRunsBehind'
    BY DEF NothingRunsBehind, Live, WaitOver
  <2> QED BY <2>1, <2>2, <2>3, <2>4, <2>5, <2>6 DEF IInv
<1>26. CASE UNCHANGED vars
  BY <1>26 DEF vars, IInv, TypeOK, Leaves, Places, Distinct, Asked, Returned, OneByOne,
         NothingRunsBehind, AlwaysPaired, Live, Salvage
<1> QED
  BY <1>1, <1>2, <1>3, <1>4, <1>5, <1>6, <1>7, <1>8, <1>9, <1>10,
     <1>11, <1>12, <1>13, <1>14, <1>15, <1>16, <1>17, <1>18, <1>19, <1>20,
     <1>21, <1>22, <1>23, <1>24, <1>25, <1>26
  DEF Next, Provider, ToolStep, StepEnd, Terminated

(* The first state satisfies it.                                           *)
LEMMA InitIInv == Init => IInv
<1> SUFFICES ASSUME Init PROVE IInv
  OBVIOUS
<1> USE Empty DEF Init
<1>1. TypeOK
  <2>1. answers \in [Calls -> Seq({"yes", "no"})]
    OBVIOUS
  <2>2. resultCh \in Seq(Calls) /\ Len(resultCh) <= ResultCap
    BY ToolAssumption
  <2> QED BY <2>1, <2>2 DEF TypeOK, States
<1>2. Leaves /\ Places /\ Distinct /\ Asked
  BY DEF Leaves, Places, Distinct, Asked
<1>3. Returned /\ OneByOne /\ NothingRunsBehind /\ AlwaysPaired
  BY DEF Returned, OneByOne, NothingRunsBehind, AlwaysPaired
<1> QED BY <1>1, <1>2, <1>3 DEF IInv

(* So it holds for ever.                                                   *)
LEMMA Invariance == Spec => []IInv
<1>1. Init => IInv
  BY InitIInv
<1>2. IInv /\ [Next]_vars => IInv'
  BY NextIInv
<1> QED BY <1>1, <1>2, PTL DEF Spec

-----------------------------------------------------------------------------
(* The types: the driver's states, the channel within its capacity and no  *)
(* call given to the driver twice (streamEvents, sendToolResult).          *)
THEOREM TypeCorrect == Spec => []TypeOK
<1>1. IInv => TypeOK
  BY DEF IInv
<1> QED BY <1>1, Invariance, PTL

(* The history the step leaves says what happened: every tool that ran is  *)
(* in it, unless its result found the channel full and the step canceled;  *)
(* nothing is in it that neither ran nor was denied; and a step that was   *)
(* let finish has a result for each call (sendToolResult, collectResults,  *)
(* attachToolResults).                                                     *)
THEOREM RecordMatches == Spec => []RecordIsWhatRan
<1>1. ASSUME IInv, phase = "returned", NEW c \in ran
      PROVE  c \in record \/ (call[c] = "dropped" /\ Len(begun) > ResultCap)
  <2>1. c \in Calls /\ call[c] \in {"sent", "dropped"}
    BY <1>1 DEF IInv, TypeOK, States, LiveStates, Places, NothingRunsBehind, Live
  <2>2. CASE call[c] = "dropped"
    BY <1>1, <2>1, <2>2 DEF IInv, Places
  <2>3. CASE call[c] = "sent"
    BY <1>1, <2>1, <2>3 DEF IInv, Places, Returned, Salvage
  <2> QED BY <2>1, <2>2, <2>3
<1>2. IInv => RecordIsWhatRan
  BY <1>1 DEF RecordIsWhatRan, SideEffectsRecorded, RecordIsTrue, IInv, Returned
<1> QED BY <1>2, Invariance, PTL

(* Nothing runs on once the step has returned; the serial driver starts a  *)
(* call when all before it have their results, and never before the stream *)
(* ended well; no confirmation is answered twice (serialToolRunner, the    *)
(* deferred toolWg.Wait, handleToolConfirm).                               *)
THEOREM RunInTurn == Spec => []ToolsRunInTurn
<1>1. ASSUME IInv, serial, NEW c \in Live \cup ran
      PROVE  call[c] \notin {"absent", "opened", "queued"}
  BY <1>1 DEF IInv, TypeOK, Places, Live, LiveStates
<1>2. ASSUME IInv, serial, NEW i \in DOMAIN begun, NEW j \in DOMAIN begun,
             i < j, begun[j] \in Live \cup ran
      PROVE  call[begun[i]] = "sent"
  BY <1>1, <1>2 DEF IInv, OneByOne
<1>3. ASSUME IInv, serial,
             phase \in {"stream", "completed"} \/ outcome \in {"broke", "cut", "failed"}
      PROVE  ran = {}
  BY <1>1, <1>3 DEF IInv, TypeOK, OneByOne
<1>4. IInv => SerialInOrder
  BY <1>2, <1>3 DEF SerialInOrder
<1>5. IInv => ToolsRunInTurn
  BY <1>4 DEF IInv, Asked, ToolsRunInTurn, OneAnswer
<1> QED BY <1>5, Invariance, PTL
=============================================================================
