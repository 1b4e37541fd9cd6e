----------------------------- MODULE TurnProofs -----------------------------
(***************************************************************************)
(* Proofs about the conversation while tasks work on it (module Turn).     *)
(*                                                                         *)
(* HistoriesAgree and RequestsAreDue say what holds when a task is told,   *)
(* asks or ends.  A step keeps them only because of what the task has      *)
(* noted on the way there: how much of its history was told, what its      *)
(* record would rebuild if it failed now, and that nothing waits unasked   *)
(* where a summary may come.  IInv says that at every point of the task.   *)
(***************************************************************************)
EXTENDS Turn, WellFoundedInduction, TLAPS

-----------------------------------------------------------------------------
(* What run() hears.                                                       *)

(* Numbers have a least one.                                               *)
LEMMA LeastOne ==
  ASSUME NEW T, T \subseteq Nat, T # {}
  PROVE  \E i \in T : \A j \in T : i <= j
<1> DEFINE Less == {ss \in Nat \X Nat : ss[1] < ss[2]}
<1>1. PICK i \in T : \A j \in T : ~(<<j, i>> \in Less)
  <2>1. Less = OpToRel(<, Nat)
    BY DEF OpToRel
  <2>2. IsWellFoundedOn(Less, Nat)
    BY <2>1, NatLessThanWellFounded
  <2> HIDE DEF Less
  <2> QED BY <2>2, WFMin
<1>2. \A j \in T : i <= j
  <2> SUFFICES ASSUME NEW j \in T, ~(i <= j) PROVE FALSE
    OBVIOUS
  <2>1. i \in Nat /\ j \in Nat /\ j < i
    OBVIOUS
  <2>2. <<j, i>> \in Less
    BY <2>1
  <2> QED BY <1>1, <2>2
<1> QED BY <1>2

(* Two runs that begin alike and go on alike end alike.                    *)
LEMMA RunsAgree ==
  ASSUME NEW n \in Nat, NEW f, NEW g, f[0] = g[0],
         \A m \in 1 .. n : f[m - 1] = g[m - 1] => f[m] = g[m]
  PROVE  f[n] = g[n]
<1> DEFINE T == {m \in 0 .. n : f[m] # g[m]}
<1> SUFFICES ASSUME T # {} PROVE FALSE
  OBVIOUS
<1>1. PICK i \in T : \A j \in T : i <= j
  <2>1. T \subseteq Nat
    OBVIOUS
  <2> HIDE DEF T
  <2> QED BY <2>1, LeastOne
<1>2. i # 0 /\ i \in 1 .. n
  OBVIOUS
<1>3. i - 1 \in 0 .. n /\ ~(i <= i - 1)
  BY <1>2
<1>4. f[i - 1] = g[i - 1]
  BY <1>1, <1>3
<1> QED BY <1>2, <1>4

(* The history after each event of a list.                                 *)
IsRun(c, evs, n, g) ==
  g = [m \in 0 .. n |-> IF m = 0 THEN c ELSE Apply(g[m - 1], evs[m])]

LEMMA RunExists ==
  ASSUME NEW c, NEW evs, NEW n \in Nat
  PROVE  \E g : IsRun(c, evs, n, g)
<1> DEFINE T == {m \in Nat : ~\E g : IsRun(c, evs, m, g)}
<1> SUFFICES ASSUME T # {} PROVE FALSE
  OBVIOUS
<1>1. PICK i \in T : \A j \in T : i <= j
  <2>1. T \subseteq Nat
    OBVIOUS
  <2> HIDE DEF T
  <2> QED BY <2>1, LeastOne
<1>2. CASE i = 0
  <2>1. IsRun(c, evs, 0, [m \in 0 .. 0 |-> c])
    BY DEF IsRun
  <2> QED BY <1>2, <2>1
<1>3. CASE i # 0
  <2>1. i - 1 \in Nat /\ ~(i <= i - 1)
    BY <1>3
  <2>2. PICK g : IsRun(c, evs, i - 1, g)
    BY <1>1, <2>1
  <2> DEFINE h == [m \in 0 .. i |-> IF m = i THEN Apply(g[i - 1], evs[i]) ELSE g[m]]
  <2>3. IsRun(c, evs, i, h)
    <3>1. \A m \in 0 .. i - 1 : g[m] = IF m = 0 THEN c ELSE Apply(g[m - 1], evs[m])
      BY <2>2 DEF IsRun
    <3>2. \A m \in 0 .. i : h[m] = IF m = 0 THEN c ELSE Apply(h[m - 1], evs[m])
      BY <1>3, <2>1, <3>1
    <3>3. h = [m \in 0 .. i |-> h[m]]
      OBVIOUS
    <3> HIDE DEF h
    <3> QED BY <3>2, <3>3 DEF IsRun
  <2> HIDE DEF h
  <2> QED BY <2>3
<1> QED BY <1>2, <1>3

LEMMA HearsARun ==
  ASSUME NEW c, NEW evs, Len(evs) \in Nat
  PROVE  \E g : IsRun(c, evs, Len(evs), g) /\ Hears(c, evs) = g[Len(evs)]
<1>1. \E g : IsRun(c, evs, Len(evs), g)
  BY RunExists
<1> DEFINE g == CHOOSE x : IsRun(c, evs, Len(evs), x)
<1>2. IsRun(c, evs, Len(evs), g)
  BY <1>1
<1>3. Hears(c, evs) = g[Len(evs)]
  BY DEF Hears, IsRun
<1> QED BY <1>2, <1>3

LEMMA RunSteps ==
  ASSUME NEW c, NEW evs, NEW n \in Nat, NEW g, IsRun(c, evs, n, g)
  PROVE  g[0] = c /\ \A m \in 1 .. n : g[m] = Apply(g[m - 1], evs[m])
<1>1. \A m \in 0 .. n : g[m] = IF m = 0 THEN c ELSE Apply(g[m - 1], evs[m])
  BY DEF IsRun
<1> QED BY <1>1

(* Nothing heard changes nothing.                                          *)
LEMMA HearsNothing == ASSUME NEW c PROVE Hears(c, <<>>) = c
<1>1. PICK g : IsRun(c, <<>>, Len(<<>>), g) /\ Hears(c, <<>>) = g[Len(<<>>)]
  BY HearsARun
<1> QED BY <1>1, RunSteps

(* The last event is heard after the others.                               *)
LEMMA HearsLast ==
  ASSUME NEW c, NEW S, NEW evs \in Seq(S), NEW ev \in S
  PROVE  Hears(c, Append(evs, ev)) = Apply(Hears(c, evs), ev)
<1> DEFINE n == Len(evs)
           all == Append(evs, ev)
<1>1. /\ n \in Nat /\ Len(evs) = n /\ Len(all) = n + 1 /\ all[n + 1] = ev
      /\ \A m \in 1 .. n : all[m] = evs[m]
  OBVIOUS
<1> HIDE DEF n, all
<1>2. PICK f : IsRun(c, evs, n, f) /\ Hears(c, evs) = f[n]
  BY <1>1, HearsARun
<1>3. PICK g : IsRun(c, all, n + 1, g) /\ Hears(c, all) = g[n + 1]
  BY <1>1, HearsARun
<1>4. f[0] = c /\ \A m \in 1 .. n : f[m] = Apply(f[m - 1], evs[m])
  BY <1>1, <1>2, RunSteps
<1>5. g[0] = c /\ \A m \in 1 .. n + 1 : g[m] = Apply(g[m - 1], all[m])
  BY <1>1, <1>3, RunSteps
<1>6. \A m \in 1 .. n : m \in 1 .. n + 1
  BY <1>1
<1>7. \A m \in 1 .. n : f[m - 1] = g[m - 1] => f[m] = g[m]
  BY <1>1, <1>4, <1>5, <1>6
<1>8. f[n] = g[n]
  BY <1>1, <1>4, <1>5, <1>7, RunsAgree
<1>9. g[n + 1] = Apply(g[n], ev)
  BY <1>1, <1>5
<1> QED BY <1>2, <1>3, <1>8, <1>9 DEF all

(* What is heard first is as well heard before.                            *)
LEMMA HearsFirst ==
  ASSUME NEW c, NEW S, NEW evs \in Seq(S), evs # <<>>
  PROVE  Hears(Apply(c, Head(evs)), Tail(evs)) = Hears(c, evs)
<1> DEFINE n == Len(evs) - 1
           rest == Tail(evs)
<1>1. /\ n \in Nat /\ Len(evs) = n + 1 /\ Len(rest) = n /\ Head(evs) = evs[1]
      /\ \A m \in 1 .. n : rest[m] = evs[m + 1]
  OBVIOUS
<1> HIDE DEF n, rest
<1>2. PICK f : IsRun(Apply(c, evs[1]), rest, n, f) /\ Hears(Apply(c, evs[1]), rest) = f[n]
  BY <1>1, HearsARun
<1>3. PICK g : IsRun(c, evs, n + 1, g) /\ Hears(c, evs) = g[n + 1]
  BY <1>1, HearsARun
<1>4. f[0] = Apply(c, evs[1]) /\ \A m \in 1 .. n : f[m] = Apply(f[m - 1], rest[m])
  BY <1>1, <1>2, RunSteps, SMTT(30)
<1>5. g[0] = c /\ \A m \in 1 .. n + 1 : g[m] = Apply(g[m - 1], evs[m])
  BY <1>1, <1>3, RunSteps
<1> DEFINE h == [m \in 0 .. n |-> g[m + 1]]
<1>6. \A m \in 0 .. n : h[m] = g[m + 1]
  OBVIOUS
<1> HIDE DEF h
<1>7. f[0] = h[0]
  <2>1. g[1] = Apply(g[0], evs[1])
    BY <1>1, <1>5
  <2> QED BY <1>1, <1>4, <1>5, <1>6, <2>1
<1>8. ASSUME NEW m \in 1 .. n, f[m - 1] = h[m - 1]
      PROVE  f[m] = h[m]
  <2>1. h[m] = g[m + 1] /\ h[m - 1] = g[m]
    BY <1>1, <1>6
  <2>2. m + 1 \in 1 .. n + 1 /\ m + 1 - 1 = m
    BY <1>1
  <2>3. g[m + 1] = Apply(g[m], evs[m + 1])
    BY <1>5, <2>2
  <2> QED BY <1>1, <1>4, <1>8, <2>1, <2>3
<1>9. f[n] = h[n]
  BY <1>1, <1>7, <1>8, RunsAgree, SMTT(30)
<1> QED BY <1>1, <1>2, <1>3, <1>6, <1>9 DEF rest

-----------------------------------------------------------------------------
(* r says all that h says, and perhaps a part of it again.                 *)
Covers(h, r) == IsPrefix(h, r) /\ ToSet(r) = ToSet(h)

(* What the task would return if it failed now.                            *)
OnFailure ==
  IF Salvaged(rec, full) = <<>> THEN caller ELSE Salvaged(rec, full)

Opening == {"open", "summarize", "prompt"}

Looping == {"boundary", "compact", "splice", "send", "stream", "wait", "failed", "done"}

-----------------------------------------------------------------------------
(* There is an id for what the task will number without asking for room.   *)
RoomLeft ==
  /\ pc \in Opening => nextId <= MaxId
  /\ pc \in {"boundary", "compact", "splice", "wait"} /\ EndsOnAssistant(hist) => nextId <= MaxId
  /\ pc = "wait" => step < MaxSteps /\ resumes < MaxResumes

(* A session without a task has handled all it was told.                   *)
IdleIsQuiet == ~runDone /\ pc = "idle" => events = <<>>

(* A task that has not reached its loop has nothing of its own to return.  *)
NothingYet == pc \in Opening => caller = hist /\ full = <<>>

(* The record counts what was told of the history.                         *)
ToldSoFar == pc \in Looping => rec.publishedLen = Len(hist)

(* A failure returns what the history holds.  Between a summary and the    *)
(* words it calls for it would not, and there the task cannot fail.        *)
FailureCovers ==
  /\ pc \in {"boundary", "compact", "send", "stream", "wait", "failed"} => Covers(hist, OnFailure)
  /\ pc = "splice" => EndsOnAssistant(hist) \/ Covers(hist, OnFailure)
  /\ pc = "done" => hist # <<>> /\ full = hist

(* What the user said and the adapter was shown are a user's parts, and    *)
(* the model was asked all of them where a summary may come.               *)
AskedSoFar ==
  /\ \A p \in echoed : p.role = "user"
  /\ pc \in {"send", "stream"} => ~EndsOnAssistant(hist)
  /\ pc = "stream" => ToSet(hist) \subseteq asked
  /\ pc \in {"wait", "compact"} \/ (pc = "boundary" /\ heavy) =>
       echoed \cap ToSet(hist) \subseteq asked

IInv ==
  /\ HistoriesAgree /\ RoomLeft /\ IdleIsQuiet /\ NothingYet /\ ToldSoFar /\ FailureCovers
  /\ AskedSoFar

-----------------------------------------------------------------------------
(* Parts and events.                                                       *)

Event == [type : {"append", "replace"}, parts : Seq(Parts)]

LEMMA AppliedIsTyped ==
  ASSUME NEW c \in Seq(Parts), NEW ev \in Event
  PROVE  Apply(c, ev) \in Seq(Parts)
BY DEF Apply, Event

LEMMA HearsIsTyped ==
  ASSUME NEW c \in Seq(Parts), NEW evs \in Seq(Event)
  PROVE  Hears(c, evs) \in Seq(Parts)
<1> DEFINE n == Len(evs)
<1>1. n \in Nat /\ Len(evs) = n /\ \A m \in 1 .. n : evs[m] \in Event
  OBVIOUS
<1> HIDE DEF n
<1>2. PICK g : IsRun(c, evs, n, g) /\ Hears(c, evs) = g[n]
  BY <1>1, HearsARun
<1>3. g[0] = c /\ \A m \in 1 .. n : g[m] = Apply(g[m - 1], evs[m])
  <2>1. n \in Nat /\ IsRun(c, evs, n, g)
    BY <1>1, <1>2
  <2> QED BY <2>1, RunSteps
<1> DEFINE T == {m \in 0 .. n : g[m] \notin Seq(Parts)}
<1> SUFFICES ASSUME T # {} PROVE FALSE
  BY <1>1, <1>2
<1>4. PICK i \in T : \A j \in T : i <= j
  <2>1. T \subseteq Nat
    BY <1>1
  <2> HIDE DEF T
  <2> QED BY <2>1, LeastOne
<1>5. i # 0 /\ i \in 1 .. n /\ i - 1 \in 0 .. n /\ ~(i <= i - 1)
  BY <1>1, <1>3
<1>6. g[i - 1] \in Seq(Parts)
  BY <1>4, <1>5
<1> QED BY <1>1, <1>3, <1>5, <1>6, AppliedIsTyped

LEMMA ToldIsTyped ==
  ASSUME NEW parts \in Seq(Parts)
  PROVE  /\ Told(parts) \in Event /\ ReplacedBy(parts) \in Event
         /\ \A c : Apply(c, Told(parts)) = c \o parts
         /\ \A c : Apply(c, ReplacedBy(parts)) = parts
BY DEF Told, ReplacedBy, Event, Apply

(* What a history says once it goes on.                                    *)
LEMMA Appended ==
  ASSUME NEW h \in Seq(Parts), NEW o \in Seq(Parts)
  PROVE  /\ h \o o \in Seq(Parts) /\ Len(h \o o) = Len(h) + Len(o)
         /\ ToSet(h \o o) = ToSet(h) \cup ToSet(o)
         /\ SubSeq(h \o o, Len(h) + 1, Len(h \o o)) = o
<1>1. /\ h \o o \in Seq(Parts) /\ Len(h \o o) = Len(h) + Len(o)
      /\ \A i \in 1 .. Len(h) : (h \o o)[i] = h[i]
      /\ \A i \in 1 .. Len(o) : (h \o o)[Len(h) + i] = o[i]
  OBVIOUS
<1>2. ToSet(h \o o) = ToSet(h) \cup ToSet(o)
  <2>1. ToSet(h) \subseteq ToSet(h \o o)
    BY <1>1 DEF ToSet
  <2>2. ToSet(o) \subseteq ToSet(h \o o)
    <3> SUFFICES ASSUME NEW i \in 1 .. Len(o) PROVE o[i] \in ToSet(h \o o)
      BY SMTT(30) DEF ToSet
    <3>1. Len(h) + i \in 1 .. Len(h \o o) /\ (h \o o)[Len(h) + i] = o[i]
      BY <1>1
    <3>2. DOMAIN (h \o o) = 1 .. Len(h \o o)
      BY <1>1
    <3> QED BY <3>1, <3>2 DEF ToSet
  <2>3. ASSUME NEW i \in 1 .. Len(h \o o)
        PROVE  (h \o o)[i] \in ToSet(h) \cup ToSet(o)
    <3>1. CASE i <= Len(h)
      BY <1>1, <3>1 DEF ToSet
    <3>2. CASE i > Len(h)
      <4>1. i - Len(h) \in 1 .. Len(o) /\ i = Len(h) + (i - Len(h))
        BY <1>1, <3>2
      <4>2. (h \o o)[i] = o[i - Len(h)]
        BY <1>1, <4>1
      <4> QED BY <4>1, <4>2 DEF ToSet
    <3> QED BY <3>1, <3>2
  <2>4. ToSet(h \o o) \subseteq ToSet(h) \cup ToSet(o)
    BY <1>1, <2>3 DEF ToSet
  <2> QED BY <2>1, <2>2, <2>4
<1>3. SubSeq(h \o o, Len(h) + 1, Len(h \o o)) = o
  <2> DEFINE new == SubSeq(h \o o, Len(h) + 1, Len(h \o o))
  <2>1. new \in Seq(Parts) /\ Len(new) = Len(o)
    BY <1>1
  <2>2. \A i \in 1 .. Len(o) : new[i] = o[i]
    BY <1>1
  <2> HIDE DEF new
  <2> QED BY <2>1, <2>2
<1> QED BY <1>1, <1>2, <1>3

LEMMA CoversSelf == ASSUME NEW h PROVE Covers(h, h)
BY DEF Covers, IsPrefix

LEMMA PrefixOfMore ==
  ASSUME NEW h \in Seq(Parts), NEW o \in Seq(Parts)
  PROVE  IsPrefix(h, h \o o)
<1>1. Len(h) \in Nat /\ Len(h) <= Len(h \o o)
  OBVIOUS
<1>2. /\ SubSeq(h, 1, Len(h)) \in Seq(Parts) /\ Len(SubSeq(h, 1, Len(h))) = Len(h)
      /\ SubSeq(h \o o, 1, Len(h)) \in Seq(Parts) /\ Len(SubSeq(h \o o, 1, Len(h))) = Len(h)
  BY <1>1
<1>3. \A i \in 1 .. Len(h) : SubSeq(h, 1, Len(h))[i] = SubSeq(h \o o, 1, Len(h))[i]
  BY <1>1
<1>4. SubSeq(h, 1, Len(h)) = SubSeq(h \o o, 1, Len(h))
  BY <1>2, <1>3
<1> QED BY <1>1, <1>4 DEF IsPrefix

(* One part of the user's, numbered.                                       *)
LEMMA UserIsTyped ==
  ASSUME TurnTypeOK, nextId <= MaxId
  PROVE  /\ <<User(nextId)>> \in Seq(Parts) /\ Len(<<User(nextId)>>) = 1
         /\ ToSet(<<User(nextId)>>) = {User(nextId)}
         /\ User(nextId) \in Parts /\ User(nextId).role = "user"
<1>1. nextId \in 1 .. MaxId
  BY TurnAssumption DEF TurnTypeOK
<1>2. User(nextId) \in Parts /\ User(nextId).role = "user"
  BY <1>1 DEF User, Part, Parts
<1> QED BY <1>2 DEF ToSet

(* A history with the user's words at its end does not end on the model's. *)
LEMMA EndsOnUser ==
  ASSUME TurnTypeOK, nextId <= MaxId, NEW h \in Seq(Parts)
  PROVE  ~EndsOnAssistant(h \o <<User(nextId)>>)
<1>1. Last(h \o <<User(nextId)>>) = User(nextId)
  BY DEF Last
<1> QED BY <1>1 DEF EndsOnAssistant, User, Part

LEMMA SummaryIsTyped ==
  ASSUME TurnTypeOK, Room(3)
  PROVE  /\ Summary \in Seq(Parts) /\ Summary # <<>> /\ EndsOnAssistant(Summary)
         /\ nextId + 2 \in 1 .. MaxId /\ nextId + 2 \in 1 .. MaxId + 1
<1>1. nextId \in 1 .. MaxId /\ nextId + 1 \in 1 .. MaxId /\ nextId + 2 \in 1 .. MaxId
  BY TurnAssumption DEF TurnTypeOK, Room
<1>2. User(nextId) \in Parts /\ Part(nextId + 1, "assistant") \in Parts
  BY <1>1 DEF User, Part, Parts
<1>3. Summary \in Seq(Parts) /\ Summary # <<>>
  BY <1>2 DEF Summary
<1>4. Last(Summary).role = "assistant"
  BY DEF Summary, Last, Part
<1>5. nextId + 2 \in 1 .. MaxId + 1
  BY <1>1, TurnAssumption
<1> QED BY <1>1, <1>3, <1>4, <1>5 DEF EndsOnAssistant

(* What a step records is the model's: no part of it is the user's.        *)
LEMMA OutputIsTyped ==
  ASSUME TurnTypeOK, NEW output \in Outputs(nextId), Room(Len(output) + 1)
  PROVE  /\ output \in Seq(Parts) /\ output # <<>> /\ nextId + Len(output) \in 1 .. MaxId
         /\ \A p \in ToSet(output) : p.role # "user"
<1>1. CASE output = <<Part(nextId, "assistant")>>
  <2>1. nextId \in 1 .. MaxId /\ nextId + 1 \in 1 .. MaxId
    BY <1>1, TurnAssumption DEF TurnTypeOK, Room
  <2>2. Part(nextId, "assistant") \in Parts
    BY <2>1 DEF Part, Parts
  <2>3. ToSet(output) = {Part(nextId, "assistant")}
    BY <1>1 DEF ToSet
  <2> QED BY <1>1, <2>1, <2>2, <2>3 DEF Part
<1>2. CASE output = <<Part(nextId, "assistant"), Part(nextId + 1, "tool")>>
  <2>1. nextId \in 1 .. MaxId /\ nextId + 1 \in 1 .. MaxId /\ nextId + 2 \in 1 .. MaxId
    BY <1>2, TurnAssumption DEF TurnTypeOK, Room
  <2>2. Part(nextId, "assistant") \in Parts /\ Part(nextId + 1, "tool") \in Parts
    BY <2>1 DEF Part, Parts
  <2>3. ToSet(output) \subseteq {Part(nextId, "assistant"), Part(nextId + 1, "tool")}
    BY <1>2 DEF ToSet
  <2> QED BY <1>2, <2>1, <2>2, <2>3 DEF Part
<1> QED BY <1>1, <1>2 DEF Outputs

-----------------------------------------------------------------------------
(* Sending an event: run(), if it still listens, will know as much.        *)
LEMMA Sent ==
  ASSUME TurnTypeOK, NEW ev \in Event, SendEvent(ev)
  PROVE  /\ events' \in Seq(Event) /\ Len(events') <= EventCap
         /\ ~runDone /\ UNCHANGED contents => Known' = Apply(Known, ev)
<1>0. events \in Seq(Event) /\ Len(events) \in Nat
  BY DEF TurnTypeOK, Event
<1>1. CASE Len(events) < EventCap /\ events' = Append(events, ev)
  <2>1. events' \in Seq(Event) /\ Len(events') = Len(events) + 1
    BY <1>0, <1>1
  <2>2. Hears(contents, events') = Apply(Hears(contents, events), ev)
    BY <1>0, <1>1, HearsLast
  <2> QED BY <1>0, <1>1, <2>1, <2>2, TurnAssumption DEF Known
<1>2. CASE runDone /\ UNCHANGED events
  BY <1>0, <1>2 DEF TurnTypeOK
<1> QED BY <1>1, <1>2 DEF SendEvent

(* A finished step: told as far as it goes, recorded, none of it asked.    *)
LEMMA StepFinished ==
  ASSUME TurnTypeOK, ToldSoFar, LiveAgrees, AskedSoFar, pc = "stream", UNCHANGED <<contents, runDone>>,
         NEW output \in Outputs(nextId), FinishStep(output)
  PROVE  /\ hist' \in Seq(Parts) /\ hist' # <<>> /\ full' = hist' /\ nextId' \in 1 .. MaxId
         /\ events' \in Seq(Event) /\ Len(events') <= EventCap
         /\ rec' \in [publishedLen : Nat, base : Seq(Parts), injected : Seq(Parts)]
         /\ rec'.publishedLen = Len(hist') /\ rec'.injected = <<>>
         /\ heavy' \in BOOLEAN
         /\ ToSet(hist) \subseteq ToSet(hist')
         /\ echoed \cap ToSet(hist') \subseteq asked
         /\ ~runDone => Known' = hist'
<1>1. /\ output \in Seq(Parts) /\ output # <<>> /\ nextId' \in 1 .. MaxId
      /\ \A p \in ToSet(output) : p.role # "user"
  BY OutputIsTyped DEF FinishStep
<1>2. hist \in Seq(Parts) /\ rec.publishedLen = Len(hist)
  BY DEF TurnTypeOK, ToldSoFar, Looping
<1>3. /\ hist' \in Seq(Parts) /\ Len(hist') = Len(hist) + Len(output)
      /\ ToSet(hist') = ToSet(hist) \cup ToSet(output)
      /\ NewParts(rec, hist') = output
  BY <1>1, <1>2, Appended DEF FinishStep, NewParts
<1>4. hist' # <<>>
  BY <1>1, <1>2, <1>3
<1>5. SendEvent(Told(output))
  BY <1>3 DEF FinishStep
<1>6. /\ events' \in Seq(Event) /\ Len(events') <= EventCap
      /\ ~runDone => Known' = hist'
  BY <1>1, <1>5, ToldIsTyped, Sent DEF LiveAgrees, FinishStep
<1>7. /\ rec' \in [publishedLen : Nat, base : Seq(Parts), injected : Seq(Parts)]
      /\ rec'.publishedLen = Len(hist') /\ rec'.injected = <<>>
  <2>1. rec' = Finished(rec, hist')
    BY DEF FinishStep
  <2>2. Len(hist') \in Nat /\ rec \in [publishedLen : Nat, base : Seq(Parts), injected : Seq(Parts)]
    BY <1>3 DEF TurnTypeOK
  <2>3. rec' = [publishedLen |-> Len(hist'), base |-> rec.base, injected |-> <<>>]
    BY <2>1, <2>2 DEF Finished
  <2>4. <<>> \in Seq(Parts) /\ rec.base \in Seq(Parts)
    BY <2>2
  <2> QED BY <2>2, <2>3, <2>4
<1>8. echoed \cap ToSet(hist') \subseteq asked
  BY <1>1, <1>3 DEF AskedSoFar
<1> QED BY <1>1, <1>3, <1>4, <1>6, <1>7, <1>8 DEF FinishStep

-----------------------------------------------------------------------------
(* Every step keeps the invariant.                                         *)
LEMMA InitIInv == TurnInit => IInv
<1> SUFFICES ASSUME TurnInit PROVE IInv
  OBVIOUS
<1>1. <<>> \in Seq(Parts) /\ <<>> \in Seq(Event) /\ Len(<<>>) = 0
  OBVIOUS
<1>2. TurnTypeOK
  <2>1. rec = [publishedLen |-> 0, base |-> <<>>, injected |-> <<>>]
    BY <1>1 DEF TurnInit, NewStepRecord
  <2>2. rec \in [publishedLen : Nat, base : Seq(Parts), injected : Seq(Parts)]
    BY <1>1, <2>1
  <2>3. 1 \in 1 .. MaxId + 1 /\ 0 \in 0 .. MaxSteps /\ 0 \in 0 .. MaxResumes /\ 0 <= EventCap
    BY TurnAssumption
  <2> QED BY <1>1, <2>2, <2>3 DEF TurnInit, TurnTypeOK, Pcs, Event
<1>3. LiveAgrees /\ ResultCovers /\ EchoResolves
  BY DEF TurnInit, LiveAgrees, ResultCovers, EchoResolves
<1> QED BY <1>2, <1>3 DEF TurnInit, IInv, HistoriesAgree, RoomLeft, IdleIsQuiet, NothingYet,
          ToldSoFar, FailureCovers, AskedSoFar, Opening, Looping

(* A step that leaves the histories, what was told of them and the record  *)
(* as they are keeps what its new place in the task asks for.              *)
Kept == <<contents, events, runDone, hist, caller, full, rec, nextId, echoed, folded>>

LEMMA KeptIsTheSame ==
  ASSUME UNCHANGED Kept
  PROVE  Known' = Known /\ Result' = Result /\ OnFailure' = OnFailure
BY DEF Kept, Known, Result, OnFailure

LEMMA OpenIInv == ASSUME IInv, Open PROVE IInv'
<1>0. UNCHANGED <<Kept, ctxDone, kind, step, resumes, heavy, asked>> /\ pc = "open"
  BY DEF Open, Kept, runSide, taskSide, turnGhosts
<1>1. pc' \in {"ended", "prompt", "summarize"} /\ (pc' = "ended" => hist = <<>>)
  BY DEF Open
<1>2. UNCHANGED <<Known, Result, OnFailure>>
  BY <1>0, KeptIsTheSame
<1>3. TurnTypeOK'
  BY <1>0, <1>1 DEF IInv, HistoriesAgree, TurnTypeOK, Kept, Pcs
<1>4. Result = hist
  BY <1>0 DEF IInv, NothingYet, Opening, Result
<1>5. LiveAgrees' /\ ResultCovers' /\ EchoResolves'
  BY <1>0, <1>1, <1>2, <1>4, CoversSelf DEF IInv, HistoriesAgree, LiveAgrees, ResultCovers, EchoResolves, Kept, Covers
<1>6. RoomLeft' /\ IdleIsQuiet' /\ NothingYet' /\ ToldSoFar' /\ FailureCovers' /\ AskedSoFar'
  BY <1>0, <1>1 DEF IInv, RoomLeft, IdleIsQuiet, NothingYet, ToldSoFar, FailureCovers, AskedSoFar,
       Opening, Looping, Kept
<1> QED BY <1>3, <1>5, <1>6 DEF IInv, HistoriesAgree

LEMMA BoundaryIInv == ASSUME IInv, Boundary PROVE IInv'
<1>0. UNCHANGED <<Kept, ctxDone, kind, step, resumes, heavy, asked>> /\ pc = "boundary"
  BY DEF Boundary, Kept, runSide, taskSide, turnGhosts
<1>1. pc' = IF heavy THEN "compact" ELSE "splice"
  BY DEF Boundary
<1>2. UNCHANGED <<Known, Result, OnFailure>>
  BY <1>0, KeptIsTheSame
<1>3. TurnTypeOK'
  BY <1>0, <1>1 DEF IInv, HistoriesAgree, TurnTypeOK, Kept, Pcs
<1>5. LiveAgrees' /\ ResultCovers' /\ EchoResolves'
  BY <1>0, <1>1, <1>2 DEF IInv, HistoriesAgree, LiveAgrees, ResultCovers, EchoResolves, Kept
<1>6. RoomLeft' /\ IdleIsQuiet' /\ NothingYet' /\ ToldSoFar' /\ AskedSoFar'
  BY <1>0, <1>1 DEF IInv, RoomLeft, IdleIsQuiet, NothingYet, ToldSoFar, AskedSoFar,
       Opening, Looping, Kept
<1>7. FailureCovers'
  BY <1>0, <1>1, <1>2 DEF IInv, FailureCovers, Kept
<1> QED BY <1>3, <1>5, <1>6, <1>7 DEF IInv, HistoriesAgree

LEMMA SendIInv == ASSUME IInv, Send PROVE IInv'
<1>0. UNCHANGED <<Kept, ctxDone, kind, step, resumes, heavy>> /\ pc = "send"
  BY DEF Send, Kept, runSide, taskSide
<1>1. \/ pc' = "failed" /\ asked' = asked
      \/ pc' = "stream" /\ asked' = asked \cup ToSet(hist)
  BY DEF Send
<1>2. UNCHANGED <<Known, Result, OnFailure>>
  BY <1>0, KeptIsTheSame
<1>3. TurnTypeOK'
  <2>1. ToSet(hist) \subseteq Parts
    BY DEF IInv, HistoriesAgree, TurnTypeOK, ToSet
  <2> QED BY <1>0, <1>1, <2>1 DEF IInv, HistoriesAgree, TurnTypeOK, Kept, Pcs
<1>5. LiveAgrees' /\ ResultCovers' /\ EchoResolves'
  BY <1>0, <1>1, <1>2 DEF IInv, HistoriesAgree, LiveAgrees, ResultCovers, EchoResolves, Kept
<1>6. RoomLeft' /\ IdleIsQuiet' /\ NothingYet' /\ ToldSoFar' /\ AskedSoFar'
  BY <1>0, <1>1 DEF IInv, RoomLeft, IdleIsQuiet, NothingYet, ToldSoFar, AskedSoFar,
       Opening, Looping, Kept
<1>7. FailureCovers'
  BY <1>0, <1>1, <1>2 DEF IInv, FailureCovers, Kept
<1> QED BY <1>3, <1>5, <1>6, <1>7 DEF IInv, HistoriesAgree

LEMMA ResumeIInv == ASSUME IInv, Resume PROVE IInv'
<1>0. UNCHANGED <<Kept, ctxDone, kind, heavy, asked>> /\ pc = "wait"
  BY DEF Resume, Kept, runSide, taskSide, turnGhosts
<1>1. \/ pc' = "failed" /\ step' = step /\ resumes' = resumes
      \/ pc' = "boundary" /\ step' = step + 1 /\ resumes' = resumes + 1
  BY DEF Resume, NextStep
<1>2. UNCHANGED <<Known, Result, OnFailure>>
  BY <1>0, KeptIsTheSame
<1>3. TurnTypeOK'
  <2>1. step' \in 0 .. MaxSteps /\ resumes' \in 0 .. MaxResumes
    BY <1>0, <1>1, TurnAssumption, SMTT(30) DEF IInv, HistoriesAgree, TurnTypeOK, RoomLeft
  <2> QED BY <1>0, <1>1, <2>1 DEF IInv, HistoriesAgree, TurnTypeOK, Kept, Pcs
<1>5. LiveAgrees' /\ ResultCovers' /\ EchoResolves'
  BY <1>0, <1>1, <1>2 DEF IInv, HistoriesAgree, LiveAgrees, ResultCovers, EchoResolves, Kept
<1>6. RoomLeft' /\ IdleIsQuiet' /\ NothingYet' /\ ToldSoFar' /\ AskedSoFar'
  BY <1>0, <1>1 DEF IInv, RoomLeft, IdleIsQuiet, NothingYet, ToldSoFar, AskedSoFar,
       Opening, Looping, Kept
<1>7. FailureCovers'
  BY <1>0, <1>1, <1>2 DEF IInv, FailureCovers, Kept
<1> QED BY <1>3, <1>5, <1>6, <1>7 DEF IInv, HistoriesAgree

LEMMA CancelIInv == ASSUME IInv, Cancel \/ Rests PROVE IInv'
<1>0. /\ UNCHANGED <<Kept, pc, kind, step, resumes, heavy, asked>>
      /\ ctxDone' \in BOOLEAN
  BY DEF Cancel, Rests, Kept, runSide, taskSide, turnGhosts, turnVars, IInv, HistoriesAgree, TurnTypeOK
<1>2. UNCHANGED <<Known, Result, OnFailure>>
  BY <1>0, KeptIsTheSame
<1>3. TurnTypeOK'
  BY <1>0 DEF IInv, HistoriesAgree, TurnTypeOK, Kept
<1>5. LiveAgrees' /\ ResultCovers' /\ EchoResolves'
  BY <1>0, <1>2 DEF IInv, HistoriesAgree, LiveAgrees, ResultCovers, EchoResolves, Kept
<1>6. RoomLeft' /\ IdleIsQuiet' /\ NothingYet' /\ ToldSoFar' /\ AskedSoFar'
  BY <1>0 DEF IInv, RoomLeft, IdleIsQuiet, NothingYet, ToldSoFar, AskedSoFar, Kept
<1>7. FailureCovers'
  BY <1>0, <1>2 DEF IInv, FailureCovers, Kept
<1> QED BY <1>3, <1>5, <1>6, <1>7 DEF IInv, HistoriesAgree

LEMMA RunExitIInv == ASSUME IInv, RunExit PROVE IInv'
<1>0. /\ UNCHANGED <<contents, events, hist, caller, full, rec, nextId, echoed, folded, pc, kind,
                     step, resumes, heavy, asked>>
      /\ ctxDone' = TRUE /\ runDone' = TRUE
  BY DEF RunExit, taskSide, turnGhosts
<1>2. OnFailure' = OnFailure
  BY <1>0 DEF OnFailure
<1>3. TurnTypeOK'
  BY <1>0 DEF IInv, HistoriesAgree, TurnTypeOK
<1>5. LiveAgrees' /\ ResultCovers' /\ EchoResolves'
  BY <1>0 DEF LiveAgrees, ResultCovers, EchoResolves
<1>6. RoomLeft' /\ IdleIsQuiet' /\ NothingYet' /\ ToldSoFar' /\ AskedSoFar'
  BY <1>0 DEF IInv, RoomLeft, IdleIsQuiet, NothingYet, ToldSoFar, AskedSoFar
<1>7. FailureCovers'
  BY <1>0, <1>2 DEF IInv, FailureCovers
<1> QED BY <1>3, <1>5, <1>6, <1>7 DEF IInv, HistoriesAgree

LEMMA StartIInv == ASSUME IInv, NEW k \in {"prompt", "continue", "summarize"}, Start(k) PROVE IInv'
<1>0. /\ UNCHANGED <<contents, events, runDone, rec, step, resumes, heavy, nextId, echoed, asked, folded>>
      /\ pc = "idle" /\ ~runDone /\ Room(3)
      /\ kind' = k /\ pc' = "open" /\ ctxDone' = FALSE
      /\ hist' = contents /\ caller' = contents /\ full' = <<>>
  BY DEF Start, runSide, turnGhosts
<1>1. Known' = hist'
  BY <1>0, HearsNothing DEF IInv, IdleIsQuiet, Known
<1>2. Known' = Known
  BY <1>0 DEF Known
<1>3. TurnTypeOK'
  <2>1. <<>> \in Seq(Parts)
    OBVIOUS
  <2> QED BY <1>0, <2>1 DEF IInv, HistoriesAgree, TurnTypeOK, Pcs
<1>5. LiveAgrees' /\ ResultCovers' /\ EchoResolves'
  BY <1>0, <1>1, <1>2 DEF IInv, HistoriesAgree, LiveAgrees, ResultCovers, EchoResolves
<1>6. RoomLeft'
  BY <1>0, TurnAssumption DEF IInv, HistoriesAgree, TurnTypeOK, Room, RoomLeft
<1>7. IdleIsQuiet' /\ NothingYet' /\ ToldSoFar' /\ AskedSoFar' /\ FailureCovers'
  BY <1>0 DEF IInv, IdleIsQuiet, NothingYet, ToldSoFar, AskedSoFar, FailureCovers, Looping
<1> QED BY <1>3, <1>5, <1>6, <1>7 DEF IInv, HistoriesAgree

LEMMA TakeEventIInv == ASSUME IInv, TakeEvent PROVE IInv'
<1>0. /\ UNCHANGED <<runDone, pc, ctxDone, hist, kind, caller, full, rec, step, resumes, heavy,
                     nextId, echoed, asked, folded>>
      /\ ~runDone /\ events # <<>> /\ events' = Tail(events)
      /\ contents' = Apply(contents, Head(events))
  BY DEF TakeEvent, taskSide, turnGhosts
<1>1. events \in Seq(Event) /\ contents \in Seq(Parts) /\ Len(events) <= EventCap
  BY DEF IInv, HistoriesAgree, TurnTypeOK, Event
<1>2. Known' = Known
  BY <1>0, <1>1, HearsFirst DEF Known
<1>3. Result' = Result /\ OnFailure' = OnFailure
  BY <1>0 DEF Result, OnFailure
<1>4. TurnTypeOK'
  <2>1. Head(events) \in Event /\ Tail(events) \in Seq(Event) /\ Len(Tail(events)) <= EventCap
    BY <1>0, <1>1, TurnAssumption
  <2>2. contents' \in Seq(Parts)
    BY <1>0, <1>1, <2>1, AppliedIsTyped
  <2> QED BY <1>0, <2>1, <2>2 DEF IInv, HistoriesAgree, TurnTypeOK, Event
<1>5. LiveAgrees' /\ ResultCovers' /\ EchoResolves'
  BY <1>0, <1>2, <1>3 DEF IInv, HistoriesAgree, LiveAgrees, ResultCovers, EchoResolves
<1>6. RoomLeft' /\ IdleIsQuiet' /\ NothingYet' /\ ToldSoFar' /\ AskedSoFar'
  BY <1>0 DEF IInv, RoomLeft, IdleIsQuiet, NothingYet, ToldSoFar, AskedSoFar
<1>7. FailureCovers'
  BY <1>0, <1>3 DEF IInv, FailureCovers
<1> QED BY <1>4, <1>5, <1>6, <1>7 DEF IInv, HistoriesAgree

LEMMA TakeResultIInv == ASSUME IInv, TakeResult PROVE IInv'
<1>0. /\ UNCHANGED <<runDone, ctxDone, hist, kind, caller, full, rec, step, resumes, heavy,
                     nextId, echoed, asked, folded>>
      /\ ~runDone /\ pc = "ended" /\ pc' = "idle" /\ events' = <<>>
      /\ contents' = IF Result = <<>> THEN Known ELSE Result
  BY DEF TakeResult, taskSide, turnGhosts
<1>1. Known \in Seq(Parts) /\ Result \in Seq(Parts)
  BY HearsIsTyped DEF IInv, HistoriesAgree, TurnTypeOK, Event, Known, Result
<1>2. Known' = contents'
  BY <1>0, HearsNothing DEF Known
<1>3. TurnTypeOK'
  <2>1. <<>> \in Seq(Event) /\ Len(<<>>) <= EventCap
    BY TurnAssumption
  <2> QED BY <1>0, <1>1, <2>1 DEF IInv, HistoriesAgree, TurnTypeOK, Event, Pcs
<1>4. LiveAgrees' /\ ResultCovers' /\ EchoResolves'
  BY <1>0, <1>2 DEF IInv, HistoriesAgree, LiveAgrees, ResultCovers, EchoResolves
<1>5. RoomLeft' /\ IdleIsQuiet' /\ NothingYet' /\ ToldSoFar' /\ FailureCovers' /\ AskedSoFar'
  BY <1>0 DEF IInv, RoomLeft, IdleIsQuiet, NothingYet, ToldSoFar, FailureCovers, AskedSoFar,
       Opening, Looping
<1> QED BY <1>3, <1>4, <1>5 DEF IInv, HistoriesAgree

LEMMA TaskReturnsIInv == ASSUME IInv, TaskReturns PROVE IInv'
<1>0. /\ UNCHANGED <<contents, events, runDone, ctxDone, hist, kind, caller, rec, step, resumes,
                     heavy, nextId, echoed, asked, folded>>
      /\ pc \in {"done", "failed"} /\ pc' = "ended"
      /\ full' = IF pc = "failed" THEN Salvaged(rec, full) ELSE full
  BY DEF TaskReturns, runSide, turnGhosts
<1>1. Known' = Known
  BY <1>0 DEF Known
<1>2. Covers(hist, Result')
  <2>1. CASE pc = "done"
    <3>1. Result' = hist
      BY <1>0, <2>1 DEF IInv, FailureCovers, Result
    <3> QED BY <3>1, CoversSelf
  <2>2. CASE pc = "failed"
    <3>1. Result' = OnFailure
      BY <1>0, <2>2 DEF Result, OnFailure
    <3> QED BY <2>2, <3>1 DEF IInv, FailureCovers
  <2> QED BY <1>0, <2>1, <2>2
<1>3. full' \in Seq(Parts)
  <2>1. rec.base \o rec.injected \in Seq(Parts)
    BY DEF IInv, HistoriesAgree, TurnTypeOK
  <2> QED BY <1>0, <2>1 DEF IInv, HistoriesAgree, TurnTypeOK, Salvaged
<1>4. TurnTypeOK'
  BY <1>0, <1>3 DEF IInv, HistoriesAgree, TurnTypeOK, Pcs
<1>5. ~runDone => Known = hist
  BY <1>0 DEF IInv, HistoriesAgree, LiveAgrees
<1>6. LiveAgrees' /\ ResultCovers' /\ EchoResolves'
  BY <1>0, <1>1, <1>2, <1>5 DEF IInv, HistoriesAgree, LiveAgrees, ResultCovers, EchoResolves, Covers
<1>7. RoomLeft' /\ IdleIsQuiet' /\ NothingYet' /\ ToldSoFar' /\ FailureCovers' /\ AskedSoFar'
  BY <1>0 DEF IInv, RoomLeft, IdleIsQuiet, NothingYet, ToldSoFar, FailureCovers, AskedSoFar,
       Opening, Looping
<1> QED BY <1>4, <1>6, <1>7 DEF IInv, HistoriesAgree

LEMMA OpeningSummaryIInv == ASSUME IInv, OpeningSummary PROVE IInv'
<1>0. /\ UNCHANGED <<contents, runDone, ctxDone, kind, full, rec, step, resumes, heavy, echoed, asked>>
      /\ pc = "summarize"
  BY DEF OpeningSummary, runSide
<1>1. caller = hist /\ full = <<>> /\ Result = hist /\ (~runDone => Known = hist)
  BY <1>0 DEF IInv, NothingYet, Opening, Result, HistoriesAgree, LiveAgrees
<1>2. CASE pc' = "ended" /\ UNCHANGED <<events, hist, caller, nextId, folded>>
  <2>1. Known' = Known /\ Result' = Result
    BY <1>0, <1>2 DEF Known, Result
  <2>2. TurnTypeOK'
    BY <1>0, <1>2 DEF IInv, HistoriesAgree, TurnTypeOK, Pcs
  <2>3. LiveAgrees' /\ ResultCovers' /\ EchoResolves'
    BY <1>0, <1>1, <1>2, <2>1, CoversSelf
    DEF IInv, HistoriesAgree, LiveAgrees, ResultCovers, EchoResolves, Covers
  <2>4. RoomLeft' /\ IdleIsQuiet' /\ NothingYet' /\ ToldSoFar' /\ FailureCovers' /\ AskedSoFar'
    BY <1>0, <1>2 DEF IInv, RoomLeft, IdleIsQuiet, NothingYet, ToldSoFar, FailureCovers, AskedSoFar,
         Opening, Looping
  <2> QED BY <2>2, <2>3, <2>4 DEF IInv, HistoriesAgree
<1>3. CASE /\ Fold(Summary) /\ caller' = Summary
           /\ IF kind = "summarize"
              THEN pc' = "ended" /\ UNCHANGED events
              ELSE pc' = "prompt" /\ SendEvent(ReplacedBy(Summary))
  <2>1. /\ Room(3) /\ hist' = Summary /\ caller' = Summary /\ nextId' = nextId + 2
        /\ folded' = folded \cup ToSet(hist)
        /\ Summary \in Seq(Parts) /\ nextId' \in 1 .. MaxId /\ nextId' \in 1 .. MaxId + 1
    BY <1>3, SummaryIsTyped DEF Fold, IInv, HistoriesAgree
  <2>2. ToSet(hist) \subseteq Parts
    BY DEF IInv, HistoriesAgree, TurnTypeOK, ToSet
  <2>3. ~runDone => echoed \ folded' = {}
    BY <1>0, <1>1, <2>1 DEF IInv, HistoriesAgree, EchoResolves
  <2>4. CASE kind = "summarize"
    <3>1. pc' = "ended" /\ UNCHANGED events
      BY <1>3, <2>4
    <3>2. TurnTypeOK'
      BY <1>0, <2>1, <2>2, <3>1 DEF IInv, HistoriesAgree, TurnTypeOK, Pcs
    <3>3. LiveAgrees' /\ ResultCovers' /\ EchoResolves'
      BY <1>0, <2>3, <2>4, <3>1 DEF LiveAgrees, ResultCovers, EchoResolves
    <3>4. RoomLeft' /\ IdleIsQuiet' /\ NothingYet' /\ ToldSoFar' /\ FailureCovers' /\ AskedSoFar'
      BY <1>0, <3>1 DEF IInv, RoomLeft, IdleIsQuiet, NothingYet, ToldSoFar, FailureCovers,
           AskedSoFar, Opening, Looping
    <3> QED BY <3>2, <3>3, <3>4 DEF IInv, HistoriesAgree
  <2>5. CASE kind # "summarize"
    <3>1. pc' = "prompt" /\ SendEvent(ReplacedBy(Summary))
      BY <1>3, <2>5
    <3>2. /\ events' \in Seq(Event) /\ Len(events') <= EventCap
          /\ ~runDone => Known' = hist'
      BY <1>0, <2>1, <3>1, ToldIsTyped, Sent DEF IInv, HistoriesAgree
    <3>3. TurnTypeOK'
      BY <1>0, <2>1, <2>2, <3>1, <3>2 DEF IInv, HistoriesAgree, TurnTypeOK, Pcs, Event
    <3>4. LiveAgrees' /\ ResultCovers' /\ EchoResolves'
      BY <1>0, <2>3, <3>1, <3>2 DEF LiveAgrees, ResultCovers, EchoResolves
    <3>5. RoomLeft' /\ IdleIsQuiet' /\ NothingYet' /\ ToldSoFar' /\ FailureCovers' /\ AskedSoFar'
      BY <1>0, <1>1, <2>1, <3>1 DEF IInv, RoomLeft, IdleIsQuiet, NothingYet, ToldSoFar,
           FailureCovers, AskedSoFar, Opening, Looping
    <3> QED BY <3>3, <3>4, <3>5 DEF IInv, HistoriesAgree
  <2> QED BY <2>4, <2>5
<1> QED BY <1>2, <1>3 DEF OpeningSummary

LEMMA PromptIInv == ASSUME IInv, Prompt PROVE IInv'
<1> DEFINE new == IF kind = "prompt" \/ EndsOnAssistant(hist) THEN <<User(nextId)>> ELSE <<>>
<1>0. /\ UNCHANGED <<contents, runDone, ctxDone, kind, full, asked, folded>>
      /\ pc = "prompt" /\ pc' = "boundary"
      /\ hist' = hist \o new /\ caller' = hist' /\ nextId' = nextId + Len(new)
      /\ echoed' = echoed \cup ToSet(new)
      /\ IF new = <<>> THEN UNCHANGED events ELSE SendEvent(Told(new))
      /\ NewLoop(hist')
  BY DEF Prompt, runSide
<1>1. TurnTypeOK /\ hist \in Seq(Parts) /\ nextId \in 1 .. MaxId /\ nextId + 1 \in 1 .. MaxId + 1
  BY <1>0, TurnAssumption DEF IInv, HistoriesAgree, TurnTypeOK, RoomLeft, Opening
<1>2. /\ new \in Seq(Parts) /\ nextId' \in 1 .. MaxId + 1
      /\ ToSet(new) \subseteq Parts /\ \A p \in ToSet(new) : p.role = "user"
      /\ ~EndsOnAssistant(hist')
  <2>0. new = <<User(nextId)>> \/ (new = <<>> /\ ~EndsOnAssistant(hist))
    OBVIOUS
  <2> HIDE DEF new
  <2>1. CASE new = <<User(nextId)>>
    BY <1>0, <1>1, <2>1, UserIsTyped, EndsOnUser
  <2>2. CASE new = <<>> /\ ~EndsOnAssistant(hist)
    <3>1. <<>> \in Seq(Parts) /\ ToSet(<<>>) = {} /\ Len(<<>>) = 0 /\ hist \o <<>> = hist
      BY <1>1 DEF ToSet
    <3>2. hist' = hist /\ nextId' = nextId
      BY <1>0, <1>1, <2>2, <3>1
    <3>3. nextId' \in 1 .. MaxId + 1
      BY <1>1, <3>2, TurnAssumption
    <3>4. ~EndsOnAssistant(hist')
      BY <2>2, <3>2
    <3> QED BY <2>2, <3>1, <3>3, <3>4
  <2> QED BY <2>0, <2>1, <2>2
<1> HIDE DEF new
<1>3. hist' \in Seq(Parts) /\ ToSet(hist') = ToSet(hist) \cup ToSet(new) /\ Len(hist') \in Nat
  <2>1. hist' = hist \o new
    BY <1>0
  <2>2. hist' \in Seq(Parts) /\ ToSet(hist') = ToSet(hist) \cup ToSet(new)
    BY <1>1, <1>2, <2>1, Appended
  <2> QED BY <2>2
<1>4. /\ events' \in Seq(Event) /\ Len(events') <= EventCap
      /\ ~runDone => Known' = hist'
  <2>1. ~runDone => Known = hist
    BY <1>0 DEF IInv, HistoriesAgree, LiveAgrees
  <2>2. CASE new = <<>>
    <3>1. hist' = hist
      BY <1>0, <1>1, <2>2
    <3> QED BY <1>0, <1>1, <2>1, <2>2, <3>1 DEF TurnTypeOK, Event, Known
  <2>3. CASE new # <<>>
    <3>1. Told(new) \in Event /\ SendEvent(Told(new)) /\ Apply(Known, Told(new)) = Known \o new
      BY <1>0, <1>2, <2>3, ToldIsTyped
    <3> QED BY <1>0, <1>1, <2>1, <3>1, Sent
  <2> QED BY <2>2, <2>3
<1>5. /\ rec' = [publishedLen |-> Len(hist'), base |-> <<>>, injected |-> <<>>]
      /\ step' = 1 /\ resumes' = 0 /\ heavy' = FALSE /\ full' = <<>>
  BY <1>0 DEF NewLoop, NewStepRecord, IInv, NothingYet, Opening
<1>6. OnFailure' = hist'
  BY <1>0, <1>5 DEF OnFailure, Salvaged
<1>7. TurnTypeOK'
  <2>1. rec' \in [publishedLen : Nat, base : Seq(Parts), injected : Seq(Parts)]
    <3>1. <<>> \in Seq(Parts)
      OBVIOUS
    <3> QED BY <1>3, <1>5, <3>1
  <2>2. 1 \in 0 .. MaxSteps /\ 0 \in 0 .. MaxResumes
    BY TurnAssumption
  <2> QED BY <1>0, <1>1, <1>2, <1>3, <1>4, <1>5, <2>1, <2>2
          DEF TurnTypeOK, Pcs, Event
<1>8. LiveAgrees' /\ ResultCovers' /\ EchoResolves'
  <2>1. ~runDone => echoed \ folded \subseteq ToSet(hist)
    BY <1>0 DEF IInv, HistoriesAgree, LiveAgrees, EchoResolves
  <2> QED BY <1>0, <1>3, <1>4, <2>1 DEF LiveAgrees, ResultCovers, EchoResolves
<1>9. FailureCovers'
  BY <1>0, <1>6, CoversSelf DEF FailureCovers
<1>10. AskedSoFar'
  BY <1>0, <1>2, <1>5 DEF IInv, AskedSoFar
<1>11. RoomLeft' /\ IdleIsQuiet' /\ NothingYet' /\ ToldSoFar'
  BY <1>0, <1>2, <1>5 DEF RoomLeft, IdleIsQuiet, NothingYet, ToldSoFar, Opening
<1> QED BY <1>7, <1>8, <1>9, <1>10, <1>11 DEF IInv, HistoriesAgree

LEMMA CompactIInv == ASSUME IInv, Compact PROVE IInv'
<1>0. /\ UNCHANGED <<contents, runDone, ctxDone, kind, caller, full, step, resumes, heavy, echoed,
                     asked>>
      /\ pc = "compact"
  BY DEF Compact, runSide
<1>1. CASE pc' = "failed" /\ UNCHANGED <<events, hist, rec, nextId, folded>>
  <2>1. UNCHANGED <<Kept, ctxDone, kind, step, resumes, heavy, asked>>
    BY <1>0, <1>1 DEF Kept
  <2>2. UNCHANGED <<Known, Result, OnFailure>>
    BY <2>1, KeptIsTheSame
  <2>3. TurnTypeOK'
    BY <1>1, <2>1 DEF IInv, HistoriesAgree, TurnTypeOK, Kept, Pcs
  <2>4. LiveAgrees' /\ ResultCovers' /\ EchoResolves'
    BY <1>0, <1>1, <2>1, <2>2
    DEF IInv, HistoriesAgree, LiveAgrees, ResultCovers, EchoResolves, Kept
  <2>5. RoomLeft' /\ IdleIsQuiet' /\ NothingYet' /\ ToldSoFar' /\ AskedSoFar'
    BY <1>0, <1>1, <2>1 DEF IInv, RoomLeft, IdleIsQuiet, NothingYet, ToldSoFar, AskedSoFar,
         Opening, Looping, Kept
  <2>6. FailureCovers'
    BY <1>0, <1>1, <2>1, <2>2 DEF IInv, FailureCovers, Kept
  <2> QED BY <2>3, <2>4, <2>5, <2>6 DEF IInv, HistoriesAgree
<1>2. CASE /\ Fold(Summary) /\ SendEvent(ReplacedBy(Summary))
           /\ rec' = Replaced(rec, Summary) /\ pc' = "splice"
  <2>1. /\ hist' = Summary /\ folded' = folded \cup ToSet(hist)
        /\ Summary \in Seq(Parts) /\ EndsOnAssistant(Summary)
        /\ nextId' \in 1 .. MaxId /\ nextId' \in 1 .. MaxId + 1
    BY <1>2, SummaryIsTyped DEF Fold, IInv, HistoriesAgree
  <2>2. /\ events' \in Seq(Event) /\ Len(events') <= EventCap
        /\ ~runDone => Known' = hist'
    BY <1>0, <1>2, <2>1, ToldIsTyped, Sent DEF IInv, HistoriesAgree
  <2>3. /\ rec' \in [publishedLen : Nat, base : Seq(Parts), injected : Seq(Parts)]
        /\ rec'.publishedLen = Len(hist')
    <3>1. rec \in [publishedLen : Nat, base : Seq(Parts), injected : Seq(Parts)]
      BY DEF IInv, HistoriesAgree, TurnTypeOK
    <3>2. rec' = [publishedLen |-> Len(hist'), base |-> rec.base, injected |-> rec.injected]
      BY <1>2, <2>1, <3>1 DEF Replaced
    <3> QED BY <2>1, <3>1, <3>2
  <2>4. ToSet(hist) \subseteq Parts
    BY DEF IInv, HistoriesAgree, TurnTypeOK, ToSet
  <2>5. ~runDone => echoed \ folded' = {}
    BY <1>0, <2>1 DEF IInv, HistoriesAgree, LiveAgrees, EchoResolves
  <2>6. TurnTypeOK'
    BY <1>0, <1>2, <2>1, <2>2, <2>3, <2>4 DEF IInv, HistoriesAgree, TurnTypeOK, Pcs, Event
  <2>7. LiveAgrees' /\ ResultCovers' /\ EchoResolves'
    BY <1>0, <1>2, <2>2, <2>5 DEF LiveAgrees, ResultCovers, EchoResolves
  <2>8. RoomLeft' /\ IdleIsQuiet' /\ NothingYet' /\ ToldSoFar' /\ FailureCovers' /\ AskedSoFar'
    BY <1>0, <1>2, <2>1, <2>3 DEF IInv, RoomLeft, IdleIsQuiet, NothingYet, ToldSoFar,
         FailureCovers, AskedSoFar, Opening
  <2> QED BY <2>6, <2>7, <2>8 DEF IInv, HistoriesAgree
<1> QED BY <1>1, <1>2 DEF Compact

LEMMA SpliceIInv == ASSUME IInv, Splice PROVE IInv'
<1>1. PICK new \in StepUserParts :
        /\ hist' = hist \o new /\ nextId' = nextId + Len(new)
        /\ echoed' = echoed \cup ToSet(new)
        /\ IF new = <<>>
           THEN rec' = SentOn(rec, hist) /\ UNCHANGED events
           ELSE /\ SendEvent(Told(new))
                /\ rec' = Spliced(SentOn(rec, hist), new)
  BY DEF Splice
<1>2. /\ UNCHANGED <<contents, runDone, ctxDone, kind, caller, full, step, resumes, heavy, asked,
                     folded>>
      /\ pc = "splice" /\ pc' = "send"
  BY DEF Splice, runSide
<1>3. /\ TurnTypeOK /\ hist \in Seq(Parts) /\ nextId \in 1 .. MaxId + 1
      /\ rec \in [publishedLen : Nat, base : Seq(Parts), injected : Seq(Parts)]
      /\ rec.publishedLen = Len(hist) /\ (~runDone => Known = hist)
      /\ EndsOnAssistant(hist) \/ Covers(hist, OnFailure)
      /\ \A p \in echoed : p.role = "user"
      /\ ~runDone => echoed \ folded \subseteq ToSet(hist)
  BY <1>2 DEF IInv, HistoriesAgree, TurnTypeOK, ToldSoFar, Looping, LiveAgrees, FailureCovers,
       AskedSoFar, EchoResolves
<1>4. CASE new = <<>>
  <2>1. <<>> \in Seq(Parts) /\ ToSet(<<>>) = {} /\ Len(<<>>) = 0 /\ hist \o <<>> = hist
    BY <1>3 DEF ToSet
  <2>2. hist' = hist /\ nextId' = nextId + 0 /\ echoed' = echoed /\ UNCHANGED events
    BY <1>1, <1>4, <2>1
  <2>3. ~EndsOnAssistant(hist)
    BY <1>4 DEF StepUserParts
  <2>4. rec' = [publishedLen |-> rec.publishedLen, base |-> hist, injected |-> rec.injected]
    BY <1>1, <1>3, <1>4 DEF SentOn
  <2>5. rec' \in [publishedLen : Nat, base : Seq(Parts), injected : Seq(Parts)]
    BY <1>3, <2>4
  <2>6. TurnTypeOK'
    BY <1>2, <1>3, <2>2, <2>5 DEF TurnTypeOK, Pcs
  <2>7. Known' = Known
    BY <1>2, <2>2 DEF Known
  <2>8. LiveAgrees' /\ ResultCovers' /\ EchoResolves'
    BY <1>2, <1>3, <2>2, <2>7 DEF LiveAgrees, ResultCovers, EchoResolves
  <2>9. RoomLeft' /\ IdleIsQuiet' /\ NothingYet' /\ ToldSoFar' /\ AskedSoFar'
    BY <1>2, <1>3, <2>2, <2>3, <2>4 DEF RoomLeft, IdleIsQuiet, NothingYet, ToldSoFar, AskedSoFar,
         Opening
  <2>10. Covers(hist, OnFailure')
    <3>1. CASE rec.injected = <<>>
      <4>1. OnFailure' = OnFailure
        BY <1>2, <2>4, <3>1 DEF OnFailure, Salvaged
      <4> QED BY <1>3, <2>3, <4>1
    <3>2. CASE rec.injected # <<>>
      <4>1. OnFailure' = hist \o rec.injected
        <5>1. hist \o rec.injected # <<>>
          BY <1>3, <3>2
        <5> QED BY <2>4, <3>2, <5>1 DEF OnFailure, Salvaged
      <4>2. OnFailure = rec.base \o rec.injected
        <5>1. rec.base \o rec.injected # <<>>
          BY <1>3, <3>2
        <5> QED BY <3>2, <5>1 DEF OnFailure, Salvaged
      <4>3. rec.injected \in Seq(Parts) /\ rec.base \in Seq(Parts)
        BY <1>3
      <4>4. ToSet(rec.injected) \subseteq ToSet(hist)
        BY <1>3, <2>3, <4>2, <4>3, Appended DEF Covers
      <4>5. IsPrefix(hist, hist \o rec.injected)
        BY <1>3, <4>3, PrefixOfMore
      <4>6. ToSet(hist \o rec.injected) = ToSet(hist) \cup ToSet(rec.injected)
        BY <1>3, <4>3, Appended
      <4> QED BY <4>1, <4>4, <4>5, <4>6 DEF Covers
    <3> QED BY <3>1, <3>2
  <2> QED BY <1>2, <2>2, <2>6, <2>8, <2>9, <2>10 DEF IInv, HistoriesAgree, FailureCovers
<1>5. CASE new # <<>>
  <2>1. new = <<User(nextId)>> /\ nextId <= MaxId
    BY <1>1, <1>2, <1>3, <1>5, TurnAssumption DEF StepUserParts, Room, IInv, RoomLeft
  <2>2. /\ new \in Seq(Parts) /\ Len(new) = 1 /\ ToSet(new) = {User(nextId)}
        /\ User(nextId) \in Parts /\ User(nextId).role = "user"
        /\ ~EndsOnAssistant(hist \o new)
    BY <1>3, <2>1, UserIsTyped, EndsOnUser
  <2>3. /\ hist' \in Seq(Parts) /\ Len(hist') = Len(hist) + 1
        /\ ToSet(hist') = ToSet(hist) \cup {User(nextId)}
    BY <1>1, <1>3, <2>2, Appended
  <2>4. rec' = [publishedLen |-> rec.publishedLen + 1, base |-> hist, injected |-> new]
    BY <1>1, <1>3, <1>5, <2>2 DEF Spliced, SentOn
  <2>5. rec' \in [publishedLen : Nat, base : Seq(Parts), injected : Seq(Parts)]
    BY <1>3, <2>2, <2>4
  <2>6. /\ events' \in Seq(Event) /\ Len(events') <= EventCap
        /\ ~runDone => Known' = hist'
    BY <1>1, <1>2, <1>3, <1>5, <2>2, ToldIsTyped, Sent
  <2>7. nextId' \in 1 .. MaxId + 1
    BY <1>1, <1>3, <2>1, <2>2, TurnAssumption
  <2>8. TurnTypeOK'
    BY <1>1, <1>2, <1>3, <2>2, <2>3, <2>5, <2>6, <2>7 DEF TurnTypeOK, Pcs, Event
  <2>9. LiveAgrees' /\ ResultCovers' /\ EchoResolves'
    BY <1>1, <1>2, <1>3, <2>2, <2>3, <2>6 DEF LiveAgrees, ResultCovers, EchoResolves
  <2>10. RoomLeft' /\ IdleIsQuiet' /\ NothingYet' /\ ToldSoFar' /\ AskedSoFar'
    BY <1>1, <1>2, <1>3, <2>2, <2>3, <2>4 DEF RoomLeft, IdleIsQuiet, NothingYet, ToldSoFar,
         AskedSoFar, Opening
  <2>11. OnFailure' = hist'
    <3>1. hist \o new # <<>>
      BY <1>3, <1>5, <2>2
    <3> QED BY <1>1, <1>5, <2>4, <3>1 DEF OnFailure, Salvaged
  <2> QED BY <1>2, <2>8, <2>9, <2>10, <2>11, CoversSelf DEF IInv, HistoriesAgree, FailureCovers
<1> QED BY <1>4, <1>5

(* A finished step keeps what is kept of it wherever the task goes next.   *)
LEMMA FinishedIInv ==
  ASSUME IInv, pc = "stream", NEW output \in Outputs(nextId), FinishStep(output),
         UNCHANGED <<contents, runDone, ctxDone, kind, caller, turnGhosts>>,
         pc' \in {"boundary", "wait", "failed", "done"},
         step' \in 0 .. MaxSteps, resumes' \in 0 .. MaxResumes,
         pc' = "wait" => step' < MaxSteps /\ resumes' < MaxResumes
  PROVE  IInv'
<1>1. /\ hist' \in Seq(Parts) /\ hist' # <<>> /\ full' = hist' /\ nextId' \in 1 .. MaxId
      /\ events' \in Seq(Event) /\ Len(events') <= EventCap
      /\ rec' \in [publishedLen : Nat, base : Seq(Parts), injected : Seq(Parts)]
      /\ rec'.publishedLen = Len(hist') /\ rec'.injected = <<>>
      /\ heavy' \in BOOLEAN
      /\ ToSet(hist) \subseteq ToSet(hist')
      /\ echoed \cap ToSet(hist') \subseteq asked
      /\ ~runDone => Known' = hist'
  BY StepFinished DEF IInv, HistoriesAgree
<1>2. UNCHANGED <<echoed, asked, folded>>
  BY DEF turnGhosts
<1>3. TurnTypeOK'
  <2>1. nextId' \in 1 .. MaxId + 1
    BY <1>1, TurnAssumption
  <2> QED BY <1>1, <1>2, <2>1 DEF IInv, HistoriesAgree, TurnTypeOK, Pcs, Event
<1>4. LiveAgrees' /\ ResultCovers' /\ EchoResolves'
  BY <1>1, <1>2 DEF IInv, HistoriesAgree, LiveAgrees, ResultCovers, EchoResolves
<1>5. OnFailure' = hist'
  BY <1>1 DEF OnFailure, Salvaged
<1>6. FailureCovers'
  BY <1>1, <1>5, CoversSelf DEF FailureCovers
<1>7. AskedSoFar'
  BY <1>1, <1>2 DEF IInv, AskedSoFar
<1>8. RoomLeft' /\ IdleIsQuiet' /\ NothingYet' /\ ToldSoFar'
  BY <1>1 DEF RoomLeft, IdleIsQuiet, NothingYet, ToldSoFar, Opening
<1> QED BY <1>3, <1>4, <1>6, <1>7, <1>8 DEF IInv, HistoriesAgree

LEMMA StepLandsIInv == ASSUME IInv, StepLands PROVE IInv'
<1>1. PICK output \in Outputs(nextId) :
        /\ FinishStep(output)
        /\ \/ pc' = "failed" /\ UNCHANGED step
           \/ ~CallsTools(output) /\ pc' = "done" /\ UNCHANGED step
           \/ CallsTools(output) /\ step < MaxSteps /\ NextStep
  BY DEF StepLands
<1>2. /\ pc = "stream" /\ resumes' = 0
      /\ UNCHANGED <<contents, runDone, ctxDone, kind, caller, turnGhosts>>
  BY DEF StepLands, runSide
<1>3. pc' \in {"failed", "done", "boundary"}
  BY <1>1 DEF NextStep
<1>4. step' \in 0 .. MaxSteps /\ resumes' \in 0 .. MaxResumes
  BY <1>1, <1>2, TurnAssumption, SMTT(30) DEF NextStep, IInv, HistoriesAgree, TurnTypeOK
<1> QED BY <1>1, <1>2, <1>3, <1>4, FinishedIInv

LEMMA FailIInv == ASSUME IInv, Fail PROVE IInv'
<1>1. PICK salvage \in {<<>>} \cup Outputs(nextId), cut \in BOOLEAN :
        /\ IF salvage = <<>>
           THEN UNCHANGED <<events, hist, full, rec, heavy, nextId>>
           ELSE FinishStep(salvage)
        /\ pc' = IF cut /\ Resumable THEN "wait" ELSE "failed"
  BY DEF Fail
<1>2. /\ pc = "stream"
      /\ UNCHANGED <<contents, runDone, ctxDone, kind, caller, step, resumes, turnGhosts>>
  BY DEF Fail, runSide
<1>3. pc' \in {"wait", "failed"} /\ (pc' = "wait" => step' < MaxSteps /\ resumes' < MaxResumes)
  BY <1>1, <1>2 DEF Resumable
<1>4. CASE salvage # <<>>
  BY <1>1, <1>2, <1>3, <1>4, FinishedIInv DEF IInv, HistoriesAgree, TurnTypeOK
<1>5. CASE salvage = <<>>
  <2>1. UNCHANGED <<Kept, ctxDone, kind, step, resumes, heavy, asked>>
    BY <1>1, <1>2, <1>5 DEF Kept, turnGhosts
  <2>2. UNCHANGED <<Known, Result, OnFailure>>
    BY <2>1, KeptIsTheSame
  <2>3. TurnTypeOK'
    BY <1>3, <2>1 DEF IInv, HistoriesAgree, TurnTypeOK, Kept, Pcs
  <2>4. LiveAgrees' /\ ResultCovers' /\ EchoResolves'
    BY <1>2, <1>3, <2>1, <2>2
    DEF IInv, HistoriesAgree, LiveAgrees, ResultCovers, EchoResolves, Kept
  <2>5. RoomLeft' /\ IdleIsQuiet' /\ NothingYet' /\ ToldSoFar' /\ AskedSoFar'
    BY <1>2, <1>3, <2>1 DEF IInv, RoomLeft, IdleIsQuiet, NothingYet, ToldSoFar, AskedSoFar,
         Opening, Looping, Kept
  <2>6. FailureCovers'
    BY <1>2, <1>3, <2>1, <2>2 DEF IInv, FailureCovers, Kept
  <2> QED BY <2>3, <2>4, <2>5, <2>6 DEF IInv, HistoriesAgree
<1> QED BY <1>4, <1>5

LEMMA NextIInv == IInv /\ [TurnNext]_turnVars => IInv'
<1> SUFFICES ASSUME IInv, [TurnNext]_turnVars PROVE IInv'
  OBVIOUS
<1>1. ASSUME NEW k \in {"prompt", "continue", "summarize"}, Start(k) PROVE IInv'
  BY <1>1, StartIInv
<1>2. CASE Cancel \/ Rests
  BY <1>2, CancelIInv
<1>3. CASE RunExit
  BY <1>3, RunExitIInv
<1>4. CASE RunWorks
  BY <1>4, TakeEventIInv, TakeResultIInv DEF RunWorks
<1>5. CASE ModelSteps
  BY <1>5, OpeningSummaryIInv, CompactIInv, StepLandsIInv, FailIInv DEF ModelSteps
<1>6. CASE TaskAlone
  BY <1>6, OpenIInv, PromptIInv, BoundaryIInv, SpliceIInv, SendIInv, ResumeIInv, TaskReturnsIInv
  DEF TaskAlone
<1>7. CASE UNCHANGED turnVars
  <2>1. /\ UNCHANGED <<Kept, ctxDone, pc, kind, step, resumes, heavy, asked>>
    BY <1>7 DEF turnVars, Kept, runSide, taskSide, turnGhosts
  <2>2. UNCHANGED <<Known, Result, OnFailure>>
    BY <2>1, KeptIsTheSame
  <2> QED BY <2>1, <2>2 DEF Kept, IInv, HistoriesAgree, TurnTypeOK, LiveAgrees, ResultCovers,
             EchoResolves, RoomLeft, IdleIsQuiet, NothingYet, ToldSoFar, FailureCovers, AskedSoFar
<1> QED BY <1>1, <1>2, <1>3, <1>4, <1>5, <1>6, <1>7 DEF TurnNext

-----------------------------------------------------------------------------
(* While a task works, what run() was told adds up to the history the task *)
(* is on; its result adds nothing to that and leaves nothing out; and an   *)
(* id the adapter was shown resolves (handleTaskEvent, stepRecord,         *)
(* processPrompt): whatever is canceled, cut, resumed or compacted.        *)
THEOREM ToldIsHeld == TurnSpec => []HistoriesAgree
<1>1. IInv => HistoriesAgree
  BY DEF IInv
<1> QED BY InitIInv, NextIInv, <1>1, PTL DEF TurnSpec

(* A request never ends on the model's words, and a mid-task summary never *)
(* swallows words the model was not asked (stepUserParts, the auto-        *)
(* summarize of processPrompt).                                            *)
THEOREM AskedAndAnswered == TurnSpec => []RequestsAreDue
<1>1. IInv => RequestsAreDue
  BY DEF IInv, AskedSoFar, RequestsAreDue, RequestEndsOnUser, FoldsOnlyAsked
<1> QED BY InitIInv, NextIInv, <1>1, PTL DEF TurnSpec
=============================================================================
