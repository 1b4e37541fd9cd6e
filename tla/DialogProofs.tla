---------------------------- MODULE DialogProofs ----------------------------
(***************************************************************************)
(* Proofs about Popups: for any number of tools and servers that ask, of   *)
(* tasks, and for any keys, each question is asked once, the MCP box has   *)
(* something left to close it, the lit pane takes the keys, and no answer  *)
(* of a dialog takes the words of the prompt; and for any themes, filters  *)
(* and model lists, a selector highlights a row and a preview ends with it.*)
(*                                                                         *)
(* The inductive invariant of Modals, DialogInv, has three parts.  Poised: *)
(* what a handler of tui.go leaves of the terminal, however many calls deep*)
(* it returned from.  Ledger: a question waits in the queue of the output  *)
(* writer, is in the dialog, or was answered, and no two entries of a queue*)
(* are of one question.  Boxed: once MCP has settled its status never says *)
(* "connecting" again, which is why a tick cannot reopen the box that the  *)
(* ready flag closed.  That of Selectors, SelectorsInv, has two.           *)
(* ListsHold: the highlight of a list is on a row.  PreviewsHold: a tick   *)
(* that will be drawn is of a selector still open, and one opened while the*)
(* session's theme was on screen knows that theme.                         *)
(*                                                                         *)
(* One lemma per handler, in the order the handlers call one another; then *)
(* one per action.                                                         *)
(***************************************************************************)
EXTENDS Popups, FiniteSetTheorems, SequenceTheorems, WellFoundedInduction, TLAPS

(* The types of the terminal's record.                                     *)
Overlays == {"none", "model", "theme", "help", "attach"}
Dialogs == {"none", "quit", "cancel", "steering", "tool", "auth", "canceling", "waiting"}
Prompts == Texts \cup Commands \cup {"", "command"}
Outs ==
  [tools : Seq(Nat), auths : Seq(Nat), ready : BOOLEAN, closed : BOOLEAN,
   mcpStatus : {"", "connecting", "done"}, inProgress : BOOLEAN, queued : Nat]
Terminals ==
  [overlay : Overlays, filter : BOOLEAN, confirm : Dialogs, who : Nat, mcpInit : BOOLEAN,
   focused : {"input", "display"}, lit : BOOLEAN, hasFocus : BOOLEAN,
   prompt : Prompts,
   fromCmd : BOOLEAN, quitting : BOOLEAN, quitCancelSent : BOOLEAN, loading : BOOLEAN,
   postLoading : BOOLEAN, gone : BOOLEAN, pipe : SUBSET Commands, out : Outs]

(* With nothing open, the pane that has the keys is the one lit.           *)
Glows(t) == ~IsBlocked(t) => (t.lit <=> t.focused = "display")

\* u is t, but for the pane that has the keys.
Refocused(t, u) ==
  /\ u \in Terminals
  /\ u.overlay = t.overlay /\ u.confirm = t.confirm /\ u.who = t.who /\ u.mcpInit = t.mcpInit
  /\ u.hasFocus = t.hasFocus /\ u.prompt = t.prompt /\ u.fromCmd = t.fromCmd
  /\ u.quitting = t.quitting /\ u.out = t.out


(***************************************************************************)
(* What the small moves of the terminal change, and leave alone.           *)
(***************************************************************************)
LEMMA Focusing ==
  ASSUME NEW t \in Terminals
  PROVE  /\ Refocused(t, FocusPrompt(t)) /\ Refocused(t, FocusDisplay(t))
         /\ Glows(FocusPrompt(t)) /\ Glows(FocusDisplay(t))
<1>1. Refocused(t, FocusPrompt(t)) /\ FocusPrompt(t).focused = "input" /\ ~FocusPrompt(t).lit
  BY DEF Terminals, FocusPrompt, Refocused
<1>2. Refocused(t, FocusDisplay(t)) /\ FocusDisplay(t).focused = "display" /\ FocusDisplay(t).lit
  BY DEF Terminals, FocusDisplay, Refocused
<1> QED
  BY <1>1, <1>2 DEF Glows

LEMMA Restoring ==
  ASSUME NEW t \in Terminals
  PROVE  Refocused(t, RestoreFocus(t)) /\ Glows(RestoreFocus(t))
BY Focusing DEF RestoreFocus

LEMMA AfterConfirm ==
  ASSUME NEW t \in Terminals
  PROVE  Refocused(t, RestoreFocusAfterConfirm(t)) /\ Glows(RestoreFocusAfterConfirm(t))
<1>1. CASE t.overlay \in {"model", "theme", "help"} \/ t.mcpInit
  BY <1>1 DEF RestoreFocusAfterConfirm, Refocused, Glows, IsBlocked
<1>2. CASE ~(t.overlay \in {"model", "theme", "help"} \/ t.mcpInit)
  BY <1>2, Restoring DEF RestoreFocusAfterConfirm
<1> QED
  BY <1>1, <1>2

LEMMA Clearing ==
  ASSUME NEW t \in Terminals, NEW f \in BOOLEAN, NEW u, u = Cleared(t, f)
  PROVE  /\ u \in Terminals
         /\ u.overlay = t.overlay /\ u.confirm = t.confirm /\ u.who = t.who /\ u.mcpInit = t.mcpInit
         /\ u.hasFocus = t.hasFocus /\ u.fromCmd = t.fromCmd
         /\ u.quitting = t.quitting /\ u.out = t.out
         /\ (f => u.prompt = "") /\ (~f => u.prompt = t.prompt)
BY DEF Terminals, Cleared, Prompts

LEMMA Opening ==
  ASSUME NEW t \in Terminals, NEW kind \in Dialogs, NEW who \in Nat, NEW u, u = OpenConfirm(t, kind, who)
  PROVE  /\ u \in Terminals
         /\ u.overlay = t.overlay /\ u.confirm = kind /\ u.who = who /\ u.mcpInit = t.mcpInit
         /\ u.hasFocus = t.hasFocus /\ u.fromCmd = t.fromCmd
         /\ u.quitting = t.quitting /\ u.out = t.out /\ u.prompt = t.prompt
BY DEF Terminals, OpenConfirm

LEMMA Closing ==
  ASSUME NEW t \in Terminals, NEW u, u = Closed(t)
  PROVE  /\ u \in Terminals
         /\ u.overlay = t.overlay /\ u.confirm = "none" /\ u.who = 0 /\ u.mcpInit = t.mcpInit
         /\ u.hasFocus = t.hasFocus /\ ~u.fromCmd
         /\ u.quitting = t.quitting /\ u.out = t.out /\ u.prompt = t.prompt
BY DEF Terminals, Closed, Dialogs

LEMMA Emitting ==
  ASSUME NEW t \in Terminals, NEW c \in Commands, NEW u, u = Emit(t, c)
  PROVE  Refocused(t, u) /\ u.lit = t.lit /\ u.focused = t.focused
BY DEF Terminals, Emit, Refocused

(* What the session says, put into the terminal's record.                   *)
LEMMA Telling ==
  ASSUME NEW t \in Terminals, NEW o \in Outs, NEW u, u = [t EXCEPT !.out = o]
  PROVE  /\ u \in Terminals
         /\ u.overlay = t.overlay /\ u.confirm = t.confirm /\ u.who = t.who /\ u.mcpInit = t.mcpInit
         /\ u.hasFocus = t.hasFocus /\ u.fromCmd = t.fromCmd
         /\ u.quitting = t.quitting /\ u.out = o /\ u.lit = t.lit /\ u.focused = t.focused
         /\ u.prompt = t.prompt
BY DEF Terminals

LEMMA TellingTools ==
  ASSUME NEW t \in Terminals, NEW q \in Seq(Nat)
  PROVE  [t EXCEPT !.out.tools = q] = [t EXCEPT !.out = [t.out EXCEPT !.tools = q]]
OBVIOUS

LEMMA TellingAuths ==
  ASSUME NEW t \in Terminals, NEW q \in Seq(Nat)
  PROVE  [t EXCEPT !.out.auths = q] = [t EXCEPT !.out = [t.out EXCEPT !.auths = q]]
OBVIOUS

LEMMA ToolsOut ==
  ASSUME NEW o \in Outs, NEW q \in Seq(Nat), NEW p, p = [o EXCEPT !.tools = q]
  PROVE  /\ p \in Outs /\ p.tools = q /\ p.auths = o.auths /\ p.ready = o.ready
         /\ p.mcpStatus = o.mcpStatus
BY DEF Outs

LEMMA AuthsOut ==
  ASSUME NEW o \in Outs, NEW q \in Seq(Nat), NEW p, p = [o EXCEPT !.auths = q]
  PROVE  /\ p \in Outs /\ p.tools = o.tools /\ p.auths = q /\ p.ready = o.ready
         /\ p.mcpStatus = o.mcpStatus
BY DEF Outs

(***************************************************************************)
(* Questions.                                                              *)
(***************************************************************************)

(* n questions were asked, of at most max: each waits its turn in q, or is *)
(* in the dialog, d, or was answered, once.                                *)
Shared(q, d, s, n, max) ==
  /\ q \in Seq(Nat) /\ n \in 0 .. max /\ s \in [1 .. max -> Nat]
  /\ \A j \in 1 .. Len(q) : q[j] \in 1 .. n /\ s[q[j]] = 0
  /\ \A j, k \in 1 .. Len(q) : q[j] = q[k] => j = k
  /\ \A w \in d : w \in 1 .. n /\ s[w] = 0 /\ \A j \in 1 .. Len(q) : q[j] # w
  /\ \A i \in 1 .. n :
       s[i] = 1 \/ (s[i] = 0 /\ (i \in d \/ \E j \in 1 .. Len(q) : q[j] = i))
  /\ \A i \in n + 1 .. max : s[i] = 0

(* It is what AskedOnce counts.                                            *)
LEMMA SharedOnce ==
  ASSUME NEW q, NEW d, NEW s, NEW n, NEW max \in Nat,
         Shared(q, d, s, n, max), NEW i \in 1 .. n
  PROVE  Cardinality({j \in DOMAIN q : q[j] = i}) + (IF i \in d THEN 1 ELSE 0) + s[i] = 1
<1>0. DOMAIN q = 1 .. Len(q)
  BY DEF Shared
<1>1. CASE \E j \in 1 .. Len(q) : q[j] = i
  <2>1. PICK j \in 1 .. Len(q) : q[j] = i
    BY <1>1
  <2>2. {k \in DOMAIN q : q[k] = i} = {j}
    BY <1>0, <2>1 DEF Shared
  <2>3. Cardinality({k \in DOMAIN q : q[k] = i}) = 1
    BY <2>2, FS_Singleton
  <2>4. s[i] = 0 /\ i \notin d
    BY <2>1 DEF Shared
  <2> QED
    BY <2>3, <2>4
<1>2. CASE ~\E j \in 1 .. Len(q) : q[j] = i
  <2>1. {k \in DOMAIN q : q[k] = i} = {}
    BY <1>0, <1>2
  <2>2. Cardinality({k \in DOMAIN q : q[k] = i}) = 0
    BY <2>1, FS_EmptySet
  <2>3. s[i] \in Nat /\ (s[i] = 1 \/ (s[i] = 0 /\ i \in d))
    BY <1>2 DEF Shared
  <2>4. i \in d => s[i] = 0
    BY DEF Shared
  <2> QED
    BY <2>2, <2>3, <2>4
<1> QED
  BY <1>1, <1>2

(* A new question goes to the end of the queue.                            *)
LEMMA SharedAsks ==
  ASSUME NEW q, NEW d, NEW s, NEW n, NEW max \in Nat,
         Shared(q, d, s, n, max), n < max
  PROVE  Shared(Append(q, n + 1), d, s, n + 1, max)
<1> DEFINE r == Append(q, n + 1)
<1>1. /\ n \in Nat /\ n + 1 \in 0 .. max /\ q \in Seq(Nat) /\ s \in [1 .. max -> Nat]
      /\ Len(q) \in Nat /\ s[n + 1] = 0
  BY DEF Shared
<1>2. /\ r \in Seq(Nat) /\ Len(r) = Len(q) + 1 /\ r[Len(q) + 1] = n + 1
      /\ \A j \in 1 .. Len(q) : r[j] = q[j]
  BY <1>1
<1>3. \A j \in 1 .. Len(r) : j \in 1 .. Len(q) \/ j = Len(q) + 1
  BY <1>1, <1>2
<1> HIDE DEF r
<1>q. /\ \A j \in 1 .. Len(q) : q[j] \in 1 .. n /\ s[q[j]] = 0
      /\ \A j, k \in 1 .. Len(q) : q[j] = q[k] => j = k
      /\ \A w \in d : w \in 1 .. n /\ s[w] = 0 /\ \A j \in 1 .. Len(q) : q[j] # w
  BY DEF Shared
<1>m. n + 1 \notin 1 .. n /\ \A i \in 1 .. n : i \in 1 .. n + 1 /\ i # n + 1
  BY <1>1
<1>4. ASSUME NEW j \in 1 .. Len(r) PROVE r[j] \in 1 .. n + 1 /\ s[r[j]] = 0
  <2>1. CASE j \in 1 .. Len(q)
    BY <1>2, <1>q, <1>m, <2>1
  <2>2. CASE j = Len(q) + 1
    BY <1>1, <1>2, <2>2
  <2> QED
    BY <1>3, <2>1, <2>2
<1>5. ASSUME NEW j \in 1 .. Len(r), NEW k \in 1 .. Len(r), r[j] = r[k] PROVE j = k
  BY <1>2, <1>3, <1>5, <1>q, <1>m
<1>6. ASSUME NEW w \in d PROVE w \in 1 .. n + 1 /\ s[w] = 0 /\ \A j \in 1 .. Len(r) : r[j] # w
  BY <1>2, <1>3, <1>6, <1>q, <1>m
<1>7. ASSUME NEW i \in 1 .. n + 1
      PROVE  s[i] = 1 \/ (s[i] = 0 /\ (i \in d \/ \E j \in 1 .. Len(r) : r[j] = i))
  <2>1. CASE i = n + 1
    BY <1>1, <1>2, <2>1, SMTT(30)
  <2>2. CASE i # n + 1
    <3>1. i \in 1 .. n
      BY <1>1, <2>2
    <3>2. s[i] = 1 \/ (s[i] = 0 /\ (i \in d \/ \E j \in 1 .. Len(q) : q[j] = i))
      BY <3>1 DEF Shared
    <3>3. \A j \in 1 .. Len(q) : j \in 1 .. Len(r) /\ r[j] = q[j]
      BY <1>1, <1>2
    <3> QED
      BY <3>2, <3>3
  <2> QED
    BY <2>1, <2>2
<1>8. \A i \in n + 1 + 1 .. max : s[i] = 0
  BY <1>1 DEF Shared
<1>9. Shared(r, d, s, n + 1, max)
  BY <1>1, <1>2, <1>4, <1>5, <1>6, <1>7, <1>8 DEF Shared
<1> QED
  BY <1>9 DEF r

(* The first of the queue goes into the dialog.                            *)
LEMMA SharedOpens ==
  ASSUME NEW q, NEW s, NEW n, NEW max \in Nat,
         Shared(q, {}, s, n, max), q # <<>>
  PROVE  Head(q) \in Nat /\ Tail(q) \in Seq(Nat) /\ Shared(Tail(q), {Head(q)}, s, n, max)
<1> DEFINE r == Tail(q)
<1>1. q \in Seq(Nat) /\ n \in 0 .. max /\ s \in [1 .. max -> Nat] /\ Len(q) \in Nat /\ Len(q) >= 1
  BY DEF Shared
<1>2. /\ r \in Seq(Nat) /\ Len(r) = Len(q) - 1 /\ Head(q) = q[1] /\ Head(q) \in Nat
      /\ \A j \in 1 .. Len(r) : r[j] = q[j + 1]
  BY <1>1
<1>3. \A j \in 1 .. Len(r) : j + 1 \in 1 .. Len(q) /\ j + 1 # 1
  BY <1>1, <1>2
<1> HIDE DEF r
<1>q. /\ \A j \in 1 .. Len(q) : q[j] \in 1 .. n /\ s[q[j]] = 0
      /\ \A j, k \in 1 .. Len(q) : q[j] = q[k] => j = k
  BY DEF Shared
<1>4. ASSUME NEW j \in 1 .. Len(r) PROVE r[j] \in 1 .. n /\ s[r[j]] = 0
  <2>1. PICK k \in 1 .. Len(q) : k = j + 1
    BY <1>3
  <2>2. r[j] = q[k]
    BY <1>2, <2>1
  <2> QED
    BY <1>q, <2>2
<1>5. ASSUME NEW j \in 1 .. Len(r), NEW k \in 1 .. Len(r), r[j] = r[k] PROVE j = k
  <2>1. q[j + 1] = q[k + 1]
    BY <1>2, <1>5
  <2>2. j + 1 = k + 1
    BY <1>3, <1>q, <2>1
  <2> QED
    BY <1>2, <2>2
<1>6. Head(q) \in 1 .. n /\ s[Head(q)] = 0 /\ \A j \in 1 .. Len(r) : r[j] # Head(q)
  BY <1>1, <1>2, <1>3 DEF Shared
<1>7. ASSUME NEW i \in 1 .. n
      PROVE  s[i] = 1 \/ (s[i] = 0 /\ (Head(q) = i \/ \E j \in 1 .. Len(r) : r[j] = i))
  <2>1. s[i] = 1 \/ (s[i] = 0 /\ \E j \in 1 .. Len(q) : q[j] = i)
    BY DEF Shared
  <2>2. ASSUME NEW j \in 1 .. Len(q), q[j] = i
        PROVE  Head(q) = i \/ \E k \in 1 .. Len(r) : r[k] = i
    <3>1. CASE j = 1
      BY <1>2, <2>2, <3>1
    <3>2. CASE j # 1
      <4>1. j - 1 \in 1 .. Len(r) /\ (j - 1) + 1 = j
        BY <1>1, <1>2, <3>2
      <4>2. r[j - 1] = i
        BY <1>2, <2>2, <4>1
      <4> QED
        BY <4>1, <4>2
    <3> QED
      BY <3>1, <3>2
  <2> QED
    BY <2>1, <2>2
<1>8. Shared(r, {Head(q)}, s, n, max)
  BY <1>1, <1>2, <1>4, <1>5, <1>6, <1>7 DEF Shared
<1> QED
  BY <1>2, <1>8 DEF r

(* What is in the dialog is answered.                                      *)
LEMMA SharedAnswered ==
  ASSUME NEW q, NEW w, NEW s, NEW n, NEW max \in Nat, NEW u,
         Shared(q, {w}, s, n, max), u = [s EXCEPT ![w] = @ + 1]
  PROVE  Shared(q, {}, u, n, max)
<1>1. /\ q \in Seq(Nat) /\ n \in 0 .. max /\ s \in [1 .. max -> Nat] /\ w \in 1 .. n /\ w \in 1 .. max
      /\ s[w] = 0
  BY DEF Shared
<1>2. u \in [1 .. max -> Nat] /\ \A i \in 1 .. max : u[i] = IF i = w THEN 1 ELSE s[i]
  BY <1>1
<1>3. \A i \in 1 .. n : i \in 1 .. max
  BY <1>1
<1>q. \A j \in 1 .. Len(q) : q[j] \in 1 .. n /\ s[q[j]] = 0 /\ q[j] # w
  BY DEF Shared
<1>4. \A j \in 1 .. Len(q) : q[j] \in 1 .. n /\ u[q[j]] = 0
  BY <1>2, <1>3, <1>q
<1>5. \A j, k \in 1 .. Len(q) : q[j] = q[k] => j = k
  BY DEF Shared
<1>s. \A i \in 1 .. n : s[i] = 1 \/ (s[i] = 0 /\ (w = i \/ \E j \in 1 .. Len(q) : q[j] = i))
  BY DEF Shared
<1>6. ASSUME NEW i \in 1 .. n
      PROVE  u[i] = 1 \/ (u[i] = 0 /\ \E j \in 1 .. Len(q) : q[j] = i)
  <2>1. CASE i = w
    BY <1>2, <1>3, <2>1
  <2>2. CASE i # w
    BY <1>2, <1>3, <1>s, <2>2
  <2> QED
    BY <2>1, <2>2
<1>7. ASSUME NEW i \in n + 1 .. max PROVE u[i] = 0
  <2>1. i \in 1 .. max /\ i # w
    BY <1>1
  <2>2. s[i] = 0
    BY DEF Shared
  <2> QED
    BY <1>2, <2>1, <2>2
<1> QED
  BY <1>1, <1>2, <1>4, <1>5, <1>6, <1>7 DEF Shared

\* z counts one more than f for all that waited in q.
AllCounted(z, f, q, S) ==
  z \in [S -> Nat] /\ \A i \in S : z[i] = IF Contains(q, i) THEN f[i] + 1 ELSE f[i]

(* The ready flag drops what waits: MCP settled, so each has an answer.    *)
LEMMA SharedDrained ==
  ASSUME NEW q, NEW d, NEW s, NEW n, NEW max \in Nat, NEW u,
         Shared(q, d, s, n, max), AllCounted(u, s, q, 1 .. max)
  PROVE  Shared(<<>>, d, u, n, max)
<1>1. /\ q \in Seq(Nat) /\ n \in 0 .. max /\ s \in [1 .. max -> Nat] /\ u \in [1 .. max -> Nat]
      /\ \A i \in 1 .. max : u[i] = IF Contains(q, i) THEN s[i] + 1 ELSE s[i]
  BY DEF Shared, AllCounted
<1>2. \A i \in 1 .. n : i \in 1 .. max
  BY <1>1
<1>3. ASSUME NEW w \in d PROVE w \in 1 .. n /\ u[w] = 0
  <2>1. w \in 1 .. n /\ s[w] = 0 /\ \A j \in 1 .. Len(q) : q[j] # w
    BY DEF Shared
  <2>2. ~Contains(q, w)
    BY <2>1 DEF Contains
  <2> QED
    BY <1>1, <1>2, <2>1, <2>2
<1>s. \A i \in 1 .. n :
        s[i] = 1 \/ (s[i] = 0 /\ (i \in d \/ \E j \in 1 .. Len(q) : q[j] = i))
  BY DEF Shared
<1>d. \A j \in 1 .. Len(q) : s[q[j]] = 0
  BY DEF Shared
<1>4. ASSUME NEW i \in 1 .. n PROVE u[i] = 1 \/ (u[i] = 0 /\ i \in d)
  <2>1. CASE Contains(q, i)
    <3>1. s[i] = 0
      BY <1>d, <2>1 DEF Contains
    <3> QED
      BY <1>1, <1>2, <2>1, <3>1
  <2>2. CASE ~Contains(q, i)
    BY <1>1, <1>2, <1>s, <2>2 DEF Contains
  <2> QED
    BY <2>1, <2>2
<1>5. ASSUME NEW i \in n + 1 .. max PROVE u[i] = 0
  <2>1. s[i] = 0 /\ i \in 1 .. max /\ i \notin 1 .. n
    BY <1>1 DEF Shared
  <2>2. \A j \in 1 .. Len(q) : q[j] \in 1 .. n
    BY DEF Shared
  <2>3. ~Contains(q, i)
    BY <2>1, <2>2 DEF Contains
  <2> QED
    BY <1>1, <2>1, <2>3
<1>6. <<>> \in Seq(Nat) /\ Len(<<>>) = 0 /\ 1 .. 0 = {}
  OBVIOUS
<1> QED
  BY <1>1, <1>3, <1>4, <1>5, <1>6 DEF Shared

(***************************************************************************)
(* Answers of the dialogs.                                                 *)
(***************************************************************************)

(* A terminal between two updates: the lit pane is the one that takes the  *)
(* keys; the box that waits for a quit is open only then; and a dialog is  *)
(* remembered as a command's only while it is open, when the prompt holds  *)
(* that command.                                                           *)
Poised(t) ==
  /\ t \in Terminals
  /\ t.hasFocus /\ ~t.quitting => Glows(t)
  /\ t.confirm \in {"waiting", "canceling"} => t.quitting
  /\ t.fromCmd => IsOpen(t) /\ t.prompt # "words"

(* No dialog is open, so none is a command's.                              *)
Idle(t) == t \in Terminals /\ t.confirm = "none" /\ ~t.fromCmd

LEMMA Returning ==
  ASSUME NEW t, Idle(t), NEW f \in BOOLEAN, NEW u, u = RestoreFocusAfterConfirm(Cleared(t, f))
  PROVE  /\ Idle(u) /\ Glows(u) /\ u.out = t.out /\ u.mcpInit = t.mcpInit
         /\ (f => u.prompt = "") /\ (~f => u.prompt = t.prompt)
<1>1. PICK v : v = Cleared(t, f)
  OBVIOUS
<1>2. /\ v \in Terminals /\ v.confirm = t.confirm /\ v.fromCmd = t.fromCmd /\ v.mcpInit = t.mcpInit
      /\ v.out = t.out /\ (f => v.prompt = "") /\ (~f => v.prompt = t.prompt)
  BY <1>1, Clearing, ZenonT(40) DEF Idle
<1>3. Refocused(v, u) /\ Glows(u)
  BY <1>1, <1>2, AfterConfirm
<1> QED
  BY <1>2, <1>3 DEF Idle, Refocused

LEMMA IdleIsPoised == ASSUME NEW t, Idle(t), t.quitting \/ Glows(t) PROVE Poised(t)
BY DEF Idle, Poised

(* HandleConfirmQuit: yes ends in a terminal that is quitting, so what is  *)
(* lit no longer matters; no gives the keys back.                          *)
LEMMA QuitAnswered ==
  ASSUME NEW t, Idle(t), NEW yes \in BOOLEAN, NEW f \in BOOLEAN, NEW u,
         u = HandleConfirmQuit(t, yes, f)
  PROVE  /\ Poised(u) /\ u.confirm = "none" /\ u.out = t.out /\ u.mcpInit = t.mcpInit
         /\ (~f => u.prompt = t.prompt)
<1>1. CASE yes
  <2>1. PICK v : v = [t EXCEPT !.quitting = TRUE]
    OBVIOUS
  <2>2. /\ v \in Terminals /\ v.confirm = "none" /\ ~v.fromCmd /\ v.out = t.out
        /\ v.mcpInit = t.mcpInit /\ v.prompt = t.prompt /\ v.quitting
    BY <2>1 DEF Idle, Terminals
  <2>3. u = Emit(v, ":quit") /\ ":quit" \in Commands
    BY <1>1, <2>1 DEF HandleConfirmQuit, Commands
  <2>4. Refocused(v, u)
    BY <2>2, <2>3, Emitting
  <2>5. Idle(u) /\ u.quitting /\ u.out = t.out /\ u.mcpInit = t.mcpInit /\ u.prompt = t.prompt
    BY <2>2, <2>4 DEF Refocused, Idle
  <2> QED
    BY <2>5, IdleIsPoised DEF Idle
<1>2. CASE ~yes
  <2>1. u = RestoreFocusAfterConfirm(Cleared(t, f))
    BY <1>2 DEF HandleConfirmQuit
  <2>2. /\ Idle(u) /\ Glows(u) /\ u.out = t.out /\ u.mcpInit = t.mcpInit
        /\ (f => u.prompt = "") /\ (~f => u.prompt = t.prompt)
    BY <2>1, Returning
  <2> QED
    BY <2>2, IdleIsPoised DEF Idle
<1> QED
  BY <1>1, <1>2

\* The dialog is closed, and only a command's answer, f, touched the prompt.
Dismissed(t, u, f) ==
  /\ Poised(u) /\ u.confirm = "none" /\ u.out = t.out /\ u.mcpInit = t.mcpInit
  /\ ~f => u.prompt = t.prompt

LEMMA Submitted ==
  ASSUME NEW t, Idle(t), Glows(t), NEW c \in Commands, NEW f \in BOOLEAN
  PROVE  Dismissed(t, SubmitCommand(t, c, f), f)
<1>1. PICK v : v = Emit(t, c)
  OBVIOUS
<1>2. Refocused(t, v) /\ v.lit = t.lit /\ v.focused = t.focused
  BY <1>1, Emitting DEF Idle
<1>3. PICK u : u = SubmitCommand(t, c, f)
  OBVIOUS
<1>4. u = [v EXCEPT !.prompt = IF f THEN "" ELSE @] /\ v \in Terminals
  BY <1>1, <1>2, <1>3 DEF SubmitCommand, Refocused
<1>5. /\ u \in Terminals /\ u.overlay = v.overlay /\ u.confirm = v.confirm
      /\ u.mcpInit = v.mcpInit /\ u.fromCmd = v.fromCmd
      /\ u.out = v.out /\ u.lit = v.lit /\ u.focused = v.focused
      /\ (~f => u.prompt = v.prompt)
  BY <1>4 DEF Terminals, Prompts
<1>6. Idle(u) /\ Glows(u)
  BY <1>2, <1>5 DEF Idle, Refocused, Glows, IsBlocked, IsOpen
<1>7. Poised(u)
  BY <1>6, IdleIsPoised
<1>8. Dismissed(t, u, f)
  BY <1>2, <1>5, <1>6, <1>7 DEF Idle, Refocused, Dismissed
<1> QED
  BY <1>3, <1>8

(* HandleConfirmCancel and HandleConfirmCancelSteering: the second dialog  *)
(* inherits the command the first one came from.                           *)
LEMMA CancelAnswered ==
  ASSUME NEW t, Idle(t), NEW yes \in BOOLEAN, NEW f \in BOOLEAN, NEW u,
         u = HandleConfirmCancel(t, yes, f)
  PROVE  /\ Poised(u) /\ u.confirm \in {"none", "steering"} /\ u.out = t.out /\ u.mcpInit = t.mcpInit
         /\ (~f => u.prompt = t.prompt)
<1>1. PICK back : back = RestoreFocusAfterConfirm(Cleared(t, f))
  OBVIOUS
<1>2. /\ Idle(back) /\ Glows(back) /\ back.out = t.out /\ back.mcpInit = t.mcpInit
      /\ (f => back.prompt = "") /\ (~f => back.prompt = t.prompt)
  BY <1>1, Returning
<1>3. CASE ~yes
  <2>1. u = back
    BY <1>1, <1>3 DEF HandleConfirmCancel
  <2> QED
    BY <1>2, <2>1, IdleIsPoised DEF Idle
<1>4. CASE yes /\ t.out.queued > 0
  <2>1. PICK v : v = OpenConfirm(back, "steering", 0)
    OBVIOUS
  <2>2. u = [v EXCEPT !.fromCmd = f]
    BY <1>1, <1>4, <2>1 DEF HandleConfirmCancel
  <2>3. /\ v \in Terminals /\ v.confirm = "steering" /\ v.mcpInit = back.mcpInit /\ v.out = back.out
        /\ v.prompt = back.prompt
    <3>1. back \in Terminals /\ "steering" \in Dialogs /\ 0 \in Nat
      BY <1>2 DEF Idle, Dialogs
    <3> QED
      BY <2>1, <3>1, Opening
  <2>4. /\ u \in Terminals /\ u.confirm = "steering" /\ u.mcpInit = v.mcpInit /\ u.out = v.out
        /\ u.prompt = v.prompt /\ u.fromCmd = f
    BY <2>2, <2>3 DEF Terminals
  <2> QED
    BY <1>2, <2>3, <2>4 DEF Poised, Glows, IsBlocked, IsOpen
<1>5. CASE yes /\ ~(t.out.queued > 0)
  <2>1. u = SubmitCommand(back, ":cancel", f) /\ ":cancel" \in Commands
    BY <1>1, <1>5 DEF HandleConfirmCancel, Commands
  <2>2. Dismissed(back, u, f)
    BY <1>2, <2>1, Submitted
  <2> QED
    BY <1>2, <2>2 DEF Dismissed
<1> QED
  BY <1>3, <1>4, <1>5

LEMMA SteeringAnswered ==
  ASSUME NEW t, Idle(t), NEW key, NEW f \in BOOLEAN, NEW u,
         u = HandleConfirmCancelSteering(t, key, f)
  PROVE  /\ Poised(u) /\ u.confirm = "none" /\ u.out = t.out /\ u.mcpInit = t.mcpInit
         /\ (~f => u.prompt = t.prompt)
<1>1. PICK back : back = RestoreFocusAfterConfirm(t)
  OBVIOUS
<1>2. Refocused(t, back) /\ Glows(back)
  BY <1>1, AfterConfirm DEF Idle
<1>3. Idle(back) /\ back.out = t.out /\ back.mcpInit = t.mcpInit /\ back.prompt = t.prompt
  BY <1>2 DEF Idle, Refocused
<1>4. CASE key = "y"
  <2>1. u = SubmitCommand(back, ":cancel", f) /\ ":cancel" \in Commands
    BY <1>1, <1>4 DEF HandleConfirmCancelSteering, Commands
  <2>2. Dismissed(back, u, f)
    BY <1>2, <1>3, <2>1, Submitted
  <2> QED
    BY <1>3, <2>2 DEF Dismissed
<1>5. CASE key = "n"
  <2>1. u = SubmitCommand(back, ":cancel keep", f) /\ ":cancel keep" \in Commands
    BY <1>1, <1>5 DEF HandleConfirmCancelSteering, Commands
  <2>2. Dismissed(back, u, f)
    BY <1>2, <1>3, <2>1, Submitted
  <2> QED
    BY <1>3, <2>2 DEF Dismissed
<1>6. CASE key \notin {"y", "n"}
  <2>1. u = back
    BY <1>1, <1>6 DEF HandleConfirmCancelSteering
  <2> QED
    BY <1>2, <1>3, <2>1, IdleIsPoised DEF Idle
<1> QED
  BY <1>4, <1>5, <1>6

(* HandleConfirmQuitWaiting.                                               *)
LEMMA WaitingAnswered ==
  ASSUME NEW t, Idle(t), t.quitting, NEW u, u = HandleConfirmQuitWaiting(t)
  PROVE  /\ Poised(u) /\ u.confirm = "none" /\ u.out = t.out /\ u.mcpInit = t.mcpInit
         /\ u.prompt = t.prompt
<1>1. PICK v : v = [t EXCEPT !.quitCancelSent = TRUE]
  OBVIOUS
<1>2. /\ v \in Terminals /\ v.confirm = "none" /\ ~v.fromCmd /\ v.out = t.out
      /\ v.mcpInit = t.mcpInit /\ v.prompt = t.prompt /\ v.quitting
  BY <1>1 DEF Idle, Terminals
<1>3. u = Emit(v, ":cancel") /\ ":cancel" \in Commands
  BY <1>1 DEF HandleConfirmQuitWaiting, Commands
<1>4. Refocused(v, u)
  BY <1>2, <1>3, Emitting
<1>5. Idle(u) /\ u.quitting /\ u.out = t.out /\ u.mcpInit = t.mcpInit /\ u.prompt = t.prompt
  BY <1>2, <1>4 DEF Refocused, Idle
<1> QED
  BY <1>5, IdleIsPoised DEF Idle

Asked == [tools : Nat, auths : Nat, tasks : Nat]
Saids == [tools : [1 .. MaxTools -> Nat], auths : [1 .. MaxServers -> Nat]]

ToolAsked(t) == IF t.confirm = "tool" THEN {t.who} ELSE {}
AuthAsked(t) == IF t.confirm = "auth" THEN {t.who} ELSE {}

\* Every question of a tool and of a server is in one place.
Ledger(t, a, s) ==
  /\ Shared(t.out.tools, ToolAsked(t), s.tools, a.tools, MaxTools)
  /\ Shared(t.out.auths, AuthAsked(t), s.auths, a.auths, MaxServers)

(* Nothing the box depends on has changed.                                 *)
SameBox(t, u) ==
  u.mcpInit = t.mcpInit /\ u.out.ready = t.out.ready /\ u.out.mcpStatus = t.out.mcpStatus

LEMMA LedgerStays ==
  ASSUME NEW t, NEW u, NEW a, NEW s, Ledger(t, a, s),
         u.out.tools = t.out.tools, u.out.auths = t.out.auths,
         \/ t.confirm \notin {"tool", "auth"} /\ u.confirm \notin {"tool", "auth"}
         \/ u.confirm = t.confirm /\ u.who = t.who
  PROVE  Ledger(u, a, s)
<1>1. ToolAsked(u) = ToolAsked(t) /\ AuthAsked(u) = AuthAsked(t)
  BY DEF ToolAsked, AuthAsked
<1> QED
  BY <1>1 DEF Ledger

(* The next tool, or the next server, asks as soon as one was answered.    *)
LEMMA ToolTurn ==
  ASSUME NEW t, Idle(t), Glows(t), NEW a, NEW s, Ledger(t, a, s)
  PROVE  /\ Poised(NextTool(t)) /\ Ledger(NextTool(t), a, s) /\ SameBox(t, NextTool(t))
         /\ NextTool(t).prompt = t.prompt
<1>1. CASE t.out.tools = <<>>
  <2>1. NextTool(t) = t
    BY <1>1 DEF NextTool
  <2> QED
    BY <2>1, IdleIsPoised DEF SameBox
<1>2. CASE t.out.tools # <<>>
  <2>1. t \in Terminals /\ t.confirm = "none" /\ ~t.fromCmd
    BY DEF Idle
  <2>2. t.out \in Outs
    BY <2>1 DEF Terminals
  <2>3. Shared(t.out.tools, {}, s.tools, a.tools, MaxTools)
    BY <2>1 DEF Ledger, ToolAsked
  <2>4. PICK q : q = Tail(t.out.tools)
    OBVIOUS
  <2>5. PICK w : w = Head(t.out.tools)
    OBVIOUS
  <2>6. w \in Nat /\ q \in Seq(Nat) /\ Shared(q, {w}, s.tools, a.tools, MaxTools)
    BY <1>2, <2>3, <2>4, <2>5, SharedOpens, ModalsAssumption
  <2>7. PICK p : p = [t.out EXCEPT !.tools = q]
    OBVIOUS
  <2>8. /\ p \in Outs /\ p.tools = q /\ p.auths = t.out.auths /\ p.ready = t.out.ready
        /\ p.mcpStatus = t.out.mcpStatus
    BY <2>2, <2>6, <2>7, ToolsOut
  <2>9. PICK v : v = [t EXCEPT !.out = p]
    OBVIOUS
  <2>10. /\ v \in Terminals /\ v.overlay = t.overlay /\ v.mcpInit = t.mcpInit
         /\ v.fromCmd = t.fromCmd /\ v.out = p /\ v.prompt = t.prompt
    BY <2>1, <2>8, <2>9, Telling
  <2>11. [t EXCEPT !.out.tools = Tail(@)] = v
    BY <2>1, <2>4, <2>6, <2>7, <2>9 DEF Terminals
  <2>12. PICK u : u = NextTool(t)
    OBVIOUS
  <2>13. u = OpenConfirm(v, "tool", w)
    BY <1>2, <2>5, <2>11, <2>12 DEF NextTool
  <2>14. "tool" \in Dialogs
    BY DEF Dialogs
  <2>15. /\ u \in Terminals /\ u.confirm = "tool" /\ u.who = w /\ u.mcpInit = v.mcpInit
         /\ u.fromCmd = v.fromCmd /\ u.out = v.out /\ u.prompt = v.prompt
    BY <2>6, <2>10, <2>13, <2>14, Opening
  <2>16. Poised(u)
    BY <2>1, <2>10, <2>15 DEF Poised, Glows, IsBlocked, IsOpen
  <2>17. SameBox(t, u) /\ u.prompt = t.prompt
    BY <2>8, <2>10, <2>15 DEF SameBox
  <2>18. ToolAsked(u) = {w} /\ AuthAsked(u) = {} /\ AuthAsked(t) = {}
    BY <2>1, <2>15 DEF ToolAsked, AuthAsked
  <2>19. Ledger(u, a, s)
    BY <2>6, <2>8, <2>10, <2>15, <2>18 DEF Ledger
  <2> QED
    BY <2>12, <2>16, <2>17, <2>19
<1> QED
  BY <1>1, <1>2

LEMMA AuthTurn ==
  ASSUME NEW t, Idle(t), Glows(t), NEW a, NEW s, Ledger(t, a, s)
  PROVE  /\ Poised(NextAuth(t)) /\ Ledger(NextAuth(t), a, s) /\ SameBox(t, NextAuth(t))
         /\ NextAuth(t).prompt = t.prompt
<1>1. CASE t.out.auths = <<>>
  <2>1. NextAuth(t) = t
    BY <1>1 DEF NextAuth
  <2> QED
    BY <2>1, IdleIsPoised DEF SameBox
<1>2. CASE t.out.auths # <<>>
  <2>1. t \in Terminals /\ t.confirm = "none" /\ ~t.fromCmd
    BY DEF Idle
  <2>2. t.out \in Outs
    BY <2>1 DEF Terminals
  <2>3. Shared(t.out.auths, {}, s.auths, a.auths, MaxServers)
    BY <2>1 DEF Ledger, AuthAsked
  <2>4. PICK q : q = Tail(t.out.auths)
    OBVIOUS
  <2>5. PICK w : w = Head(t.out.auths)
    OBVIOUS
  <2>6. w \in Nat /\ q \in Seq(Nat) /\ Shared(q, {w}, s.auths, a.auths, MaxServers)
    BY <1>2, <2>3, <2>4, <2>5, SharedOpens, ModalsAssumption
  <2>7. PICK p : p = [t.out EXCEPT !.auths = q]
    OBVIOUS
  <2>8. /\ p \in Outs /\ p.tools = t.out.tools /\ p.auths = q /\ p.ready = t.out.ready
        /\ p.mcpStatus = t.out.mcpStatus
    BY <2>2, <2>6, <2>7, AuthsOut
  <2>9. PICK v : v = [t EXCEPT !.out = p]
    OBVIOUS
  <2>10. /\ v \in Terminals /\ v.overlay = t.overlay /\ v.mcpInit = t.mcpInit
         /\ v.fromCmd = t.fromCmd /\ v.out = p /\ v.prompt = t.prompt
    BY <2>1, <2>8, <2>9, Telling
  <2>11. [t EXCEPT !.out.auths = Tail(@)] = v
    BY <2>1, <2>4, <2>6, <2>7, <2>9 DEF Terminals
  <2>12. PICK u : u = NextAuth(t)
    OBVIOUS
  <2>13. u = OpenConfirm(v, "auth", w)
    BY <1>2, <2>5, <2>11, <2>12 DEF NextAuth
  <2>14. "auth" \in Dialogs
    BY DEF Dialogs
  <2>15. /\ u \in Terminals /\ u.confirm = "auth" /\ u.who = w /\ u.mcpInit = v.mcpInit
         /\ u.fromCmd = v.fromCmd /\ u.out = v.out /\ u.prompt = v.prompt
    BY <2>6, <2>10, <2>13, <2>14, Opening
  <2>16. Poised(u)
    BY <2>1, <2>10, <2>15 DEF Poised, Glows, IsBlocked, IsOpen
  <2>17. SameBox(t, u) /\ u.prompt = t.prompt
    BY <2>8, <2>10, <2>15 DEF SameBox
  <2>18. AuthAsked(u) = {w} /\ ToolAsked(u) = {} /\ ToolAsked(t) = {}
    BY <2>1, <2>15 DEF ToolAsked, AuthAsked
  <2>19. Ledger(u, a, s)
    BY <2>6, <2>8, <2>10, <2>15, <2>18 DEF Ledger
  <2> QED
    BY <2>12, <2>16, <2>17, <2>19
<1> QED
  BY <1>1, <1>2

LEMMA OneUp ==
  ASSUME NEW S, NEW f \in [S -> Nat], NEW w \in S
  PROVE  [f EXCEPT ![w] = @ + 1] \in [S -> Nat]
OBVIOUS

\* z counts one more than f for w and for all that waited in q.
Counted(z, f, q, w, S) ==
  z \in [S -> Nat] /\ \A i \in S : z[i] = IF i = w \/ Contains(q, i) THEN f[i] + 1 ELSE f[i]

LEMMA SomeUp ==
  ASSUME NEW S, NEW f \in [S -> Nat], NEW q, NEW w, NEW z,
         z = [i \in DOMAIN f |-> IF i = w \/ Contains(q, i) THEN f[i] + 1 ELSE f[i]]
  PROVE  Counted(z, f, q, w, S)
BY DEF Counted

(* "ctrl+g" answers the dialog and all that wait behind it.                *)
LEMMA SharedEnded ==
  ASSUME NEW q, NEW w, NEW s, NEW n, NEW max \in Nat, NEW z,
         Shared(q, {w}, s, n, max), Counted(z, s, q, w, 1 .. max)
  PROVE  Shared(<<>>, {}, z, n, max)
<1>1. s \in [1 .. max -> Nat] /\ w \in 1 .. max /\ ~Contains(q, w)
  <2>1. n \in 0 .. max /\ s \in [1 .. max -> Nat]
    BY DEF Shared
  <2>2. w \in 1 .. n /\ \A j \in 1 .. Len(q) : q[j] # w
    BY DEF Shared
  <2>3. ~Contains(q, w)
    BY <2>2 DEF Contains
  <2> QED
    BY <2>1, <2>2, <2>3
<1>2. PICK y : y = [i \in 1 .. max |-> IF Contains(q, i) THEN s[i] + 1 ELSE s[i]]
  OBVIOUS
<1>3. y \in [1 .. max -> Nat] /\ \A i \in 1 .. max : y[i] = IF Contains(q, i) THEN s[i] + 1 ELSE s[i]
  BY <1>1, <1>2
<1>4. Shared(<<>>, {w}, y, n, max)
  BY <1>3, SharedDrained DEF AllCounted
<1>5. z = [y EXCEPT ![w] = @ + 1]
  BY <1>1, <1>3 DEF Counted
<1> QED
  BY <1>4, <1>5, SharedAnswered

\* What an answer in a dialog leaves: a is what was asked, s what was answered.
Replied(t, u, a, s) ==
  Poised(u) /\ Ledger(u, a, s) /\ SameBox(t, u) /\ (~t.fromCmd => u.prompt = t.prompt)

(* HandleConfirmTool and HandleConfirmMCPAuth.                             *)
LEMMA ToolAnswered ==
  ASSUME NEW t, Poised(t), t.confirm = "tool", NEW a, NEW s \in Saids, Ledger(t, a, s)
  PROVE  /\ [s EXCEPT !.tools[t.who] = @ + 1] \in Saids
         /\ Replied(t, HandleConfirmTool(Closed(t), t.fromCmd), a, [s EXCEPT !.tools[t.who] = @ + 1])
<1>1. PICK c : c = Closed(t)
  OBVIOUS
<1>2. PICK r : r = [s EXCEPT !.tools[t.who] = @ + 1]
  OBVIOUS
<1>3. t \in Terminals /\ t.fromCmd \in BOOLEAN /\ t.who \in Nat
  BY DEF Poised, Terminals
<1>4. /\ c \in Terminals /\ c.confirm = "none" /\ c.mcpInit = t.mcpInit /\ ~c.fromCmd
      /\ c.out = t.out /\ c.prompt = t.prompt
  BY <1>1, <1>3, Closing
<1>5. Shared(t.out.tools, {t.who}, s.tools, a.tools, MaxTools)
  BY DEF Ledger, ToolAsked
<1>6. t.who \in 1 .. MaxTools /\ s.tools \in [1 .. MaxTools -> Nat]
  BY <1>5, ModalsAssumption DEF Shared
<1>7. r.tools = [s.tools EXCEPT ![t.who] = @ + 1] /\ r.auths = s.auths /\ r \in Saids
  <2>1. PICK x : x = [s.tools EXCEPT ![t.who] = @ + 1]
    OBVIOUS
  <2>2. x \in [1 .. MaxTools -> Nat]
    BY <1>6, <2>1, OneUp
  <2>3. r = [s EXCEPT !.tools = x]
    BY <1>2, <2>1 DEF Saids
  <2> QED
    BY <2>1, <2>2, <2>3 DEF Saids
<1>8. Shared(t.out.tools, {}, r.tools, a.tools, MaxTools)
  BY <1>5, <1>7, SharedAnswered, ModalsAssumption
<1>9. Ledger(c, a, r)
  BY <1>4, <1>7, <1>8 DEF Ledger, ToolAsked, AuthAsked
<1>10. PICK back : back = RestoreFocusAfterConfirm(Cleared(c, t.fromCmd))
  OBVIOUS
<1>11. /\ Idle(back) /\ Glows(back) /\ back.out = c.out /\ back.mcpInit = c.mcpInit
       /\ (~t.fromCmd => back.prompt = c.prompt)
  <2>1. Idle(c)
    BY <1>4 DEF Idle
  <2> QED
    BY <1>3, <1>10, <2>1, Returning
<1>12. Ledger(back, a, r)
  BY <1>4, <1>9, <1>11, LedgerStays DEF Idle
<1>13. PICK u : u = HandleConfirmTool(Closed(t), t.fromCmd)
  OBVIOUS
<1>14. u = NextTool(back)
  BY <1>1, <1>10, <1>13 DEF HandleConfirmTool
<1>15. Poised(u) /\ Ledger(u, a, r) /\ SameBox(back, u) /\ u.prompt = back.prompt
  BY <1>11, <1>12, <1>14, ToolTurn
<1>16. Replied(t, u, a, r)
  BY <1>4, <1>11, <1>15 DEF Replied, SameBox
<1> QED
  BY <1>2, <1>7, <1>13, <1>16

\* The answers given after a key in a server's dialog.
AuthsSaid(t, s, key) ==
  IF key # "ctrl+g" THEN [s EXCEPT !.auths[t.who] = @ + 1]
  ELSE [s EXCEPT !.auths = [i \in DOMAIN @ |->
          IF i = t.who \/ Contains(t.out.auths, i) THEN @[i] + 1 ELSE @[i]]]

LEMMA AuthsSaidOnce ==
  ASSUME NEW t, t.confirm = "auth", NEW a, NEW s \in Saids, Ledger(t, a, s), NEW key
  PROVE  /\ AuthsSaid(t, s, key) \in Saids /\ AuthsSaid(t, s, key).tools = s.tools
         /\ Shared(IF key = "ctrl+g" THEN <<>> ELSE t.out.auths, {}, AuthsSaid(t, s, key).auths,
                   a.auths, MaxServers)
<1>1. Shared(t.out.auths, {t.who}, s.auths, a.auths, MaxServers)
  BY DEF Ledger, AuthAsked
<1>2. t.who \in 1 .. MaxServers /\ s.auths \in [1 .. MaxServers -> Nat]
  BY <1>1, ModalsAssumption DEF Shared
<1>3. CASE key # "ctrl+g"
  <2>1. PICK r : r = AuthsSaid(t, s, key)
    OBVIOUS
  <2>2. r = [s EXCEPT !.auths[t.who] = @ + 1]
    BY <1>3, <2>1 DEF AuthsSaid
  <2>3. r.auths = [s.auths EXCEPT ![t.who] = @ + 1] /\ r.tools = s.tools /\ r \in Saids
    <3>1. PICK x : x = [s.auths EXCEPT ![t.who] = @ + 1]
      OBVIOUS
    <3>2. x \in [1 .. MaxServers -> Nat]
      BY <1>2, <3>1, OneUp
    <3>3. r = [s EXCEPT !.auths = x]
      BY <2>2, <3>1 DEF Saids
    <3> QED
      BY <3>1, <3>2, <3>3 DEF Saids
  <2>4. Shared(t.out.auths, {}, r.auths, a.auths, MaxServers)
    BY <1>1, <2>3, SharedAnswered, ModalsAssumption
  <2> QED
    BY <1>3, <2>1, <2>3, <2>4
<1>4. CASE key = "ctrl+g"
  <2>1. PICK r : r = AuthsSaid(t, s, key)
    OBVIOUS
  <2>2. PICK f : f = s.auths
    OBVIOUS
  <2>3. PICK q : q = t.out.auths
    OBVIOUS
  <2>4. PICK w : w = t.who
    OBVIOUS
  <2>5. PICK z : z = [i \in DOMAIN f |-> IF i = w \/ Contains(q, i) THEN f[i] + 1 ELSE f[i]]
    OBVIOUS
  <2>6. r = [s EXCEPT !.auths = z]
    BY <1>4, <2>1, <2>2, <2>3, <2>4, <2>5 DEF AuthsSaid
  <2>7. Counted(z, f, q, w, 1 .. MaxServers)
    <3>1. f \in [1 .. MaxServers -> Nat]
      BY <1>2, <2>2
    <3> QED
      BY <2>5, <3>1, SomeUp
  <2>8. r.auths = z /\ r.tools = s.tools /\ r \in Saids
    BY <2>6, <2>7 DEF Saids, Counted
  <2>9. Shared(<<>>, {}, z, a.auths, MaxServers)
    <3>1. Shared(q, {w}, f, a.auths, MaxServers) /\ MaxServers \in Nat
      BY <1>1, <2>2, <2>3, <2>4, ModalsAssumption
    <3> QED
      BY <2>7, <3>1, SharedEnded
  <2> QED
    BY <1>4, <2>1, <2>8, <2>9
<1> QED
  BY <1>3, <1>4

LEMMA AuthAnswered ==
  ASSUME NEW t, Poised(t), t.confirm = "auth", NEW a, NEW s \in Saids, Ledger(t, a, s), NEW key
  PROVE  Replied(t, HandleConfirmMCPAuth(Closed(t), key, t.fromCmd), a, AuthsSaid(t, s, key))
<1>1. PICK c : c = Closed(t)
  OBVIOUS
<1>2. PICK r : r = AuthsSaid(t, s, key)
  OBVIOUS
<1>3. t \in Terminals /\ t.fromCmd \in BOOLEAN /\ t.who \in Nat
  BY DEF Poised, Terminals
<1>4. /\ c \in Terminals /\ c.confirm = "none" /\ c.mcpInit = t.mcpInit /\ ~c.fromCmd
      /\ c.out = t.out /\ c.prompt = t.prompt
  BY <1>1, <1>3, Closing
<1>5. PICK q : q = IF key = "ctrl+g" THEN <<>> ELSE t.out.auths
  OBVIOUS
<1>6. r.tools = s.tools /\ Shared(q, {}, r.auths, a.auths, MaxServers)
  BY <1>2, <1>5, AuthsSaidOnce
<1>7. PICK gone : gone = IF key = "ctrl+g" THEN [c EXCEPT !.out.auths = <<>>] ELSE c
  OBVIOUS
<1>8. /\ Idle(gone) /\ gone.mcpInit = c.mcpInit /\ gone.prompt = c.prompt
      /\ gone.out.tools = c.out.tools /\ gone.out.auths = q /\ SameBox(c, gone)
  <2>1. CASE key # "ctrl+g"
    BY <1>4, <1>5, <1>7, <2>1 DEF Idle, SameBox
  <2>2. CASE key = "ctrl+g"
    <3>e. q = <<>>
      BY <1>5, <2>2
    <3>1. c.out \in Outs /\ q \in Seq(Nat)
      <4>1. c.out \in Outs
        BY <1>4 DEF Terminals
      <4>2. q \in Seq(Nat)
        BY <1>6 DEF Shared
      <4> QED
        BY <4>1, <4>2
    <3>2. PICK p : p = [c.out EXCEPT !.auths = q]
      OBVIOUS
    <3>3. /\ p \in Outs /\ p.tools = c.out.tools /\ p.auths = q /\ p.ready = c.out.ready
          /\ p.mcpStatus = c.out.mcpStatus
      BY <3>1, <3>2, AuthsOut
    <3>4. gone = [c EXCEPT !.out = p]
      <4>1. gone = [c EXCEPT !.out.auths = q]
        BY <1>7, <2>2, <3>e
      <4> QED
        BY <1>4, <3>2, <4>1 DEF Terminals
    <3>5. /\ gone \in Terminals /\ gone.confirm = c.confirm /\ gone.mcpInit = c.mcpInit
          /\ gone.fromCmd = c.fromCmd /\ gone.out = p /\ gone.prompt = c.prompt
      BY <1>4, <3>3, <3>4, Telling
    <3> QED
      BY <1>4, <3>3, <3>5 DEF Idle, SameBox
  <2> QED
    BY <2>1, <2>2
<1>9. PICK back : back = RestoreFocusAfterConfirm(Cleared(gone, t.fromCmd))
  OBVIOUS
<1>10. /\ Idle(back) /\ Glows(back) /\ back.out = gone.out /\ back.mcpInit = gone.mcpInit
       /\ (~t.fromCmd => back.prompt = gone.prompt)
  BY <1>3, <1>8, <1>9, Returning, ZenonT(40)
<1>11. Ledger(back, a, r)
  BY <1>4, <1>6, <1>8, <1>10 DEF Ledger, ToolAsked, AuthAsked, Idle
<1>12. PICK u : u = HandleConfirmMCPAuth(Closed(t), key, t.fromCmd)
  OBVIOUS
<1>13. u = NextAuth(back)
  BY <1>1, <1>7, <1>9, <1>12 DEF HandleConfirmMCPAuth
<1>14. Poised(u) /\ Ledger(u, a, r) /\ SameBox(back, u) /\ u.prompt = back.prompt
  BY <1>10, <1>11, <1>13, AuthTurn
<1>15. Replied(t, u, a, r)
  BY <1>4, <1>8, <1>10, <1>14 DEF Replied, SameBox
<1> QED
  BY <1>2, <1>12, <1>15

\* The answers given after a key a dialog takes.
Tallied(t, s, key) ==
  IF t.confirm = "tool" THEN [s EXCEPT !.tools[t.who] = @ + 1]
  ELSE IF t.confirm = "auth" THEN AuthsSaid(t, s, key) ELSE s

(* HandleConfirmResult: every dialog, every key it takes.                  *)
LEMMA Answering ==
  ASSUME NEW t, Poised(t), IsOpen(t), NEW key, Takes(t, key), NEW a, NEW s \in Saids, Ledger(t, a, s)
  PROVE  /\ Tallied(t, s, key) \in Saids
         /\ Replied(t, HandleConfirmResult(t, key), a, Tallied(t, s, key))
<1>1. CASE t.confirm = "tool"
  <2>1. HandleConfirmResult(t, key) = HandleConfirmTool(Closed(t), t.fromCmd)
    BY <1>1 DEF HandleConfirmResult
  <2>2. Tallied(t, s, key) = [s EXCEPT !.tools[t.who] = @ + 1]
    BY <1>1 DEF Tallied
  <2> QED
    BY <1>1, <2>1, <2>2, ToolAnswered
<1>2. CASE t.confirm = "auth"
  <2>1. HandleConfirmResult(t, key) = HandleConfirmMCPAuth(Closed(t), key, t.fromCmd)
    BY <1>2 DEF HandleConfirmResult
  <2>2. Tallied(t, s, key) = AuthsSaid(t, s, key)
    BY <1>2 DEF Tallied
  <2> QED
    BY <1>2, <2>1, <2>2, AuthAnswered, AuthsSaidOnce
<1>3. CASE t.confirm \notin {"tool", "auth"}
  <2>1. Tallied(t, s, key) = s
    BY <1>3 DEF Tallied
  <2>2. PICK c : c = Closed(t)
    OBVIOUS
  <2>3. PICK u : u = HandleConfirmResult(t, key)
    OBVIOUS
  <2>4. t \in Terminals /\ t.fromCmd \in BOOLEAN /\ t.confirm \in Dialogs
    BY DEF Poised, Terminals
  <2>5. /\ c \in Terminals /\ c.confirm = "none" /\ c.mcpInit = t.mcpInit /\ ~c.fromCmd
        /\ c.out = t.out /\ c.prompt = t.prompt /\ c.quitting = t.quitting
    BY <2>2, <2>4, Closing
  <2>6. Idle(c)
    BY <2>5 DEF Idle
  <2>7. ASSUME Dismissed(c, u, t.fromCmd) PROVE Replied(t, u, a, s)
    <3>1. Ledger(u, a, s)
      BY <1>3, <2>5, <2>7, LedgerStays DEF Dismissed
    <3> QED
      BY <2>5, <2>7, <3>1 DEF Dismissed, Replied, SameBox
  <2>8. CASE t.confirm = "quit"
    <3>0. PICK yes : yes = (key = "y")
      OBVIOUS
    <3>y. yes \in BOOLEAN
      BY <3>0
    <3>1. u = HandleConfirmQuit(c, yes, t.fromCmd)
      <4>1. u = HandleConfirmQuit(c, key = "y", t.fromCmd)
        BY <2>2, <2>3, <2>8 DEF HandleConfirmResult
      <4> QED
        BY <3>0, <4>1, Zenon
    <3>2. Dismissed(c, u, t.fromCmd)
      BY <2>4, <2>6, <3>y, <3>1, QuitAnswered DEF Dismissed
    <3> QED
      BY <2>1, <2>3, <2>7, <3>2
  <2>9. CASE t.confirm = "cancel"
    <3>0. PICK yes : yes = (key = "y")
      OBVIOUS
    <3>y. yes \in BOOLEAN
      BY <3>0
    <3>1. u = HandleConfirmCancel(c, yes, t.fromCmd)
      <4>1. u = HandleConfirmCancel(c, key = "y", t.fromCmd)
        BY <2>2, <2>3, <2>9 DEF HandleConfirmResult
      <4> QED
        BY <3>0, <4>1, Zenon
    <3>2. /\ Poised(u) /\ u.confirm \in {"none", "steering"} /\ u.out = c.out /\ u.mcpInit = c.mcpInit
          /\ (~t.fromCmd => u.prompt = c.prompt)
      BY <2>4, <2>6, <3>y, <3>1, CancelAnswered
    <3>3. Ledger(u, a, s)
      BY <1>3, <2>5, <3>2, LedgerStays
    <3>4. Replied(t, u, a, s)
      BY <2>5, <3>2, <3>3 DEF Replied, SameBox
    <3> QED
      BY <2>1, <2>3, <3>4
  <2>10. CASE t.confirm = "steering"
    <3>1. u = HandleConfirmCancelSteering(c, key, t.fromCmd)
      BY <2>2, <2>3, <2>10 DEF HandleConfirmResult
    <3>2. Dismissed(c, u, t.fromCmd)
      BY <2>4, <2>6, <3>1, SteeringAnswered DEF Dismissed
    <3> QED
      BY <2>1, <2>3, <2>7, <3>2
  <2>11. CASE t.confirm \in {"waiting", "canceling"}
    <3>1. u = HandleConfirmQuitWaiting(c)
      BY <2>2, <2>3, <2>11 DEF HandleConfirmResult
    <3>2. c.quitting
      BY <2>5, <2>11 DEF Poised
    <3>3. Dismissed(c, u, t.fromCmd)
      BY <2>6, <3>1, <3>2, WaitingAnswered DEF Dismissed
    <3> QED
      BY <2>1, <2>3, <2>7, <3>3
  <2> QED
    BY <1>3, <2>4, <2>8, <2>9, <2>10, <2>11 DEF Dialogs, IsOpen
<1> QED
  BY <1>1, <1>2, <1>3

(***************************************************************************)
(* Keys no dialog takes.                                                   *)
(***************************************************************************)
WordKeys == {"enter", "ctrl+c", "ctrl+s", ":"}

\* A key that no dialog was open for.
KeyTaken(t, u, key) ==
  /\ Poised(u) /\ u.confirm \in {"none", "quit", "cancel"} /\ u.out = t.out /\ u.mcpInit = t.mcpInit
  /\ u.prompt = t.prompt \/ key \in WordKeys \/ t.prompt # "words"

LEMMA OpensOverlay ==
  ASSUME NEW t \in Terminals, NEW o \in Overlays, o # "none", ~t.fromCmd, t.confirm = "none"
  PROVE  /\ Poised(OpenOverlay(t, o)) /\ OpenOverlay(t, o).confirm = "none"
         /\ OpenOverlay(t, o).out = t.out /\ OpenOverlay(t, o).mcpInit = t.mcpInit
         /\ OpenOverlay(t, o).prompt = t.prompt
<1>1. PICK u : u = OpenOverlay(t, o)
  OBVIOUS
<1>2. /\ u \in Terminals /\ u.overlay = o /\ u.confirm = "none" /\ ~u.fromCmd /\ u.out = t.out
      /\ u.mcpInit = t.mcpInit /\ u.prompt = t.prompt
  BY <1>1 DEF OpenOverlay, Terminals
<1>3. Idle(u) /\ Glows(u)
  BY <1>2 DEF Idle, Glows, IsBlocked
<1> QED
  BY <1>1, <1>2, <1>3, IdleIsPoised

LEMMA ClosesOverlay ==
  ASSUME NEW t, Idle(t)
  PROVE  /\ Idle(CloseOverlay(t)) /\ Glows(CloseOverlay(t)) /\ CloseOverlay(t).out = t.out
         /\ CloseOverlay(t).mcpInit = t.mcpInit /\ CloseOverlay(t).prompt = t.prompt
<1>1. PICK v : v = [t EXCEPT !.overlay = "none", !.filter = TRUE]
  OBVIOUS
<1>2. /\ v \in Terminals /\ v.confirm = "none" /\ ~v.fromCmd /\ v.out = t.out
      /\ v.mcpInit = t.mcpInit /\ v.prompt = t.prompt
  BY <1>1 DEF Idle, Terminals, Overlays
<1>3. Refocused(v, RestoreFocus(v)) /\ Glows(RestoreFocus(v))
  BY <1>2, Restoring
<1>4. CloseOverlay(t) = RestoreFocus(v)
  BY <1>1 DEF CloseOverlay
<1> QED
  BY <1>2, <1>3, <1>4 DEF Idle, Refocused

LEMMA Rewording ==
  ASSUME NEW t, Poised(t), Idle(t), NEW p \in Prompts,
         NEW u, u = [t EXCEPT !.prompt = p]
  PROVE  /\ Poised(u) /\ Idle(u) /\ (Glows(t) => Glows(u)) /\ u.out = t.out
         /\ u.mcpInit = t.mcpInit /\ u.prompt = p
<1>1. /\ u \in Terminals /\ u.overlay = t.overlay /\ u.confirm = "none" /\ u.who = t.who
      /\ u.mcpInit = t.mcpInit /\ u.hasFocus = t.hasFocus /\ u.fromCmd = t.fromCmd /\ ~u.fromCmd
      /\ u.quitting = t.quitting /\ u.out = t.out /\ u.lit = t.lit /\ u.focused = t.focused
      /\ u.prompt = p
  BY DEF Idle, Terminals
<1>2. Glows(t) => Glows(u)
  BY <1>1 DEF Glows, IsBlocked, IsOpen, Idle
<1> QED
  BY <1>1, <1>2 DEF Poised, Idle

LEMMA Command ==
  ASSUME NEW t, Poised(t), Idle(t)
  PROVE  LET u == [FocusPrompt(t) EXCEPT !.prompt = "command"] IN
         /\ Poised(u) /\ Idle(u) /\ u.out = t.out /\ u.mcpInit = t.mcpInit
<1>1. PICK v : v = FocusPrompt(t)
  OBVIOUS
<1>2. t \in Terminals
  BY DEF Idle
<1>3. Refocused(t, v) /\ Glows(v)
  BY <1>1, <1>2, Focusing
<1>4. Idle(v) /\ v.out = t.out /\ v.mcpInit = t.mcpInit
  BY <1>3 DEF Idle, Refocused
<1>5. Poised(v)
  BY <1>3, <1>4, IdleIsPoised
<1>6. PICK p : p = "command"
  OBVIOUS
<1>7. p \in Prompts
  BY <1>6 DEF Prompts
<1>8. PICK u : u = [v EXCEPT !.prompt = p]
  OBVIOUS
<1>9. Poised(u) /\ Idle(u) /\ u.out = v.out /\ u.mcpInit = v.mcpInit
  BY <1>4, <1>5, <1>7, <1>8, Rewording
<1> QED
  BY <1>1, <1>4, <1>6, <1>8, <1>9

(* A dialog is open that was not.                                          *)
Confirms(t, u, kind) ==
  /\ Poised(u) /\ u.confirm = kind /\ u.out = t.out /\ u.mcpInit = t.mcpInit
  /\ u.prompt = t.prompt

LEMMA AsksConfirm ==
  ASSUME NEW t, Idle(t), NEW kind \in {"quit", "cancel"}, NEW f \in BOOLEAN,
         ~f \/ t.prompt # "words", NEW v, v = OpenConfirm(t, kind, 0), NEW u, u = [v EXCEPT !.fromCmd = f]
  PROVE  Confirms(t, u, kind)
<1>2. t \in Terminals /\ kind \in Dialogs /\ 0 \in Nat
  BY DEF Idle, Dialogs
<1>3. /\ v \in Terminals /\ v.confirm = kind /\ v.mcpInit = t.mcpInit /\ v.out = t.out
      /\ v.prompt = t.prompt
  BY <1>2, Opening
<1>5. /\ u \in Terminals /\ u.confirm = kind /\ u.mcpInit = v.mcpInit /\ u.out = v.out
      /\ u.prompt = v.prompt /\ u.fromCmd = f
  BY <1>3 DEF Terminals
<1> QED
  BY <1>3, <1>5 DEF Confirms, Poised, Glows, IsBlocked, IsOpen

LEMMA SelectorPressed ==
  ASSUME NEW t, Poised(t), Idle(t), NEW key
  PROVE  KeyTaken(t, HandleSelector(t, key), key)
<1>1. CASE key = "tab"
  <2>1. PICK u : u = [t EXCEPT !.filter = ~@]
    OBVIOUS
  <2>2. /\ u \in Terminals /\ u.overlay = t.overlay /\ u.confirm = "none" /\ u.mcpInit = t.mcpInit
        /\ u.hasFocus = t.hasFocus /\ ~u.fromCmd /\ u.quitting = t.quitting /\ u.out = t.out
        /\ u.lit = t.lit /\ u.focused = t.focused /\ u.prompt = t.prompt
    BY <2>1 DEF Idle, Terminals
  <2>3. HandleSelector(t, key) = u
    BY <1>1, <2>1 DEF HandleSelector
  <2>4. Glows(t) => Glows(u)
    BY <2>2 DEF Glows, IsBlocked, IsOpen, Idle
  <2>5. Poised(u)
    BY <2>2, <2>4 DEF Poised
  <2> QED
    BY <2>2, <2>3, <2>5 DEF KeyTaken
<1>2. CASE key = "esc" \/ (key = "enter" /\ t.overlay # "help")
  <2>1. HandleSelector(t, key) = CloseOverlay(t)
    BY <1>2 DEF HandleSelector
  <2>2. /\ Idle(CloseOverlay(t)) /\ Glows(CloseOverlay(t)) /\ CloseOverlay(t).out = t.out
        /\ CloseOverlay(t).mcpInit = t.mcpInit /\ CloseOverlay(t).prompt = t.prompt
    BY ClosesOverlay
  <2> QED
    BY <2>1, <2>2, IdleIsPoised DEF KeyTaken, Idle
<1>3. CASE key = "enter" /\ t.overlay = "help"
  <2>1. PICK v : v = [FocusPrompt(t) EXCEPT !.prompt = "command"]
    OBVIOUS
  <2>2. HandleSelector(t, key) = CloseOverlay(v)
    BY <1>3, <2>1 DEF HandleSelector
  <2>3. Idle(v) /\ v.out = t.out /\ v.mcpInit = t.mcpInit
    BY <2>1, Command
  <2>4. /\ Idle(CloseOverlay(v)) /\ Glows(CloseOverlay(v)) /\ CloseOverlay(v).out = v.out
        /\ CloseOverlay(v).mcpInit = v.mcpInit
    BY <2>3, ClosesOverlay
  <2> QED
    BY <1>3, <2>2, <2>3, <2>4, IdleIsPoised DEF KeyTaken, Idle, WordKeys
<1>4. CASE key \notin {"tab", "esc", "enter"}
  <2>1. HandleSelector(t, key) = t
    BY <1>4 DEF HandleSelector
  <2> QED
    BY <2>1 DEF KeyTaken, Idle
<1> QED
  BY <1>1, <1>2, <1>3, <1>4

LEMMA SubmitPressed ==
  ASSUME NEW t, Poised(t), Idle(t), NEW key, key = "enter"
  PROVE  KeyTaken(t, HandleSubmit(t), key)
<1>w. key \in WordKeys
  BY DEF WordKeys
<1>1. CASE t.prompt \in {":quit", ":cancel"}
  <2>1. PICK kind : kind = IF t.prompt = ":quit" THEN "quit" ELSE "cancel"
    OBVIOUS
  <2>2. PICK f : f = TRUE
    OBVIOUS
  <2>v. PICK v : v = OpenConfirm(t, kind, 0)
    OBVIOUS
  <2>3. HandleSubmit(t) = [v EXCEPT !.fromCmd = f]
    BY <1>1, <2>1, <2>2, <2>v DEF HandleSubmit
  <2>4. f \in BOOLEAN /\ kind \in {"quit", "cancel"} /\ t.prompt # "words"
    BY <1>1, <2>1, <2>2
  <2>5. PICK u : u = HandleSubmit(t)
    OBVIOUS
  <2>a. u = [v EXCEPT !.fromCmd = f]
    BY <2>3, <2>5
  <2>6. Confirms(t, u, kind)
    BY <2>v, <2>4, <2>a, AsksConfirm
  <2> QED
    BY <1>w, <2>4, <2>5, <2>6 DEF KeyTaken, Confirms
<1>2. ASSUME NEW v, v = [t EXCEPT !.prompt = ""]
      PROVE  Poised(v) /\ Idle(v) /\ v.out = t.out /\ v.mcpInit = t.mcpInit
  <2>1. PICK p : p = ""
    OBVIOUS
  <2>2. p \in Prompts /\ v = [t EXCEPT !.prompt = p]
    BY <1>2, <2>1 DEF Prompts
  <2> QED
    BY <2>2, Rewording
<1>3. CASE t.prompt = ":help"
  <2>1. PICK v : v = [t EXCEPT !.prompt = ""]
    OBVIOUS
  <2>2. HandleSubmit(t) = OpenOverlay(v, "help")
    BY <1>3, <2>1 DEF HandleSubmit
  <2>3. Idle(v) /\ v.out = t.out /\ v.mcpInit = t.mcpInit /\ "help" \in Overlays
    BY <1>2, <2>1 DEF Overlays
  <2>4. /\ Poised(OpenOverlay(v, "help")) /\ OpenOverlay(v, "help").confirm = "none"
        /\ OpenOverlay(v, "help").out = v.out /\ OpenOverlay(v, "help").mcpInit = v.mcpInit
    BY <2>3, OpensOverlay DEF Idle
  <2> QED
    BY <1>w, <2>2, <2>3, <2>4 DEF KeyTaken
<1>4. CASE t.prompt \notin {":quit", ":cancel", ":help"}
  <2>1. PICK v : v = [t EXCEPT !.prompt = ""]
    OBVIOUS
  <2>2. HandleSubmit(t) = v
    BY <1>4, <2>1 DEF HandleSubmit
  <2> QED
    BY <1>w, <1>2, <2>1, <2>2 DEF KeyTaken, Idle
<1> QED
  BY <1>1, <1>3, <1>4

LEMMA OverlayPressed ==
  ASSUME NEW t, Idle(t), NEW o \in {"model", "theme", "help", "attach"}, NEW key
  PROVE  KeyTaken(t, OpenOverlay(t, o), key)
<1>1. t \in Terminals /\ o \in Overlays /\ o # "none" /\ ~t.fromCmd /\ t.confirm = "none"
  BY DEF Idle, Overlays
<1>2. /\ Poised(OpenOverlay(t, o)) /\ OpenOverlay(t, o).confirm = "none"
      /\ OpenOverlay(t, o).out = t.out /\ OpenOverlay(t, o).mcpInit = t.mcpInit
      /\ OpenOverlay(t, o).prompt = t.prompt
  BY <1>1, OpensOverlay
<1> QED
  BY <1>2 DEF KeyTaken

LEMMA UnmovedPressed ==
  ASSUME NEW t, Poised(t), Idle(t), NEW key PROVE KeyTaken(t, t, key)
BY DEF KeyTaken, Idle

LEMMA PromptPressed ==
  ASSUME NEW t, Poised(t), Idle(t), NEW key
  PROVE  KeyTaken(t, HandlePromptKey(t, key), key)
<1>1. CASE key = "enter"
  BY <1>1, SubmitPressed DEF HandlePromptKey
<1>2. CASE key = "ctrl+a"
  <2>1. HandlePromptKey(t, key) = OpenOverlay(t, "attach")
    BY <1>2 DEF HandlePromptKey
  <2> QED
    BY <2>1, OverlayPressed
<1>3. CASE key = "ctrl+c"
  <2>1. PICK p : p = ""
    OBVIOUS
  <2>2. PICK u : u = [t EXCEPT !.prompt = p]
    OBVIOUS
  <2>3. p \in Prompts
    BY <2>1 DEF Prompts
  <2>4. Poised(u) /\ Idle(u) /\ u.out = t.out /\ u.mcpInit = t.mcpInit
    BY <2>2, <2>3, Rewording
  <2>5. HandlePromptKey(t, key) = u
    BY <1>3, <2>1, <2>2 DEF HandlePromptKey
  <2> QED
    BY <1>3, <2>4, <2>5 DEF KeyTaken, Idle, WordKeys
<1>4. CASE key \notin {"enter", "ctrl+a", "ctrl+c"}
  BY <1>4, UnmovedPressed DEF HandlePromptKey
<1> QED
  BY <1>1, <1>2, <1>3, <1>4

LEMMA CommandPressed ==
  ASSUME NEW t, Poised(t), Idle(t), NEW key \in WordKeys
  PROVE  KeyTaken(t, [FocusPrompt(t) EXCEPT !.prompt = "command"], key)
<1>1. PICK u : u = [FocusPrompt(t) EXCEPT !.prompt = "command"]
  OBVIOUS
<1>2. Poised(u) /\ Idle(u) /\ u.out = t.out /\ u.mcpInit = t.mcpInit
  BY <1>1, Command
<1>3. KeyTaken(t, u, key)
  BY <1>2 DEF KeyTaken, Idle
<1> QED
  BY <1>1, <1>3

LEMMA DisplayPressed ==
  ASSUME NEW t, Poised(t), Idle(t), NEW key
  PROVE  KeyTaken(t, HandleDisplayKey(t, key), key)
<1>1. CASE key = ":"
  <2>1. HandleDisplayKey(t, key) = [FocusPrompt(t) EXCEPT !.prompt = "command"]
    BY <1>1 DEF HandleDisplayKey
  <2>2. key \in WordKeys
    BY <1>1 DEF WordKeys
  <2> QED
    BY <2>1, <2>2, CommandPressed
<1>2. CASE key # ":"
  BY <1>2, UnmovedPressed DEF HandleDisplayKey
<1> QED
  BY <1>1, <1>2

LEMMA TogglePressed ==
  ASSUME NEW t, Idle(t), NEW key
  PROVE  KeyTaken(t, ToggleFocus(t), key)
<1>1. t \in Terminals
  BY DEF Idle
<1>2. ASSUME NEW u, Refocused(t, u), Glows(u) PROVE KeyTaken(t, u, key)
  <2>1. Idle(u) /\ u.out = t.out /\ u.mcpInit = t.mcpInit /\ u.prompt = t.prompt
    BY <1>2 DEF Idle, Refocused
  <2> QED
    BY <1>2, <2>1, IdleIsPoised DEF KeyTaken, Idle
<1>3. CASE t.focused = "display"
  <2>1. ToggleFocus(t) = FocusPrompt(t)
    BY <1>3 DEF ToggleFocus
  <2> QED
    BY <1>1, <1>2, <2>1, Focusing
<1>4. CASE t.focused # "display"
  <2>1. ToggleFocus(t) = FocusDisplay(t)
    BY <1>4 DEF ToggleFocus
  <2> QED
    BY <1>1, <1>2, <2>1, Focusing
<1> QED
  BY <1>3, <1>4

LEMMA GlobalPressed ==
  ASSUME NEW t, Poised(t), Idle(t), NEW key \in GlobalKeys
  PROVE  KeyTaken(t, HandleGlobalKey(t, key), key)
<1>1. CASE key = "tab"
  BY <1>1, TogglePressed DEF HandleGlobalKey
<1>2. CASE key = "ctrl+g"
  <2>1. PICK kind : kind = "cancel"
    OBVIOUS
  <2>2. PICK f : f = FALSE
    OBVIOUS
  <2>3. PICK v : v = OpenConfirm(t, kind, 0)
    OBVIOUS
  <2>4. PICK u : u = [v EXCEPT !.fromCmd = f]
    OBVIOUS
  <2>5. HandleGlobalKey(t, key) = u
    BY <1>2, <2>1, <2>2, <2>3, <2>4 DEF HandleGlobalKey
  <2>6. f \in BOOLEAN /\ kind \in {"quit", "cancel"} /\ ~f
    BY <2>1, <2>2
  <2>7. Confirms(t, u, kind)
    BY <2>3, <2>4, <2>6, AsksConfirm
  <2> QED
    BY <2>5, <2>6, <2>7 DEF KeyTaken, Confirms
<1>3. CASE key = "ctrl+l"
  <2>1. HandleGlobalKey(t, key) = OpenOverlay(t, "model")
    BY <1>3 DEF HandleGlobalKey
  <2> QED
    BY <2>1, OverlayPressed
<1>4. CASE key = "ctrl+p"
  <2>1. HandleGlobalKey(t, key) = OpenOverlay(t, "theme")
    BY <1>4 DEF HandleGlobalKey
  <2> QED
    BY <2>1, OverlayPressed
<1>5. CASE key = "ctrl+h"
  <2>1. HandleGlobalKey(t, key) = OpenOverlay(t, "help")
    BY <1>5 DEF HandleGlobalKey
  <2> QED
    BY <2>1, OverlayPressed
<1>6. CASE key = "ctrl+s"
  <2>1. HandleGlobalKey(t, key) = [FocusPrompt(t) EXCEPT !.prompt = "command"]
    BY <1>6 DEF HandleGlobalKey
  <2>2. key \in WordKeys
    BY <1>6 DEF WordKeys
  <2> QED
    BY <2>1, <2>2, CommandPressed
<1> QED
  BY <1>1, <1>2, <1>3, <1>4, <1>5, <1>6 DEF GlobalKeys

(* A key: the dialog on top takes it and is answered, the box lets it pass,*)
(* or it goes to the selector or to the pane that has the keys.            *)
LEMMA KeyHandled ==
  ASSUME NEW t, Poised(t), NEW key,
         ~(KeyboardTarget(t) = "modal" /\ IsOpen(t) /\ Takes(t, key))
  PROVE  \/ HandleKeyMsg(t, key) = t
         \/ t.confirm = "none" /\ KeyTaken(t, HandleKeyMsg(t, key), key)
<1>1. CASE KeyboardTarget(t) = "nothing"
  BY <1>1 DEF HandleKeyMsg
<1>2. CASE KeyboardTarget(t) = "modal"
  <2>1. HandleKeyMsg(t, key) = HandleModal(t, key)
    BY <1>2 DEF HandleKeyMsg
  <2> QED
    BY <1>2, <2>1 DEF HandleModal
<1>3. CASE KeyboardTarget(t) \notin {"nothing", "modal"}
  <2>1. ~t.loading /\ ~IsOpen(t) /\ ~t.mcpInit
    BY <1>3 DEF KeyboardTarget
  <2>2. Idle(t)
    BY <2>1 DEF Poised, Idle, IsOpen
  <2>3. CASE KeyboardTarget(t) \in {"overlay-filter", "overlay-list"}
    <3>1. HandleKeyMsg(t, key) = HandleSelector(t, key)
      BY <2>3 DEF HandleKeyMsg
    <3> QED
      BY <2>2, <3>1, SelectorPressed DEF Idle
  <2>4. CASE KeyboardTarget(t) \in {"input", "display"} /\ key \in GlobalKeys
    <3>1. HandleKeyMsg(t, key) = HandleGlobalKey(t, key)
      BY <2>4 DEF HandleKeyMsg
    <3> QED
      BY <2>2, <2>4, <3>1, GlobalPressed DEF Idle
  <2>5. CASE KeyboardTarget(t) = "input" /\ key \notin GlobalKeys
    <3>1. HandleKeyMsg(t, key) = HandlePromptKey(t, key)
      BY <2>5 DEF HandleKeyMsg
    <3> QED
      BY <2>2, <3>1, PromptPressed DEF Idle
  <2>6. CASE KeyboardTarget(t) = "display" /\ key \notin GlobalKeys
    <3>1. HandleKeyMsg(t, key) = HandleDisplayKey(t, key)
      BY <2>6 DEF HandleKeyMsg
    <3> QED
      BY <2>2, <3>1, DisplayPressed DEF Idle
  <2>7. KeyboardTarget(t) \in {"overlay-filter", "overlay-list", "input", "display"}
    <3>1. t.focused \in {"input", "display"}
      BY DEF Poised, Terminals
    <3> QED
      BY <2>1, <3>1 DEF KeyboardTarget
  <2> QED
    BY <2>3, <2>4, <2>5, <2>6, <2>7
<1> QED
  BY <1>1, <1>2, <1>3

(***************************************************************************)
(* Ticks.                                                                  *)
(***************************************************************************)
Lives == {"initializing", "settled", "ready", "quitting", "closed"}

\* The box is open only while something is to come that closes it; and once
\* MCP has settled, nothing opens it again.
Boxed(t, l) ==
  /\ t.mcpInit => t.out.ready \/ l \in {"initializing", "settled", "quitting", "closed"}
  /\ l \in {"settled", "ready"} => t.out.mcpStatus # "connecting"

LEMMA BoxStays ==
  ASSUME NEW t, NEW u, NEW l, Boxed(t, l), SameBox(t, u) PROVE Boxed(u, l)
BY DEF Boxed, SameBox

LEMMA WaitingShown ==
  ASSUME NEW t, Poised(t), NEW u, u = HandleQuitWaitingOverlay(t)
  PROVE  /\ Poised(u) /\ u.out = t.out /\ u.mcpInit = t.mcpInit /\ u.prompt = t.prompt
         /\ \/ u.confirm = t.confirm /\ u.who = t.who
            \/ t.confirm \notin {"tool", "auth"} /\ u.confirm \notin {"tool", "auth"}
<1>1. CASE ~t.quitting \/ ~t.out.inProgress \/ IsOpen(t)
  BY <1>1 DEF HandleQuitWaitingOverlay
<1>2. CASE ~(~t.quitting \/ ~t.out.inProgress \/ IsOpen(t))
  <2>1. PICK kind : kind = IF t.quitCancelSent THEN "canceling" ELSE "waiting"
    OBVIOUS
  <2>2. u = [t EXCEPT !.confirm = kind]
    BY <1>2, <2>1 DEF HandleQuitWaitingOverlay
  <2>3. t \in Terminals /\ t.quitting /\ t.confirm = "none" /\ ~t.fromCmd
    BY <1>2 DEF Poised, IsOpen
  <2>4. kind \in {"canceling", "waiting"} /\ kind \in Dialogs
    BY <2>1 DEF Dialogs
  <2>5. /\ u \in Terminals /\ u.confirm = kind /\ u.mcpInit = t.mcpInit /\ u.quitting = t.quitting
        /\ u.fromCmd = t.fromCmd /\ u.out = t.out /\ u.prompt = t.prompt
    BY <2>2, <2>3, <2>4 DEF Terminals
  <2>6. Poised(u)
    BY <2>3, <2>5 DEF Poised
  <2> QED
    BY <2>3, <2>4, <2>5, <2>6
<1> QED
  BY <1>1, <1>2

\* The answers after what was queued may have been dropped.
Settled(t, s, z) ==
  /\ z \in Saids /\ z.tools = s.tools
  /\ t.out.ready => AllCounted(z.auths, s.auths, t.out.auths, 1 .. MaxServers)
  /\ ~t.out.ready => z = s

Progressed(t, u, a, z, l) ==
  Poised(u) /\ Ledger(u, a, z) /\ Boxed(u, l) /\ u.prompt = t.prompt

(* HandleMCPProgress, branch by branch, and all of it (Progressing).       *)
LEMMA ReadySeen ==
  ASSUME NEW t, Poised(t), NEW a, NEW s \in Saids, NEW z, NEW l \in Lives,
         Ledger(t, a, s), Boxed(t, l), Settled(t, s, z), t.out.ready
  PROVE  Progressed(t, HandleMCPProgress(t), a, z, l)
<1>1. PICK u : u = HandleMCPProgress(t)
  OBVIOUS
<1>2. PICK p : p = [t.out EXCEPT !.ready = FALSE, !.auths = <<>>]
  OBVIOUS
<1>3. PICK seen : seen = [t EXCEPT !.out = p]
  OBVIOUS
<1>4. t \in Terminals /\ t.out \in Outs
  BY DEF Poised, Terminals
<1>5. /\ p \in Outs /\ p.tools = t.out.tools /\ p.auths = <<>> /\ ~p.ready
      /\ p.mcpStatus = t.out.mcpStatus
  <2>1. PICK e : e = <<>>
    OBVIOUS
  <2>2. e \in Seq(Nat)
    BY <2>1
  <2>3. p = [t.out EXCEPT !.ready = FALSE, !.auths = e]
    BY <1>2, <2>1
  <2>4. /\ p \in Outs /\ p.tools = t.out.tools /\ p.auths = e /\ ~p.ready
        /\ p.mcpStatus = t.out.mcpStatus
    BY <1>4, <2>2, <2>3 DEF Outs
  <2> QED
    BY <2>1, <2>4
<1>6. /\ seen \in Terminals
      /\ seen.overlay = t.overlay /\ seen.confirm = t.confirm /\ seen.who = t.who
      /\ seen.mcpInit = t.mcpInit /\ seen.hasFocus = t.hasFocus /\ seen.fromCmd = t.fromCmd
      /\ seen.quitting = t.quitting /\ seen.out = p /\ seen.lit = t.lit /\ seen.focused = t.focused
      /\ seen.prompt = t.prompt
  BY <1>3, <1>4, <1>5, Telling
<1>7. [t EXCEPT !.out.ready = FALSE, !.out.auths = <<>>] = seen
  BY <1>2, <1>3, <1>4 DEF Terminals, Outs
<1>8. u = IF t.mcpInit THEN RestoreFocusAfterConfirm([seen EXCEPT !.mcpInit = FALSE]) ELSE seen
  BY <1>1, <1>7 DEF HandleMCPProgress
<1>9. Shared(<<>>, AuthAsked(t), z.auths, a.auths, MaxServers)
  BY SharedDrained, ModalsAssumption DEF Ledger, Settled
<1>10. ASSUME NEW v, v.out = p, v.confirm = t.confirm, v.who = t.who PROVE Ledger(v, a, z)
  <2>1. ToolAsked(v) = ToolAsked(t) /\ AuthAsked(v) = AuthAsked(t)
    BY <1>10 DEF ToolAsked, AuthAsked
  <2>2. Shared(t.out.tools, ToolAsked(t), z.tools, a.tools, MaxTools)
    BY DEF Ledger, Settled
  <2> QED
    BY <1>5, <1>9, <1>10, <2>1, <2>2 DEF Ledger
<1>11. CASE ~t.mcpInit
  <2>1. u = seen
    BY <1>8, <1>11
  <2>2. Glows(t) => Glows(seen)
    BY <1>6 DEF Glows, IsBlocked, IsOpen
  <2>3. Poised(u)
    BY <1>6, <2>1, <2>2 DEF Poised, IsOpen
  <2>4. Boxed(u, l)
    BY <1>5, <1>6, <1>11, <2>1 DEF Boxed
  <2> QED
    BY <1>1, <1>6, <1>10, <2>1, <2>3, <2>4 DEF Progressed
<1>12. CASE t.mcpInit
  <2>1. PICK v : v = [seen EXCEPT !.mcpInit = FALSE]
    OBVIOUS
  <2>2. /\ v \in Terminals /\ v.confirm = t.confirm /\ v.who = t.who /\ ~v.mcpInit
        /\ v.fromCmd = t.fromCmd /\ v.quitting = t.quitting /\ v.out = p /\ v.prompt = t.prompt
    BY <1>6, <2>1 DEF Terminals
  <2>3. u = RestoreFocusAfterConfirm(v)
    BY <1>8, <1>12, <2>1
  <2>4. Refocused(v, u) /\ Glows(u)
    BY <2>2, <2>3, AfterConfirm
  <2>5. Poised(u)
    BY <2>2, <2>4 DEF Poised, IsOpen, Refocused
  <2>6. Boxed(u, l)
    BY <1>5, <2>2, <2>4 DEF Boxed, Refocused
  <2>7. Ledger(u, a, z)
    BY <1>10, <2>2, <2>4 DEF Refocused
  <2> QED
    BY <1>1, <2>2, <2>4, <2>5, <2>6, <2>7 DEF Progressed, Refocused
<1> QED
  BY <1>11, <1>12

LEMMA ToolShown ==
  ASSUME NEW t, Poised(t), NEW a, NEW s, NEW l, Ledger(t, a, s), Boxed(t, l),
         ~t.out.ready, ~IsOpen(t), t.out.tools # <<>>
  PROVE  Progressed(t, HandleMCPProgress(t), a, s, l)
<1>1. PICK u : u = HandleMCPProgress(t)
  OBVIOUS
<1>2. t \in Terminals /\ t.out \in Outs /\ t.confirm = "none" /\ ~t.fromCmd
  BY DEF Poised, Terminals, IsOpen
<1>3. Shared(t.out.tools, {}, s.tools, a.tools, MaxTools) /\ AuthAsked(t) = {}
  BY <1>2 DEF Ledger, ToolAsked, AuthAsked
<1>4. PICK q : q = Tail(t.out.tools)
  OBVIOUS
<1>5. PICK w : w = Head(t.out.tools)
  OBVIOUS
<1>6. w \in Nat /\ q \in Seq(Nat) /\ Shared(q, {w}, s.tools, a.tools, MaxTools)
  BY <1>3, <1>4, <1>5, SharedOpens, ModalsAssumption
<1>7. PICK p : p = [t.out EXCEPT !.tools = q]
  OBVIOUS
<1>8. /\ p \in Outs /\ p.tools = q /\ p.auths = t.out.auths /\ p.ready = t.out.ready
      /\ p.mcpStatus = t.out.mcpStatus
  BY <1>2, <1>6, <1>7, ToolsOut
<1>9. PICK v : v = [t EXCEPT !.out = p]
  OBVIOUS
<1>10. /\ v \in Terminals /\ v.mcpInit = t.mcpInit /\ v.fromCmd = t.fromCmd /\ v.out = p
       /\ v.prompt = t.prompt
  BY <1>2, <1>8, <1>9, Telling
<1>11. PICK kind : kind = "tool"
  OBVIOUS
<1>12. u = [v EXCEPT !.confirm = kind, !.who = w]
  <2>1. u = [t EXCEPT !.out.tools = Tail(@), !.confirm = "tool", !.who = Head(t.out.tools)]
    BY <1>1, <1>2 DEF HandleMCPProgress, IsOpen
  <2> QED
    BY <1>2, <1>4, <1>5, <1>7, <1>9, <1>11, <2>1 DEF Terminals, Outs
<1>13. /\ u \in Terminals /\ u.confirm = kind /\ u.who = w /\ u.mcpInit = v.mcpInit
       /\ u.fromCmd = v.fromCmd /\ u.out = v.out /\ u.prompt = v.prompt
  <2>1. kind \in Dialogs
    BY <1>11 DEF Dialogs
  <2> QED
    BY <1>6, <1>10, <1>12, <2>1 DEF Terminals
<1>14. Poised(u)
  BY <1>2, <1>10, <1>11, <1>13 DEF Poised, Glows, IsBlocked, IsOpen
<1>15. ToolAsked(u) = {w} /\ AuthAsked(u) = {}
  BY <1>11, <1>13 DEF ToolAsked, AuthAsked
<1>16. Ledger(u, a, s)
  BY <1>3, <1>6, <1>8, <1>10, <1>13, <1>15 DEF Ledger
<1>17. Boxed(u, l)
  <2>1. SameBox(t, u)
    BY <1>8, <1>10, <1>13 DEF SameBox
  <2> QED
    BY <2>1, BoxStays
<1> QED
  BY <1>1, <1>10, <1>13, <1>14, <1>16, <1>17 DEF Progressed

LEMMA AuthShown ==
  ASSUME NEW t, Poised(t), NEW a, NEW s, NEW l, Ledger(t, a, s), Boxed(t, l),
         ~t.out.ready, ~IsOpen(t), t.out.tools = <<>>, t.out.auths # <<>>
  PROVE  Progressed(t, HandleMCPProgress(t), a, s, l)
<1>1. PICK u : u = HandleMCPProgress(t)
  OBVIOUS
<1>2. t \in Terminals /\ t.out \in Outs /\ t.confirm = "none" /\ ~t.fromCmd
  BY DEF Poised, Terminals, IsOpen
<1>3. Shared(t.out.auths, {}, s.auths, a.auths, MaxServers) /\ ToolAsked(t) = {}
  BY <1>2 DEF Ledger, ToolAsked, AuthAsked
<1>4. PICK q : q = Tail(t.out.auths)
  OBVIOUS
<1>5. PICK w : w = Head(t.out.auths)
  OBVIOUS
<1>6. w \in Nat /\ q \in Seq(Nat) /\ Shared(q, {w}, s.auths, a.auths, MaxServers)
  BY <1>3, <1>4, <1>5, SharedOpens, ModalsAssumption
<1>7. PICK p : p = [t.out EXCEPT !.auths = q]
  OBVIOUS
<1>8. /\ p \in Outs /\ p.tools = t.out.tools /\ p.auths = q /\ p.ready = t.out.ready
      /\ p.mcpStatus = t.out.mcpStatus
  BY <1>2, <1>6, <1>7, AuthsOut
<1>9. PICK v : v = [t EXCEPT !.out = p]
  OBVIOUS
<1>10. /\ v \in Terminals /\ v.mcpInit = t.mcpInit /\ v.fromCmd = t.fromCmd /\ v.out = p
       /\ v.prompt = t.prompt
  BY <1>2, <1>8, <1>9, Telling
<1>11. PICK kind : kind = "auth"
  OBVIOUS
<1>12. u = [v EXCEPT !.confirm = kind, !.who = w]
  <2>1. u = [t EXCEPT !.out.auths = Tail(@), !.confirm = "auth", !.who = Head(t.out.auths)]
    BY <1>1, <1>2 DEF HandleMCPProgress, IsOpen
  <2> QED
    BY <1>2, <1>4, <1>5, <1>7, <1>9, <1>11, <2>1 DEF Terminals, Outs
<1>13. /\ u \in Terminals /\ u.confirm = kind /\ u.who = w /\ u.mcpInit = v.mcpInit
       /\ u.fromCmd = v.fromCmd /\ u.out = v.out /\ u.prompt = v.prompt
  <2>1. kind \in Dialogs
    BY <1>11 DEF Dialogs
  <2> QED
    BY <1>6, <1>10, <1>12, <2>1 DEF Terminals
<1>14. Poised(u)
  BY <1>2, <1>10, <1>11, <1>13 DEF Poised, Glows, IsBlocked, IsOpen
<1>15. AuthAsked(u) = {w} /\ ToolAsked(u) = {}
  BY <1>11, <1>13 DEF ToolAsked, AuthAsked
<1>16. Ledger(u, a, s)
  BY <1>3, <1>6, <1>8, <1>10, <1>13, <1>15 DEF Ledger
<1>17. Boxed(u, l)
  <2>1. SameBox(t, u)
    BY <1>8, <1>10, <1>13 DEF SameBox
  <2> QED
    BY <2>1, BoxStays
<1> QED
  BY <1>1, <1>10, <1>13, <1>14, <1>16, <1>17 DEF Progressed

LEMMA BoxShown ==
  ASSUME NEW t, Poised(t), NEW a, NEW s, NEW l \in Lives, Ledger(t, a, s), Boxed(t, l),
         ~t.out.ready, IsOpen(t) \/ (t.out.tools = <<>> /\ t.out.auths = <<>>)
  PROVE  Progressed(t, HandleMCPProgress(t), a, s, l)
<1>1. PICK u : u = HandleMCPProgress(t)
  OBVIOUS
<1>2. t \in Terminals /\ t.mcpInit \in BOOLEAN
  BY DEF Poised, Terminals
<1>3. PICK b : b = (t.mcpInit \/ t.out.mcpStatus = "connecting")
  OBVIOUS
<1>4. b \in BOOLEAN /\ (b <=> t.mcpInit \/ t.out.mcpStatus = "connecting")
  BY <1>3
<1>5. u = [t EXCEPT !.mcpInit = b]
  <2>1. u = [t EXCEPT !.mcpInit = @ \/ t.out.mcpStatus = "connecting"]
    BY <1>1 DEF HandleMCPProgress
  <2> QED
    BY <1>3, <2>1, Zenon
<1>6. /\ u \in Terminals /\ u.overlay = t.overlay /\ u.confirm = t.confirm /\ u.who = t.who
      /\ u.mcpInit = b /\ u.hasFocus = t.hasFocus /\ u.fromCmd = t.fromCmd
      /\ u.quitting = t.quitting /\ u.out = t.out /\ u.lit = t.lit /\ u.focused = t.focused
      /\ u.prompt = t.prompt
  BY <1>2, <1>4, <1>5 DEF Terminals
<1>7. Glows(t) => Glows(u)
  BY <1>4, <1>6 DEF Glows, IsBlocked, IsOpen
<1>8. Poised(u)
  BY <1>6, <1>7 DEF Poised, IsOpen
<1>9. Boxed(u, l)
  BY <1>4, <1>6 DEF Boxed, Lives
<1>10. Ledger(u, a, s)
  BY <1>6, LedgerStays
<1> QED
  BY <1>1, <1>6, <1>8, <1>9, <1>10 DEF Progressed

LEMMA Progressing ==
  ASSUME NEW t, Poised(t), NEW a, NEW s \in Saids, NEW z, NEW l \in Lives,
         Ledger(t, a, s), Boxed(t, l), Settled(t, s, z)
  PROVE  Progressed(t, HandleMCPProgress(t), a, z, l)
<1>1. CASE t.out.ready
  BY <1>1, ReadySeen
<1>2. CASE ~t.out.ready
  <2>1. z = s
    BY <1>2 DEF Settled
  <2>2. CASE ~IsOpen(t) /\ t.out.tools # <<>>
    BY <1>2, <2>1, <2>2, ToolShown
  <2>3. CASE ~IsOpen(t) /\ t.out.tools = <<>> /\ t.out.auths # <<>>
    BY <1>2, <2>1, <2>3, AuthShown
  <2>4. CASE IsOpen(t) \/ (t.out.tools = <<>> /\ t.out.auths = <<>>)
    BY <1>2, <2>1, <2>4, BoxShown
  <2> QED
    BY <2>2, <2>3, <2>4
<1> QED
  BY <1>1, <1>2

LEMMA LoadedOver ==
  ASSUME NEW t, Poised(t), NEW a, NEW z, NEW l, Ledger(t, a, z), Boxed(t, l)
  PROVE  Progressed(t, HandlePostLoading(t), a, z, l)
<1>1. PICK v : v = [t EXCEPT !.postLoading = FALSE]
  OBVIOUS
<1>2. /\ v \in Terminals /\ v.overlay = t.overlay /\ v.confirm = t.confirm /\ v.who = t.who
      /\ v.mcpInit = t.mcpInit /\ v.hasFocus = t.hasFocus /\ v.fromCmd = t.fromCmd
      /\ v.quitting = t.quitting /\ v.out = t.out /\ v.lit = t.lit /\ v.focused = t.focused
      /\ v.prompt = t.prompt
  BY <1>1 DEF Poised, Terminals
<1>3. Glows(t) => Glows(v)
  BY <1>2 DEF Glows, IsBlocked, IsOpen
<1>4. ASSUME NEW u, u = v \/ u = RestoreFocus(v) PROVE Progressed(t, u, a, z, l)
  <2>1. /\ u \in Terminals /\ u.confirm = t.confirm /\ u.who = t.who /\ u.mcpInit = t.mcpInit
        /\ u.hasFocus = t.hasFocus /\ u.fromCmd = t.fromCmd /\ u.quitting = t.quitting
        /\ u.out = t.out /\ u.prompt = t.prompt /\ (Glows(t) => Glows(u))
    <3>1. CASE u = v
      BY <1>2, <1>3, <3>1
    <3>2. CASE u = RestoreFocus(v)
      <4>1. Refocused(v, u) /\ Glows(u)
        BY <1>2, <3>2, Restoring
      <4> QED
        BY <1>2, <4>1 DEF Refocused
    <3> QED
      BY <1>4, <3>1, <3>2
  <2>2. Poised(u)
    BY <2>1 DEF Poised, IsOpen
  <2>3. Ledger(u, a, z)
    BY <2>1, LedgerStays
  <2>4. Boxed(u, l)
    BY <2>1 DEF Boxed
  <2> QED
    BY <2>1, <2>2, <2>3, <2>4 DEF Progressed
<1>5. HandlePostLoading(t) = v \/ HandlePostLoading(t) = RestoreFocus(v)
  BY <1>1 DEF HandlePostLoading
<1> QED
  BY <1>4, <1>5

LEMMA Ticked ==
  ASSUME NEW t, Poised(t), NEW a, NEW s \in Saids, NEW z, NEW l \in Lives,
         Ledger(t, a, s), Boxed(t, l),
         IF ~t.loading /\ ~t.out.closed THEN Settled(t, s, z) ELSE z = s
  PROVE  Progressed(t, TickWork(t), a, z, l)
<1>1. CASE t.loading
  BY <1>1 DEF TickWork, Progressed
<1>2. CASE ~t.loading /\ t.out.closed
  <2>1. t \in Terminals /\ t.out \in Outs
    BY DEF Poised, Terminals
  <2>2. PICK p : p = [t.out EXCEPT !.closed = FALSE]
    OBVIOUS
  <2>3. PICK u : u = [t EXCEPT !.out = p, !.gone = TRUE]
    OBVIOUS
  <2>4. TickWork(t) = u
    <3>1. TickWork(t) = [t EXCEPT !.out.closed = FALSE, !.gone = TRUE]
      BY <1>2 DEF TickWork, HandleSessionClosed
    <3> QED
      BY <2>1, <2>2, <2>3, <3>1 DEF Terminals, Outs
  <2>5. /\ p \in Outs /\ p.tools = t.out.tools /\ p.auths = t.out.auths /\ p.ready = t.out.ready
        /\ p.mcpStatus = t.out.mcpStatus
    BY <2>1, <2>2 DEF Outs
  <2>6. /\ u \in Terminals /\ u.overlay = t.overlay /\ u.confirm = t.confirm /\ u.who = t.who
        /\ u.mcpInit = t.mcpInit /\ u.hasFocus = t.hasFocus /\ u.fromCmd = t.fromCmd
        /\ u.quitting = t.quitting /\ u.out = p /\ u.lit = t.lit /\ u.focused = t.focused
        /\ u.prompt = t.prompt
    BY <2>1, <2>3, <2>5 DEF Terminals
  <2>7. Poised(u)
    BY <2>6 DEF Poised, IsOpen, Glows, IsBlocked
  <2>8. Ledger(u, a, z)
    BY <1>2, <2>5, <2>6, LedgerStays
  <2>9. Boxed(u, l)
    BY <2>5, <2>6 DEF Boxed
  <2> QED
    BY <2>4, <2>6, <2>7, <2>8, <2>9 DEF Progressed
<1>3. CASE ~t.loading /\ ~t.out.closed
  <2>1. PICK v : v = HandleQuitWaitingOverlay(t)
    OBVIOUS
  <2>2. PICK w : w = HandleMCPProgress(v)
    OBVIOUS
  <2>3. TickWork(t) = HandlePostLoading(w)
    BY <1>3, <2>1, <2>2 DEF TickWork
  <2>4. /\ Poised(v) /\ v.out = t.out /\ v.mcpInit = t.mcpInit /\ v.prompt = t.prompt
        /\ \/ v.confirm = t.confirm /\ v.who = t.who
           \/ t.confirm \notin {"tool", "auth"} /\ v.confirm \notin {"tool", "auth"}
    BY <2>1, WaitingShown
  <2>5. Ledger(v, a, s)
    BY <2>4, LedgerStays
  <2>6. Boxed(v, l) /\ Settled(v, s, z)
    BY <1>3, <2>4 DEF Boxed, Settled
  <2>7. Progressed(v, w, a, z, l)
    BY <2>2, <2>4, <2>5, <2>6, Progressing
  <2>8. Progressed(w, HandlePostLoading(w), a, z, l)
    BY <2>7, LoadedOver DEF Progressed
  <2> QED
    BY <2>3, <2>4, <2>7, <2>8 DEF Progressed
<1> QED
  BY <1>1, <1>2, <1>3

LEMMA Loaded ==
  ASSUME NEW t, Poised(t), NEW a, NEW s \in Saids, NEW z, NEW l \in Lives,
         Ledger(t, a, s), Boxed(t, l), Settled(t, s, z)
  PROVE  Progressed(t, HandleSessionLoaded(t), a, z, l)
<1>1. PICK v : v = [t EXCEPT !.loading = FALSE, !.postLoading = TRUE]
  OBVIOUS
<1>2. /\ v \in Terminals /\ v.overlay = t.overlay /\ v.confirm = t.confirm /\ v.who = t.who
      /\ v.mcpInit = t.mcpInit /\ v.hasFocus = t.hasFocus /\ v.fromCmd = t.fromCmd
      /\ v.quitting = t.quitting /\ v.out = t.out /\ v.lit = t.lit /\ v.focused = t.focused
      /\ v.prompt = t.prompt
  BY <1>1 DEF Poised, Terminals
<1>3. Poised(v)
  BY <1>2 DEF Poised, IsOpen, Glows, IsBlocked
<1>4. Ledger(v, a, s)
  BY <1>2, LedgerStays
<1>5. Boxed(v, l) /\ Settled(v, s, z)
  BY <1>2 DEF Boxed, Settled
<1>6. Progressed(v, HandleMCPProgress(v), a, z, l)
  BY <1>3, <1>4, <1>5, Progressing
<1>7. HandleSessionLoaded(t) = HandleMCPProgress(v)
  BY <1>1 DEF HandleSessionLoaded
<1> QED
  BY <1>2, <1>6, <1>7 DEF Progressed

(***************************************************************************)
(* The specification.                                                      *)
(***************************************************************************)
(* The inductive invariant.                                                *)
DialogInv ==
  /\ asked \in Asked /\ said \in Saids /\ life \in Lives
  /\ Poised(m) /\ Ledger(m, asked, said) /\ Boxed(m, life)

(* At the start nothing was asked.                                         *)
LEMMA SharedStarts ==
  ASSUME NEW max \in Nat
  PROVE  Shared(<<>>, {}, [i \in 1 .. max |-> 0], 0, max)
<1>1. <<>> \in Seq(Nat) /\ Len(<<>>) = 0 /\ 1 .. 0 = {} /\ 0 \in 0 .. max
  OBVIOUS
<1>2. PICK s : s = [i \in 1 .. max |-> 0]
  OBVIOUS
<1>3. s \in [1 .. max -> Nat] /\ \A i \in 1 .. max : s[i] = 0
  BY <1>2
<1>4. 0 + 1 .. max = 1 .. max
  OBVIOUS
<1>5. Shared(<<>>, {}, s, 0, max)
  BY <1>1, <1>3, <1>4 DEF Shared
<1> QED
  BY <1>2, <1>5

LEMMA DialogsStart == ModalsInit => DialogInv
<1> SUFFICES ASSUME ModalsInit PROVE DialogInv
  OBVIOUS
<1>1. /\ m.confirm = "none" /\ m.fromCmd = FALSE /\ m.mcpInit = FALSE /\ m.lit = FALSE
      /\ m.focused = "input" /\ m.out.tools = <<>> /\ m.out.auths = <<>> /\ m.out.mcpStatus = ""
  BY Zenon DEF ModalsInit
<1>2. m.out \in Outs
  <2>1. PICK e : e = <<>>
    OBVIOUS
  <2>2. PICK no : no = FALSE
    OBVIOUS
  <2>3. PICK nothing : nothing = ""
    OBVIOUS
  <2>4. m.out = [tools |-> e, auths |-> e, ready |-> no, closed |-> no, mcpStatus |-> nothing,
                 inProgress |-> no, queued |-> 0]
    BY <2>1, <2>2, <2>3, Zenon DEF ModalsInit
  <2>5. e \in Seq(Nat) /\ 0 \in Nat
    BY <2>1
  <2>6. no \in BOOLEAN
    BY <2>2
  <2>7. nothing \in {"", "connecting", "done"}
    BY <2>3
  <2> QED
    <3>1. PICK ways : ways = {"", "connecting", "done"}
      OBVIOUS
    <3>2. [tools |-> e, auths |-> e, ready |-> no, closed |-> no, mcpStatus |-> nothing,
           inProgress |-> no, queued |-> 0]
            \in [tools : Seq(Nat), auths : Seq(Nat), ready : BOOLEAN, closed : BOOLEAN,
                 mcpStatus : ways, inProgress : BOOLEAN, queued : Nat]
      BY <2>5, <2>6, <2>7, <3>1
    <3> QED
      BY <2>4, <3>1, <3>2, Zenon DEF Outs
<1>3. m \in Terminals
  <2>1. PICK o : o = m.out
    OBVIOUS
  <2>2. PICK no : no = FALSE
    OBVIOUS
  <2>3. PICK yes : yes = TRUE
    OBVIOUS
  <2>4. PICK nothing : nothing = ""
    OBVIOUS
  <2>5. m = [overlay |-> "none", filter |-> yes, confirm |-> "none", who |-> 0, mcpInit |-> no,
             focused |-> "input", lit |-> no, hasFocus |-> yes, prompt |-> nothing,
             fromCmd |-> no, quitting |-> no, quitCancelSent |-> no, loading |-> yes,
             postLoading |-> no, gone |-> no, pipe |-> {}, out |-> o]
    BY <2>1, <2>2, <2>3, <2>4, Zenon DEF ModalsInit
  <2>6. /\ "none" \in Overlays /\ "none" \in Dialogs /\ {} \in SUBSET Commands /\ 0 \in Nat
        /\ yes \in BOOLEAN /\ no \in BOOLEAN
    BY <2>2, <2>3 DEF Overlays, Dialogs
  <2>7. nothing \in Prompts
    BY <2>4 DEF Prompts
  <2> QED
    BY <1>2, <2>1, <2>5, <2>6, <2>7 DEF Terminals
<1>4. Poised(m)
  BY <1>1, <1>3 DEF Poised, Glows
<1>5. asked \in Asked /\ said \in Saids /\ life \in Lives
  <2>1. asked = [tools |-> 0, auths |-> 0, tasks |-> 0]
    BY DEF ModalsInit
  <2>2. said = [tools |-> [i \in 1 .. MaxTools |-> 0], auths |-> [i \in 1 .. MaxServers |-> 0]]
    BY DEF ModalsInit
  <2>3. asked \in Asked
    BY <2>1 DEF Asked
  <2>4. PICK f : f = [i \in 1 .. MaxTools |-> 0]
    OBVIOUS
  <2>5. PICK g : g = [i \in 1 .. MaxServers |-> 0]
    OBVIOUS
  <2>6. f \in [1 .. MaxTools -> Nat] /\ g \in [1 .. MaxServers -> Nat]
    BY <2>4, <2>5
  <2>7. said = [tools |-> f, auths |-> g]
    BY <2>2, <2>4, <2>5
  <2>8. said \in Saids
    BY <2>6, <2>7 DEF Saids
  <2> QED
    BY <2>3, <2>8 DEF ModalsInit, Lives
<1>6. Ledger(m, asked, said)
  <2>1. ToolAsked(m) = {} /\ AuthAsked(m) = {}
    BY <1>1 DEF ToolAsked, AuthAsked
  <2>2. /\ said.tools = [i \in 1 .. MaxTools |-> 0] /\ said.auths = [i \in 1 .. MaxServers |-> 0]
        /\ asked.tools = 0 /\ asked.auths = 0
    BY DEF ModalsInit
  <2> QED
    BY <1>1, <2>1, <2>2, SharedStarts, ModalsAssumption DEF Ledger
<1>7. Boxed(m, life)
  BY <1>1 DEF Boxed
<1> QED
  BY <1>4, <1>5, <1>6, <1>7 DEF DialogInv

\* A step that keeps the invariant and takes no words from the prompt.
Proceeds == DialogInv' /\ (m.prompt = "words" => m'.prompt = "words")

LEMMA KeySteps ==
  ASSUME DialogInv, NEW key \in Keys, Key(key)
  PROVE  DialogInv' /\ (m.prompt = "words" /\ m'.prompt # "words" => key \in WordKeys)
<1>1. /\ asked \in Asked /\ said \in Saids /\ life \in Lives
      /\ Poised(m) /\ Ledger(m, asked, said) /\ Boxed(m, life)
  BY DEF DialogInv
<1>2. /\ m' = HandleKeyMsg(m, key) /\ said' = Said(key) /\ asked' = asked /\ life' = life
  BY DEF Key
<1>3. CASE KeyboardTarget(m) = "modal" /\ IsOpen(m) /\ Takes(m, key)
  <2>1. m' = HandleConfirmResult(m, key)
    BY <1>2, <1>3 DEF HandleKeyMsg, HandleModal
  <2>2. said' = Tallied(m, said, key)
    <3>1. CASE m.confirm = "tool"
      BY <1>2, <1>3, <3>1 DEF Said, Tallied
    <3>2. CASE m.confirm = "auth" /\ key # "ctrl+g"
      BY <1>2, <1>3, <3>2 DEF Said, Tallied, AuthsSaid
    <3>3. CASE m.confirm = "auth" /\ key = "ctrl+g"
      <4>1. Said(key) = [said EXCEPT !.auths = [i \in DOMAIN @ |->
                    IF i = m.who \/ Contains(m.out.auths, i) THEN @[i] + 1 ELSE @[i]]]
        BY <1>3, <3>3 DEF Said
      <4>2. Tallied(m, said, key) = [said EXCEPT !.auths = [i \in DOMAIN @ |->
                    IF i = m.who \/ Contains(m.out.auths, i) THEN @[i] + 1 ELSE @[i]]]
        BY <3>3 DEF Tallied, AuthsSaid
      <4> QED
        BY <1>2, <4>1, <4>2, Zenon
    <3>4. CASE m.confirm \notin {"tool", "auth"}
      BY <1>2, <3>4 DEF Said, Tallied
    <3> QED
      BY <3>1, <3>2, <3>3, <3>4
  <2>3. PICK u : u = HandleConfirmResult(m, key)
    OBVIOUS
  <2>4. PICK z : z = Tallied(m, said, key)
    OBVIOUS
  <2>5. z \in Saids /\ Replied(m, u, asked, z)
    BY <1>1, <1>3, <2>3, <2>4, Answering
  <2>6. Poised(u) /\ Ledger(u, asked, z) /\ Boxed(u, life) /\ (~m.fromCmd => u.prompt = m.prompt)
    BY <1>1, <2>5, BoxStays DEF Replied
  <2>7. m.fromCmd => m.prompt # "words"
    BY <1>1 DEF Poised
  <2>8. DialogInv'
    BY <1>1, <1>2, <2>1, <2>2, <2>3, <2>4, <2>5, <2>6 DEF DialogInv
  <2> QED
    BY <2>1, <2>3, <2>6, <2>7, <2>8
<1>4. CASE ~(KeyboardTarget(m) = "modal" /\ IsOpen(m) /\ Takes(m, key))
  <2>1. said' = said
    BY <1>2, <1>4 DEF Said
  <2>2. PICK u : u = HandleKeyMsg(m, key)
    OBVIOUS
  <2>3. u = m \/ (m.confirm = "none" /\ KeyTaken(m, u, key))
    BY <1>1, <1>4, <2>2, KeyHandled
  <2>4. CASE u = m
    BY <1>1, <1>2, <2>1, <2>2, <2>4 DEF DialogInv
  <2>5. CASE m.confirm = "none" /\ KeyTaken(m, u, key)
    <3>1. Ledger(u, asked, said)
      BY <1>1, <2>5, LedgerStays DEF KeyTaken
    <3>2. Boxed(u, life)
      BY <1>1, <2>5, BoxStays DEF KeyTaken, SameBox
    <3>3. Poised(u) /\ (u.prompt = m.prompt \/ key \in WordKeys \/ m.prompt # "words")
      BY <2>5 DEF KeyTaken
    <3>4. DialogInv'
      BY <1>1, <1>2, <2>1, <2>2, <3>1, <3>2, <3>3 DEF DialogInv
    <3> QED
      BY <1>2, <2>2, <3>3, <3>4
  <2> QED
    BY <2>3, <2>4, <2>5
<1> QED
  BY <1>3, <1>4

LEMMA TypeSteps == ASSUME DialogInv, NEW text \in Texts, Type(text) PROVE Proceeds
<1>1. PICK u : u = [m EXCEPT !.prompt = text]
  OBVIOUS
<1>2. /\ m' = u /\ m.prompt = "" /\ asked' = asked /\ said' = said /\ life' = life
  BY <1>1 DEF Type
<1>3. Poised(m) /\ Ledger(m, asked, said) /\ Boxed(m, life)
  BY DEF DialogInv
<1>4. ~IsOpen(m)
  <2>1. m.focused \in {"input", "display"}
    BY <1>3 DEF Poised, Terminals
  <2> QED
    BY <2>1 DEF Type, KeyboardTarget
<1>5. Idle(m) /\ text \in Prompts
  BY <1>3, <1>4 DEF Poised, Idle, IsOpen, Prompts
<1>6. Poised(u) /\ Idle(u) /\ u.out = m.out /\ u.mcpInit = m.mcpInit
  BY <1>1, <1>3, <1>5, Rewording
<1>7. Ledger(u, asked, said) /\ Boxed(u, life)
  BY <1>3, <1>5, <1>6, LedgerStays, BoxStays DEF Idle, SameBox
<1>8. DialogInv'
  BY <1>2, <1>6, <1>7 DEF DialogInv
<1> QED
  BY <1>2, <1>8 DEF Proceeds

LEMMA EditorSteps == DialogInv /\ EditorFinished => DialogInv'
<1> SUFFICES ASSUME DialogInv, EditorFinished PROVE DialogInv'
  OBVIOUS
<1>1. PICK v : v = [m EXCEPT !.prompt = "command"]
  OBVIOUS
<1>2. PICK u : u = FocusPrompt(v)
  OBVIOUS
<1>3. /\ m' = u /\ m.prompt = "words" /\ asked' = asked /\ said' = said /\ life' = life
  BY <1>1, <1>2 DEF EditorFinished
<1>4. Poised(m) /\ Ledger(m, asked, said) /\ Boxed(m, life)
  BY DEF DialogInv
<1>5. /\ v \in Terminals /\ v.overlay = m.overlay /\ v.confirm = m.confirm /\ v.who = m.who
      /\ v.mcpInit = m.mcpInit /\ v.hasFocus = m.hasFocus /\ v.fromCmd = m.fromCmd
      /\ v.quitting = m.quitting /\ v.out = m.out
  <2>1. "command" \in Prompts
    BY DEF Prompts
  <2> QED
    BY <1>1, <1>4, <2>1 DEF Poised, Terminals
<1>6. Refocused(v, u) /\ Glows(u)
  BY <1>2, <1>5, Focusing
<1>7. ~m.fromCmd
  BY <1>3, <1>4 DEF Poised
<1>8. Poised(u)
  BY <1>4, <1>5, <1>6, <1>7 DEF Poised, Refocused
<1>9. Ledger(u, asked, said) /\ Boxed(u, life)
  BY <1>4, <1>5, <1>6, LedgerStays, BoxStays DEF Refocused, SameBox
<1> QED
  BY <1>3, <1>8, <1>9 DEF DialogInv

LEMMA BlurSteps == DialogInv /\ Blur => Proceeds
<1> SUFFICES ASSUME DialogInv, Blur PROVE Proceeds
  OBVIOUS
<1>1. PICK u : u = [m EXCEPT !.hasFocus = FALSE, !.lit = FALSE]
  OBVIOUS
<1>2. m' = u /\ asked' = asked /\ said' = said /\ life' = life
  BY <1>1 DEF Blur
<1>3. Poised(m) /\ Ledger(m, asked, said) /\ Boxed(m, life)
  BY DEF DialogInv
<1>4. /\ u \in Terminals /\ u.confirm = m.confirm /\ u.who = m.who /\ u.mcpInit = m.mcpInit
      /\ ~u.hasFocus /\ u.fromCmd = m.fromCmd /\ u.quitting = m.quitting /\ u.out = m.out
      /\ u.prompt = m.prompt
  BY <1>1, <1>3 DEF Poised, Terminals
<1>5. Poised(u)
  BY <1>3, <1>4 DEF Poised, IsOpen
<1>6. Ledger(u, asked, said) /\ Boxed(u, life)
  BY <1>3, <1>4, LedgerStays, BoxStays DEF SameBox
<1>7. DialogInv'
  BY <1>2, <1>5, <1>6 DEF DialogInv
<1> QED
  BY <1>2, <1>4, <1>7 DEF Proceeds

LEMMA FocusSteps == DialogInv /\ Focus => Proceeds
<1> SUFFICES ASSUME DialogInv, Focus PROVE Proceeds
  OBVIOUS
<1>1. PICK v : v = [m EXCEPT !.hasFocus = TRUE]
  OBVIOUS
<1>2. PICK u : u = IF IsBlocked(m) THEN v ELSE RestoreFocus(v)
  OBVIOUS
<1>3. m' = u /\ asked' = asked /\ said' = said /\ life' = life
  BY <1>1, <1>2 DEF Focus
<1>4. Poised(m) /\ Ledger(m, asked, said) /\ Boxed(m, life)
  BY DEF DialogInv
<1>5. /\ v \in Terminals /\ v.overlay = m.overlay /\ v.confirm = m.confirm /\ v.who = m.who
      /\ v.mcpInit = m.mcpInit /\ v.fromCmd = m.fromCmd /\ v.quitting = m.quitting
      /\ v.out = m.out /\ v.prompt = m.prompt
  BY <1>1, <1>4 DEF Poised, Terminals
<1>6. /\ u \in Terminals /\ u.confirm = m.confirm /\ u.who = m.who /\ u.mcpInit = m.mcpInit
      /\ u.fromCmd = m.fromCmd /\ u.quitting = m.quitting /\ u.out = m.out
      /\ u.prompt = m.prompt /\ Glows(u)
  <2>1. CASE IsBlocked(m)
    <3>1. u = v
      BY <1>2, <2>1
    <3> QED
      BY <1>5, <2>1, <3>1 DEF Glows, IsBlocked, IsOpen
  <2>2. CASE ~IsBlocked(m)
    <3>1. Refocused(v, u) /\ Glows(u)
      BY <1>2, <1>5, <2>2, Restoring
    <3> QED
      BY <1>5, <3>1 DEF Refocused
  <2> QED
    BY <2>1, <2>2
<1>7. Poised(u)
  BY <1>4, <1>6 DEF Poised, IsOpen
<1>8. Ledger(u, asked, said) /\ Boxed(u, life)
  BY <1>4, <1>6, LedgerStays, BoxStays DEF SameBox
<1>9. DialogInv'
  BY <1>3, <1>7, <1>8 DEF DialogInv
<1> QED
  BY <1>3, <1>6, <1>9 DEF Proceeds

LEMMA TickSteps == DialogInv /\ Tick => Proceeds
<1> SUFFICES ASSUME DialogInv, Tick PROVE Proceeds
  OBVIOUS
<1>1. /\ asked \in Asked /\ said \in Saids /\ life \in Lives
      /\ Poised(m) /\ Ledger(m, asked, said) /\ Boxed(m, life)
  BY DEF DialogInv
<1>2. PICK f : f = said.auths
  OBVIOUS
<1>3. f \in [1 .. MaxServers -> Nat]
  BY <1>1, <1>2 DEF Saids
<1>4. PICK g : g = [i \in DOMAIN f |-> f[i] + Drained[i]]
  OBVIOUS
<1>5. PICK z : z = [said EXCEPT !.auths = g]
  OBVIOUS
<1>6. m' = TickWork(m) /\ said' = z /\ asked' = asked /\ life' = life
  BY <1>2, <1>4, <1>5 DEF Tick
<1>7. PICK drains : drains = (~m.loading /\ ~m.out.closed /\ m.out.ready)
  OBVIOUS
<1>8. \A i \in 1 .. MaxServers : Drained[i] = IF drains /\ Contains(m.out.auths, i) THEN 1 ELSE 0
  BY <1>7, Zenon DEF Drained
<1>9. /\ g \in [1 .. MaxServers -> Nat]
      /\ \A i \in 1 .. MaxServers :
           g[i] = IF drains /\ Contains(m.out.auths, i) THEN f[i] + 1 ELSE f[i]
  <2>1. DOMAIN f = 1 .. MaxServers
    BY <1>3
  <2>2. \A i \in 1 .. MaxServers : f[i] \in Nat /\ g[i] = f[i] + Drained[i]
    BY <1>3, <1>4, <2>1
  <2>3. \A i \in 1 .. MaxServers :
          g[i] = IF drains /\ Contains(m.out.auths, i) THEN f[i] + 1 ELSE f[i]
    BY <1>8, <2>2
  <2>4. \A i \in 1 .. MaxServers : g[i] \in Nat
    BY <2>2, <2>3
  <2>5. g = [i \in 1 .. MaxServers |-> g[i]]
    BY <1>4, <2>1
  <2> QED
    BY <2>3, <2>4, <2>5
<1>10. z \in Saids /\ z.tools = said.tools /\ z.auths = g
  BY <1>1, <1>5, <1>9 DEF Saids
<1>11. ~drains => z = said
  <2>1. ASSUME ~drains PROVE g = f
    <3>1. \A i \in 1 .. MaxServers : g[i] = f[i]
      BY <1>9, <2>1
    <3>2. f = [i \in 1 .. MaxServers |-> f[i]] /\ g = [i \in 1 .. MaxServers |-> g[i]]
      BY <1>3, <1>9
    <3> QED
      BY <3>1, <3>2
  <2> QED
    BY <1>1, <1>2, <1>5, <2>1 DEF Saids
<1>12. drains => AllCounted(z.auths, said.auths, m.out.auths, 1 .. MaxServers)
  BY <1>2, <1>9, <1>10 DEF AllCounted
<1>13. IF ~m.loading /\ ~m.out.closed THEN Settled(m, said, z) ELSE z = said
  BY <1>7, <1>10, <1>11, <1>12 DEF Settled
<1>14. PICK u : u = TickWork(m)
  OBVIOUS
<1>15. Progressed(m, u, asked, z, life)
  BY <1>1, <1>13, <1>14, Ticked
<1>16. DialogInv'
  BY <1>1, <1>6, <1>10, <1>14, <1>15 DEF DialogInv, Progressed
<1> QED
  BY <1>6, <1>14, <1>15, <1>16 DEF Proceeds, Progressed

LEMMA LoadSteps == DialogInv /\ SessionLoaded => Proceeds
<1> SUFFICES ASSUME DialogInv, SessionLoaded PROVE Proceeds
  OBVIOUS
<1>1. /\ asked \in Asked /\ said \in Saids /\ life \in Lives
      /\ Poised(m) /\ Ledger(m, asked, said) /\ Boxed(m, life)
  BY DEF DialogInv
<1>2. PICK f : f = said.auths
  OBVIOUS
<1>3. PICK q : q = m.out.auths
  OBVIOUS
<1>4. f \in [1 .. MaxServers -> Nat]
  BY <1>1, <1>2 DEF Saids
<1>5. PICK drains : drains = m.out.ready
  OBVIOUS
<1>6. PICK g : g = [i \in DOMAIN f |-> IF drains /\ Contains(q, i) THEN f[i] + 1 ELSE f[i]]
  OBVIOUS
<1>7. PICK z : z = [said EXCEPT !.auths = g]
  OBVIOUS
<1>8. m' = HandleSessionLoaded(m) /\ said' = z /\ asked' = asked /\ life' = life
  BY <1>2, <1>3, <1>5, <1>6, <1>7 DEF SessionLoaded
<1>9. /\ g \in [1 .. MaxServers -> Nat]
      /\ \A i \in 1 .. MaxServers : g[i] = IF drains /\ Contains(q, i) THEN f[i] + 1 ELSE f[i]
  BY <1>4, <1>6
<1>10. z \in Saids /\ z.tools = said.tools /\ z.auths = g
  BY <1>1, <1>7, <1>9 DEF Saids
<1>11. ~drains => z = said
  <2>1. ASSUME ~drains PROVE g = f
    <3>1. \A i \in 1 .. MaxServers : g[i] = f[i]
      BY <1>9, <2>1
    <3>2. f = [i \in 1 .. MaxServers |-> f[i]] /\ g = [i \in 1 .. MaxServers |-> g[i]]
      BY <1>4, <1>9
    <3> QED
      BY <3>1, <3>2
  <2> QED
    BY <1>1, <1>2, <1>7, <2>1 DEF Saids
<1>12. drains => AllCounted(z.auths, said.auths, m.out.auths, 1 .. MaxServers)
  BY <1>2, <1>3, <1>9, <1>10 DEF AllCounted
<1>13. Settled(m, said, z)
  BY <1>5, <1>10, <1>11, <1>12 DEF Settled
<1>14. PICK u : u = HandleSessionLoaded(m)
  OBVIOUS
<1>15. Progressed(m, u, asked, z, life)
  BY <1>1, <1>13, <1>14, Loaded
<1>16. DialogInv'
  BY <1>1, <1>8, <1>10, <1>14, <1>15 DEF DialogInv, Progressed
<1> QED
  BY <1>8, <1>14, <1>15, <1>16 DEF Proceeds, Progressed

(***************************************************************************)
(* What the session says and takes.                                        *)
(***************************************************************************)
(* A word of the session that asks nothing leaves the terminal's part.     *)
LEMMA SaysKeeps ==
  ASSUME DialogInv, NEW o \in Outs, m' = [m EXCEPT !.out = o], o.tools = m.out.tools,
         o.auths = m.out.auths
  PROVE  /\ Poised(m') /\ Ledger(m', asked, said) /\ m'.mcpInit = m.mcpInit /\ m'.out = o
         /\ m'.prompt = m.prompt
<1>1. Poised(m) /\ Ledger(m, asked, said)
  BY DEF DialogInv
<1>2. PICK u : u = m'
  OBVIOUS
<1>3. /\ u \in Terminals /\ u.overlay = m.overlay /\ u.confirm = m.confirm /\ u.who = m.who
      /\ u.mcpInit = m.mcpInit /\ u.hasFocus = m.hasFocus /\ u.fromCmd = m.fromCmd
      /\ u.quitting = m.quitting /\ u.out = o /\ u.lit = m.lit /\ u.focused = m.focused
      /\ u.prompt = m.prompt
  BY <1>1, <1>2, Telling DEF Poised
<1>4. Poised(u)
  BY <1>1, <1>3 DEF Poised, IsOpen, Glows, IsBlocked
<1>5. Ledger(u, asked, said)
  BY <1>1, <1>3, LedgerStays
<1> QED
  BY <1>2, <1>3, <1>4, <1>5

LEMMA OutTyped == DialogInv => m.out \in Outs /\ m \in Terminals
BY DEF DialogInv, Poised, Terminals

LEMMA ConnectSteps == DialogInv /\ Connect => Proceeds
<1> SUFFICES ASSUME DialogInv, Connect PROVE Proceeds
  OBVIOUS
<1>1. PICK o : o = [m.out EXCEPT !.mcpStatus = "connecting"]
  OBVIOUS
<1>2. /\ o \in Outs /\ o.tools = m.out.tools /\ o.auths = m.out.auths
  BY <1>1, OutTyped DEF Outs
<1>3. /\ m' = [m EXCEPT !.out = o] /\ asked' = asked /\ said' = said /\ life' = life
      /\ life = "initializing"
  BY <1>1 DEF Connect, Says
<1>4. Poised(m') /\ Ledger(m', asked, said) /\ m'.prompt = m.prompt
  BY <1>2, <1>3, SaysKeeps
<1>5. Boxed(m', life)
  BY <1>3 DEF Boxed
<1> QED
  BY <1>3, <1>4, <1>5 DEF DialogInv, Proceeds

LEMMA MCPDoneSteps == DialogInv /\ MCPDone => Proceeds
<1> SUFFICES ASSUME DialogInv, MCPDone PROVE Proceeds
  OBVIOUS
<1>1. PICK d : d = IF m.out.mcpStatus = "" THEN "" ELSE "done"
  OBVIOUS
<1>2. PICK o : o = [m.out EXCEPT !.mcpStatus = d]
  OBVIOUS
<1>3. /\ o \in Outs /\ o.tools = m.out.tools /\ o.auths = m.out.auths /\ o.mcpStatus # "connecting"
  <2>1. d \in {"", "connecting", "done"} /\ d # "connecting"
    BY <1>1
  <2> QED
    BY <1>2, <2>1, OutTyped DEF Outs
<1>4. /\ m' = [m EXCEPT !.out = o] /\ asked' = asked /\ said' = said /\ life' = "settled"
  BY <1>1, <1>2 DEF MCPDone, Says
<1>5. Poised(m') /\ Ledger(m', asked, said) /\ m'.prompt = m.prompt /\ m'.out = o
  BY <1>3, <1>4, SaysKeeps
<1>6. Boxed(m', life') /\ life' \in Lives
  BY <1>3, <1>4, <1>5 DEF Boxed, Lives
<1> QED
  BY <1>4, <1>5, <1>6 DEF DialogInv, Proceeds

LEMMA ReadySteps == DialogInv /\ Ready => Proceeds
<1> SUFFICES ASSUME DialogInv, Ready PROVE Proceeds
  OBVIOUS
<1>1. PICK o : o = [m.out EXCEPT !.ready = TRUE]
  OBVIOUS
<1>2. /\ o \in Outs /\ o.tools = m.out.tools /\ o.auths = m.out.auths /\ o.ready
      /\ o.mcpStatus = m.out.mcpStatus
  BY <1>1, OutTyped DEF Outs
<1>3. /\ m' = [m EXCEPT !.out = o] /\ asked' = asked /\ said' = said /\ life' = "ready"
      /\ life = "settled"
  BY <1>1 DEF Ready, Says
<1>4. Poised(m') /\ Ledger(m', asked, said) /\ m'.prompt = m.prompt /\ m'.out = o
  BY <1>2, <1>3, SaysKeeps
<1>5. m.out.mcpStatus # "connecting"
  BY <1>3 DEF DialogInv, Boxed
<1>6. Boxed(m', life') /\ life' \in Lives
  BY <1>2, <1>3, <1>4, <1>5 DEF Boxed, Lives
<1> QED
  BY <1>3, <1>4, <1>6 DEF DialogInv, Proceeds

(* The steps that leave what the box waits for and the life of the session.*)
LEMMA WorkSteps ==
  ASSUME DialogInv, NEW o \in Outs, m' = [m EXCEPT !.out = o], o.tools = m.out.tools,
         o.auths = m.out.auths, o.ready = m.out.ready, o.mcpStatus = m.out.mcpStatus,
         asked' \in Asked, asked'.tools = asked.tools, asked'.auths = asked.auths,
         said' = said, life' = life
  PROVE  Proceeds
<1>1. Poised(m') /\ Ledger(m', asked, said) /\ m'.mcpInit = m.mcpInit /\ m'.prompt = m.prompt
      /\ m'.out = o
  BY SaysKeeps
<1>2. Ledger(m', asked', said)
  BY <1>1 DEF Ledger
<1>3. Boxed(m', life)
  BY <1>1 DEF DialogInv, Boxed
<1> QED
  BY <1>1, <1>2, <1>3 DEF DialogInv, Proceeds

LEMMA TaskStartSteps == DialogInv /\ TaskStart => Proceeds
<1> SUFFICES ASSUME DialogInv, TaskStart PROVE Proceeds
  OBVIOUS
<1>1. PICK o : o = [m.out EXCEPT !.inProgress = TRUE]
  OBVIOUS
<1>2. /\ o \in Outs /\ o.tools = m.out.tools /\ o.auths = m.out.auths /\ o.ready = m.out.ready
      /\ o.mcpStatus = m.out.mcpStatus
  BY <1>1, OutTyped DEF Outs
<1>3. m' = [m EXCEPT !.out = o] /\ said' = said /\ life' = life
  BY <1>1 DEF TaskStart, Says
<1>4. asked' \in Asked /\ asked'.tools = asked.tools /\ asked'.auths = asked.auths
  BY DEF DialogInv, TaskStart, Asked
<1> QED
  BY <1>2, <1>3, <1>4, WorkSteps

LEMMA SteeringSteps == DialogInv /\ QueueSteering => Proceeds
<1> SUFFICES ASSUME DialogInv, QueueSteering PROVE Proceeds
  OBVIOUS
<1>1. PICK o : o = [m.out EXCEPT !.queued = 1]
  OBVIOUS
<1>2. /\ o \in Outs /\ o.tools = m.out.tools /\ o.auths = m.out.auths /\ o.ready = m.out.ready
      /\ o.mcpStatus = m.out.mcpStatus
  BY <1>1, OutTyped DEF Outs
<1>3. m' = [m EXCEPT !.out = o] /\ said' = said /\ life' = life /\ asked' = asked
  BY <1>1 DEF QueueSteering, Says
<1> QED
  BY <1>2, <1>3, WorkSteps DEF DialogInv

LEMMA TaskEndSteps == DialogInv /\ TaskEnd => Proceeds
<1> SUFFICES ASSUME DialogInv, TaskEnd PROVE Proceeds
  OBVIOUS
<1>1. PICK o : o = [m.out EXCEPT !.inProgress = FALSE, !.queued = 0]
  OBVIOUS
<1>2. /\ o \in Outs /\ o.tools = m.out.tools /\ o.auths = m.out.auths /\ o.ready = m.out.ready
      /\ o.mcpStatus = m.out.mcpStatus
  BY <1>1, OutTyped DEF Outs
<1>3. m' = [m EXCEPT !.out = o] /\ said' = said /\ life' = life /\ asked' = asked
  BY <1>1 DEF TaskEnd, Says
<1> QED
  BY <1>2, <1>3, WorkSteps DEF DialogInv

LEMMA CloseSteps == DialogInv /\ Close => Proceeds
<1> SUFFICES ASSUME DialogInv, Close PROVE Proceeds
  OBVIOUS
<1>1. PICK o : o = [m.out EXCEPT !.closed = TRUE]
  OBVIOUS
<1>2. o \in Outs /\ o.tools = m.out.tools /\ o.auths = m.out.auths
  BY <1>1, OutTyped DEF Outs
<1>3. /\ m' = [m EXCEPT !.out = o] /\ asked' = asked /\ said' = said /\ life' = "closed"
  BY <1>1 DEF Close, Says
<1>4. Poised(m') /\ Ledger(m', asked, said) /\ m'.prompt = m.prompt
  BY <1>2, <1>3, SaysKeeps
<1>5. Boxed(m', life') /\ life' \in Lives
  BY <1>3 DEF Boxed, Lives
<1> QED
  BY <1>3, <1>4, <1>5 DEF DialogInv, Proceeds

LEMMA TakeSteps == ASSUME DialogInv, NEW command \in Commands, Take(command) PROVE Proceeds
<1>1. /\ asked \in Asked /\ said \in Saids /\ life \in Lives
      /\ Poised(m) /\ Ledger(m, asked, said) /\ Boxed(m, life)
  BY DEF DialogInv
<1>2. m.out \in Outs /\ m \in Terminals
  BY OutTyped
<1>3. PICK b : b = (m.out.inProgress /\ command \notin {":cancel", ":cancel keep"})
  OBVIOUS
<1>4. PICK n : n = IF command \in {":cancel", ":cancel keep"} THEN 0 ELSE m.out.queued
  OBVIOUS
<1>5. b \in BOOLEAN /\ n \in Nat
  <2>1. m.out.queued \in Nat
    BY <1>2 DEF Outs
  <2>2. n \in Nat
    BY <1>4, <2>1
  <2>3. b \in BOOLEAN
    BY <1>3
  <2> QED
    BY <2>2, <2>3
<1>6. PICK o : o = [m.out EXCEPT !.inProgress = b, !.queued = n]
  OBVIOUS
<1>7. PICK u : u = [m EXCEPT !.pipe = @ \ {command}, !.out = o]
  OBVIOUS
<1>8. m' = u /\ asked' = asked /\ said' = said
  <2>1. m' = [m EXCEPT !.pipe = @ \ {command},
                      !.out.inProgress = @ /\ command \notin {":cancel", ":cancel keep"},
                      !.out.queued = IF command \in {":cancel", ":cancel keep"} THEN 0 ELSE @]
    BY DEF Take
  <2>2. m' = [m EXCEPT !.pipe = @ \ {command}, !.out.inProgress = b, !.out.queued = n]
    BY <1>2, <1>3, <1>4, <2>1, Zenon DEF Terminals, Outs
  <2>3. m' = u
    BY <1>2, <1>6, <1>7, <2>2 DEF Terminals, Outs
  <2> QED
    BY <2>3 DEF Take
<1>9. /\ o \in Outs /\ o.tools = m.out.tools /\ o.auths = m.out.auths /\ o.ready = m.out.ready
      /\ o.mcpStatus = m.out.mcpStatus
  BY <1>2, <1>5, <1>6 DEF Outs
<1>10. /\ u \in Terminals /\ u.overlay = m.overlay /\ u.confirm = m.confirm /\ u.who = m.who
       /\ u.mcpInit = m.mcpInit /\ u.hasFocus = m.hasFocus /\ u.fromCmd = m.fromCmd
       /\ u.quitting = m.quitting /\ u.out = o /\ u.lit = m.lit /\ u.focused = m.focused
       /\ u.prompt = m.prompt
  BY <1>2, <1>7, <1>9 DEF Terminals
<1>11. Poised(u)
  BY <1>1, <1>10 DEF Poised, IsOpen, Glows, IsBlocked
<1>12. Ledger(u, asked, said)
  BY <1>1, <1>9, <1>10, LedgerStays
<1>13. life' \in Lives /\ Boxed(u, life')
  <2>1. life' = life \/ life' = "quitting"
    BY DEF Take
  <2>2. Boxed(u, life)
    BY <1>1, <1>9, <1>10 DEF Boxed
  <2>3. Boxed(u, "quitting")
    BY DEF Boxed
  <2> QED
    BY <1>1, <2>1, <2>2, <2>3 DEF Lives
<1>14. DialogInv'
  BY <1>1, <1>8, <1>11, <1>12, <1>13 DEF DialogInv
<1> QED
  BY <1>8, <1>10, <1>14 DEF Proceeds

(* A question is asked: it waits behind the others.                        *)
LEMMA AskToolSteps == DialogInv /\ AskTool => Proceeds
<1> SUFFICES ASSUME DialogInv, AskTool PROVE Proceeds
  OBVIOUS
<1>1. /\ asked \in Asked /\ said \in Saids /\ life \in Lives
      /\ Poised(m) /\ Ledger(m, asked, said) /\ Boxed(m, life)
  BY DEF DialogInv
<1>2. m.out \in Outs /\ m \in Terminals /\ asked.tools \in Nat
  BY <1>1, OutTyped DEF Asked
<1>3. PICK n : n = asked.tools + 1
  OBVIOUS
<1>4. PICK q : q = Append(m.out.tools, n)
  OBVIOUS
<1>5. n \in Nat /\ q \in Seq(Nat)
  <2>1. m.out.tools \in Seq(Nat)
    BY <1>2 DEF Outs
  <2>2. n \in Nat
    BY <1>2, <1>3
  <2> QED
    BY <1>4, <2>1, <2>2
<1>6. PICK o : o = [m.out EXCEPT !.tools = q]
  OBVIOUS
<1>7. /\ o \in Outs /\ o.tools = q /\ o.auths = m.out.auths /\ o.ready = m.out.ready
      /\ o.mcpStatus = m.out.mcpStatus
  BY <1>2, <1>5, <1>6, ToolsOut
<1>8. PICK u : u = [m EXCEPT !.out = o]
  OBVIOUS
<1>9. m' = u /\ said' = said /\ life' = life /\ asked.tools < MaxTools
  BY <1>3, <1>4, <1>6, <1>8 DEF AskTool, Says
<1>10. asked' \in Asked /\ asked'.tools = n /\ asked'.auths = asked.auths
  <2>1. asked' = [asked EXCEPT !.tools = n]
    BY <1>3 DEF AskTool
  <2> QED
    BY <1>1, <1>5, <2>1 DEF Asked
<1>11. /\ u \in Terminals /\ u.overlay = m.overlay /\ u.confirm = m.confirm /\ u.who = m.who
       /\ u.mcpInit = m.mcpInit /\ u.hasFocus = m.hasFocus /\ u.fromCmd = m.fromCmd
       /\ u.quitting = m.quitting /\ u.out = o /\ u.lit = m.lit /\ u.focused = m.focused
       /\ u.prompt = m.prompt
  BY <1>2, <1>7, <1>8, Telling
<1>12. Poised(u)
  BY <1>1, <1>11 DEF Poised, IsOpen, Glows, IsBlocked
<1>13. ToolAsked(u) = ToolAsked(m) /\ AuthAsked(u) = AuthAsked(m)
  BY <1>11 DEF ToolAsked, AuthAsked
<1>14. Shared(q, ToolAsked(m), said.tools, n, MaxTools)
  BY <1>1, <1>3, <1>4, <1>9, SharedAsks, ModalsAssumption DEF Ledger
<1>15. PICK a : a = asked'
  OBVIOUS
<1>16. Ledger(u, a, said)
  BY <1>1, <1>7, <1>10, <1>11, <1>13, <1>14, <1>15 DEF Ledger
<1>17. Boxed(u, life)
  BY <1>1, <1>7, <1>11 DEF Boxed
<1>18. DialogInv'
  BY <1>1, <1>9, <1>10, <1>12, <1>15, <1>16, <1>17 DEF DialogInv
<1> QED
  BY <1>9, <1>11, <1>18 DEF Proceeds

LEMMA AskAuthSteps == DialogInv /\ AskAuth => Proceeds
<1> SUFFICES ASSUME DialogInv, AskAuth PROVE Proceeds
  OBVIOUS
<1>1. /\ asked \in Asked /\ said \in Saids /\ life \in Lives
      /\ Poised(m) /\ Ledger(m, asked, said) /\ Boxed(m, life)
  BY DEF DialogInv
<1>2. m.out \in Outs /\ m \in Terminals /\ asked.auths \in Nat
  BY <1>1, OutTyped DEF Asked
<1>3. PICK n : n = asked.auths + 1
  OBVIOUS
<1>4. PICK q : q = Append(m.out.auths, n)
  OBVIOUS
<1>5. n \in Nat /\ q \in Seq(Nat)
  <2>1. m.out.auths \in Seq(Nat)
    BY <1>2 DEF Outs
  <2>2. n \in Nat
    BY <1>2, <1>3
  <2> QED
    BY <1>4, <2>1, <2>2
<1>6. PICK o : o = [m.out EXCEPT !.auths = q]
  OBVIOUS
<1>7. /\ o \in Outs /\ o.tools = m.out.tools /\ o.auths = q /\ o.ready = m.out.ready
      /\ o.mcpStatus = m.out.mcpStatus
  BY <1>2, <1>5, <1>6, AuthsOut
<1>8. PICK u : u = [m EXCEPT !.out = o]
  OBVIOUS
<1>9. m' = u /\ said' = said /\ life' = life /\ asked.auths < MaxServers
  BY <1>3, <1>4, <1>6, <1>8 DEF AskAuth, Says
<1>10. asked' \in Asked /\ asked'.tools = asked.tools /\ asked'.auths = n
  <2>1. asked' = [asked EXCEPT !.auths = n]
    BY <1>3 DEF AskAuth
  <2> QED
    BY <1>1, <1>5, <2>1 DEF Asked
<1>11. /\ u \in Terminals /\ u.overlay = m.overlay /\ u.confirm = m.confirm /\ u.who = m.who
       /\ u.mcpInit = m.mcpInit /\ u.hasFocus = m.hasFocus /\ u.fromCmd = m.fromCmd
       /\ u.quitting = m.quitting /\ u.out = o /\ u.lit = m.lit /\ u.focused = m.focused
       /\ u.prompt = m.prompt
  BY <1>2, <1>7, <1>8, Telling
<1>12. Poised(u)
  BY <1>1, <1>11 DEF Poised, IsOpen, Glows, IsBlocked
<1>13. ToolAsked(u) = ToolAsked(m) /\ AuthAsked(u) = AuthAsked(m)
  BY <1>11 DEF ToolAsked, AuthAsked
<1>14. Shared(q, AuthAsked(m), said.auths, n, MaxServers)
  BY <1>1, <1>3, <1>4, <1>9, SharedAsks, ModalsAssumption DEF Ledger
<1>15. PICK a : a = asked'
  OBVIOUS
<1>16. Ledger(u, a, said)
  BY <1>1, <1>7, <1>10, <1>11, <1>13, <1>14, <1>15 DEF Ledger
<1>17. Boxed(u, life)
  BY <1>1, <1>7, <1>11 DEF Boxed
<1>18. DialogInv'
  BY <1>1, <1>9, <1>10, <1>12, <1>15, <1>16, <1>17 DEF DialogInv
<1> QED
  BY <1>9, <1>11, <1>18 DEF Proceeds

(* Every step keeps the invariant and leaves the words.                    *)
LEMMA DialogSteps == DialogInv /\ [ModalsNext]_modalsVars => DialogInv' /\ WordsStay
<1> SUFFICES ASSUME DialogInv, [ModalsNext]_modalsVars PROVE DialogInv' /\ WordsStay
  OBVIOUS
<1>1. ASSUME Proceeds PROVE DialogInv' /\ WordsStay
  BY <1>1 DEF Proceeds, WordsStay
<1>2. ASSUME NEW key \in Keys, Key(key) PROVE DialogInv' /\ WordsStay
  <2>1. DialogInv' /\ (m.prompt = "words" /\ m'.prompt # "words" => key \in WordKeys)
    BY <1>2, KeySteps
  <2> QED
    BY <1>2, <2>1 DEF WordsStay, WordKeys
<1>3. ASSUME NEW text \in Texts, Type(text) PROVE DialogInv' /\ WordsStay
  BY <1>1, <1>3, TypeSteps
<1>4. CASE EditorFinished
  BY <1>4, EditorSteps DEF WordsStay
<1>5. CASE Blur
  BY <1>1, <1>5, BlurSteps
<1>6. CASE Focus
  BY <1>1, <1>6, FocusSteps
<1>7. CASE Tick
  BY <1>1, <1>7, TickSteps
<1>8. CASE SessionLoaded
  BY <1>1, <1>8, LoadSteps
<1>9. CASE Connect
  BY <1>1, <1>9, ConnectSteps
<1>10. CASE AskAuth
  BY <1>1, <1>10, AskAuthSteps
<1>11. CASE MCPDone
  BY <1>1, <1>11, MCPDoneSteps
<1>12. CASE Ready
  BY <1>1, <1>12, ReadySteps
<1>13. CASE TaskStart
  BY <1>1, <1>13, TaskStartSteps
<1>14. CASE AskTool
  BY <1>1, <1>14, AskToolSteps
<1>15. CASE QueueSteering
  BY <1>1, <1>15, SteeringSteps
<1>16. CASE TaskEnd
  BY <1>1, <1>16, TaskEndSteps
<1>17. CASE Close
  BY <1>1, <1>17, CloseSteps
<1>18. ASSUME NEW command \in Commands, Take(command) PROVE DialogInv' /\ WordsStay
  BY <1>1, <1>18, TakeSteps
<1>19. CASE UNCHANGED modalsVars
  BY <1>19 DEF modalsVars, DialogInv, WordsStay
<1> QED
  BY <1>2, <1>3, <1>4, <1>5, <1>6, <1>7, <1>8, <1>9, <1>10, <1>11, <1>12, <1>13, <1>14, <1>15,
     <1>16, <1>17, <1>18, <1>19 DEF ModalsNext

(* And the invariant says what is claimed.                                 *)
LEMMA DialogsHold == DialogInv => AskedOnce /\ BoxCloses /\ LitTakesKeys
<1> SUFFICES ASSUME DialogInv PROVE AskedOnce /\ BoxCloses /\ LitTakesKeys
  OBVIOUS
<1>1. Poised(m) /\ Ledger(m, asked, said) /\ Boxed(m, life)
  BY DEF DialogInv
<1>2. AskedOnce
  <2>1. ASSUME NEW i \in 1 .. asked.tools
        PROVE  Cardinality({j \in DOMAIN m.out.tools : m.out.tools[j] = i})
                 + (IF m.confirm = "tool" /\ m.who = i THEN 1 ELSE 0) + said.tools[i] = 1
    <3>1. Cardinality({j \in DOMAIN m.out.tools : m.out.tools[j] = i})
            + (IF i \in ToolAsked(m) THEN 1 ELSE 0) + said.tools[i] = 1
      BY <1>1, SharedOnce, ModalsAssumption DEF Ledger
    <3>2. (i \in ToolAsked(m)) <=> (m.confirm = "tool" /\ m.who = i)
      BY DEF ToolAsked
    <3> QED
      BY <3>1, <3>2
  <2>2. ASSUME NEW i \in 1 .. asked.auths
        PROVE  Cardinality({j \in DOMAIN m.out.auths : m.out.auths[j] = i})
                 + (IF m.confirm = "auth" /\ m.who = i THEN 1 ELSE 0) + said.auths[i] = 1
    <3>1. Cardinality({j \in DOMAIN m.out.auths : m.out.auths[j] = i})
            + (IF i \in AuthAsked(m) THEN 1 ELSE 0) + said.auths[i] = 1
      BY <1>1, SharedOnce, ModalsAssumption DEF Ledger
    <3>2. (i \in AuthAsked(m)) <=> (m.confirm = "auth" /\ m.who = i)
      BY DEF AuthAsked
    <3> QED
      BY <3>1, <3>2
  <2> QED
    BY <2>1, <2>2 DEF AskedOnce
<1>3. BoxCloses
  BY <1>1 DEF Boxed, BoxCloses
<1>4. LitTakesKeys
  BY <1>1 DEF Poised, Glows, LitTakesKeys
<1> QED
  BY <1>2, <1>3, <1>4

(***************************************************************************)
(* Selectors: what a filter leaves of a list.                              *)
(***************************************************************************)

(* Of a set of numbers, the least.                                         *)
LEMMA LeastNumber ==
  ASSUME NEW T, T \subseteq Nat, T # {}
  PROVE  \E i \in T : \A j \in T : i <= j
<1> DEFINE Less == {ss \in Nat \X Nat : ss[1] < ss[2]}
<1>1. PICK i \in T : \A j \in T : ~(<<j, i>> \in Less)
  <2>1. Less = OpToRel(<, Nat)
    BY Zenon DEF OpToRel
  <2>2. IsWellFoundedOn(Less, Nat)
    BY <2>1, NatLessThanWellFounded, Zenon
  <2> HIDE DEF Less
  <2> QED
    BY <2>2, WFMin
<1>2. ASSUME NEW j \in T, ~(i <= j) PROVE FALSE
  <2>1. i \in Nat /\ j \in Nat /\ j < i
    BY <1>2
  <2>2. <<j, i>> \in Less
    BY <2>1
  <2> QED
    BY <1>1, <2>2
<1> QED
  BY <1>2

(* g[k] is what the filter leaves of the first k rows.                     *)
KeptSoFar(rows, filter, n, g) ==
  g = [k \in 0 .. n |-> IF k = 0 THEN <<>>
                        ELSE IF rows[k] \in filter THEN Append(g[k - 1], rows[k]) ELSE g[k - 1]]

LEMMA KeptExists ==
  ASSUME NEW rows, NEW filter, NEW n \in Nat
  PROVE  \E g : KeptSoFar(rows, filter, n, g)
<1> DEFINE T == {k \in Nat : ~\E g : KeptSoFar(rows, filter, k, g)}
<1> SUFFICES ASSUME T # {} PROVE FALSE
  OBVIOUS
<1>1. PICK i \in T : \A j \in T : i <= j
  <2>1. T \subseteq Nat
    OBVIOUS
  <2> HIDE DEF T
  <2> QED
    BY <2>1, LeastNumber
<1>2. CASE i = 0
  <2>1. KeptSoFar(rows, filter, 0, [k \in 0 .. 0 |-> <<>>])
    BY DEF KeptSoFar
  <2> QED
    BY <1>2, <2>1
<1>3. CASE i # 0
  <2>1. i - 1 \in Nat /\ ~(i <= i - 1)
    BY <1>3
  <2>2. PICK g : KeptSoFar(rows, filter, i - 1, g)
    BY <1>1, <2>1
  <2> DEFINE last == IF rows[i] \in filter THEN Append(g[i - 1], rows[i]) ELSE g[i - 1]
             h == [k \in 0 .. i |-> IF k = i THEN last ELSE g[k]]
  <2>3. \A k \in 0 .. i - 1 :
          g[k] = IF k = 0 THEN <<>>
                 ELSE IF rows[k] \in filter THEN Append(g[k - 1], rows[k]) ELSE g[k - 1]
    BY <2>2 DEF KeptSoFar
  <2>4. \A k \in 0 .. i :
          h[k] = IF k = 0 THEN <<>>
                 ELSE IF rows[k] \in filter THEN Append(h[k - 1], rows[k]) ELSE h[k - 1]
    BY <1>3, <2>1, <2>3
  <2>5. h = [k \in 0 .. i |-> h[k]]
    OBVIOUS
  <2> HIDE DEF h
  <2>6. KeptSoFar(rows, filter, i, h)
    BY <2>4, <2>5 DEF KeptSoFar
  <2> QED
    BY <2>6
<1> QED
  BY <1>2, <1>3

(* Rows of one kind leave rows of that kind.                               *)
LEMMA MatchingIsTyped ==
  ASSUME NEW S, NEW rows \in Seq(S), NEW filter
  PROVE  Matching(rows, filter) \in Seq(S)
<1> DEFINE g == CHOOSE x : KeptSoFar(rows, filter, Len(rows), x)
<1>1. Len(rows) \in Nat /\ \A k \in 1 .. Len(rows) : rows[k] \in S
  OBVIOUS
<1>2. KeptSoFar(rows, filter, Len(rows), g)
  BY <1>1, KeptExists
<1>3. Matching(rows, filter) = g[Len(rows)]
  BY DEF Matching, KeptSoFar
<1> HIDE DEF g
<1>4. \A k \in 0 .. Len(rows) :
        g[k] = IF k = 0 THEN <<>>
               ELSE IF rows[k] \in filter THEN Append(g[k - 1], rows[k]) ELSE g[k - 1]
  BY <1>2 DEF KeptSoFar
<1> DEFINE T == {k \in 0 .. Len(rows) : g[k] \notin Seq(S)}
<1>5. ASSUME T # {} PROVE FALSE
  <2>1. PICK i \in T : \A j \in T : i <= j
    <3>1. T \subseteq Nat
      OBVIOUS
    <3> HIDE DEF T
    <3> QED
      BY <1>5, <3>1, LeastNumber
  <2>2. i # 0
    <3>1. g[0] = <<>>
      BY <1>1, <1>4
    <3>2. <<>> \in Seq(S)
      OBVIOUS
    <3> QED
      BY <3>1, <3>2
  <2>3. i \in 1 .. Len(rows) /\ i - 1 \in 0 .. Len(rows) /\ ~(i <= i - 1)
    BY <2>2
  <2>4. g[i - 1] \in Seq(S)
    BY <2>1, <2>3
  <2>5. rows[i] \in S
    BY <1>1, <2>3
  <2>6. g[i] = Append(g[i - 1], rows[i]) \/ g[i] = g[i - 1]
    BY <1>4, <2>2, <2>3
  <2>7. g[i] \in Seq(S)
    <3>1. PICK s \in Seq(S) : s = g[i - 1]
      BY <2>4
    <3>2. PICK r \in S : r = rows[i]
      BY <2>5
    <3>3. Append(s, r) \in Seq(S)
      OBVIOUS
    <3> QED
      BY <2>6, <3>1, <3>2, <3>3
  <2>8. g[i] \notin Seq(S)
    BY <2>1
  <2> QED
    BY <2>7, <2>8
<1> QED
  BY <1>1, <1>3, <1>5

(***************************************************************************)
(* The two lists.                                                          *)
(***************************************************************************)
(* What a preview shows: a theme, or none.                                 *)
Shown == ThemeNames \cup {""}
FilterSets == Filters \cup {Everything}
ThemeLists ==
  [open : BOOLEAN, inFilter : BOOLEAN, filter : FilterSets, rows : Seq(ThemeNames), idx : Nat,
   preview : Shown]
ModelLists ==
  [open : BOOLEAN, inFilter : BOOLEAN, filter : FilterSets, rows : Seq(STRING), idx : Nat,
   loaded : Seq(STRING)]

(* The highlight is on a row.                                              *)
OnRow(s) == s.idx \in 1 .. (IF s.rows = <<>> THEN 1 ELSE Len(s.rows))

LEMMA ThemesNamed == Themes \in Seq(ThemeNames) /\ "" \notin ThemeNames
<1>1. Len(Themes) \in Nat /\ DOMAIN Themes = 1 .. Len(Themes)
  <2>1. Themes \in Seq(STRING)
    BY SelectorsAssumption
  <2> QED
    BY <2>1, LenProperties
<1>2. \A i \in 1 .. Len(Themes) : Themes[i] \in ThemeNames
  BY <1>1 DEF ThemeNames
<1>3. Themes \in Seq(ThemeNames)
  <2>1. Themes \in Seq(STRING)
    BY SelectorsAssumption
  <2> QED
    BY <1>2, <2>1, LenProperties, SeqDef
<1>4. "" \notin ThemeNames
  BY SelectorsAssumption DEF ThemeNames
<1> QED
  BY <1>3, <1>4

(* What was typed is a filter.                                             *)
LEMMA TypedIsFilter ==
  ASSUME NEW key \in ListKeys, key[1] \in {"type", "paste"}
  PROVE  TypedFilter(key) \in FilterSets
<1>1. \E f \in Filters : key = <<"type", f>> \/ key = <<"paste", f>>
  BY DEF ListKeys
<1> QED
  BY <1>1 DEF TypedFilter, FilterSets

LEMMA ThemeKeyed ==
  ASSUME NEW t \in ThemeLists, NEW key \in ListKeys, NEW u, u = HandleKey(t, key)
  PROVE  /\ u \in ThemeLists /\ u.rows = t.rows /\ u.idx = t.idx /\ u.preview = t.preview
         /\ u.open <=> (t.open /\ key # <<"esc">>)
<1>1. Everything \in FilterSets
  BY DEF FilterSets
<1>2. CASE key[1] \in {"type", "paste"}
  <2>1. key # <<"tab">> /\ key # <<"esc">> /\ key # <<"ctrl+c">>
    BY <1>2
  <2>2. PICK f \in FilterSets : f = TypedFilter(key)
    BY <1>2, TypedIsFilter
  <2>3. u = [t EXCEPT !.filter = f] \/ u = t
    BY <2>1, <2>2 DEF HandleKey
  <2> QED
    BY <2>1, <2>2, <2>3 DEF ThemeLists
<1>3. CASE key[1] \notin {"type", "paste"}
  <2>1. CASE key = <<"tab">>
    BY <2>1 DEF HandleKey, ThemeLists
  <2>2. CASE key = <<"esc">>
    <3>1. PICK no \in BOOLEAN : ~no
      OBVIOUS
    <3>2. u = [t EXCEPT !.open = no]
      BY <2>2, <3>1 DEF HandleKey
    <3> QED
      BY <2>2, <3>1, <3>2 DEF ThemeLists
  <2>3. CASE key # <<"tab">> /\ key # <<"esc">>
    <3>1. u = [t EXCEPT !.filter = Everything] \/ u = t
      BY <1>3, <2>3 DEF HandleKey
    <3> QED
      BY <1>1, <2>3, <3>1 DEF ThemeLists
  <2> QED
    BY <2>1, <2>2, <2>3
<1> QED
  BY <1>2, <1>3

LEMMA ModelKeyed ==
  ASSUME NEW t \in ModelLists, NEW key \in ListKeys, NEW u, u = HandleKey(t, key)
  PROVE  u \in ModelLists /\ u.rows = t.rows /\ u.idx = t.idx /\ u.loaded = t.loaded
<1>1. Everything \in FilterSets
  BY DEF FilterSets
<1>2. CASE key[1] \in {"type", "paste"}
  <2>1. key # <<"tab">> /\ key # <<"esc">> /\ key # <<"ctrl+c">>
    BY <1>2
  <2>2. PICK f \in FilterSets : f = TypedFilter(key)
    BY <1>2, TypedIsFilter
  <2>3. u = [t EXCEPT !.filter = f] \/ u = t
    BY <2>1, <2>2 DEF HandleKey
  <2> QED
    BY <2>2, <2>3 DEF ModelLists
<1>3. CASE key[1] \notin {"type", "paste"}
  <2>1. CASE key = <<"tab">>
    BY <2>1 DEF HandleKey, ModelLists
  <2>2. CASE key = <<"esc">>
    <3>1. PICK no \in BOOLEAN : ~no
      OBVIOUS
    <3>2. u = [t EXCEPT !.open = no]
      BY <2>2, <3>1 DEF HandleKey
    <3> QED
      BY <3>1, <3>2 DEF ModelLists
  <2>3. CASE key # <<"tab">> /\ key # <<"esc">>
    <3>1. u = [t EXCEPT !.filter = Everything] \/ u = t
      BY <1>3, <2>3 DEF HandleKey
    <3> QED
      BY <1>1, <3>1 DEF ModelLists
  <2> QED
    BY <2>1, <2>2, <2>3
<1> QED
  BY <1>2, <1>3

LEMMA ThemeMoved ==
  ASSUME NEW t \in ThemeLists, OnRow(t), NEW key, NEW u, u = Moved(t, key)
  PROVE  u \in ThemeLists /\ OnRow(u) /\ u.rows = t.rows /\ u.preview = t.preview /\ u.open = t.open
<1>1. PICK i \in Nat : i = t.idx
  BY DEF ThemeLists
<1>2. Len(t.rows) \in Nat /\ i \in 1 .. (IF t.rows = <<>> THEN 1 ELSE Len(t.rows)) /\ (t.rows = <<>> => Len(t.rows) = 0)
  BY <1>1 DEF ThemeLists, OnRow
<1>3. \/ u = [t EXCEPT !.idx = i + 1] /\ i < Len(t.rows)
      \/ u = [t EXCEPT !.idx = i - 1] /\ i > 1
      \/ u = t
  BY <1>1 DEF Moved
<1>4. PICK j \in Nat : u = [t EXCEPT !.idx = j] /\ j \in 1 .. (IF t.rows = <<>> THEN 1 ELSE Len(t.rows))
  <2>1. t = [t EXCEPT !.idx = i]
    BY <1>1 DEF ThemeLists
  <2>2. i < Len(t.rows) => i + 1 \in 1 .. (IF t.rows = <<>> THEN 1 ELSE Len(t.rows))
    BY <1>2
  <2>3. i > 1 => i - 1 \in 1 .. (IF t.rows = <<>> THEN 1 ELSE Len(t.rows)) /\ i - 1 \in Nat
    BY <1>2
  <2> QED
    BY <1>1, <1>2, <1>3, <2>1, <2>2, <2>3
<1> QED
  BY <1>4 DEF ThemeLists, OnRow

LEMMA ModelMoved ==
  ASSUME NEW t \in ModelLists, OnRow(t), NEW key, NEW u, u = Moved(t, key)
  PROVE  u \in ModelLists /\ OnRow(u)
<1>1. PICK i \in Nat : i = t.idx
  BY DEF ModelLists
<1>2. Len(t.rows) \in Nat /\ i \in 1 .. (IF t.rows = <<>> THEN 1 ELSE Len(t.rows)) /\ (t.rows = <<>> => Len(t.rows) = 0)
  BY <1>1 DEF ModelLists, OnRow
<1>3. \/ u = [t EXCEPT !.idx = i + 1] /\ i < Len(t.rows)
      \/ u = [t EXCEPT !.idx = i - 1] /\ i > 1
      \/ u = t
  BY <1>1 DEF Moved
<1>4. PICK j \in Nat : u = [t EXCEPT !.idx = j] /\ j \in 1 .. (IF t.rows = <<>> THEN 1 ELSE Len(t.rows))
  <2>1. t = [t EXCEPT !.idx = i]
    BY <1>1 DEF ModelLists
  <2>2. i < Len(t.rows) => i + 1 \in 1 .. (IF t.rows = <<>> THEN 1 ELSE Len(t.rows))
    BY <1>2
  <2>3. i > 1 => i - 1 \in 1 .. (IF t.rows = <<>> THEN 1 ELSE Len(t.rows)) /\ i - 1 \in Nat
    BY <1>2
  <2> QED
    BY <1>1, <1>2, <1>3, <2>1, <2>2, <2>3
<1> QED
  BY <1>4 DEF ModelLists, OnRow

LEMMA Clamped ==
  ASSUME NEW t, t.idx \in Nat \ {0}, NEW S, t.rows \in Seq(S), NEW u, u = ClampSelection(t),
         t \in ThemeLists \/ t \in ModelLists
  PROVE  /\ OnRow(u) /\ u.rows = t.rows
         /\ t \in ThemeLists => u \in ThemeLists /\ u.preview = t.preview /\ u.open = t.open
         /\ t \in ModelLists => u \in ModelLists
<1>1. PICK j \in Nat : u = [t EXCEPT !.idx = j] /\ j \in 1 .. (IF t.rows = <<>> THEN 1 ELSE Len(t.rows))
  <2>1. Len(t.rows) \in Nat /\ (t.rows # <<>> => Len(t.rows) # 0)
    BY EmptySeq, LenProperties
  <2> DEFINE j == IF t.rows = <<>> THEN 1 ELSE IF t.idx > Len(t.rows) THEN Len(t.rows) ELSE t.idx
  <2>2. u = [t EXCEPT !.idx = j]
    BY DEF ClampSelection
  <2>3. j \in Nat /\ j \in 1 .. (IF t.rows = <<>> THEN 1 ELSE Len(t.rows))
    BY <2>1
  <2> QED
    BY <2>2, <2>3
<1>2. CASE t \in ThemeLists
  <2>1. t \notin ModelLists \/ u \in ModelLists
    BY <1>1 DEF ModelLists
  <2> QED
    BY <1>1, <1>2, <2>1 DEF ThemeLists, OnRow
<1>3. CASE t \in ModelLists
  <2>1. t \notin ThemeLists \/ (u \in ThemeLists /\ u.preview = t.preview /\ u.open = t.open)
    BY <1>1 DEF ThemeLists
  <2> QED
    BY <1>1, <1>3, <2>1 DEF ModelLists, OnRow
<1> QED
  BY <1>2, <1>3

LEMMA ThemesFiltered ==
  ASSUME NEW t \in ThemeLists, OnRow(t), NEW was, NEW u, u = UpdateFilteredThemes(t, was)
  PROVE  u \in ThemeLists /\ OnRow(u) /\ u.preview = t.preview /\ u.open = t.open
<1>1. CASE t.filter = was
  BY <1>1 DEF UpdateFilteredThemes
<1>2. CASE t.filter # was
  <2>1. PICK rows \in Seq(ThemeNames) : rows = Matching(Themes, t.filter)
    BY ThemesNamed, MatchingIsTyped
  <2>2. PICK v : v = [t EXCEPT !.rows = rows, !.idx = 1]
    OBVIOUS
  <2>3. v \in ThemeLists /\ v.rows = rows /\ v.idx = 1 /\ v.preview = t.preview /\ v.open = t.open
    BY <2>2 DEF ThemeLists
  <2>4. u = ClampSelection(v)
    BY <1>2, <2>1, <2>2 DEF UpdateFilteredThemes
  <2> QED
    BY <2>3, <2>4, Clamped
<1> QED
  BY <1>1, <1>2

LEMMA PreviewLoaded ==
  ASSUME NEW t \in ThemeLists, OnRow(t), NEW u, u = LoadPreview(t)
  PROVE  u \in ThemeLists /\ OnRow(u) /\ u.open = t.open
<1>1. CASE t.rows = <<>>
  BY <1>1 DEF LoadPreview
<1>2. CASE t.rows # <<>>
  <2>1. PICK p \in ThemeNames : p = t.rows[t.idx]
    <3>1. t.rows \in Seq(ThemeNames) /\ t.idx \in 1 .. Len(t.rows)
      BY <1>2 DEF ThemeLists, OnRow
    <3> QED
      BY <3>1, ElementOfSeq
  <2>2. u = [t EXCEPT !.preview = p]
    BY <1>2, <2>1 DEF LoadPreview
  <2>3. p \in Shown
    BY DEF Shown
  <2> QED
    BY <2>2, <2>3 DEF ThemeLists, OnRow
<1> QED
  BY <1>1, <1>2

(* A key that the selector handles leaves it on a row, and closes it only  *)
(* if it is Esc.                                                           *)
LEMMA ThemeHandled ==
  ASSUME NEW t \in ThemeLists, OnRow(t), NEW key \in ListKeys,
         NEW u, u = Handled(t, key)
  PROVE  /\ u \in ThemeLists /\ OnRow(u)
         /\ u.open <=> (t.open /\ key # <<"esc">>)
<1>1. PICK fl : fl = HandleKey(t, key)
  OBVIOUS
<1>2. PICK next : next = UpdateFilteredThemes(fl, t.filter)
  OBVIOUS
<1>3. PICK moved : moved = Moved(next, key)
  OBVIOUS
<1>4. u = LoadPreview(moved) \/ u = next
  BY <1>1, <1>2, <1>3 DEF Handled
<1>5. fl \in ThemeLists /\ OnRow(fl) /\ fl.preview = t.preview /\ (fl.open <=> (t.open /\ key # <<"esc">>))
  <2>1. fl \in ThemeLists /\ fl.rows = t.rows /\ fl.idx = t.idx /\ fl.preview = t.preview
        /\ (fl.open <=> (t.open /\ key # <<"esc">>))
    BY <1>1, ThemeKeyed
  <2> QED
    BY <2>1 DEF OnRow
<1>6. next \in ThemeLists /\ OnRow(next) /\ next.preview = t.preview /\ next.open = fl.open
  BY <1>2, <1>5, ThemesFiltered
<1>7. moved \in ThemeLists /\ OnRow(moved) /\ moved.preview = t.preview /\ moved.open = fl.open
  BY <1>3, <1>6, ThemeMoved
<1>8. CASE u = LoadPreview(moved)
  <2>1. u \in ThemeLists /\ OnRow(u) /\ u.open = moved.open
    BY <1>7, <1>8, PreviewLoaded
  <2> QED
    BY <1>5, <1>7, <2>1
<1>9. CASE u = next
  BY <1>5, <1>6, <1>9
<1> QED
  BY <1>4, <1>8, <1>9

LEMMA ModelsFiltered ==
  ASSUME NEW t \in ModelLists, NEW rows \in Seq(STRING), NEW u, u = UpdateFilteredModels(t, rows)
  PROVE  u \in ModelLists /\ OnRow(u)
<1>1. PICK j \in Nat : u = [t EXCEPT !.rows = rows, !.idx = j] /\ j \in 1 .. (IF rows = <<>> THEN 1 ELSE Len(rows))
  <2>1. PICK id : id = IF ~t.inFilter /\ t.idx \in DOMAIN t.rows THEN t.rows[t.idx] ELSE ""
    OBVIOUS
  <2> DEFINE at == {i \in DOMAIN rows : rows[i] = id}
             j == IF at = {} THEN 1 ELSE CHOOSE i \in at : TRUE
  <2>2. u = [t EXCEPT !.rows = rows, !.idx = j]
    BY <2>1 DEF UpdateFilteredModels
  <2>3. DOMAIN rows = 1 .. Len(rows) /\ Len(rows) \in Nat /\ (rows # <<>> => Len(rows) # 0)
    BY EmptySeq, LenProperties
  <2>4. j \in Nat /\ j \in 1 .. (IF rows = <<>> THEN 1 ELSE Len(rows))
    <3>1. CASE at = {}
      BY <2>3, <3>1
    <3>2. CASE at # {}
      <4>1. j \in at
        BY <3>2
      <4>2. j \in 1 .. Len(rows)
        BY <2>3, <4>1
      <4>3. rows # <<>>
        BY <2>3, <4>2, EmptySeq
      <4> QED
        BY <2>3, <4>2, <4>3
    <3> QED
      BY <3>1, <3>2
  <2> QED
    BY <2>2, <2>4
<1> QED
  BY <1>1 DEF ModelLists, OnRow

(* What Enter picks of a list that shows rows is one of them.              *)
LEMMA PickIsRow ==
  ASSUME NEW t, NEW S, t.rows \in Seq(S), OnRow(t), t.rows # <<>>
  PROVE  (\E i \in DOMAIN t.rows : t.rows[i] = Pick(t)) /\ Pick(t) \in S
<1>1. DOMAIN t.rows = 1 .. Len(t.rows) /\ Len(t.rows) \in Nat \ {0}
  BY EmptySeq, LenProperties
<1>2. PICK i \in 1 .. Len(t.rows) : Pick(t) = t.rows[i]
  BY <1>1 DEF Pick, OnRow
<1> QED
  BY <1>1, <1>2, ElementOfSeq

Ticks == [theme : Shown, fresh : BOOLEAN]

(* Nothing spent is drawn.                                                 *)
LEMMA SpentIsStale ==
  ASSUME ticks \subseteq Ticks
  PROVE  Spent \subseteq Ticks /\ \A t \in Spent : ~t.fresh
<1>1. PICK no \in BOOLEAN : ~no
  OBVIOUS
<1>2. Spent = {[t EXCEPT !.fresh = no] : t \in ticks}
  BY <1>1 DEF Spent
<1> QED
  BY <1>1, <1>2 DEF Ticks

(***************************************************************************)
(* The invariant.                                                          *)
(***************************************************************************)

(* What is on the lists and where the highlight is; and the theme the      *)
(* terminal believes in is the one it applied, none only while the session *)
(* never had one.                                                          *)
ListsHold ==
  /\ theme \in ThemeLists /\ OnRow(theme) /\ model \in ModelLists /\ OnRow(model)
  /\ \E i \in DOMAIN picked.rows : picked.rows[i] = picked.id
  /\ screen \in Shown /\ submitted \in Seq(ThemeNames)
  /\ applied = active /\ (session = "" => active = "")

(* A tick that will be drawn is of the open selector; and a selector       *)
(* opened while the session's theme was on screen knows the way back.      *)
PreviewsHold ==
  /\ ticks \subseteq Ticks
  /\ \A t \in ticks : t.fresh => theme.open /\ t.theme \in ThemeNames
  /\ theme.open /\ opened # "" =>
       /\ submitted = <<>> /\ session = opened /\ active = opened /\ original = opened
       /\ opened \in ThemeNames /\ previewed \in ThemeNames
       /\ previewed = original => screen = opened

SelectorsInv == ListsHold /\ PreviewsHold

LEMMA SelectorsStart == SelectorsInit => SelectorsInv
<1> SUFFICES ASSUME SelectorsInit PROVE SelectorsInv
  OBVIOUS
<1>0. PICK none \in Shown : none = ""
  BY DEF Shown
<1> PICK yes \in BOOLEAN : yes
  OBVIOUS
<1> PICK no \in BOOLEAN : ~no
  OBVIOUS
<1>2. list \in Seq(STRING)
  BY SelectorsAssumption DEF SelectorsInit
<1>3. PICK rows \in Seq(ThemeNames) : rows = <<>>
  BY EmptySeq
<1>4. theme = [open |-> no, inFilter |-> yes, filter |-> Everything, rows |-> rows, idx |-> 1,
               preview |-> none]
  BY <1>0, <1>3 DEF SelectorsInit
<1>5. model = [open |-> no, inFilter |-> yes, filter |-> Everything, rows |-> list, idx |-> 1,
               loaded |-> list]
  BY DEF SelectorsInit
<1>6. Everything \in FilterSets
  BY DEF FilterSets
<1>7. theme \in ThemeLists /\ OnRow(theme)
  BY <1>3, <1>4, <1>6 DEF ThemeLists, OnRow
<1>8. model \in ModelLists /\ OnRow(model)
  <2>1. Len(list) \in Nat /\ (list # <<>> => Len(list) # 0)
    BY <1>2, EmptySeq, LenProperties
  <2> QED
    BY <1>2, <1>5, <1>6, <2>1 DEF ModelLists, OnRow
<1>9. \E i \in DOMAIN picked.rows : picked.rows[i] = picked.id
  <2>1. PICK rs : rs = <<none>>
    OBVIOUS
  <2>2. picked = [id |-> none, rows |-> rs]
    BY <1>0, <2>1 DEF SelectorsInit
  <2>3. 1 \in DOMAIN rs /\ rs[1] = none
    BY <2>1
  <2>4. picked.rows = rs /\ picked.id = none
    BY <2>2
  <2> QED
    BY <2>3, <2>4
<1>10. /\ screen \in Shown /\ submitted \in Seq(ThemeNames)
       /\ applied = active /\ (session = "" => active = "")
  BY EmptySeq DEF SelectorsInit, Shown
<1>11. ~theme.open /\ ticks = {}
  <2>1. ~theme.open
    BY <1>4
  <2> QED
    BY <2>1 DEF SelectorsInit
<1> QED
  BY <1>7, <1>8, <1>9, <1>10, <1>11 DEF SelectorsInv, ListsHold, PreviewsHold

LEMMA OpenThemesHolds ==
  ASSUME SelectorsInv, OpenThemeSelector PROVE SelectorsInv' /\ NoPreviewStays
<1>0. PICK none \in Shown : none = ""
  BY DEF Shown
<1> PICK yes \in BOOLEAN : yes
  OBVIOUS
<1> DEFINE i == IF active \in ThemeNames THEN CHOOSE j \in DOMAIN Themes : Themes[j] = active ELSE 1
           t == [open |-> TRUE, inFilter |-> TRUE, filter |-> Everything, rows |-> Themes, idx |-> i,
                 preview |-> ""]
<1>1. i = 1 \/ i \in DOMAIN Themes
  BY DEF ThemeNames
<1>2. theme' = LoadPreview(t)
  BY DEF OpenThemeSelector
<1> HIDE DEF i
<1>3. t = [open |-> yes, inFilter |-> yes, filter |-> Everything, rows |-> Themes, idx |-> i,
           preview |-> none]
  BY <1>0
<1> HIDE DEF t
<1>4. t \in ThemeLists /\ OnRow(t) /\ t.open
  <2>1. /\ DOMAIN Themes = 1 .. Len(Themes) /\ Len(Themes) \in Nat
        /\ (Themes # <<>> => Len(Themes) # 0) /\ (Themes = <<>> => Len(Themes) = 0)
    BY ThemesNamed, LenProperties, EmptySeq
  <2>2. i \in Nat /\ i \in 1 .. (IF Themes = <<>> THEN 1 ELSE Len(Themes))
    BY <1>1, <2>1
  <2>3. Everything \in FilterSets
    BY DEF FilterSets
  <2>4. t.rows = Themes /\ t.idx = i /\ t.open
    BY <1>3
  <2>5. t \in ThemeLists
    BY <1>3, <2>2, <2>3, ThemesNamed DEF ThemeLists
  <2> QED
    BY <2>2, <2>4, <2>5 DEF OnRow
<1>5. theme' \in ThemeLists /\ OnRow(theme') /\ theme'.open
  BY <1>2, <1>4, PreviewLoaded
<1>6. ~theme.open /\ original' = active /\ (active \in ThemeNames => previewed' = active)
      /\ UNCHANGED <<screen, applied, active, ticks, submitted, session, model, list, picked>>
  BY DEF OpenThemeSelector
<1>7. opened' # none => /\ opened' = screen /\ screen = session /\ active = session /\ submitted = <<>>
                        /\ screen \in ThemeNames
  BY <1>0 DEF OpenThemeSelector, SelectorsInv, ListsHold, Shown
<1>8. ListsHold'
  BY <1>5, <1>6 DEF SelectorsInv, ListsHold, OnRow
<1>9. PreviewsHold'
  BY <1>0, <1>5, <1>6, <1>7 DEF SelectorsInv, ListsHold, PreviewsHold
<1>10. NoPreviewStays
  BY <1>6 DEF NoPreviewStays
<1> QED
  BY <1>8, <1>9, <1>10 DEF SelectorsInv

LEMMA ThemeKeyHolds ==
  ASSUME SelectorsInv, NEW key \in ListKeys, ThemeKey(key) PROVE SelectorsInv' /\ NoPreviewStays
<1>0. PICK none \in Shown : none = ""
  BY DEF Shown
<1> PICK yes \in BOOLEAN : yes
  OBVIOUS
<1> PICK no \in BOOLEAN : ~no
  OBVIOUS
<1>1. PICK ts : ts = Handled(theme, key)
  OBVIOUS
<1>2. theme.open /\ theme \in ThemeLists /\ OnRow(theme)
  BY DEF SelectorsInv, ListsHold, ThemeKey
<1>3. /\ ts \in ThemeLists /\ OnRow(ts)
      /\ ts.open <=> key # <<"esc">>
  BY <1>1, <1>2, ThemeHandled
<1>4. Spent \subseteq Ticks /\ \A t \in Spent : ~t.fresh
  BY SpentIsStale DEF SelectorsInv, PreviewsHold
<1>5. UNCHANGED <<applied, active, original, session, opened, model, list, picked>>
  BY DEF ThemeKey
<1>6. CASE key = <<"esc">>
  <2>1. /\ Restored /\ theme' = [ts EXCEPT !.preview = none] /\ ticks' = Spent
        /\ UNCHANGED submitted
    BY <1>0, <1>1, <1>6 DEF ThemeKey
  <2>2. theme' \in ThemeLists /\ OnRow(theme') /\ ~theme'.open
    BY <1>3, <1>6, <2>1 DEF ThemeLists, OnRow
  <2>3. ListsHold'
    <3>1. screen' \in Shown
      BY <2>1 DEF Restored, SelectorsInv, ListsHold, Shown
    <3> QED
      BY <1>5, <2>1, <2>2, <3>1 DEF SelectorsInv, ListsHold, OnRow
  <2>4. PreviewsHold'
    BY <1>4, <2>1, <2>2 DEF PreviewsHold
  <2>5. ASSUME opened # none PROVE screen' = opened
    <3>1. /\ original = opened /\ opened \in ThemeNames /\ previewed \in ThemeNames
          /\ previewed = original => screen = opened
      BY <1>0, <1>2, <2>5 DEF SelectorsInv, PreviewsHold
    <3>2. previewed # none
      BY <1>0, <3>1, ThemesNamed
    <3>3. previewed # original => screen' = original
      BY <1>0, <2>1, <3>1, <3>2 DEF Restored
    <3>4. previewed = original => screen' = screen
      BY <2>1 DEF Restored
    <3> QED
      BY <3>1, <3>3, <3>4
  <2>6. NoPreviewStays
    BY <1>0, <1>2, <2>5 DEF NoPreviewStays
  <2> QED
    BY <2>3, <2>4, <2>6 DEF SelectorsInv
<1>7. CASE key # <<"esc">> /\ Picks(theme, key)
  <2>1. PICK p : p = Pick(theme)
    OBVIOUS
  <2>2. /\ theme' = [theme EXCEPT !.open = no, !.preview = p]
        /\ submitted' = Append(submitted, p) /\ ticks' = Spent
        /\ UNCHANGED <<screen, previewed>>
    BY <1>7, <2>1 DEF ThemeKey
  <2>3. p \in ThemeNames
    <3>1. theme.rows \in Seq(ThemeNames) /\ theme.rows # <<>>
      BY <1>2, <1>7 DEF ThemeLists, Picks
    <3> QED
      BY <1>2, <2>1, <3>1, PickIsRow
  <2>4. theme' \in ThemeLists /\ OnRow(theme') /\ ~theme'.open
    <3>1. p \in Shown
      BY <2>3 DEF Shown
    <3> QED
      BY <1>2, <2>2, <3>1 DEF ThemeLists, OnRow
  <2>5. submitted' \in Seq(ThemeNames) /\ submitted' # submitted
    <3>1. submitted \in Seq(ThemeNames)
      BY DEF SelectorsInv, ListsHold
    <3>2. PICK more : more = Append(submitted, p)
      OBVIOUS
    <3>3. more \in Seq(ThemeNames) /\ Len(more) = Len(submitted) + 1 /\ Len(submitted) \in Nat
      BY <2>3, <3>1, <3>2, AppendProperties, LenProperties
    <3>4. more # submitted
      BY <3>3
    <3> QED
      BY <2>2, <3>2, <3>3, <3>4
  <2>6. ListsHold'
    BY <1>5, <2>2, <2>4, <2>5 DEF SelectorsInv, ListsHold, OnRow
  <2>7. PreviewsHold'
    BY <1>4, <2>2, <2>4 DEF PreviewsHold
  <2>8. NoPreviewStays
    BY <1>2, <2>5 DEF NoPreviewStays
  <2> QED
    BY <2>6, <2>7, <2>8 DEF SelectorsInv
<1>8. CASE key # <<"esc">> /\ ~Picks(theme, key)
  <2>1. PICK armed : armed = [theme |-> ts.preview, fresh |-> yes]
    OBVIOUS
  <2>2. /\ theme' = ts /\ (ticks' = ticks \/ (ticks' = Spent \cup {armed} /\ ts.preview # none))
        /\ UNCHANGED <<screen, previewed, submitted>>
    <3>1. [theme |-> ts.preview, fresh |-> TRUE] = armed
      BY <2>1
    <3> QED
      BY <1>0, <1>1, <1>8, <3>1 DEF ThemeKey
  <2>3. armed \in Ticks /\ (ts.preview # none => armed.theme \in ThemeNames)
    <3>1. ts.preview \in Shown
      BY <1>3 DEF ThemeLists
    <3>2. ts.preview # none => ts.preview \in ThemeNames
      BY <1>0, <3>1 DEF Shown
    <3> QED
      BY <2>1, <3>1, <3>2 DEF Ticks
  <2>4. theme'.open
    BY <1>3, <1>8, <2>2
  <2>5. ListsHold'
    BY <1>3, <1>5, <2>2 DEF SelectorsInv, ListsHold, OnRow
  <2>6. ticks' \subseteq Ticks /\ \A t \in ticks' : t.fresh => t.theme \in ThemeNames
    BY <1>4, <2>2, <2>3 DEF SelectorsInv, PreviewsHold
  <2>7. PreviewsHold'
    BY <1>2, <1>3, <1>5, <2>2, <2>4, <2>6 DEF SelectorsInv, PreviewsHold
  <2>8. NoPreviewStays
    BY <1>2, <2>4 DEF NoPreviewStays
  <2> QED
    BY <2>5, <2>7, <2>8 DEF SelectorsInv
<1> QED
  BY <1>6, <1>7, <1>8

LEMMA PreviewTickHolds ==
  ASSUME SelectorsInv, NEW t \in ticks, PreviewTick(t) PROVE SelectorsInv' /\ NoPreviewStays
<1>1. /\ ticks' \subseteq ticks
      /\ UNCHANGED <<theme, applied, active, original, submitted, session, opened, model, list, picked>>
  BY DEF PreviewTick
<1>2. CASE t.fresh
  <2>1. theme.open /\ t.theme \in ThemeNames
    BY <1>2 DEF SelectorsInv, PreviewsHold
  <2>2. screen' = t.theme /\ previewed' = t.theme
    BY <1>2 DEF PreviewTick, HandleThemePreview
  <2>3. ListsHold'
    <3>1. screen' \in Shown
      BY <2>1, <2>2 DEF Shown
    <3> QED
      BY <1>1, <3>1 DEF SelectorsInv, ListsHold, OnRow
  <2>4. PreviewsHold'
    BY <1>1, <2>1, <2>2 DEF SelectorsInv, PreviewsHold
  <2>5. NoPreviewStays
    BY <1>1, <2>1 DEF NoPreviewStays
  <2> QED
    BY <2>3, <2>4, <2>5 DEF SelectorsInv
<1>3. CASE ~t.fresh
  <2>1. UNCHANGED <<screen, previewed>>
    BY <1>3 DEF PreviewTick, HandleThemePreview
  <2>2. ListsHold'
    BY <1>1, <2>1 DEF SelectorsInv, ListsHold, OnRow
  <2>3. PreviewsHold'
    BY <1>1, <2>1 DEF SelectorsInv, PreviewsHold
  <2>4. NoPreviewStays
    BY <1>1, <2>1 DEF NoPreviewStays
  <2> QED
    BY <2>2, <2>3, <2>4 DEF SelectorsInv
<1> QED
  BY <1>2, <1>3

LEMMA ThemeSetHolds ==
  ASSUME SelectorsInv, NEW ok, ThemeSet(ok) PROVE SelectorsInv' /\ NoPreviewStays
<1>0. PICK none \in Shown : none = ""
  BY DEF Shown
<1>1. /\ submitted # <<>>
      /\ UNCHANGED <<theme, screen, applied, active, original, previewed, ticks, opened, model, list, picked>>
  BY DEF ThemeSet
<1>2. (session' = session \/ session' # none) /\ submitted' \in Seq(ThemeNames)
  <2>1. submitted \in Seq(ThemeNames)
    BY DEF SelectorsInv, ListsHold
  <2>2. Head(submitted) \in ThemeNames /\ Tail(submitted) \in Seq(ThemeNames)
    BY <1>1, <2>1, HeadTailProperties
  <2>3. session' = session \/ session' = Head(submitted)
    BY DEF ThemeSet
  <2>4. submitted' = Tail(submitted)
    BY DEF ThemeSet
  <2>5. Head(submitted) # none
    BY <1>0, <2>2, ThemesNamed
  <2> QED
    BY <2>2, <2>3, <2>4, <2>5
<1>3. ListsHold'
  BY <1>0, <1>1, <1>2 DEF SelectorsInv, ListsHold, OnRow
<1>4. PreviewsHold'
  BY <1>1 DEF SelectorsInv, PreviewsHold
<1>5. NoPreviewStays
  BY <1>1 DEF NoPreviewStays
<1> QED
  BY <1>3, <1>4, <1>5 DEF SelectorsInv

LEMMA BeatHolds ==
  ASSUME SelectorsInv, Beat PROVE SelectorsInv' /\ NoPreviewStays
<1>0. PICK none \in Shown : none = ""
  BY DEF Shown
<1>1. /\ active # session \/ applied # session
      /\ active' = session
      /\ UNCHANGED <<theme, original, previewed, ticks, submitted, session, opened, model, list, picked>>
  BY DEF Beat
<1>2. screen \in Shown /\ applied = active /\ session # none
  BY <1>0, <1>1 DEF SelectorsInv, ListsHold
<1>3. /\ applied' = session
      /\ screen' = screen \/ (screen' = session /\ session \in ThemeNames)
  BY <1>0, <1>1, <1>2 DEF Beat
<1>4. ListsHold'
  <2>1. screen' \in Shown
    BY <1>2, <1>3 DEF Shown
  <2> QED
    BY <1>0, <1>1, <1>2, <1>3, <2>1 DEF SelectorsInv, ListsHold, OnRow
<1>5. ~(theme.open /\ opened # none)
  BY <1>0, <1>1, <1>2 DEF SelectorsInv, PreviewsHold
<1>6. PreviewsHold'
  BY <1>0, <1>1, <1>5 DEF SelectorsInv, PreviewsHold
<1>7. NoPreviewStays
  BY <1>1, <1>3 DEF NoPreviewStays
<1> QED
  BY <1>4, <1>6, <1>7 DEF SelectorsInv

(* The steps of the model selector leave the themes alone.                 *)
LEMMA ModelsAside ==
  ASSUME SelectorsInv, model' \in ModelLists, OnRow(model'),
         \E i \in DOMAIN picked'.rows : picked'.rows[i] = picked'.id,
         UNCHANGED <<theme, screen, applied, active, original, previewed, ticks, submitted, session, opened>>
  PROVE  SelectorsInv' /\ NoPreviewStays
<1>1. ListsHold'
  BY DEF SelectorsInv, ListsHold, OnRow
<1>2. PreviewsHold'
  BY DEF SelectorsInv, PreviewsHold
<1>3. NoPreviewStays
  BY DEF NoPreviewStays
<1> QED
  BY <1>1, <1>2, <1>3 DEF SelectorsInv

LEMMA OpenModelsHolds ==
  ASSUME SelectorsInv, OpenModelSelector PROVE SelectorsInv' /\ NoPreviewStays
<1> PICK yes \in BOOLEAN : yes
  OBVIOUS
<1>1. model \in ModelLists
  BY DEF SelectorsInv, ListsHold
<1>2. model' = [model EXCEPT !.open = yes, !.inFilter = yes, !.filter = Everything,
                             !.rows = model.loaded, !.idx = 1]
  BY DEF OpenModelSelector
<1>3. Everything \in FilterSets
  BY DEF FilterSets
<1>4. Len(model.loaded) \in Nat /\ (model.loaded # <<>> => Len(model.loaded) # 0)
  <2>1. model.loaded \in Seq(STRING)
    BY <1>1 DEF ModelLists
  <2> QED
    BY <2>1, EmptySeq, LenProperties
<1>5. model' \in ModelLists /\ OnRow(model')
  <2>1. PICK u : u = [model EXCEPT !.open = yes, !.inFilter = yes, !.filter = Everything,
                                   !.rows = model.loaded, !.idx = 1]
    OBVIOUS
  <2>2. u \in ModelLists /\ u.idx = 1 /\ u.rows = model.loaded
    BY <1>1, <1>3, <2>1 DEF ModelLists
  <2>3. OnRow(u)
    BY <1>4, <2>2 DEF OnRow
  <2> QED
    BY <1>2, <2>1, <2>2, <2>3
<1>6. \E i \in DOMAIN picked'.rows : picked'.rows[i] = picked'.id
  BY DEF OpenModelSelector, SelectorsInv, ListsHold
<1> QED
  BY <1>5, <1>6, ModelsAside DEF OpenModelSelector

LEMMA ModelKeyHolds ==
  ASSUME SelectorsInv, NEW key \in ListKeys, ModelKey(key) PROVE SelectorsInv' /\ NoPreviewStays
<1> PICK no \in BOOLEAN : ~no
  OBVIOUS
<1>1. model \in ModelLists /\ OnRow(model) /\ \E i \in DOMAIN picked.rows : picked.rows[i] = picked.id
  BY DEF SelectorsInv, ListsHold
<1>2. UNCHANGED <<theme, screen, applied, active, original, previewed, ticks, submitted, session, opened>>
  BY DEF ModelKey
<1>3. CASE Picks(model, key)
  <2>1. PICK p : p = Pick(model)
    OBVIOUS
  <2>2. picked' = [id |-> p, rows |-> model.rows] /\ model' = [model EXCEPT !.open = no]
    BY <1>3, <2>1 DEF ModelKey
  <2>3. model' \in ModelLists /\ OnRow(model')
    BY <1>1, <2>2 DEF ModelLists, OnRow
  <2>4. \E i \in DOMAIN model.rows : model.rows[i] = p
    <3>1. model.rows \in Seq(STRING) /\ model.rows # <<>>
      BY <1>1, <1>3 DEF ModelLists, Picks
    <3> QED
      BY <1>1, <2>1, <3>1, PickIsRow
  <2>5. \E i \in DOMAIN picked'.rows : picked'.rows[i] = picked'.id
    BY <2>2, <2>4
  <2> QED
    BY <1>2, <2>3, <2>5, ModelsAside
<1>4. CASE ~Picks(model, key)
  <2>1. PICK fl : fl = HandleKey(model, key)
    OBVIOUS
  <2>2. fl \in ModelLists /\ OnRow(fl)
    <3>1. fl \in ModelLists /\ fl.rows = model.rows /\ fl.idx = model.idx
      BY <1>1, <2>1, ModelKeyed
    <3> QED
      BY <1>1, <3>1 DEF OnRow
  <2>3. PICK rows \in Seq(STRING) : rows = Matching(model.loaded, fl.filter)
    <3>1. model.loaded \in Seq(STRING)
      BY <1>1 DEF ModelLists
    <3> QED
      BY <3>1, MatchingIsTyped
  <2>4. PICK ms : ms = IF fl.filter # model.filter THEN UpdateFilteredModels(fl, rows) ELSE fl
    OBVIOUS
  <2>5. ms \in ModelLists /\ OnRow(ms)
    <3>1. CASE ms = fl
      BY <2>2, <3>1
    <3>2. CASE ms = UpdateFilteredModels(fl, rows)
      BY <2>2, <3>2, ModelsFiltered
    <3> QED
      BY <2>4, <3>1, <3>2
  <2>6. model' = Moved(ms, key) /\ UNCHANGED picked
    BY <1>4, <2>1, <2>3, <2>4 DEF ModelKey
  <2>7. model' \in ModelLists /\ OnRow(model')
    BY <2>5, <2>6, ModelMoved
  <2> QED
    BY <1>1, <1>2, <2>6, <2>7, ModelsAside
<1> QED
  BY <1>3, <1>4

LEMMA LoadModelsHolds ==
  ASSUME SelectorsInv, NEW l \in Lists, LoadModels(l) PROVE SelectorsInv' /\ NoPreviewStays
<1>1. model \in ModelLists /\ OnRow(model) /\ \E i \in DOMAIN picked.rows : picked.rows[i] = picked.id
  BY DEF SelectorsInv, ListsHold
<1>2. UNCHANGED <<theme, screen, applied, active, original, previewed, ticks, submitted, session, opened,
                  picked>>
  BY DEF LoadModels
<1>3. model' \in ModelLists /\ OnRow(model')
  <2>1. CASE l = model.loaded
    BY <1>1, <2>1 DEF LoadModels
  <2>2. CASE l # model.loaded
    <3>1. l \in Seq(STRING)
      BY SelectorsAssumption
    <3>2. PICK rows \in Seq(STRING) : rows = Matching(l, model.filter)
      BY <3>1, MatchingIsTyped
    <3>3. PICK fresh : fresh = [model EXCEPT !.loaded = l]
      OBVIOUS
    <3>4. PICK ms : ms = UpdateFilteredModels(fresh, rows)
      OBVIOUS
    <3>5. fresh \in ModelLists
      BY <1>1, <3>1, <3>3 DEF ModelLists
    <3>6. ms \in ModelLists /\ OnRow(ms)
      BY <3>4, <3>5, ModelsFiltered
    <3>7. PICK held : held = [ms EXCEPT !.idx = model.idx]
      OBVIOUS
    <3>8. model' = ms \/ model' = ClampSelection(held)
      BY <2>2, <3>2, <3>3, <3>4, <3>7 DEF LoadModels
    <3>9. model.idx \in Nat \ {0}
      BY <1>1 DEF ModelLists, OnRow
    <3>10. held \in ModelLists /\ held.idx = model.idx /\ held.rows \in Seq(STRING)
      BY <3>6, <3>7, <3>9 DEF ModelLists
    <3>11. CASE model' = ms
      BY <3>6, <3>11
    <3>12. CASE model' = ClampSelection(held)
      BY <3>9, <3>10, <3>12, Clamped
    <3> QED
      BY <3>8, <3>11, <3>12
  <2> QED
    BY <2>1, <2>2
<1> QED
  BY <1>1, <1>2, <1>3, ModelsAside

LEMMA SelectorsSteps ==
  ASSUME SelectorsInv, [SelectorsNext]_selectorsVars
  PROVE  SelectorsInv' /\ [NoPreviewStays]_selectorsVars
<1>1. CASE OpenThemeSelector
  BY <1>1, OpenThemesHolds
<1>2. CASE OpenModelSelector
  BY <1>2, OpenModelsHolds
<1>3. ASSUME NEW key \in ListKeys, ThemeKey(key) \/ ModelKey(key)
      PROVE  SelectorsInv' /\ NoPreviewStays
  BY <1>3, ThemeKeyHolds, ModelKeyHolds
<1>4. ASSUME NEW t \in ticks, PreviewTick(t) PROVE SelectorsInv' /\ NoPreviewStays
  BY <1>4, PreviewTickHolds
<1>5. ASSUME NEW ok, ThemeSet(ok) PROVE SelectorsInv' /\ NoPreviewStays
  BY <1>5, ThemeSetHolds
<1>6. CASE Beat
  BY <1>6, BeatHolds
<1>7. ASSUME NEW l \in Lists, LoadModels(l) PROVE SelectorsInv' /\ NoPreviewStays
  BY <1>7, LoadModelsHolds
<1>8. CASE UNCHANGED selectorsVars
  BY <1>8 DEF selectorsVars, SelectorsInv, ListsHold, PreviewsHold, OnRow
<1> QED
  BY <1>1, <1>2, <1>3, <1>4, <1>5, <1>6, <1>7, <1>8 DEF SelectorsNext

LEMMA SelectorsAgree == SelectorsInv => HighlightOnRow
BY DEF SelectorsInv, ListsHold, HighlightOnRow, OnRow

(***************************************************************************)
(* The two together.                                                       *)
(***************************************************************************)
LEMMA ModalsHold == ModalsSpec => []DialogInv /\ [][WordsStay]_modalsVars
<1>1. ModalsInit => DialogInv
  BY DialogsStart
<1>2. DialogInv /\ [ModalsNext]_modalsVars => DialogInv' /\ WordsStay
  BY DialogSteps
<1>3. DialogInv /\ [ModalsNext]_modalsVars => [WordsStay]_modalsVars
  BY <1>2
<1>4. DialogInv /\ [ModalsNext]_modalsVars => DialogInv'
  BY <1>2
<1> QED
  BY <1>1, <1>3, <1>4, PTL DEF ModalsSpec

LEMMA SelectorsHold == SelectorsSpec => []SelectorsInv /\ [][NoPreviewStays]_selectorsVars
<1>1. SelectorsInit => SelectorsInv
  BY SelectorsStart
<1>2. SelectorsInv /\ [SelectorsNext]_selectorsVars => SelectorsInv'
  BY SelectorsSteps
<1>3. SelectorsInv /\ [SelectorsNext]_selectorsVars => [NoPreviewStays]_selectorsVars
  BY SelectorsSteps
<1> QED
  BY <1>1, <1>2, <1>3, PTL DEF SelectorsSpec

(* A question of a tool or of an MCP server waits its turn, is in the      *)
(* dialog, or was answered, in exactly one of these and once; the MCP box  *)
(* is open only while something is to come that closes it; with nothing    *)
(* open the lit pane is the one that takes the keys; and the highlight of  *)
(* the theme and the model selector is on a row, and what Enter picked was *)
(* one: through every key, tick, blur and frame of the session (tui.go,    *)
(* keybinds.go, session_state.go, filtered_list.go).                       *)
THEOREM DialogsTellTheTruth == PopupsSpec => []DialogsAgree
<1>1. DialogInv /\ SelectorsInv => DialogsAgree
  BY DialogsHold, SelectorsAgree DEF DialogsAgree
<1> QED
  BY <1>1, ModalsHold, SelectorsHold, PTL DEF PopupsSpec

(* The words in the prompt go only by a key that sends, clears or replaces *)
(* them, or for what the editor returned: a dialog, however it was opened  *)
(* and answered, takes none (the handlers of confirmations in              *)
(* keybinds.go).  And a theme selector opened while the session's theme    *)
(* was on screen and canceled leaves that theme; nothing armed while it    *)
(* was open is drawn after it closed (handleThemeSelectorKeys,             *)
(* handleThemePreview).                                                    *)
THEOREM NothingIsLeftBehind == PopupsSpec => NoTraceStays
BY ModalsHold, SelectorsHold, PTL DEF PopupsSpec, NoTraceStays
=============================================================================
