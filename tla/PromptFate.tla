----------------------------- MODULE PromptFate -----------------------------
(***************************************************************************)
(* What a session promises about the words a user submits, whatever the    *)
(* task they meet is doing:                                                *)
(*                                                                         *)
(*   - a prompt is run, refused at once, or waits;                         *)
(*   - what waits is settled together, all of it run or all of it dropped; *)
(*   - one task runs at a time, and it does not end, nor does the session  *)
(*     close in order, with words still waiting.                           *)
(*                                                                         *)
(* How a prompt waits (held for MCP, or queued as steering), who settles   *)
(* it and when, is the session's business and not visible here.            *)
(***************************************************************************)
CONSTANT Prompts

VARIABLES
  place,  (* place[p]: "unsent", "waiting", "ran", "refused" or "dropped"  *)
  busy,   (* a task runs                                                   *)
  phase   (* "open", "closed" in order, or "broken"                        *)

avars == <<place, busy, phase>>

Waiting == {p \in Prompts : place[p] = "waiting"}

Move(S, to) == place' = [p \in Prompts |-> IF p \in S THEN to ELSE place[p]]

AInit ==
  /\ place = [p \in Prompts |-> "unsent"]
  /\ busy = FALSE
  /\ phase = "open"

(* A prompt is refused, or waits.                                          *)
Answer(p) ==
  /\ phase = "open" /\ place[p] = "unsent"
  /\ Move({p}, "refused") \/ Move({p}, "waiting")
  /\ UNCHANGED <<busy, phase>>

(* A task begins: with a new prompt, with what was waiting, or with no     *)
(* words at all.                                                           *)
Begin ==
  /\ phase = "open" /\ ~busy
  /\ busy' = TRUE
  /\ \/ Waiting = {} /\ \E p \in Prompts : place[p] = "unsent" /\ Move({p}, "ran")
     \/ Move(Waiting, "ran")
  /\ UNCHANGED phase

(* The running task takes in everything that waits.                        *)
Join ==
  /\ busy /\ Waiting # {}
  /\ Move(Waiting, "ran")
  /\ UNCHANGED <<busy, phase>>

(* What waits is given up.                                                 *)
Drop(to) ==
  /\ Waiting # {}
  /\ Move(Waiting, to)
  /\ UNCHANGED <<busy, phase>>

(* A task ends; words still waiting are dropped with it.                   *)
End ==
  /\ phase = "open" /\ busy
  /\ busy' = FALSE
  /\ Move(Waiting, "dropped")
  /\ UNCHANGED phase

(* The session closes in order, or its output breaks under it.             *)
Close ==
  /\ phase = "open" /\ ~busy /\ Waiting = {}
  /\ phase' = "closed"
  /\ UNCHANGED <<place, busy>>

Break ==
  /\ phase = "open"
  /\ phase' = "broken"
  /\ UNCHANGED <<place, busy>>

ANext ==
  \/ \E p \in Prompts : Answer(p)
  \/ Begin
  \/ Join
  \/ \E to \in {"dropped", "refused"} : Drop(to)
  \/ End
  \/ Close
  \/ Break

ASpec == AInit /\ [][ANext]_avars
=============================================================================
