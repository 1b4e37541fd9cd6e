------------------------------ MODULE AuthFlow ------------------------------
(***************************************************************************)
(* The authorization of MCP servers by an adapter without a terminal: Flow *)
(* runs one goroutine per server, with a callback server and a browser, and*)
(* answers the session with :mcp_confirm or :mcp_decline.  What becomes of *)
(* a server whose browser or callback failed is the adapter's policy.      *)
(*                                                                         *)
(* The session is what Flow hears of it: that a server needs an            *)
(* authorization, that it is connected, that the initialization is over.   *)
(***************************************************************************)
EXTENDS Naturals, Sequences, FiniteSets

CONSTANTS Servers

VARIABLES
  manual,     (* the policy: plainio on a terminal can be typed at        *)
  needs,      (* the session: "quiet", "asked", "settled", for each server*)
  over,       (* the initialization is over                               *)
  flow,       (* each goroutine: "none", "starting", "waiting", "leaving" *)
  halted,     (* run.cancel is closed                                     *)
  listening,  (* the callback server is up                                *)
  slot,       (* the result in resultCh                                   *)
  first,      (* the first genuine outcome of an authorization            *)
  submitted,  (* the commands sent                                        *)
  offered     (* the user was shown the commands to type                  *)

sessionSays == <<needs, over>>
callback == <<listening, slot, first>>
flowVars == <<manual, sessionSays, flow, halted, callback, submitted, offered>>

FlowInit ==
  /\ manual \in BOOLEAN
  /\ needs = [s \in Servers |-> "quiet"] /\ over = FALSE
  /\ flow = [s \in Servers |-> "none"] /\ halted = [s \in Servers |-> FALSE]
  /\ listening = [s \in Servers |-> FALSE] /\ slot = [s \in Servers |-> <<>>]
  /\ first = [s \in Servers |-> "none"]
  /\ submitted = [s \in Servers |-> <<>>] /\ offered = {}

Goes(s, from, to) == flow[s] = from /\ flow' = [flow EXCEPT ![s] = to]

-----------------------------------------------------------------------------
(* The hooks, which the output runs for the frames of the session.         *)

(* A server that has a flow gets no other.                                 *)
Start(s) ==
  IF flow[s] = "none"
  THEN flow' = [flow EXCEPT ![s] = "starting"] /\ halted' = [halted EXCEPT ![s] = FALSE]
  ELSE UNCHANGED <<flow, halted>>

AuthRequired(s) ==
  /\ ~over /\ needs[s] = "quiet" /\ needs' = [needs EXCEPT ![s] = "asked"]
  /\ Start(s)
  /\ UNCHANGED <<manual, over, callback, submitted, offered>>

Stop(set) == halted' = [s \in Servers |-> halted[s] \/ (s \in set /\ flow[s] # "none")]

(* The server was answered, by the flow or by hand, and is connected.      *)
Connected(s) ==
  /\ needs[s] = "asked" /\ needs' = [needs EXCEPT ![s] = "settled"]
  /\ Stop({s})
  /\ UNCHANGED <<manual, over, flow, callback, submitted, offered>>

(* A server that failed is not announced to Flow.                          *)
Fails(s) ==
  /\ needs[s] = "asked" /\ needs' = [needs EXCEPT ![s] = "settled"]
  /\ UNCHANGED <<manual, over, flow, halted, callback, submitted, offered>>

(* MCPStatusDone: all are settled, or the user skips the rest.             *)
Abort ==
  /\ ~over /\ over' = TRUE /\ Stop(Servers)
  /\ UNCHANGED <<manual, needs, flow, callback, submitted, offered>>

-----------------------------------------------------------------------------
(* The callback server of one flow.                                        *)

(* StartCallbackServer; without a listener the result is an error already. *)
Listen(s) ==
  \/ /\ listening' = [listening EXCEPT ![s] = TRUE] /\ slot' = [slot EXCEPT ![s] = <<>>]
     /\ first' = [first EXCEPT ![s] = "none"]
  \/ /\ slot' = [slot EXCEPT ![s] = <<"error">>] /\ first' = [first EXCEPT ![s] = "error"]
     /\ UNCHANGED listening

Concludes_Any(request) == TRUE

(* A stray request, whatever it holds, has not this flow's state.          *)
Concludes(request) == request # "stray"

Request(s, request) ==
  /\ listening[s] /\ Concludes(request)
  /\ LET outcome == IF request = "denied" THEN "error" ELSE "code" IN
     /\ slot' = [slot EXCEPT ![s] = IF @ = <<>> THEN <<outcome>> ELSE @]
     /\ first' = [first EXCEPT ![s] = IF @ = "none" /\ request # "stray" THEN outcome ELSE @]
  /\ UNCHANGED <<manual, sessionSays, flow, halted, listening, submitted, offered>>

-----------------------------------------------------------------------------
(* run.                                                                    *)

Submits(s, command) == submitted' = [submitted EXCEPT ![s] = Append(@, command)]

Unresolved_Waits(s, kept) ==
  /\ Goes(s, flow[s], kept) /\ offered' = offered \cup {s} /\ UNCHANGED submitted

(* unresolvedOrDecline: on a terminal the user may still type the code.    *)
Unresolved(s, kept) ==
  \/ manual /\ Goes(s, flow[s], kept) /\ offered' = offered \cup {s} /\ UNCHANGED submitted
  \/ ~manual /\ Goes(s, flow[s], "leaving") /\ Submits(s, "decline") /\ UNCHANGED offered

(* A callback server, the URL filled, the browser opened.                  *)
Opens(s) ==
  /\ flow[s] = "starting" /\ Listen(s)
  /\ \/ Goes(s, "starting", "waiting") /\ UNCHANGED <<submitted, offered>>
     \/ Goes(s, "starting", "leaving") /\ Submits(s, "decline") /\ UNCHANGED offered
     \/ Unresolved(s, "waiting")
  /\ UNCHANGED <<manual, sessionSays, halted>>

Settles_Confirmed(s) ==
  /\ flow[s] = "waiting" /\ slot[s] # <<>> /\ slot' = [slot EXCEPT ![s] = <<>>]
  /\ Goes(s, "waiting", "leaving") /\ Submits(s, "confirm")
  /\ UNCHANGED <<manual, sessionSays, halted, listening, first, offered>>

Settles(s) ==
  /\ flow[s] = "waiting" /\ slot[s] # <<>> /\ slot' = [slot EXCEPT ![s] = <<>>]
  /\ Goes(s, "waiting", "leaving")
  /\ Submits(s, IF slot[s] = <<"code">> THEN "confirm" ELSE "decline")
  /\ UNCHANGED <<manual, sessionSays, halted, listening, first, offered>>

Stopped(s) ==
  /\ halted[s] /\ Goes(s, "waiting", "leaving")
  /\ UNCHANGED <<manual, sessionSays, halted, callback, submitted, offered>>

(* After the timeout nothing waits any more, whatever the policy says.     *)
TimesOut(s) ==
  /\ flow[s] = "waiting" /\ Unresolved(s, "leaving")
  /\ UNCHANGED <<manual, sessionSays, halted, callback>>

Leaves(s) ==
  /\ Goes(s, "leaving", "none") /\ listening' = [listening EXCEPT ![s] = FALSE]
  /\ UNCHANGED <<manual, sessionSays, halted, slot, first, submitted, offered>>

FlowNext ==
  \/ Abort
  \/ \E s \in Servers :
       \/ AuthRequired(s) \/ Connected(s) \/ Fails(s)
       \/ Opens(s) \/ Settles(s) \/ Stopped(s) \/ TimesOut(s) \/ Leaves(s)
       \/ \E request \in {"stray", "code", "denied"} : Request(s, request)

FlowSpec == FlowInit /\ [][FlowNext]_flowVars

-----------------------------------------------------------------------------
(* Each server the user is asked about is answered once, by the first      *)
(* genuine outcome of its authorization and by no stray request; a flow    *)
(* that leaves without an answer was stopped, or left it to the user with  *)
(* the commands to type, so that no initialization waits for ever on a     *)
(* server nobody answers.                                                  *)
EachIsAnswered ==
  \A s \in Servers :
    /\ Len(submitted[s]) <= 1
    /\ submitted[s] = <<"confirm">> => first[s] = "code"
    /\ needs[s] # "quiet" /\ flow[s] \in {"leaving", "none"} =>
         submitted[s] # <<>> \/ halted[s] \/ (manual /\ s \in offered)
    /\ listening[s] => flow[s] # "none"

FlowTypeOK ==
  /\ {manual, over} \subseteq BOOLEAN
  /\ needs \in [Servers -> {"quiet", "asked", "settled"}]
  /\ flow \in [Servers -> {"none", "starting", "waiting", "leaving"}]
  /\ halted \in [Servers -> BOOLEAN] /\ listening \in [Servers -> BOOLEAN]
  /\ slot \in [Servers -> Seq({"code", "error"})]
  /\ first \in [Servers -> {"none", "code", "error"}]
  /\ submitted \in [Servers -> Seq({"confirm", "decline"})] /\ offered \subseteq Servers
=============================================================================
