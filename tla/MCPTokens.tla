----------------------------- MODULE MCPTokens -----------------------------
(***************************************************************************)
(* The OAuth tokens of one MCP server: the file they are kept in, the      *)
(* provider requests take them from, and the authorization server.         *)
(*                                                                         *)
(* A token is numbered by the order it was granted in; it carries the      *)
(* number of its refresh token and the address to refresh it at, or not.   *)
(* Requests run concurrently and the provider's lock covers its memory     *)
(* only: between reading it, refreshing, remembering and writing, others   *)
(* do the same.  The program may stop between any two steps.               *)
(***************************************************************************)
EXTENDS Naturals

CONSTANTS
  Posts,      (* requests that may be on their way at a time               *)
  MaxTokens,  (* bound: tokens the server grants                           *)
  MaxStarts,  (* bound: starts of the program                              *)
  NoToken

TokenSet == [n : Nat, refresh : Nat, full : BOOLEAN]

ASSUME TokensAssumption ==
  MaxTokens \in Nat /\ MaxStarts \in Nat /\ NoToken \notin TokenSet

VARIABLES
  running,         (* the program runs and the server is connected              *)
  starts,
  tokenFile,  (* the token on disk                                         *)
  obtained,   (* config.Auth.obtainedToken: what the program started with  *)
  cached,     (* PersistentTokenProvider.cached                            *)
  endpoint,   (* its RefreshConfig names the token endpoint                *)
  at,         (* where each request is                                     *)
  tok,        (* the token it holds                                        *)
  tries,      (* its POSTs                                                 *)
  refused,    (* the server would not refresh for it, or was not reached   *)
  granted,    (* tokens granted                                            *)
  expired,    (* tokens past their time                                    *)
  revoked,    (* tokens and refresh tokens the server has called back      *)
  spent,      (* refresh tokens a rotation replaced, or never given         *)
  disturbed   (* something came between a refresh and its record           *)

process == <<running, starts, obtained>>
provider == <<cached, endpoint>>
request == <<at, tok, tries, refused>>
authServer == <<granted, expired, revoked, spent>>
tokenVars == <<process, tokenFile, provider, request, authServer, disturbed>>

Token(n, r, full) == [n |-> n, refresh |-> r, full |-> full]

Fresh(t) == t.n \notin expired
Renewable(t) == t.refresh # 0
Accepts(r) == r # 0 /\ r \notin revoked /\ r \notin spent

TokensInit ==
  /\ running = FALSE /\ starts = 0 /\ tokenFile = NoToken /\ obtained = NoToken
  /\ cached = NoToken /\ endpoint = FALSE
  /\ at = [c \in Posts |-> "idle"] /\ tok = [c \in Posts |-> NoToken]
  /\ tries = [c \in Posts |-> 0] /\ refused = [c \in Posts |-> FALSE]
  /\ granted = 0 /\ expired = {} /\ revoked = {} /\ spent = {}
  /\ disturbed = FALSE

-----------------------------------------------------------------------------
(* A start: needsPersistedAuth, the interactive flow if it says so, and    *)
(* the provider Connect builds.                                            *)

Stored == tokenFile # NoToken /\ (Fresh(tokenFile) \/ Renewable(tokenFile))

StartStored ==
  /\ Stored
  /\ obtained' = tokenFile /\ endpoint' = FALSE
  /\ UNCHANGED <<tokenFile, authServer, disturbed>>

(* The write of the file may fail; the connection goes on.                 *)
Authorize ==
  /\ ~Stored /\ granted < MaxTokens
  /\ granted' = granted + 1
  /\ \/ obtained' = Token(granted + 1, granted + 1, TRUE) /\ UNCHANGED spent
     \/ obtained' = Token(granted + 1, 0, TRUE) /\ spent' = spent \cup {granted + 1}
  /\ \/ tokenFile' = obtained' /\ UNCHANGED disturbed
     \/ UNCHANGED tokenFile /\ disturbed' = TRUE
  /\ endpoint' = TRUE
  /\ UNCHANGED <<expired, revoked>>

StartProgram ==
  /\ ~running /\ starts < MaxStarts
  /\ running' = TRUE /\ starts' = starts + 1 /\ cached' = NoToken
  /\ StartStored \/ Authorize
  /\ UNCHANGED request

(* A stop, between any two steps: what a request has not written is lost.  *)
Saving(c) == at[c] \in {"renewed", "keep"}

StopProgram ==
  /\ running /\ running' = FALSE
  /\ disturbed' = (disturbed \/ \E c \in Posts : Saving(c))
  /\ at' = [c \in Posts |-> "idle"] /\ tok' = [c \in Posts |-> NoToken]
  /\ tries' = [c \in Posts |-> 0] /\ refused' = [c \in Posts |-> FALSE]
  /\ UNCHANGED <<starts, tokenFile, obtained, provider, authServer>>

-----------------------------------------------------------------------------
(* PersistentTokenProvider.Token, for request c.                           *)

Resting == {"idle", "post", "again"}
Moves(c, from, to) == running /\ at[c] = from /\ at' = [at EXCEPT ![c] = to]
Holds(c, t) == tok' = [tok EXCEPT ![c] = t]

(* What is held is sent, renewed, or what the program started with is.     *)
Choice(t) == IF Fresh(t) THEN "post" ELSE IF Renewable(t) THEN "refresh" ELSE "inner"

(* doPOSTOnce asks for the token, the first time or after a 401.           *)
AskToken(c) ==
  /\ running /\ at[c] \in {"idle", "again"}
  /\ Holds(c, cached)
  /\ at' = [at EXCEPT ![c] = IF cached = NoToken THEN "load" ELSE Choice(cached)]
  /\ tries' = [tries EXCEPT ![c] = IF at[c] = "idle" THEN 1 ELSE 2]
  /\ refused' = [refused EXCEPT ![c] = FALSE]
  /\ disturbed' = (disturbed \/ \E d \in Posts : Saving(d))
  /\ UNCHANGED <<process, tokenFile, provider, authServer>>

(* tryLoadFromDisk: the file is read, then remembered.  A file that is     *)
(* missing leaves what the program started with.                           *)
LoadToken(c) ==
  /\ Moves(c, "load", IF tokenFile = NoToken THEN "inner" ELSE "loaded")
  /\ Holds(c, tokenFile)
  /\ UNCHANGED <<process, tokenFile, provider, tries, refused, authServer, disturbed>>

RememberLoaded(c) ==
  /\ Moves(c, "loaded", Choice(tok[c]))
  /\ cached' = tok[c] /\ endpoint' = (endpoint \/ tok[c].full)
  /\ UNCHANGED <<process, tokenFile, tok, tries, refused, authServer, disturbed>>

(* refreshToken: what comes of a failure.                                  *)
Falls(c) ==
  /\ at' = [at EXCEPT ![c] = IF at[c] = "refresh" THEN "inner" ELSE "renewed"]
  /\ UNCHANGED tok

(* The token the server grants for an old one; it keeps the refresh token  *)
(* unless the server gave another, and nothing says where to refresh it.   *)
Renewed_OldRefresh(old, rotates) == Token(granted + 1, old.refresh, FALSE)

Renewed(old, rotates) ==
  Token(granted + 1, IF rotates THEN granted + 1 ELSE old.refresh, FALSE)

RefreshToken(c) ==
  /\ running /\ at[c] \in {"refresh", "innerRefresh"}
  /\ \/ ~endpoint /\ Falls(c) /\ UNCHANGED <<refused, authServer, disturbed>>
     \/ /\ endpoint /\ ~Accepts(tok[c].refresh)
        /\ Falls(c) /\ refused' = [refused EXCEPT ![c] = TRUE]
        /\ UNCHANGED <<authServer, disturbed>>
     \/ /\ endpoint /\ Falls(c)            \* not reached
        /\ refused' = [refused EXCEPT ![c] = TRUE] /\ disturbed' = TRUE
        /\ UNCHANGED authServer
     \/ /\ endpoint /\ Accepts(tok[c].refresh) /\ granted < MaxTokens
        /\ granted' = granted + 1
        /\ \E rotates \in BOOLEAN :
             /\ Holds(c, Renewed(tok[c], rotates))
             /\ spent' = spent \cup {IF rotates THEN tok[c].refresh ELSE granted + 1}
        /\ at' = [at EXCEPT ![c] = "renewed"]
        /\ disturbed' = (disturbed \/ \E d \in Posts \ {c} : at[d] \notin Resting)
        /\ UNCHANGED <<refused, expired, revoked>>
  /\ UNCHANGED <<process, tokenFile, provider, tries>>

(* tokenFromInner: the token the program started with.                     *)
FromInner(c) ==
  /\ Moves(c, "inner", IF ~Fresh(obtained) /\ Renewable(obtained) THEN "innerRefresh"
                       ELSE "renewed")
  /\ Holds(c, obtained)
  /\ UNCHANGED <<process, tokenFile, provider, tries, refused, authServer, disturbed>>

SetCached(c) ==
  /\ Moves(c, "renewed", "keep") /\ cached' = tok[c]
  /\ UNCHANGED <<process, tokenFile, endpoint, tok, tries, refused, authServer, disturbed>>

(* persistToken: best effort.                                              *)
Persist(c) ==
  /\ Moves(c, "keep", "post")
  /\ \/ tokenFile' = tok[c] /\ UNCHANGED disturbed
     \/ UNCHANGED tokenFile /\ disturbed' = TRUE
  /\ UNCHANGED <<process, provider, tok, tries, refused, authServer>>

(* doPOST: a 401 is tried once more; a token called back looks valid here. *)
Answered(c) ==
  /\ Moves(c, "post", IF tries[c] = 1 /\ (~Fresh(tok[c]) \/ tok[c].n \in revoked)
                      THEN "again" ELSE "idle")
  /\ tok' = [tok EXCEPT ![c] = NoToken]
  /\ UNCHANGED <<process, tokenFile, provider, tries, refused, authServer, disturbed>>

-----------------------------------------------------------------------------
(* Time, and the authorization server.                                     *)

Expire ==
  /\ \E n \in 1 .. granted : n \notin expired /\ expired' = expired \cup {n}
  /\ UNCHANGED <<process, tokenFile, provider, request, granted, revoked, spent, disturbed>>

Revoke ==
  /\ \E n \in 1 .. granted : n \notin revoked /\ revoked' = revoked \cup {n}
  /\ UNCHANGED <<process, tokenFile, provider, request, granted, expired, spent, disturbed>>

PostStep(c) ==
  \/ AskToken(c) \/ LoadToken(c) \/ RememberLoaded(c) \/ RefreshToken(c) \/ FromInner(c)
  \/ SetCached(c) \/ Persist(c) \/ Answered(c)

TokensNext == StartProgram \/ StopProgram \/ Expire \/ Revoke \/ \E c \in Posts : PostStep(c)

TokensSpec == TokensInit /\ [][TokensNext]_tokenVars

-----------------------------------------------------------------------------
(* Properties.                                                             *)

(* While nothing comes between a refresh and its record, and the endpoint  *)
(* answers, the refresh token the server still takes is on file or about to*)
(* be written: no order of expiries, calls-back, requests, fallbacks to an *)
(* older token and starts loses it (Token, tokenFromInner, persistToken).  *)
TokenKept ==
  ~disturbed => \A r \in 1 .. granted : Accepts(r) =>
    \/ tokenFile # NoToken /\ tokenFile.refresh = r
    \/ \E c \in Posts : Saving(c) /\ tok[c].refresh = r

(* docs/oauth.md:281 "On restart, tokens are loaded from disk. If the      *)
(* stored token is expired, it is refreshed automatically without user     *)
(* interaction."  An expired token with a refresh token is sent as it is   *)
(* only when the server would not refresh it or was not reached.           *)
RefreshedAutomatically ==
  [][\A c \in Posts :
       at[c] = "innerRefresh" /\ at'[c] = "renewed" /\ tok'[c] = tok[c] => refused'[c]]_tokenVars
=============================================================================
