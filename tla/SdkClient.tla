----------------------------- MODULE SdkClient ------------------------------
(***************************************************************************)
(* HelixClient of the SDK, against the sessions of the API.  One client    *)
(* serves concurrent requests of one user.  It runs on one thread: what    *)
(* happens between two awaits is one step, and when the shared refresh     *)
(* settles, all requests that await it go on in that step.                 *)
(*                                                                         *)
(* A refresh or login in progress is the call of Sessions that serves it.  *)
(***************************************************************************)
EXTENDS Sessions

CONSTANTS
  Requests,         \* request() calls of the application that may overlap
  NoCall,           \* this.refreshing is null
  User,             \* whose client it is
  MaxAccessExpiries,\* bound: access tokens that run out
  MaxLogins         \* bound: logins after the client lost its tokens

ASSUME ClientAssumption ==
  /\ User \in Users /\ NoCall \notin Calls
  /\ MaxSessions > 0 /\ MaxLogins \in Nat /\ MaxAccessExpiries \in Nat

VARIABLES
  tokens,      \* this.tokens: the session it holds tokens of (0: null)
  refreshing,  \* this.refreshing: the call that serves the refresh
  promise,     \* what the client knows of each call, and the token it sent
  request,     \* where each request stands
  stale,       \* access tokens that have expired
  logins,      \* logins after the first
  signedOut    \* the application has dropped the tokens at some time

client  == <<tokens, refreshing, promise, request, stale, logins, signedOut>>
allVars == <<vars, client>>

Ready  == [at |-> "idle", bearer |-> 0, retry |-> TRUE, awaits |-> NoCall]
Sent(token, retry) == [at |-> "sent", bearer |-> token, retry |-> retry, awaits |-> NoCall]
Unsent == [at |-> "none", token |-> 0]

(* The client is created with the tokens of session 1.                      *)
ClientInit ==
  /\ owner = [s \in Ids |-> IF s = 1 THEN User ELSE NoUser]
  /\ parent = [s \in Ids |-> 0]
  /\ root = [s \in Ids |-> IF s = 1 THEN 1 ELSE 0]
  /\ returned = {1}
  /\ revoked = {} /\ expired = {}
  /\ call = [c \in Calls |-> Idle]
  /\ used = {} /\ replayed = {} /\ raced = {}
  /\ overlapped = {} /\ cut = {} /\ left = {} /\ crossed = {}
  /\ aborts = 0
  /\ tokens = 1
  /\ refreshing = NoCall
  /\ promise = [c \in Calls |-> Unsent]
  /\ request = [q \in Requests |-> Ready]
  /\ stale = {}
  /\ logins = 0
  /\ signedOut = FALSE

Free(c) == call[c].at = "idle" /\ refreshing # c /\ promise[c].at \in {"none", "failed"}

-----------------------------------------------------------------------------
(* request().                                                               *)

(* Without tokens the application sends nothing but login().                *)
Send(q) ==
  /\ request[q].at = "idle"
  /\ tokens # 0
  /\ request' = [request EXCEPT ![q] = Sent(tokens, TRUE)]
  /\ UNCHANGED <<vars, tokens, refreshing, promise, stale, logins, signedOut>>

(* The API answers; the response may take its time to arrive.               *)
Serve(q) ==
  /\ request[q].at = "sent"
  /\ request' = [request EXCEPT ![q].at =
                   IF request[q].bearer \in stale THEN "refused" ELSE "ok"]
  /\ UNCHANGED <<vars, tokens, refreshing, promise, stale, logins, signedOut>>

(* A good answer, a network error, or a 401 nothing can be done about.      *)
Return(q) ==
  /\ \/ request[q].at \in {"sent", "ok"}
     \/ request[q].at = "refused" /\ (~request[q].retry \/ tokens = 0)
  /\ request' = [request EXCEPT ![q] = Ready]
  /\ UNCHANGED <<vars, tokens, refreshing, promise, stale, logins, signedOut>>

Retriable(q) == request[q].at = "refused" /\ request[q].retry /\ tokens # 0

Await(q, c) == request' = [request EXCEPT ![q].at = "waiting", ![q].awaits = c]

(* Mutant: every 401 starts a refresh of its own.                           *)
StartAlone(q, c) ==
  /\ Retriable(q)
  /\ Free(c)
  /\ refreshing' = c
  /\ promise' = [promise EXCEPT ![c] = [at |-> "sent", token |-> tokens]]
  /\ Await(q, c)
  /\ UNCHANGED <<vars, tokens, stale, logins, signedOut>>

(* this.refreshing ??= doRefresh(...), with the tokens held now, which need *)
(* not be those that were refused.                                          *)
StartRefresh(q, c) ==
  /\ Retriable(q)
  /\ refreshing = NoCall
  /\ Free(c)
  /\ refreshing' = c
  /\ promise' = [promise EXCEPT ![c] = [at |-> "sent", token |-> tokens]]
  /\ Await(q, c)
  /\ UNCHANGED <<vars, tokens, stale, logins, signedOut>>

(* Mutant: a request that finds a refresh under way replays at once.        *)
ReplayUnwaited(q) ==
  /\ Retriable(q)
  /\ refreshing # NoCall
  /\ promise[refreshing].at \in {"sent", "served"}
  /\ request' = [request EXCEPT ![q] = Sent(tokens, FALSE)]
  /\ UNCHANGED <<vars, tokens, refreshing, promise, stale, logins, signedOut>>

JoinRefresh(q) ==
  /\ Retriable(q)
  /\ refreshing # NoCall
  /\ promise[refreshing].at \in {"sent", "served"}
  /\ Await(q, refreshing)
  /\ UNCHANGED <<vars, tokens, refreshing, promise, stale, logins, signedOut>>

(* The shared promise was rejected and is still there.                      *)
JoinRejected(q) ==
  /\ Retriable(q)
  /\ refreshing # NoCall
  /\ promise[refreshing].at = "failed"
  /\ tokens' = 0
  /\ request' = [request EXCEPT ![q].at = "reading"]
  /\ UNCHANGED <<vars, refreshing, promise, stale, logins, signedOut>>

(* After a failed refresh: the body of the 401 is read, then the error is   *)
(* thrown; the finally clause clears whatever refresh is there by then.     *)
ThrowRefused(q) ==
  /\ request[q].at = "reading"
  /\ request' = [request EXCEPT ![q] = Ready]
  /\ refreshing' = NoCall
  /\ UNCHANGED <<vars, tokens, promise, stale, logins, signedOut>>

-----------------------------------------------------------------------------
(* doRefresh() and the API behind it.                                       *)

(* The refresh reaches the API, which finds the session or refuses it.      *)
RefreshArrives(c) ==
  /\ promise[c].at = "sent"
  /\ \/ Find(c, promise[c].token)
     \/ promise[c].token \in expired /\ UNCHANGED vars
  /\ promise' = [promise EXCEPT ![c].at = "served"]
  /\ UNCHANGED <<tokens, refreshing, request, stale, logins, signedOut>>

ApiStep(c) ==
  /\ KillAll(c) \/ Revoke(c) \/ (\E s \in Ids : Issue(c, s))
  /\ UNCHANGED client

ApiFails(c) == Abort(c) /\ UNCHANGED client

Waiting(c) == {q \in Requests : request[q].at = "waiting" /\ request[q].awaits = c}

(* Mutant: the new tokens are handed to the requests and not kept.          *)
ResolveWithoutTokens(c) ==
  /\ promise[c].at = "served"
  /\ Answer(c)
  /\ refreshing' = NoCall
  /\ promise' = [promise EXCEPT ![c] = Unsent]
  /\ request' = [q \in Requests |->
                   IF q \in Waiting(c) THEN Sent(tokens, FALSE) ELSE request[q]]
  /\ UNCHANGED <<tokens, stale, logins, signedOut>>

(* The new tokens arrive: they are kept, and every request is replayed once.*)
Resolve(c) ==
  /\ promise[c].at = "served"
  /\ Answer(c)
  /\ tokens' = call[c].session
  /\ refreshing' = NoCall
  /\ promise' = [promise EXCEPT ![c] = Unsent]
  /\ request' = [q \in Requests |->
                   IF q \in Waiting(c) THEN Sent(call[c].session, FALSE) ELSE request[q]]
  /\ UNCHANGED <<stale, logins, signedOut>>

(* Mutant: only the request that started the refresh hears that it failed.  *)
RejectStarter(c) ==
  /\ promise[c].at = "served"
  /\ call[c].at = "idle"
  /\ tokens' = 0
  /\ promise' = [promise EXCEPT ![c] = [at |-> "failed", token |-> 0]]
  /\ \E q \in Waiting(c) : request' = [request EXCEPT ![q].at = "reading"]
  /\ UNCHANGED <<vars, refreshing, stale, logins, signedOut>>

(* The refresh was refused, failed, or its answer was lost.                 *)
Reject(c) ==
  /\ promise[c].at = "served"
  /\ call[c].at = "idle"
  /\ tokens' = 0
  /\ promise' = [promise EXCEPT ![c] = [at |-> "failed", token |-> 0]]
  /\ request' = [q \in Requests |->
                   IF q \in Waiting(c) THEN [request[q] EXCEPT !.at = "reading"] ELSE request[q]]
  /\ UNCHANGED <<vars, refreshing, stale, logins, signedOut>>

-----------------------------------------------------------------------------
(* The application.                                                         *)

(* setTokens(null), also while a refresh is pending; bound: once.           *)
SignOut ==
  /\ tokens # 0
  /\ ~signedOut
  /\ tokens' = 0
  /\ signedOut' = TRUE
  /\ UNCHANGED <<vars, refreshing, promise, request, stale, logins>>

SignIn(c) ==
  /\ tokens = 0
  /\ logins < MaxLogins
  /\ Free(c)
  /\ Login(c, User)
  /\ logins' = logins + 1
  /\ promise' = [promise EXCEPT ![c] = [at |-> "login", token |-> 0]]
  /\ UNCHANGED <<tokens, refreshing, request, stale, signedOut>>

(* setTokens() with what login() returned; or login() failed.               *)
SignedIn(c) ==
  /\ promise[c].at = "login"
  /\ \/ Answer(c) /\ tokens' = call[c].session
     \/ call[c].at = "idle" /\ UNCHANGED <<vars, tokens>>
  /\ promise' = [promise EXCEPT ![c] = Unsent]
  /\ UNCHANGED <<refreshing, request, stale, logins, signedOut>>

AccessExpires(s) ==
  /\ Exists(s)
  /\ s \notin stale
  /\ Cardinality(stale) < MaxAccessExpiries
  /\ stale' = stale \cup {s}
  /\ UNCHANGED <<vars, tokens, refreshing, promise, request, logins, signedOut>>

(* Thirty days without a refresh; the access token ran out long before.     *)
ClientSessionExpires(s) == s \in stale /\ SessionExpires(s) /\ UNCHANGED client

RequestStep(q) ==
  \/ Serve(q) \/ Return(q) \/ JoinRefresh(q) \/ JoinRejected(q) \/ ThrowRefused(q)
  \/ \E c \in Calls : StartRefresh(q, c)

RefreshStep(c) == RefreshArrives(c) \/ ApiStep(c) \/ Resolve(c) \/ Reject(c)

ClientNext ==
  \/ \E q \in Requests : Send(q) \/ RequestStep(q)
  \/ \E c \in Calls : RefreshStep(c) \/ ApiFails(c) \/ SignIn(c) \/ SignedIn(c)
  \/ SignOut
  \/ \E s \in Ids : AccessExpires(s) \/ ClientSessionExpires(s)

(* Requests and refreshes are answered or time out, and the thread goes on. *)
ClientFairness ==
  /\ \A q \in Requests : WF_allVars(RequestStep(q))
  /\ \A c \in Calls : WF_allVars(RefreshStep(c))

ClientSpec == ClientInit /\ [][ClientNext]_allVars /\ ClientFairness

-----------------------------------------------------------------------------
(* Properties.                                                              *)

(* Types; a request that waits does so for a refresh that is under way.     *)
ClientTypeOK ==
  /\ TypeOK
  /\ tokens \in returned \cup {0}
  /\ refreshing \in Calls \cup {NoCall}
  /\ \A c \in Calls : /\ promise[c].at \in {"none", "sent", "served", "failed", "login"}
                      /\ promise[c].token \in returned \cup {0}
  /\ \A q \in Requests :
       /\ request[q].at \in {"idle", "sent", "ok", "refused", "waiting", "reading"}
       /\ request[q].at = "waiting" =>
            request[q].awaits \in Calls /\ promise[request[q].awaits].at \in {"sent", "served"}
  /\ stale \subseteq {s \in Ids : Exists(s)}
  /\ logins \in 0..MaxLogins

(* Twelve parallel calls do not burn twelve refresh tokens: as long as the  *)
(* client has not signed in again, it never presents a refresh token twice, *)
(* so the API's reuse detection never takes it for a thief.                 *)
NeverAccused == logins = 0 => replayed = {}

(* A replay carries another token than the one that was refused.            *)
ReplaysWithNewToken ==
  [][\A q \in Requests :
       request[q].at # "sent" /\ request'[q].at = "sent" /\ ~request'[q].retry
         => request'[q].bearer # request[q].bearer]_allVars

(* Nothing but a failure or the application takes the user's session: when  *)
(* no refresh is pending, the client holds the tokens of a live session.    *)
HonestClientStaysSignedIn ==
  /\ ~signedOut
  /\ aborts = 0
  /\ expired = {}
  /\ \A c \in Calls : promise[c].at \in {"none", "failed"}
  => tokens # 0 /\ Live(tokens)

(* Every request() settles, also those that share a refresh that failed.    *)
EveryRequestReturns ==
  \A q \in Requests : request[q].at # "idle" ~> request[q].at = "idle"
=============================================================================
