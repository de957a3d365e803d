-------------------------- MODULE SdkClientProofs ---------------------------
(* Theorems about SdkClient, for every number of requests, calls, sessions, *)
(* expiries, failures and logins.                                           *)
EXTENDS SdkClient, SessionsProofs

PromiseStates == [at : {"none", "sent", "served", "failed", "login"}, token : Ids \cup {0}]

RequestStates ==
  [at : {"idle", "sent", "ok", "refused", "waiting", "reading"},
   bearer : Ids \cup {0}, retry : BOOLEAN, awaits : Calls \cup {NoCall}]

(* What the type invariant leaves out: the shapes of its functions, and     *)
(* that a bearer is a token the client was given.                           *)
ClientShape ==
  /\ promise \in [Calls -> PromiseStates]
  /\ request \in [Requests -> RequestStates]
  /\ \A q \in Requests : request[q].bearer \in returned \cup {0}

(* A session about to be handed out was handed to nobody before, and is     *)
(* handed out by one call.                                                  *)
HandedOutOnce ==
  \A c \in Calls : call[c].at = "answer" =>
    /\ call[c].session \notin returned
    /\ \A d \in Calls \ {c} : call[d].at = "answer" => call[d].session # call[c].session

TypeInv == ClientTypeOK /\ ClientShape /\ HandedOutOnce

-----------------------------------------------------------------------------
(* The client holds the tokens of session 1, and nothing is in progress.    *)
LEMMA InitTypeInv == ClientInit => TypeInv
<1> SUFFICES ASSUME ClientInit PROVE TypeInv
  OBVIOUS
<1> USE SessionsAssumption, ClientAssumption DEF ClientInit
<1>1. 1 \in Ids /\ User # NoUser
  BY DEF Ids
<1>2. TypeOK
  BY <1>1 DEF TypeOK, Idle, Exists
<1>3. ClientTypeOK
  BY <1>1, <1>2 DEF ClientTypeOK, Unsent, Ready
<1>4. ClientShape
  BY <1>1 DEF ClientShape, PromiseStates, RequestStates, Unsent, Ready
<1>5. HandedOutOnce
  BY DEF HandedOutOnce, Idle
<1>6. QED BY <1>3, <1>4, <1>5 DEF TypeInv

(* What the client does is a step of the API's, or none.                    *)
LEMMA ClientStepsAreApiSteps ==
  ASSUME ClientTypeOK, [ClientNext]_allVars PROVE [Next]_vars
<1> USE DEF Next, CallStep
<1>1. ASSUME NEW q \in Requests, Send(q) \/ RequestStep(q) PROVE UNCHANGED vars
  BY <1>1 DEF Send, RequestStep, Serve, Return, JoinRefresh, JoinRejected, ThrowRefused,
              StartRefresh
<1>2. ASSUME NEW c \in Calls, RefreshArrives(c) PROVE [Next]_vars
  <2>1. promise[c].token \in Ids \/ ~Find(c, promise[c].token)
    BY DEF ClientTypeOK, TypeOK, Find
  <2>2. QED BY <1>2, <2>1 DEF RefreshArrives
<1>3. ASSUME NEW c \in Calls, ApiStep(c) \/ ApiFails(c) \/ Resolve(c) \/ Reject(c)
      PROVE [Next]_vars
  BY <1>3 DEF ApiStep, ApiFails, Resolve, Reject
<1>4. ASSUME NEW c \in Calls, SignIn(c) \/ SignedIn(c) PROVE [Next]_vars
  BY <1>4, ClientAssumption DEF SignIn, SignedIn
<1>5. ASSUME NEW s \in Ids, AccessExpires(s) \/ ClientSessionExpires(s) PROVE [Next]_vars
  BY <1>5 DEF AccessExpires, ClientSessionExpires
<1>6. CASE SignOut \/ UNCHANGED allVars
  BY <1>6 DEF SignOut, allVars
<1>7. QED BY <1>1, <1>2, <1>3, <1>4, <1>5, <1>6 DEF ClientNext, RefreshStep

(* The steps of the API that the client does not see.                       *)
Unseen(c) == ApiStep(c) \/ ApiFails(c)

(* Where a request stands may change, and what it awaits.                   *)
LEMMA AwaitShape ==
  ASSUME ClientShape, NEW q \in Requests, NEW c \in Calls \cup {NoCall},
         NEW at \in {"ok", "refused", "waiting", "reading"}
  PROVE  /\ [request EXCEPT ![q].at = at] \in [Requests -> RequestStates]
         /\ [request EXCEPT ![q].at = at, ![q].awaits = c] \in [Requests -> RequestStates]
<1>1. ASSUME NEW f \in [Requests -> RequestStates]
      PROVE  /\ [f EXCEPT ![q].at = at] \in [Requests -> RequestStates]
             /\ [f EXCEPT ![q].awaits = c] \in [Requests -> RequestStates]
  BY DEF RequestStates
<1>2. QED BY <1>1 DEF ClientShape

(* A step that moves one request, and changes nothing of the API.           *)
LEMMA RequestFrame ==
  ASSUME TypeInv, NEW q \in Requests,
         UNCHANGED <<vars, promise, stale, logins>>,
         tokens' \in returned \cup {0}, refreshing' \in Calls \cup {NoCall},
         \A p \in Requests \ {q} : request'[p] = request[p],
         request' \in [Requests -> RequestStates],
         request'[q].bearer \in returned \cup {0},
         request'[q].at = "waiting" =>
           request'[q].awaits \in Calls /\ promise[request'[q].awaits].at \in {"sent", "served"}
  PROVE  ClientTypeOK' /\ ClientShape'
<1> USE DEF TypeInv, ClientTypeOK, ClientShape
<1>1. UNCHANGED <<owner, returned, promise, stale, logins>> /\ TypeOK'
  BY DEF vars, rows, TypeOK, history, Exists, Lineage
<1>2. \A p \in Requests :
        /\ request'[p] \in RequestStates
        /\ request'[p].bearer \in returned \cup {0}
        /\ request'[p].at = "waiting" =>
            request'[p].awaits \in Calls /\ promise[request'[p].awaits].at \in {"sent", "served"}
  OBVIOUS
<1>3. \A p \in Requests :
        request'[p].at \in {"idle", "sent", "ok", "refused", "waiting", "reading"}
  BY <1>2 DEF RequestStates
<1>4. QED BY <1>1, <1>2, <1>3 DEF Exists

(* A request that learns of a failed refresh reads the body of its 401.     *)
LEMMA StartsReading ==
  ASSUME NEW s \in RequestStates
  PROVE  /\ [s EXCEPT !.at = "reading"] \in RequestStates
         /\ [s EXCEPT !.at = "reading"].at = "reading"
         /\ [s EXCEPT !.at = "reading"].bearer = s.bearer
BY DEF RequestStates

(* The requests after a refresh failed: those that waited for it read, the  *)
(* others are where they were.                                              *)
LEMMA RejectedRequests ==
  ASSUME ClientShape, NEW c \in Calls, Reject(c), NEW p \in Requests
  PROVE  \/ request'[p] = request[p] /\ (request[p].at = "waiting" => request[p].awaits # c)
         \/ /\ request'[p] \in RequestStates /\ request'[p].at = "reading"
            /\ request'[p].bearer = request[p].bearer
<1>1. request'[p] = IF p \in Waiting(c) THEN [request[p] EXCEPT !.at = "reading"] ELSE request[p]
  BY DEF Reject
<1>2. request[p] \in RequestStates
  BY DEF ClientShape
<1>3. CASE p \in Waiting(c)
  BY <1>1, <1>2, <1>3, StartsReading
<1>4. CASE p \notin Waiting(c)
  BY <1>1, <1>4 DEF Waiting
<1>5. QED BY <1>3, <1>4

(* No action takes a variable of the client out of its type.                *)
LEMMA NextClientShape ==
  ASSUME TypeInv, TypeOK', [ClientNext]_allVars PROVE ClientTypeOK' /\ ClientShape'
<1>0. \A q \in Requests, c \in Calls \cup {NoCall}, at \in {"ok", "refused", "waiting", "reading"} :
        /\ [request EXCEPT ![q].at = at] \in [Requests -> RequestStates]
        /\ [request EXCEPT ![q].at = at, ![q].awaits = c] \in [Requests -> RequestStates]
  BY AwaitShape DEF TypeInv
<1> USE ClientAssumption
    DEF TypeInv, ClientTypeOK, ClientShape, PromiseStates, RequestStates
<1>1. TypeOK /\ returned \subseteq Ids
  BY DEF TypeOK
<1>2. ASSUME NEW q \in Requests, Send(q) \/ Return(q) \/ ThrowRefused(q)
      PROVE ClientTypeOK' /\ ClientShape'
  <2>1. Sent(tokens, TRUE) \in RequestStates /\ Ready \in RequestStates
    BY <1>1 DEF Sent, Ready
  <2>2. PICK r : /\ request' = [request EXCEPT ![q] = r]
                 /\ r \in RequestStates /\ r.bearer \in {0, tokens} /\ r.at # "waiting"
    <3>1. CASE Send(q)
      BY <2>1, <3>1 DEF Send, Sent
    <3>2. CASE Return(q) \/ ThrowRefused(q)
      BY <2>1, <3>2 DEF Return, ThrowRefused, Ready
    <3>3. QED BY <1>2, <3>1, <3>2
  <2>3. /\ UNCHANGED <<vars, promise, stale, logins, tokens>>
        /\ refreshing' \in {refreshing, NoCall}
    BY <1>2 DEF Send, Return, ThrowRefused
  <2>4. QED BY <2>2, <2>3, RequestFrame
<1>3. ASSUME NEW q \in Requests, Serve(q) \/ JoinRefresh(q) \/ JoinRejected(q)
      PROVE ClientTypeOK' /\ ClientShape'
  <2>1. PICK at \in {"ok", "refused", "waiting", "reading"}, awaits \in Calls \cup {NoCall} :
          /\ \/ request' = [request EXCEPT ![q].at = at] /\ awaits = request[q].awaits
             \/ request' = [request EXCEPT ![q].at = at, ![q].awaits = awaits]
          /\ at = "waiting" => awaits \in Calls /\ promise[awaits].at \in {"sent", "served"}
    <3>1. CASE Serve(q)
      <4>1. request' = [request EXCEPT ![q].at = "ok"] \/ request' = [request EXCEPT ![q].at = "refused"]
        BY <3>1 DEF Serve
      <4>2. QED BY <4>1
    <3>2. CASE JoinRefresh(q)
      BY <3>2 DEF JoinRefresh, Await
    <3>3. CASE JoinRejected(q)
      BY <3>3 DEF JoinRejected
    <3>4. QED BY <1>3, <3>1, <3>2, <3>3
  <2>2. /\ UNCHANGED <<vars, promise, stale, logins, refreshing>>
        /\ tokens' \in {tokens, 0}
    BY <1>3 DEF Serve, JoinRefresh, JoinRejected
  <2>3. /\ \A p \in Requests \ {q} : request'[p] = request[p]
        /\ request'[q].bearer = request[q].bearer
        /\ request'[q].at = at /\ request'[q].awaits = awaits
    BY <2>1
  <2>4. request' \in [Requests -> RequestStates]
    <3>1. /\ [request EXCEPT ![q].at = at] \in [Requests -> RequestStates]
          /\ [request EXCEPT ![q].at = at, ![q].awaits = awaits] \in [Requests -> RequestStates]
      BY <1>0
    <3>2. CASE request' = [request EXCEPT ![q].at = at]
      BY <3>1, <3>2
    <3>3. CASE request' = [request EXCEPT ![q].at = at, ![q].awaits = awaits]
      BY <3>1, <3>3
    <3>4. QED BY <2>1, <3>2, <3>3
  <2>5. QED BY <2>1, <2>2, <2>3, <2>4, RequestFrame
<1>4. ASSUME NEW q \in Requests, NEW c \in Calls, StartRefresh(q, c)
      PROVE ClientTypeOK' /\ ClientShape'
  <2>1. /\ UNCHANGED <<vars, tokens, stale, logins>> /\ refreshing' = c
        /\ promise' = [promise EXCEPT ![c] = [at |-> "sent", token |-> tokens]]
        /\ promise[c].at \notin {"sent", "served"}
        /\ \A p \in Requests \ {q} : request'[p] = request[p]
        /\ request' \in [Requests -> RequestStates]
        /\ request'[q].bearer = request[q].bearer
        /\ request'[q].at = "waiting" /\ request'[q].awaits = c
    <3>1. request' = [request EXCEPT ![q].at = "waiting", ![q].awaits = c]
      BY <1>4 DEF StartRefresh, Await
    <3>2. request' \in [Requests -> RequestStates]
      BY <1>0, <3>1
    <3>3. QED BY <1>4, <3>1, <3>2 DEF StartRefresh, Free
  <2>2. UNCHANGED <<owner, returned>>
    BY <2>1 DEF vars, rows
  <2>3. promise' \in [Calls -> PromiseStates] /\ \A d \in Calls :
          /\ promise'[d].token \in returned \cup {0}
          /\ promise'[d].at = IF d = c THEN "sent" ELSE promise[d].at
    BY <1>1, <2>1
  <2>4. \A p \in Requests :
          /\ request'[p] \in RequestStates
          /\ request'[p].bearer \in returned \cup {0}
          /\ request'[p].at = "waiting" =>
               request'[p].awaits \in Calls /\ promise'[request'[p].awaits].at \in {"sent", "served"}
    BY <2>1, <2>3
  <2>5. QED BY <2>1, <2>2, <2>3, <2>4 DEF Exists
<1>5. ASSUME NEW c \in Calls, RefreshArrives(c) PROVE ClientTypeOK' /\ ClientShape'
  BY <1>1, <1>5 DEF RefreshArrives, Find, vars, rows, Exists
<1>6. ASSUME NEW c \in Calls, Unseen(c) PROVE ClientTypeOK' /\ ClientShape'
  <2>1. UNCHANGED <<client, returned>> /\ \A s \in Ids : Exists(s) => Exists(s)'
    <3>1. ASSUME NEW s \in Ids, Issue(c, s)
          PROVE UNCHANGED returned /\ \A t \in Ids : Exists(t) => Exists(t)'
      BY <1>1, <3>1 DEF Issue, Exists, TypeOK
    <3>2. QED BY <1>6, <3>1 DEF Unseen, ApiStep, ApiFails, KillAll, Revoke, Abort, Step, rows, Exists
  <2>2. QED BY <1>1, <2>1 DEF client
<1>7. ASSUME NEW c \in Calls, Resolve(c) PROVE ClientTypeOK' /\ ClientShape'
  <2>1. /\ call[c].session \in Ids /\ returned' = returned \cup {call[c].session}
        /\ UNCHANGED <<owner, stale, logins>>
        /\ tokens' = call[c].session /\ refreshing' = NoCall
        /\ promise' = [promise EXCEPT ![c] = Unsent]
    BY <1>7 DEF Resolve, Answer, rows, TypeOK
  <2>2. \A p \in Requests :
          IF p \in Waiting(c)
            THEN request'[p] = Sent(call[c].session, FALSE)
            ELSE request'[p] = request[p]
    BY <1>7 DEF Resolve
  <2>3. request' \in [Requests -> RequestStates]
    <3>1. request' = [p \in Requests |-> request'[p]]
      BY <1>7 DEF Resolve
    <3>2. \A p \in Requests : request'[p] \in RequestStates
      <4>1. ASSUME NEW p \in Requests, p \in Waiting(c) PROVE request'[p] \in RequestStates
        <5>1. Sent(call[c].session, FALSE) \in RequestStates
          BY <2>1 DEF Sent
        <5>2. QED BY <2>2, <4>1, <5>1
      <4>2. ASSUME NEW p \in Requests, p \notin Waiting(c) PROVE request'[p] \in RequestStates
        <5>1. request'[p] = request[p]
          BY <2>2, <4>2
        <5>2. request \in [Requests -> RequestStates]
          BY DEF ClientShape
        <5>3. QED BY <5>1, <5>2
      <4>3. QED BY <4>1, <4>2
    <3>3. QED BY <3>1, <3>2
  <2>4. \A p \in Requests :
          /\ request'[p].bearer \in returned' \cup {0}
          /\ request'[p].at = "waiting" =>
               request'[p].awaits \in Calls /\ promise'[request'[p].awaits].at \in {"sent", "served"}
    BY <2>1, <2>2 DEF Waiting, Sent
  <2>5. promise' \in [Calls -> PromiseStates] /\ \A d \in Calls : promise'[d].token \in returned' \cup {0}
    BY <2>1 DEF Unsent
  <2>6. QED BY <2>1, <2>3, <2>4, <2>5 DEF Exists
<1>8. ASSUME NEW c \in Calls, Reject(c) PROVE ClientTypeOK' /\ ClientShape'
  <2>1. /\ promise' = [promise EXCEPT ![c] = [at |-> "failed", token |-> 0]]
        /\ tokens' = 0 /\ UNCHANGED <<vars, refreshing, stale, logins>>
    BY <1>8 DEF Reject
  <2>2. UNCHANGED <<owner, returned>>
    BY <2>1 DEF vars, rows
  <2>3. /\ promise' \in [Calls -> PromiseStates]
        /\ \A d \in Calls : promise'[d].token \in returned' \cup {0}
        /\ \A d \in Calls \ {c} : promise'[d] = promise[d]
    BY <2>1, <2>2
  <2>5. ASSUME NEW p \in Requests
        PROVE  /\ request'[p] \in RequestStates
               /\ request'[p].bearer \in returned \cup {0}
               /\ request'[p].at = "waiting" =>
                    /\ request'[p].awaits \in Calls \ {c}
                    /\ promise[request'[p].awaits].at \in {"sent", "served"}
    <3>1. CASE request'[p] = request[p] /\ (request[p].at = "waiting" => request[p].awaits # c)
      BY <3>1
    <3>2. CASE /\ request'[p] \in RequestStates /\ request'[p].at = "reading"
               /\ request'[p].bearer = request[p].bearer
      BY <3>2
    <3>3. QED BY <1>8, <3>1, <3>2, RejectedRequests
  <2>6. request' \in [Requests -> RequestStates]
    <3>1. request' = [p \in Requests |-> request'[p]]
      BY <1>8 DEF Reject
    <3>2. QED BY <2>5, <3>1
  <2>7. QED BY <2>1, <2>2, <2>3, <2>5, <2>6 DEF Exists
<1>9. ASSUME NEW c \in Calls, SignIn(c) PROVE ClientTypeOK' /\ ClientShape'
  BY <1>1, <1>9 DEF SignIn, Free, Login, rows, Exists
<1>10. ASSUME NEW c \in Calls, SignedIn(c) PROVE ClientTypeOK' /\ ClientShape'
  BY <1>1, <1>10 DEF SignedIn, Answer, Unsent, TypeOK, vars, rows, Exists
<1>11. ASSUME NEW s \in Ids, AccessExpires(s) \/ ClientSessionExpires(s)
       PROVE ClientTypeOK' /\ ClientShape'
  BY <1>1, <1>11 DEF AccessExpires, ClientSessionExpires, SessionExpires, client, vars, rows, Exists
<1>12. CASE SignOut \/ UNCHANGED allVars
  BY <1>1, <1>12 DEF SignOut, allVars, client, vars, rows, Exists
<1>13. QED BY <1>2, <1>3, <1>4, <1>5, <1>6, <1>7, <1>8, <1>9, <1>10, <1>11, <1>12
         DEF ClientNext, RequestStep, RefreshStep, Unseen

(* Every session is issued by one call and returned by it.                  *)
LEMMA NextHandedOutOnce ==
  ASSUME TypeOK, HandedOutOnce, [Next]_vars PROVE HandedOutOnce'
<1> USE DEF HandedOutOnce, TypeOK
<1>1. ASSUME NEW c \in Calls, NEW s \in Ids, Issue(c, s) PROVE HandedOutOnce'
  <2>1. /\ s \notin returned
        /\ \A d \in Calls : call[d].session = s => call[d].at # "answer"
        /\ call'[c].session = s
        /\ \A d \in Calls \ {c} : call'[d] = call[d]
        /\ UNCHANGED returned
    <3>1. owner[s] = NoUser
      BY <1>1 DEF Issue, Exists
    <3>2. \A d \in Calls : call[d].session = s => call[d].at \notin {"issue", "answer"}
      BY <3>1, SessionsAssumption DEF Ids, Idle
    <3>3. QED BY <1>1, <3>1, <3>2 DEF Issue, Exists
  <2>2. QED BY <2>1
<1>2. ASSUME NEW c \in Calls, Answer(c) PROVE HandedOutOnce'
  BY <1>2 DEF Answer, Idle
<1>3. ASSUME NEW c \in Calls, KillAll(c) \/ Revoke(c) \/ Abort(c) PROVE HandedOutOnce'
  BY <1>3 DEF KillAll, Revoke, Step, Abort, Idle
<1>4. ASSUME NEW c \in Calls, NEW u \in Users, Login(c, u) PROVE HandedOutOnce'
  BY <1>4 DEF Login, Enter
<1>5. ASSUME NEW c \in Calls, NEW s \in Ids, Find(c, s) PROVE HandedOutOnce'
  BY <1>5 DEF Find, Enter
<1>6. ASSUME NEW s \in Ids, Logout(s) \/ SessionExpires(s) PROVE HandedOutOnce'
  BY <1>6 DEF Logout, SessionExpires
<1>7. CASE UNCHANGED vars
  BY <1>7 DEF vars
<1>8. QED BY <1>1, <1>2, <1>3, <1>4, <1>5, <1>6, <1>7 DEF Next, CallStep

(* The types, and the one call that hands a session out, are inductive.      *)
LEMMA NextTypeInv == TypeInv /\ [ClientNext]_allVars => TypeInv'
<1> SUFFICES ASSUME TypeInv, [ClientNext]_allVars PROVE TypeInv'
  OBVIOUS
<1>1. ClientTypeOK /\ TypeOK /\ HandedOutOnce
  BY DEF TypeInv, ClientTypeOK
<1>2. [Next]_vars
  BY <1>1, ClientStepsAreApiSteps
<1>3. TypeOK' /\ HandedOutOnce'
  BY <1>1, <1>2, NextTypeOK, NextHandedOutOnce
<1>4. QED BY <1>3, NextClientShape DEF TypeInv

(* So they hold throughout.                                                 *)
LEMMA TypeInvHolds == ClientSpec => []TypeInv
  BY InitTypeInv, NextTypeInv, PTL DEF ClientSpec

(* Types; a request that waits does so for a refresh that is under way, so  *)
(* none is left behind when a shared refresh settles, however many share it.*)
THEOREM ClientTypeCorrect == ClientSpec => []ClientTypeOK
<1>1. TypeInv => ClientTypeOK
  BY DEF TypeInv
<1>2. QED BY <1>1, TypeInvHolds, PTL

-----------------------------------------------------------------------------
(* NeverAccused.  Before the client signs in again there is one refresh at  *)
(* a time; the token it holds is unused, or the one being refreshed; and    *)
(* once a refresh failed it has none.                                       *)

Pending(c) == promise[c].at \in {"sent", "served"}

OneRefreshAtATime ==
  /\ \A c \in Calls : Pending(c) => refreshing = c
  /\ \A c \in Calls : call[c].at # "idle" => promise[c].at = "served"

FailedForGood ==
  (\E c \in Calls : promise[c].at = "failed") \/ (\E q \in Requests : request[q].at = "reading")
    => tokens = 0 /\ \A c \in Calls : ~Pending(c)

UnusedTokens ==
  /\ tokens \in used => \E c \in Calls : promise[c].at = "served"
  /\ \A c \in Calls :
       /\ promise[c].at = "sent" => promise[c].token \notin used
       /\ call[c].at = "answer" => call[c].session \notin used

AccusedInv ==
  logins = 0 =>
    /\ \A c \in Calls : promise[c].at # "login"
    /\ OneRefreshAtATime
    /\ FailedForGood
    /\ UnusedTokens
    /\ replayed = {}

(* Nothing was presented yet.                                               *)
LEMMA InitAccusedInv == ClientInit => AccusedInv
  BY DEF ClientInit, AccusedInv, OneRefreshAtATime, FailedForGood, UnusedTokens, Pending,
         Unsent, Idle, Ready

(* A step of one request only.                                              *)
LEMMA AccusedFrame ==
  ASSUME AccusedInv, NEW q \in Requests,
         UNCHANGED <<call, used, replayed, promise, logins, tokens>>,
         refreshing' = refreshing \/ \A c \in Calls : ~Pending(c),
         \A p \in Requests : request'[p].at = "reading" => request[p].at = "reading"
  PROVE  AccusedInv'
BY DEF AccusedInv, OneRefreshAtATime, FailedForGood, UnusedTokens, Pending

(* Requests, refreshes and the API keep it so.                              *)
LEMMA NextAccusedInv == TypeInv /\ AccusedInv /\ [ClientNext]_allVars => AccusedInv'
<1> SUFFICES ASSUME TypeInv, AccusedInv, [ClientNext]_allVars, logins' = 0 PROVE AccusedInv'
  BY DEF AccusedInv
<1>1. /\ promise \in [Calls -> PromiseStates] /\ request \in [Requests -> RequestStates]
      /\ \A c \in Calls : call[c].at = "idle" => call[c] = Idle
      /\ used \subseteq {s \in Ids : Exists(s)}
      /\ call \in [Calls -> [at : {"idle", "kill", "revoke", "issue", "answer"},
                             user : Users \cup {NoUser}, session : Ids \cup {0}]]
      /\ logins \in Nat
      /\ 0 \notin used
  BY ClientAssumption DEF TypeInv, ClientTypeOK, ClientShape, TypeOK, Ids
<1>2. logins = 0
  <2>1. ASSUME NEW c \in Calls, RefreshStep(c) \/ ApiFails(c) \/ SignIn(c) \/ SignedIn(c)
        PROVE logins' = logins \/ logins' = logins + 1
    BY <2>1 DEF RefreshStep, ApiStep, ApiFails, RefreshArrives, Resolve, Reject, SignIn, SignedIn, client
  <2>2. ASSUME NEW q \in Requests, Send(q) \/ RequestStep(q) PROVE logins' = logins
    BY <2>2 DEF Send, RequestStep, Serve, Return, JoinRefresh, JoinRejected, ThrowRefused, StartRefresh
  <2>3. ASSUME NEW s \in Ids, AccessExpires(s) \/ ClientSessionExpires(s) PROVE logins' = logins
    BY <2>3 DEF AccessExpires, ClientSessionExpires, client
  <2>4. CASE SignOut \/ UNCHANGED allVars
    BY <2>4 DEF SignOut, allVars, client
  <2>5. logins' = logins \/ logins' = logins + 1
    BY <2>1, <2>2, <2>3, <2>4 DEF ClientNext
  <2>6. QED BY <1>1, <2>5
<1> USE <1>2 DEF AccusedInv, OneRefreshAtATime, FailedForGood, UnusedTokens, Pending
<1>3. ASSUME NEW q \in Requests, Send(q) \/ Serve(q) \/ Return(q) \/ JoinRefresh(q) PROVE AccusedInv'
  <2>1. UNCHANGED <<call, used, replayed, promise, logins, tokens, refreshing>>
    BY <1>3 DEF Send, Serve, Return, JoinRefresh, vars, history
  <2>2. \A p \in Requests : request'[p].at = "reading" => request[p].at = "reading"
    BY <1>1, <1>3 DEF Send, Serve, Return, JoinRefresh, Await, Sent, Ready, RequestStates
  <2>3. QED BY <2>1, <2>2
<1>4. ASSUME NEW q \in Requests, JoinRejected(q) PROVE FALSE
  BY <1>4, ClientAssumption DEF JoinRejected, Retriable, TypeInv, ClientTypeOK
<1>5. ASSUME NEW q \in Requests, ThrowRefused(q) PROVE AccusedInv'
  <2>1. UNCHANGED <<call, used, replayed, promise, logins, tokens>>
    BY <1>5 DEF ThrowRefused, vars, history
  <2>2. \A p \in Requests : request'[p].at = "reading" => request[p].at = "reading"
    BY <1>1, <1>5 DEF ThrowRefused, Ready
  <2>3. \A c \in Calls : ~Pending(c)
    BY <1>5 DEF ThrowRefused
  <2>4. QED BY <2>1, <2>2, <2>3
<1>6. ASSUME NEW q \in Requests, NEW c \in Calls, StartRefresh(q, c) PROVE AccusedInv'
  <2>1. /\ UNCHANGED <<call, used, replayed, tokens>>
        /\ refreshing = NoCall /\ refreshing' = c /\ tokens # 0
        /\ promise' = [promise EXCEPT ![c] = [at |-> "sent", token |-> tokens]]
        /\ call[c].at = "idle"
    BY <1>6 DEF StartRefresh, Free, Retriable, vars, history
  <2>2. \A d \in Calls : ~Pending(d) /\ promise[d].at # "failed" /\ call[d].at = "idle"
    BY <2>1, ClientAssumption
  <2>3. \A p \in Requests : request'[p].at # "reading"
    <3>1. request' = [request EXCEPT ![q].at = "waiting", ![q].awaits = c]
      BY <1>6 DEF StartRefresh, Await
    <3>2. QED BY <1>1, <2>1, <3>1
  <2>4. tokens \notin used
    BY <2>2
  <2>5. QED BY <1>1, <2>1, <2>2, <2>3, <2>4
<1>7. ASSUME NEW c \in Calls, RefreshArrives(c) PROVE AccusedInv'
  <2>1. /\ promise[c].at = "sent" /\ promise[c].token \notin used
        /\ promise' = [promise EXCEPT ![c].at = "served"]
        /\ UNCHANGED <<tokens, refreshing, request>>
        /\ \A d \in Calls : call'[d].at = "idle" \/ d = c
        /\ call'[c].at # "answer"
        /\ used' \subseteq used \cup {promise[c].token}
        /\ replayed' = {}
    <3>1. /\ promise[c].at = "sent" /\ promise[c].token \notin used
          /\ promise' = [promise EXCEPT ![c].at = "served"]
          /\ UNCHANGED <<tokens, refreshing, request>>
      BY <1>1, <1>7 DEF RefreshArrives
    <3>2. CASE Find(c, promise[c].token)
      BY <1>1, <3>1, <3>2 DEF Find, Enter
    <3>3. CASE UNCHANGED vars
      BY <1>1, <3>1, <3>3 DEF vars, history
    <3>4. QED BY <1>7, <3>1, <3>2, <3>3 DEF RefreshArrives
  <2>2. \A d \in Calls \ {c} : ~Pending(d)
    BY <2>1
  <2>3. QED BY <1>1, <2>1, <2>2
<1>8. ASSUME NEW c \in Calls, Unseen(c) PROVE AccusedInv'
  <2>1. /\ UNCHANGED <<client, used, replayed>>
        /\ \A d \in Calls : call'[d].at # "idle" => call[d].at # "idle"
        /\ \A d \in Calls : call'[d].at = "answer" => call'[d].session \notin used
    <3>1. CASE \E s \in Ids : Issue(c, s)
      BY <1>1, <1>8, <3>1 DEF Unseen, ApiStep, ApiFails, Abort, Issue, history, client
    <3>2. CASE KillAll(c) \/ Revoke(c) \/ Abort(c)
      BY <1>1, <1>8, <3>2 DEF Unseen, ApiStep, ApiFails, KillAll, Revoke, Step, Abort,
                              history, Idle, client
    <3>3. QED BY <1>8, <3>1, <3>2 DEF Unseen, ApiStep, ApiFails
  <2>2. QED BY <2>1 DEF client
<1>9. ASSUME NEW c \in Calls, Resolve(c) PROVE AccusedInv'
  <2>1. /\ promise[c].at = "served" /\ call[c].at = "answer"
        /\ UNCHANGED <<used, replayed>>
        /\ tokens' = call[c].session
        /\ promise' = [promise EXCEPT ![c] = Unsent]
        /\ call' = [call EXCEPT ![c] = Idle]
    BY <1>9 DEF Resolve, Answer, history
  <2>2. \A p \in Requests : request'[p].at # "reading"
    BY <1>9, <2>1 DEF Resolve, Sent
  <2>3. \A d \in Calls : d # c => ~Pending(d) /\ call[d].at = "idle" /\ promise[d].at # "failed"
    BY <2>1
  <2>4. QED BY <1>1, <2>1, <2>2, <2>3 DEF Unsent, Idle
<1>10. ASSUME NEW c \in Calls, Reject(c) PROVE AccusedInv'
  <2>1. /\ promise[c].at = "served" /\ call[c].at = "idle" /\ tokens' = 0
        /\ UNCHANGED <<call, used, replayed>>
        /\ promise' = [promise EXCEPT ![c] = [at |-> "failed", token |-> 0]]
    BY <1>10 DEF Reject, vars, history
  <2>2. QED BY <1>1, <2>1
<1>11. ASSUME NEW c \in Calls, SignIn(c) PROVE FALSE
  BY <1>1, <1>11 DEF SignIn
<1>12. ASSUME NEW c \in Calls, SignedIn(c) PROVE FALSE
  BY <1>12 DEF SignedIn
<1>13. CASE SignOut
  BY <1>1, <1>13 DEF SignOut, vars, history
<1>14. ASSUME NEW s \in Ids, AccessExpires(s) \/ ClientSessionExpires(s) PROVE AccusedInv'
  BY <1>14 DEF AccessExpires, ClientSessionExpires, SessionExpires, client, vars, history
<1>15. CASE UNCHANGED allVars
  BY <1>15 DEF allVars, client, vars, history
<1>16. QED BY <1>3, <1>4, <1>5, <1>6, <1>7, <1>8, <1>9, <1>10, <1>11, <1>12, <1>13, <1>14, <1>15
          DEF ClientNext, RequestStep, RefreshStep, Unseen

(* Before it signs in again, the client presents no refresh token twice,    *)
(* however many of its requests are refused at once or late.                *)
THEOREM ClientIsNeverAccused == ClientSpec => []NeverAccused
<1>1. TypeInv /\ AccusedInv => NeverAccused
  BY DEF AccusedInv, NeverAccused
<1>2. QED BY <1>1, TypeInvHolds, InitAccusedInv, NextAccusedInv, PTL DEF ClientSpec

-----------------------------------------------------------------------------
(* ReplaysWithNewToken: what a refresh brings was given to nobody before.   *)

Replays(q) ==
  request[q].at # "sent" /\ request'[q].at = "sent" /\ ~request'[q].retry
    => request'[q].bearer # request[q].bearer

(* Only a refresh that succeeded replays a request.                         *)
LEMMA NextReplays ==
  ASSUME TypeInv, [ClientNext]_allVars PROVE \A q \in Requests : Replays(q)
<1> USE DEF Replays
<1>1. /\ request \in [Requests -> RequestStates]
      /\ \A q \in Requests : request[q].bearer \in returned \cup {0}
  BY DEF TypeInv, ClientShape
<1>2. ASSUME NEW p \in Requests, Send(p) PROVE \A q \in Requests : Replays(q)
  BY <1>1, <1>2 DEF Send, Sent
<1>3. ASSUME NEW p \in Requests, RequestStep(p) PROVE \A q \in Requests : Replays(q)
  <2>1. \A q \in Requests : request'[q].at = "sent" => request[q].at = "sent"
    <3>1. ASSUME NEW c \in Calls \cup {NoCall}, Await(p, c)
          PROVE \A q \in Requests : request'[q].at = "sent" => request[q].at = "sent"
      BY <1>1, <3>1 DEF Await
    <3>2. refreshing \in Calls \cup {NoCall}
      BY DEF TypeInv, ClientTypeOK
    <3>3. CASE JoinRefresh(p) \/ \E c \in Calls : StartRefresh(p, c)
      BY <3>1, <3>2, <3>3 DEF JoinRefresh, StartRefresh
    <3>4. CASE Serve(p)
      BY <1>1, <3>4 DEF Serve
    <3>5. CASE Return(p) \/ ThrowRefused(p)
      BY <1>1, <3>5 DEF Return, ThrowRefused, Ready
    <3>6. CASE JoinRejected(p)
      BY <1>1, <3>6 DEF JoinRejected
    <3>7. QED BY <1>3, <3>3, <3>4, <3>5, <3>6 DEF RequestStep
  <2>2. QED BY <2>1
<1>4. ASSUME NEW c \in Calls, Resolve(c) PROVE \A q \in Requests : Replays(q)
  <2>1. call[c].session \notin returned \cup {0}
    BY <1>4 DEF Resolve, Answer, TypeInv, HandedOutOnce, ClientTypeOK, TypeOK
  <2>2. QED BY <1>1, <1>4, <2>1 DEF Resolve, Sent
<1>5. ASSUME NEW c \in Calls, Reject(c) PROVE \A q \in Requests : Replays(q)
  BY <1>1, <1>5 DEF Reject, Waiting
<1>6. ASSUME NEW c \in Calls, RefreshArrives(c) \/ Unseen(c) \/ SignIn(c) \/ SignedIn(c)
      PROVE UNCHANGED request
  BY <1>6 DEF RefreshArrives, Unseen, ApiStep, ApiFails, SignIn, SignedIn, client
<1>7. ASSUME NEW s \in Ids, AccessExpires(s) \/ ClientSessionExpires(s) PROVE UNCHANGED request
  BY <1>7 DEF AccessExpires, ClientSessionExpires, client
<1>8. CASE SignOut \/ UNCHANGED allVars
  BY <1>8 DEF SignOut, allVars, client
<1>9. QED BY <1>2, <1>3, <1>4, <1>5, <1>6, <1>7, <1>8 DEF ClientNext, RefreshStep, Unseen

(* A request is never replayed with the token that was refused.             *)
THEOREM ReplaysAreRenewed == ClientSpec => ReplaysWithNewToken
<1>1. TypeInv /\ [ClientNext]_allVars =>
        [\A q \in Requests :
           request[q].at # "sent" /\ request'[q].at = "sent" /\ ~request'[q].retry
             => request'[q].bearer # request[q].bearer]_allVars
  BY NextReplays DEF Replays
<1>2. QED BY <1>1, TypeInvHolds, PTL DEF ClientSpec, ReplaysWithNewToken

-----------------------------------------------------------------------------
(* HonestClientStaysSignedIn.  While nothing failed, expired or was signed  *)
(* out, the right to go on is with the tokens the client holds, or with the *)
(* one refresh under way, wherever in the API it stands.                    *)

Honest == ~signedOut /\ aborts = 0 /\ expired = {}

GoesOn(c) ==
  CASE promise[c].at = "sent"   -> promise[c].token = tokens /\ Live(tokens)
    [] promise[c].at = "served" -> /\ call[c].at \in {"revoke", "issue", "answer"}
                                   /\ call[c].at = "answer" => Live(call[c].session)
    [] OTHER                    -> promise[c].at = "none"

HonestInv ==
  Honest =>
    /\ tokens # 0
    /\ OneRefreshAtATime
    /\ \A q \in Requests : request[q].at # "reading"
    /\ \A c \in Calls : GoesOn(c)
    /\ (\A c \in Calls : ~Pending(c)) => Live(tokens)

(* The client starts with the tokens of a live session.                     *)
LEMMA InitHonestInv == ClientInit => HonestInv
  BY SessionsAssumption, ClientAssumption
     DEF ClientInit, HonestInv, OneRefreshAtATime, GoesOn, Pending, Live, Exists, Ids,
         Unsent, Idle, Ready

(* A step of one request only.                                              *)
LEMMA HonestFrame ==
  ASSUME HonestInv, Honest,
         UNCHANGED <<call, owner, revoked, expired, promise, tokens, refreshing>>,
         \A p \in Requests : request'[p].at = "reading" => request[p].at = "reading"
  PROVE  HonestInv'
BY DEF HonestInv, OneRefreshAtATime, GoesOn, Pending, Live, Exists

(* What the client was honest after, it was honest before.                  *)
LEMMA HonestBefore == TypeInv /\ [ClientNext]_allVars /\ Honest' => Honest
<1> SUFFICES ASSUME TypeInv, [ClientNext]_allVars, Honest' PROVE Honest
  OBVIOUS
<1>1. ClientTypeOK /\ aborts \in Nat
  BY DEF TypeInv, ClientTypeOK, TypeOK
<1>2. [Next]_vars
  BY <1>1, ClientStepsAreApiSteps
<1>3. aborts = 0 /\ expired = {}
  <2> DEFINE Grows == (aborts' = aborts \/ aborts' = aborts + 1) /\ expired \subseteq expired'
  <2>1. Grows
    <3>1. ASSUME NEW c \in Calls, CallStep(c) PROVE Grows
      BY <3>1 DEF CallStep, Login, Find, Issue, KillAll, Revoke, Answer, Abort, history, rows
    <3>2. ASSUME NEW s \in Ids, Logout(s) \/ SessionExpires(s) PROVE Grows
      BY <3>2 DEF Logout, SessionExpires, history
    <3>3. QED BY <1>2, <3>1, <3>2 DEF Next, vars, rows, history
  <2>2. QED BY <1>1, <2>1 DEF Honest
<1>4. ~signedOut
  <2>1. ASSUME NEW c \in Calls, RefreshStep(c) \/ ApiFails(c) \/ SignIn(c) \/ SignedIn(c)
        PROVE UNCHANGED signedOut
    BY <2>1 DEF RefreshStep, ApiStep, ApiFails, RefreshArrives, Resolve, Reject, SignIn, SignedIn, client
  <2>2. ASSUME NEW q \in Requests, Send(q) \/ RequestStep(q) PROVE UNCHANGED signedOut
    BY <2>2 DEF Send, RequestStep, Serve, Return, JoinRefresh, JoinRejected, ThrowRefused, StartRefresh
  <2>3. ASSUME NEW s \in Ids, AccessExpires(s) \/ ClientSessionExpires(s) PROVE UNCHANGED signedOut
    BY <2>3 DEF AccessExpires, ClientSessionExpires, client
  <2>4. CASE UNCHANGED allVars
    BY <2>4 DEF allVars, client, Honest
  <2>5. QED BY <2>1, <2>2, <2>3, <2>4 DEF ClientNext, SignOut, Honest
<1>5. QED BY <1>3, <1>4 DEF Honest

(* No step of an honest client or of the API takes that right away.         *)
LEMMA NextHonestInv == TypeInv /\ HonestInv /\ [ClientNext]_allVars => HonestInv'
<1> SUFFICES ASSUME TypeInv, HonestInv, [ClientNext]_allVars, Honest' PROVE HonestInv'
  BY DEF HonestInv
<1>1. /\ promise \in [Calls -> PromiseStates] /\ request \in [Requests -> RequestStates]
      /\ \A c \in Calls : call[c].at = "idle" => call[c] = Idle
      /\ call \in [Calls -> [at : {"idle", "kill", "revoke", "issue", "answer"},
                             user : Users \cup {NoUser}, session : Ids \cup {0}]]
      /\ \A c \in Calls : call[c].at # "idle" => call[c].user \in Users
      /\ owner \in [Ids -> Users \cup {NoUser}]
      /\ revoked \subseteq {s \in Ids : Exists(s)}
      /\ refreshing \in Calls \cup {NoCall}
      /\ NoUser \notin Users /\ NoCall \notin Calls
  BY SessionsAssumption, ClientAssumption DEF TypeInv, ClientTypeOK, ClientShape, TypeOK
<1>2. Honest /\ aborts' = 0 /\ expired = {}
  BY HonestBefore DEF Honest
<1> USE DEF HonestInv, OneRefreshAtATime, Pending
<1>3. ASSUME NEW q \in Requests, Send(q) \/ Serve(q) \/ Return(q) \/ JoinRefresh(q) PROVE HonestInv'
  <2>1. UNCHANGED <<call, owner, revoked, expired, promise, tokens, refreshing>>
    BY <1>3 DEF Send, Serve, Return, JoinRefresh, vars, rows
  <2>2. \A p \in Requests : request'[p].at = "reading" => request[p].at = "reading"
    BY <1>1, <1>3 DEF Send, Serve, Return, JoinRefresh, Await, Sent, Ready, RequestStates
  <2>3. QED BY <1>2, <2>1, <2>2, HonestFrame
<1>4. ASSUME NEW q \in Requests, JoinRejected(q) \/ ThrowRefused(q) PROVE FALSE
  BY <1>1, <1>2, <1>4 DEF JoinRejected, ThrowRefused, Retriable, GoesOn
<1>5. ASSUME NEW q \in Requests, NEW c \in Calls, StartRefresh(q, c) PROVE HonestInv'
  <2>1. /\ UNCHANGED <<call, owner, revoked, expired, tokens>>
        /\ refreshing = NoCall /\ refreshing' = c
        /\ promise' = [promise EXCEPT ![c] = [at |-> "sent", token |-> tokens]]
        /\ call[c].at = "idle"
        /\ request' = [request EXCEPT ![q].at = "waiting", ![q].awaits = c]
    BY <1>5 DEF StartRefresh, Await, Free, Retriable, vars, rows
  <2>2. \A d \in Calls : ~Pending(d) /\ call[d].at = "idle"
    BY <1>1, <1>2, <2>1
  <2>3. \A p \in Requests : request'[p].at # "reading"
    BY <1>1, <1>2, <2>1
  <2>4. Live(tokens)' /\ tokens' # 0
    BY <1>2, <2>1, <2>2 DEF Live, Exists
  <2>5. \A d \in Calls : GoesOn(d)'
    BY <1>1, <1>2, <2>1, <2>2, <2>4 DEF GoesOn
  <2>6. QED BY <1>1, <2>1, <2>2, <2>3, <2>4, <2>5
<1>6. ASSUME NEW c \in Calls, RefreshArrives(c) PROVE HonestInv'
  <2>1. /\ promise[c].at = "sent"
        /\ promise' = [promise EXCEPT ![c].at = "served"]
        /\ UNCHANGED <<tokens, refreshing, request>>
        /\ Find(c, promise[c].token)
    BY <1>2, <1>6 DEF RefreshArrives
  <2>2. promise[c].token \notin revoked
    BY <1>2, <2>1 DEF GoesOn, Live
  <2>3. /\ \A d \in Calls \ {c} : call'[d] = call[d]
        /\ call'[c].at = "revoke"
        /\ UNCHANGED <<owner, revoked, expired>>
    BY <1>1, <2>1, <2>2 DEF Find, Enter, rows
  <2>4. \A d \in Calls \ {c} : ~Pending(d)
    BY <1>2, <2>1
  <2>5. \A d \in Calls : GoesOn(d)'
    BY <1>1, <1>2, <2>1, <2>3, <2>4 DEF GoesOn
  <2>6. Pending(c)'
    BY <1>1, <2>1
  <2>7. QED BY <1>1, <1>2, <2>1, <2>3, <2>5, <2>6
<1>7. ASSUME NEW c \in Calls, Unseen(c) PROVE HonestInv'
  <2>1. UNCHANGED client /\ UNCHANGED expired
    BY <1>7 DEF Unseen, ApiStep, ApiFails, KillAll, Revoke, Issue, Abort, client, rows
  <2>2. ~Abort(c)
    BY <1>2 DEF Abort, Honest
  <2>3. call[c].at # "idle" /\ promise[c].at = "served"
    BY <1>2, <1>7, <2>2 DEF Unseen, ApiStep, ApiFails, KillAll, Revoke, Issue, Step
  <2>4. ~KillAll(c)
    BY <1>2, <2>3 DEF KillAll, GoesOn
  <2>5. /\ \A d \in Calls \ {c} : call'[d] = call[d] /\ ~Pending(d)
        /\ call'[c].at \in {"issue", "answer"}
        /\ call'[c].at = "answer" => Live(call[c].session)'
    <3>1. \A d \in Calls \ {c} : ~Pending(d)
      BY <1>2, <2>3
    <3>2. CASE Revoke(c)
      BY <1>1, <3>1, <3>2 DEF Revoke, Step
    <3>3. ASSUME NEW s \in Ids, Issue(c, s)
          PROVE /\ \A d \in Calls \ {c} : call'[d] = call[d]
                /\ call'[c].at = "answer" /\ Live(call[c].session)'
      <4>1. /\ \A d \in Calls \ {c} : call'[d] = call[d]
            /\ call'[c].at = "answer" /\ call'[c].session = s
            /\ call[c].user \in Users
            /\ owner' = [owner EXCEPT ![s] = call[c].user]
            /\ owner[s] = NoUser /\ UNCHANGED revoked
        BY <1>1, <3>3 DEF Issue, Exists
      <4>2. s \notin revoked /\ owner'[s] # NoUser
        BY <1>1, <4>1 DEF Exists
      <4>3. s \notin revoked' \cup expired'
        BY <1>2, <2>1, <4>1, <4>2
      <4>4. Live(call[c].session)'
        BY <4>1, <4>2, <4>3 DEF Live, Exists
      <4>5. QED BY <4>1, <4>4
    <3>4. QED BY <1>7, <2>2, <2>4, <3>1, <3>2, <3>3 DEF Unseen, ApiStep, ApiFails
  <2>6. \A d \in Calls : GoesOn(d)'
    BY <1>2, <2>1, <2>3, <2>5 DEF GoesOn, client
  <2>7. QED BY <1>1, <1>2, <2>1, <2>3, <2>5, <2>6 DEF client
<1>8. ASSUME NEW c \in Calls, Resolve(c) PROVE HonestInv'
  <2>1. /\ promise[c].at = "served" /\ call[c].at = "answer"
        /\ UNCHANGED <<owner, revoked, expired>>
        /\ tokens' = call[c].session /\ tokens' # 0
        /\ promise' = [promise EXCEPT ![c] = Unsent]
        /\ call' = [call EXCEPT ![c] = Idle]
    BY <1>8 DEF Resolve, Answer, rows, TypeInv, ClientTypeOK, TypeOK
  <2>2. \A p \in Requests : request'[p].at # "reading"
    BY <1>2, <1>8 DEF Resolve, Sent
  <2>3. \A d \in Calls \ {c} : ~Pending(d)
    BY <1>2, <2>1
  <2>4. Live(tokens)'
    BY <1>2, <2>1 DEF GoesOn, Live, Exists
  <2>5. \A d \in Calls : GoesOn(d)'
    BY <1>1, <1>2, <2>1, <2>3 DEF GoesOn, Unsent
  <2>6. QED BY <1>1, <1>2, <2>1, <2>2, <2>3, <2>4, <2>5 DEF Unsent, Idle
<1>9. ASSUME NEW c \in Calls, Reject(c) \/ SignIn(c) \/ SignedIn(c) PROVE FALSE
  BY <1>2, <1>9 DEF Reject, SignIn, SignedIn, GoesOn
<1>10. CASE SignOut
  BY <1>10 DEF SignOut, Honest
<1>11. ASSUME NEW s \in Ids, AccessExpires(s) PROVE HonestInv'
  BY <1>2, <1>11, HonestFrame DEF AccessExpires, vars, rows
<1>12. ASSUME NEW s \in Ids, ClientSessionExpires(s) PROVE FALSE
  BY <1>12 DEF ClientSessionExpires, SessionExpires, Honest
<1>13. CASE UNCHANGED allVars
  BY <1>2, <1>13, HonestFrame DEF allVars, client, vars, rows
<1>14. QED BY <1>3, <1>4, <1>5, <1>6, <1>7, <1>8, <1>9, <1>10, <1>11, <1>12, <1>13
           DEF ClientNext, RequestStep, RefreshStep, Unseen

(* A client whose calls did not fail, and which did not sign out, ends each *)
(* refresh with the tokens of a live session, however many requests share   *)
(* it or come too late for it.                                              *)
THEOREM ClientStaysSignedIn == ClientSpec => []HonestClientStaysSignedIn
<1>1. HonestInv => HonestClientStaysSignedIn
  BY DEF HonestInv, Honest, HonestClientStaysSignedIn, Pending
<1>2. QED BY <1>1, TypeInvHolds, InitHonestInv, NextHonestInv, PTL DEF ClientSpec
-----------------------------------------------------------------------------
(* What the API promises of sessions holds for this client: each of its     *)
(* steps is a step of the API or none, and it starts where the invariants   *)
(* of the API hold, in the middle of a login.                               *)

LoginInv == RotationInv /\ Reasons /\ Survives /\ DetectInv /\ SuccessorInv

LoginsAreSafe ==
  OneTokenPerLogin /\ ReplayEndsTheLogin /\ HonestLoginsSurvive /\ LogoutEndsTheLogin

(* The client's first session is live, and nothing was done with it.        *)
LEMMA InitLoginInv == ClientInit => LoginInv
<1> SUFFICES ASSUME ClientInit PROVE LoginInv
  OBVIOUS
<1> USE SessionsAssumption, ClientAssumption DEF ClientInit, Idle
<1>1. \A s \in Ids : Exists(s) <=> s = 1
  BY DEF Exists
<1>2. /\ 1 \in Ids
      /\ \A c \in Calls : call[c].at = "idle" /\ call[c].session = 0
      /\ used = {} /\ replayed = {} /\ left = {} /\ revoked = {} /\ expired = {}
      /\ \A s \in Ids : parent[s] = 0
  BY DEF Ids
<1>3. RotationInv
  BY <1>1, <1>2 DEF RotationInv, OneHeir, HeirOrRefresh, OneRefresh, NoHeirAfterLogout, Unrevoked, Serving
<1>4. Reasons
  BY <1>2 DEF Reasons
<1>5. Survives
  <2>1. 1 \in Lineage(1) /\ Live(1)
    BY <1>1, <1>2 DEF Lineage, Live
  <2>2. QED BY <1>1, <2>1 DEF Survives
<1>6. DetectInv
  BY <1>2 DEF DetectInv, OneAtATime, SpentIsRevoked, ReplayIsPunished
<1>7. SuccessorInv
  BY <1>2 DEF SuccessorInv, OneSuccessorUnlessRaced, Succeeding
<1>8. QED BY <1>3, <1>4, <1>5, <1>6, <1>7 DEF LoginInv

(* No step of the client breaks what every step of the API keeps.           *)
LEMMA NextLoginInv == TypeInv /\ LoginInv /\ [ClientNext]_allVars => LoginInv'
<1>1. ASSUME TypeInv, LoginInv, [ClientNext]_allVars PROVE LoginInv'
  <2>1. TypeOK /\ [Next]_vars
    BY <1>1, ClientStepsAreApiSteps DEF TypeInv, ClientTypeOK
  <2>2. QED
    BY <1>1, <2>1, NextRotation, NextReasons, NextSurvives, NextDetect, NextSuccessor DEF LoginInv
<1>2. QED BY <1>1

(* So the invariants of the API are invariants of the client.               *)
LEMMA LoginInvHolds == ClientSpec => [](TypeInv /\ LoginInv)
  BY TypeInvHolds, InitLoginInv, NextLoginInv, PTL DEF ClientSpec

(* Behind the client, logins have one usable token, end by a replay or a    *)
(* logout, and by nothing else, however its requests, refreshes, failures   *)
(* and new logins interleave.                                               *)
THEOREM ClientKeepsLoginsSafe == ClientSpec => []LoginsAreSafe
<1>1. TypeInv => TypeOK
  BY DEF TypeInv, ClientTypeOK
<1>2. TypeOK /\ LoginInv => LoginsAreSafe
  BY RotationMeansSafe, SurvivalMeansHonestStay, DetectionMeansEnd DEF LoginInv, LoginsAreSafe
<1>3. QED BY <1>1, <1>2, LoginInvHolds, PTL

-----------------------------------------------------------------------------
(* A token that two calls present at the same time is presented twice.      *)

RacesAreReplays ==
  /\ raced \subseteq replayed
  /\ \A c \in Calls : call[c].at \in {"kill", "revoke", "issue"} /\ call[c].session # 0 =>
       call[c].session \in used

(* The API counts the second presentation, whenever it comes.               *)
LEMMA NextRaces ==
  ASSUME TypeOK, HandedOutOnce, RacesAreReplays, [Next]_vars PROVE RacesAreReplays'
<1> USE DEF TypeOK, RacesAreReplays
<1>1. ASSUME NEW c \in Calls, NEW s \in Ids, Find(c, s) PROVE RacesAreReplays'
  <2>1. ASSUME NEW d \in Calls, call[d].session = s PROVE s \in used
    <3>1. call[d].at \in {"kill", "revoke", "issue"} /\ s # 0
      BY <1>1, <2>1 DEF Find, HandedOutOnce, Idle, Ids
    <3>2. QED BY <2>1, <3>1
  <2>2. raced' \subseteq replayed'
    BY <1>1, <2>1 DEF Find
  <2>3. \A d \in Calls : call'[d] = call[d] \/ call'[d].session = s
    BY <1>1 DEF Find, Enter
  <2>4. QED BY <1>1, <2>2, <2>3 DEF Find
<1>2. ASSUME UNCHANGED <<used, raced, replayed>>,
             \A d \in Calls : \/ call'[d] = call[d]
                              \/ call'[d].at \notin {"kill", "revoke", "issue"}
                              \/ call'[d].session = 0
                              \/ /\ call[d].at = "revoke" /\ call'[d].session = call[d].session
      PROVE  RacesAreReplays'
  BY <1>2
<1>3. ASSUME NEW c \in Calls, NEW u \in Users, Login(c, u) PROVE RacesAreReplays'
  BY <1>2, <1>3 DEF Login, Enter
<1>4. ASSUME NEW c \in Calls, KillAll(c) \/ Revoke(c) \/ Answer(c) \/ Abort(c) PROVE RacesAreReplays'
  BY <1>2, <1>4 DEF KillAll, Revoke, Step, Answer, Abort, Idle, history
<1>5. ASSUME NEW c \in Calls, NEW s \in Ids, Issue(c, s) PROVE RacesAreReplays'
  BY <1>2, <1>5 DEF Issue, history
<1>6. ASSUME NEW s \in Ids, Logout(s) \/ SessionExpires(s) PROVE RacesAreReplays'
  BY <1>2, <1>6 DEF Logout, SessionExpires, history
<1>7. CASE UNCHANGED vars
  BY <1>7 DEF vars, history
<1>8. QED
  <2> HIDE DEF RacesAreReplays
  <2>1. QED BY <1>1, <1>3, <1>4, <1>5, <1>6, <1>7 DEF Next, CallStep

(* "Twelve parallel calls do not burn twelve refresh tokens": until the     *)
(* client signs in again, none of its tokens gets two successors, and its   *)
(* login has one usable token.                                              *)
NoTwins ==
  logins = 0 =>
    /\ OneSuccessor
    /\ \A s, t \in Ids : Live(s) /\ Live(t) /\ root[s] = root[t] => s = t

(* The client never drives the API into the race that gives a token two     *)
(* successors, for any number of requests refused together: what the API    *)
(* does not guarantee by itself holds behind this client.                   *)
THEOREM ClientMakesNoTwins == ClientSpec => []NoTwins
<1>1. ClientInit => RacesAreReplays
  BY DEF ClientInit, RacesAreReplays, Idle
<1>2. TypeInv /\ RacesAreReplays /\ [ClientNext]_allVars => RacesAreReplays'
  <2>1. ASSUME TypeInv, RacesAreReplays, [ClientNext]_allVars PROVE RacesAreReplays'
    BY <2>1, ClientStepsAreApiSteps, NextRaces DEF TypeInv, ClientTypeOK
  <2>2. QED BY <2>1
<1>3. ASSUME TypeInv, LoginInv, RacesAreReplays, NeverAccused PROVE NoTwins
  <2>1. SUFFICES ASSUME logins = 0
                 PROVE  /\ OneSuccessor
                        /\ \A s, t \in Ids : Live(s) /\ Live(t) /\ root[s] = root[t] => s = t
    BY DEF NoTwins
  <2>2. raced = {}
    BY <1>3, <2>1 DEF NeverAccused, RacesAreReplays
  <2>3. OneSuccessor
    BY <1>3, <2>2 DEF LoginInv, SuccessorInv, OneSuccessorUnlessRaced, OneSuccessor
  <2>4. OneTokenPerLogin
    BY <1>3, RotationMeansSafe DEF LoginInv, TypeInv, ClientTypeOK
  <2>5. QED BY <2>2, <2>3, <2>4 DEF OneTokenPerLogin
<1>4. QED BY <1>1, <1>2, <1>3, LoginInvHolds, ClientIsNeverAccused, PTL DEF ClientSpec
=============================================================================
