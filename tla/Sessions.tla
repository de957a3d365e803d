------------------------------ MODULE Sessions ------------------------------
(***************************************************************************)
(* AuthService: login, refresh with rotation and reuse detection, logout.  *)
(*                                                                         *)
(* A session is a row of Session, known by its position in creation order; *)
(* its refresh token and the access token issued with it are known by the  *)
(* same number.  A call is a request in progress; its statements are       *)
(* separate transactions, and calls interleave between them.  Whoever has  *)
(* seen a refresh token may present it, any number of times.               *)
(***************************************************************************)
EXTENDS Integers, FiniteSets

CONSTANTS
  Users,
  NoUser,       \* the owner of a row that does not exist yet
  Calls,        \* requests in progress at the same time
  MaxSessions,  \* bound: rows ever created
  MaxExpired,   \* bound: rows that expire
  MaxAborts     \* bound: calls cut short between two statements

Ids == 1..MaxSessions

ASSUME SessionsAssumption ==
  /\ MaxSessions \in Nat
  /\ MaxExpired \in Nat
  /\ MaxAborts \in Nat
  /\ NoUser \notin Users

VARIABLES
  owner,       \* Session.userId
  parent,      \* the session whose refresh created it (0: a login did)
  root,        \* the session of the login it descends from
  revoked,     \* rows with a revokedAt
  expired,     \* rows whose expiresAt has passed
  returned,    \* sessions whose tokens were sent to the caller
  call,        \* where each call stands, for which user, from which session
  used,        \* refresh tokens looked up with success
  replayed,    \* those of them that were looked up more than once
  raced,       \* tokens presented by two calls at the same time
  overlapped,  \* users with two calls in progress at the same time
  cut,         \* users one of whose calls was cut short
  left,        \* sessions ended by a logout
  crossed,     \* those of them that were being refreshed at that moment
  aborts

history == <<used, replayed, raced, overlapped, cut, left, crossed, aborts>>
rows    == <<owner, parent, root, revoked, expired>>
vars    == <<rows, returned, call, history>>

Idle == [at |-> "idle", user |-> NoUser, session |-> 0]

Init ==
  /\ owner = [s \in Ids |-> NoUser]
  /\ parent = [s \in Ids |-> 0]
  /\ root = [s \in Ids |-> 0]
  /\ revoked = {}
  /\ expired = {}
  /\ returned = {}
  /\ call = [c \in Calls |-> Idle]
  /\ used = {}
  /\ replayed = {}
  /\ raced = {}
  /\ overlapped = {}
  /\ cut = {}
  /\ left = {}
  /\ crossed = {}
  /\ aborts = 0

Exists(s) == owner[s] # NoUser
Live(s)   == Exists(s) /\ s \notin revoked \cup expired

Enter(c, at, u, s) ==
  /\ call' = [call EXCEPT ![c] = [at |-> at, user |-> u, session |-> s]]
  /\ overlapped' = IF \E d \in Calls \ {c} : call[d].user = u
                     THEN overlapped \cup {u} ELSE overlapped

Step(c, from, to) == call[c].at = from /\ call' = [call EXCEPT ![c].at = to]

-----------------------------------------------------------------------------
(* Mutant: the session row is not created.                                  *)
LoginUnissued(c, u) ==
  /\ call[c].at = "idle"
  /\ Enter(c, "answer", u, 0)
  /\ UNCHANGED <<rows, returned, used, replayed, raced, cut, left, crossed, aborts>>

(* login(): the password is right, the account active; issue() follows.     *)
Login(c, u) ==
  /\ call[c].at = "idle"
  /\ Enter(c, "issue", u, 0)
  /\ UNCHANGED <<rows, returned, used, replayed, raced, cut, left, crossed, aborts>>

(* Mutant: whether the row is revoked is not looked at.                     *)
FindUnconditionally(c, s) ==
  /\ call[c].at = "idle"
  /\ s \in returned \ expired
  /\ Enter(c, "revoke", owner[s], s)
  /\ used' = used \cup {s}
  /\ replayed' = replayed \cup ({s} \cap used)
  /\ raced' = IF \E d \in Calls : call[d].session = s THEN raced \cup {s} ELSE raced
  /\ UNCHANGED <<rows, returned, cut, left, crossed, aborts>>

(* refresh(): findUnique by the hash.  An expired row is refused first,     *)
(* whether or not it is revoked.                                            *)
Find(c, s) ==
  /\ call[c].at = "idle"
  /\ s \in returned \ expired
  /\ Enter(c, IF s \in revoked THEN "kill" ELSE "revoke", owner[s], s)
  /\ used' = used \cup {s}
  /\ replayed' = replayed \cup ({s} \cap used)
  /\ raced' = IF \E d \in Calls : call[d].session = s THEN raced \cup {s} ELSE raced
  /\ UNCHANGED <<rows, returned, cut, left, crossed, aborts>>

(* Mutant: every session, of every user.                                    *)
KillEverybody(c) ==
  /\ call[c].at = "kill"
  /\ revoked' = {s \in Ids : Exists(s)}
  /\ call' = [call EXCEPT ![c] = Idle]
  /\ UNCHANGED <<owner, parent, root, expired, returned, history>>

(* Mutant: only the session that was presented.                             *)
KillOnlyPresented(c) ==
  /\ call[c].at = "kill"
  /\ revoked' = revoked \cup {call[c].session}
  /\ call' = [call EXCEPT ![c] = Idle]
  /\ UNCHANGED <<owner, parent, root, expired, returned, history>>

(* Reuse detected: every session the user has now is revoked, and the       *)
(* request is refused.                                                      *)
KillAll(c) ==
  /\ call[c].at = "kill"
  /\ revoked' = revoked \cup {s \in Ids : owner[s] = call[c].user}
  /\ call' = [call EXCEPT ![c] = Idle]
  /\ UNCHANGED <<owner, parent, root, expired, returned, history>>

(* Mutant: the presented token stays valid.                                 *)
RevokeNothing(c) ==
  /\ Step(c, "revoke", "issue")
  /\ UNCHANGED <<rows, returned, history>>

(* The presented session is revoked, by id alone: whether another call has  *)
(* revoked it since it was found is not looked at.                          *)
Revoke(c) ==
  /\ Step(c, "revoke", "issue")
  /\ revoked' = revoked \cup {call[c].session}
  /\ UNCHANGED <<owner, parent, root, expired, returned, history>>

(* issue(): a new row, for a login or as successor of the revoked one, then *)
(* an access token that names it.                                           *)
Issue(c, s) ==
  /\ call[c].at = "issue"
  /\ ~Exists(s)
  /\ \A t \in Ids : t < s => Exists(t)
  /\ owner' = [owner EXCEPT ![s] = call[c].user]
  /\ parent' = [parent EXCEPT ![s] = call[c].session]
  /\ root' = [root EXCEPT ![s] = IF call[c].session = 0 THEN s ELSE root[call[c].session]]
  /\ call' = [call EXCEPT ![c] = [at |-> "answer", user |-> @.user, session |-> s]]
  /\ UNCHANGED <<revoked, expired, returned, history>>

(* The token pair reaches the caller.                                       *)
Answer(c) ==
  /\ call[c].at = "answer"
  /\ returned' = returned \cup {call[c].session}
  /\ call' = [call EXCEPT ![c] = Idle]
  /\ UNCHANGED <<rows, history>>

(* A statement throws, the process exits, or the answer is lost.            *)
Abort(c) ==
  /\ call[c].at # "idle"
  /\ aborts < MaxAborts
  /\ aborts' = aborts + 1
  /\ cut' = cut \cup {call[c].user}
  /\ call' = [call EXCEPT ![c] = Idle]
  /\ UNCHANGED <<rows, returned, used, replayed, raced, overlapped, left, crossed>>

(* logout(): one updateMany of the session the access token names, if it is *)
(* not revoked yet.  AuthGuard reads no row; it asks for an access token    *)
(* that has not expired, which none outlives its session (15 min, 30 days). *)
Logout(s) ==
  /\ s \in returned \ expired
  /\ s \notin revoked
  /\ revoked' = revoked \cup {s}
  /\ left' = left \cup {s}
  /\ crossed' = IF \E c \in Calls : call[c].session = s THEN crossed \cup {s} ELSE crossed
  /\ UNCHANGED <<owner, parent, root, expired, returned, call, used, replayed, raced,
                 overlapped, cut, aborts>>

SessionExpires(s) ==
  /\ Exists(s)
  /\ s \notin expired
  /\ Cardinality(expired) < MaxExpired
  /\ expired' = expired \cup {s}
  /\ UNCHANGED <<owner, parent, root, revoked, returned, call, history>>

CallStep(c) ==
  \/ \E u \in Users : Login(c, u)
  \/ \E s \in Ids : Find(c, s) \/ Issue(c, s)
  \/ KillAll(c)
  \/ Revoke(c)
  \/ Answer(c)
  \/ Abort(c)

Next ==
  \/ \E c \in Calls : CallStep(c)
  \/ \E s \in Ids : Logout(s) \/ SessionExpires(s)

Spec == Init /\ [][Next]_vars

-----------------------------------------------------------------------------
(* Properties.                                                              *)

(* Types; what a call works on is a row that exists and belongs to its user,*)
(* and a session belongs to the user of the login it descends from.         *)
TypeOK ==
  /\ owner \in [Ids -> Users \cup {NoUser}]
  /\ parent \in [Ids -> Ids \cup {0}]
  /\ root \in [Ids -> Ids \cup {0}]
  /\ \A s \in Ids : Exists(s) => root[s] \in Ids /\ owner[root[s]] = owner[s]
  /\ revoked \cup expired \cup returned \cup left \cup crossed
       \subseteq {s \in Ids : Exists(s)}
  /\ call \in [Calls -> [at : {"idle", "kill", "revoke", "issue", "answer"},
                         user : Users \cup {NoUser}, session : Ids \cup {0}]]
  /\ \A c \in Calls :
       /\ call[c].at = "idle" => call[c] = Idle
       /\ call[c].at # "idle" => call[c].user \in Users
       /\ call[c].session # 0 => owner[call[c].session] = call[c].user
       /\ call[c].at \in {"kill", "revoke", "answer"} => call[c].session # 0
  /\ replayed \subseteq used
  /\ used \cup raced \subseteq {s \in Ids : Exists(s)}
  /\ overlapped \cup cut \subseteq Users
  /\ aborts \in 0..MaxAborts

Lineage(l) == {s \in Ids : Exists(s) /\ root[s] = l}

NothingPending(u) == \A c \in Calls : call[c].user # u

(* Rotation: unless one of its tokens was presented by two calls at the     *)
(* same time, a login has at most one usable refresh token at any moment,   *)
(* through replays, kills, logouts, and calls cut short anywhere.           *)
OneTokenPerLogin ==
  \A s, t \in Ids :
    /\ Live(s)
    /\ Live(t)
    /\ root[s] = root[t]
    /\ \A r \in raced : root[r] # root[s]
    => s = t

(* Reuse detection: when the calls of a user came one after the other, a    *)
(* login one of whose tokens was presented twice is over, for the holder of *)
(* the newest token too.                                                    *)
ReplayEndsTheLogin ==
  \A s \in Ids :
    /\ s \in replayed
    /\ NothingPending(owner[s])
    /\ owner[s] \notin overlapped \cup cut
    => \A t \in Lineage(root[s]) : ~Live(t)

(* And it is the only thing that ends one: a user whose calls overlap or    *)
(* not, but who never presented a token twice or after logging it out, had  *)
(* no call cut short, and did not log out or let expire this login, has a   *)
(* token for it, whatever happens to other users.                           *)
HonestLoginsSurvive ==
  \A l \in {s \in Ids : Exists(s) /\ root[s] = s} :
    /\ NothingPending(owner[l])
    /\ owner[l] \notin cut
    /\ \A s \in replayed \cup (used \cap left) : owner[s] # owner[l]
    /\ Lineage(l) \cap (left \cup expired) = {}
    => \E s \in Lineage(l) : Live(s)

(* Logging out ends the login: no successor of the session comes to life    *)
(* later, unless a refresh of that very session was under way or its line   *)
(* had split before.                                                        *)
LogoutEndsTheLogin ==
  \A s \in left \ crossed :
    (\A r \in raced : root[r] # root[s]) => \A t \in Lineage(root[s]) : ~Live(t)

(* "Revoked and replaced atomically": a refresh token has one successor.    *)
OneSuccessor ==
  \A s, t \in Ids : parent[s] # 0 /\ parent[s] = parent[t] => s = t
=============================================================================
