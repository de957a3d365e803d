--------------------------- MODULE SessionsProofs ---------------------------
(* Theorems about Sessions, for every number of users, calls and sessions.  *)
EXTENDS Sessions, TLAPS

(* The tables are empty and no call is in progress.                         *)
LEMMA InitTypeOK == Init => TypeOK
BY SessionsAssumption DEF Init, TypeOK, Idle, Exists

(* No action takes a variable out of its type.                              *)
LEMMA NextTypeOK == TypeOK /\ [Next]_vars => TypeOK'
<1> SUFFICES ASSUME TypeOK, [Next]_vars PROVE TypeOK'
  OBVIOUS
<1> USE SessionsAssumption DEF TypeOK, Exists, Ids, Idle
<1> USE DEF rows, history
<1>1. ASSUME NEW c \in Calls, NEW u \in Users, Login(c, u) PROVE TypeOK'
  BY <1>1 DEF Login, Enter
<1>2. ASSUME NEW c \in Calls, NEW s \in Ids, Find(c, s) PROVE TypeOK'
  <2>1. /\ owner[s] \in Users /\ s \in returned
        /\ call' = [call EXCEPT ![c] = [at |-> IF s \in revoked THEN "kill" ELSE "revoke",
                                       user |-> owner[s], session |-> s]]
    BY <1>2 DEF Find, Enter
  <2>2. /\ call' \in [Calls -> [at : {"idle", "kill", "revoke", "issue", "answer"},
                                user : Users \cup {NoUser}, session : Ids \cup {0}]]
        /\ \A d \in Calls :
             /\ call'[d].at = "idle" => call'[d] = Idle
             /\ call'[d].at # "idle" => call'[d].user \in Users
             /\ call'[d].session # 0 => owner[call'[d].session] = call'[d].user
             /\ call'[d].at \in {"kill", "revoke", "answer"} => call'[d].session # 0
    BY <2>1
  <2>3. overlapped' \subseteq Users
    BY <1>2, <2>1 DEF Find, Enter
  <2>4. replayed' \subseteq used' /\ used' \cup raced' \subseteq {t \in Ids : owner[t] # NoUser}
    BY <1>2, <2>1 DEF Find
  <2>5. UNCHANGED <<rows, returned, cut, left, crossed, aborts>>
    BY <1>2 DEF Find
  <2>6. QED BY <2>2, <2>3, <2>4, <2>5
<1>3. ASSUME NEW c \in Calls, NEW s \in Ids, Issue(c, s) PROVE TypeOK'
  <2>1. /\ call[c].at = "issue" /\ call[c].user \in Users /\ call[c].user # NoUser
        /\ owner[s] = NoUser
        /\ owner' = [owner EXCEPT ![s] = call[c].user]
        /\ parent' = [parent EXCEPT ![s] = call[c].session]
        /\ call' = [call EXCEPT ![c] = [at |-> "answer", user |-> call[c].user, session |-> s]]
        /\ UNCHANGED <<revoked, expired, returned, history>>
    BY <1>3 DEF Issue
  <2>2. /\ root' \in [Ids -> Ids \cup {0}]
        /\ \A t \in Ids : Exists(t)' => root'[t] \in Ids /\ owner'[root'[t]] = owner'[t]
    BY <1>3, <2>1 DEF Issue
  <2>3. \A d \in Calls :
          /\ call'[d].at = "idle" => call'[d] = Idle
          /\ call'[d].at # "idle" => call'[d].user \in Users
          /\ call'[d].session # 0 => owner'[call'[d].session] = call'[d].user
          /\ call'[d].at \in {"kill", "revoke", "answer"} => call'[d].session # 0
    BY <2>1
  <2>4. QED BY <2>1, <2>2, <2>3
<1>4. ASSUME NEW c \in Calls, KillAll(c) PROVE TypeOK'
  BY <1>4 DEF KillAll
<1>5. ASSUME NEW c \in Calls, Revoke(c) PROVE TypeOK'
  BY <1>5 DEF Revoke, Step
<1>6. ASSUME NEW c \in Calls, Answer(c) PROVE TypeOK'
  BY <1>6 DEF Answer
<1>7. ASSUME NEW c \in Calls, Abort(c) PROVE TypeOK'
  BY <1>7 DEF Abort
<1>8. ASSUME NEW s \in Ids, Logout(s) PROVE TypeOK'
  BY <1>8 DEF Logout
<1>9. ASSUME NEW s \in Ids, SessionExpires(s) PROVE TypeOK'
  <2>1. /\ expired' = expired \cup {s} /\ owner[s] # NoUser
        /\ UNCHANGED <<owner, parent, root, revoked, returned, call, history>>
    BY <1>9 DEF SessionExpires
  <2>2. revoked' \cup expired' \cup returned' \cup left' \cup crossed' \subseteq {t \in Ids : owner'[t] # NoUser}
    BY <2>1
  <2>3. QED BY <2>1, <2>2
<1>10. CASE UNCHANGED vars
  BY <1>10 DEF vars
<1>11. QED
  BY <1>1, <1>2, <1>3, <1>4, <1>5, <1>6, <1>7, <1>8, <1>9, <1>10 DEF Next, CallStep

(* Every variable keeps to its type, and a session to the user of the login *)
(* it descends from.                                                        *)
THEOREM TypeCorrect == Spec => []TypeOK
BY InitTypeOK, NextTypeOK, PTL DEF Spec

-----------------------------------------------------------------------------
(* Rotation.  The right to a token of a login is with its unrevoked session *)
(* or with the call that has revoked it and will issue the next; as long as *)
(* no token is presented twice at once, it is in one place.                 *)

Unrevoked(s) == Exists(s) /\ s \notin revoked

Unraced(l) == \A r \in raced : root[r] # l

Serving(c, l) ==
  /\ call[c].at \in {"revoke", "issue"}
  /\ call[c].session # 0
  /\ root[call[c].session] = l

OneHeir ==
  \A s, t \in Ids :
    Unrevoked(s) /\ Unrevoked(t) /\ root[s] = root[t] /\ Unraced(root[s]) => s = t

HeirOrRefresh ==
  \A c \in Calls, s \in Ids :
    Serving(c, root[s]) /\ Unrevoked(s) /\ Unraced(root[s])
      => call[c].at = "revoke" /\ call[c].session = s

OneRefresh ==
  \A c, d \in Calls, l \in Ids :
    Serving(c, l) /\ Serving(d, l) /\ Unraced(l) => c = d

(* A login that was logged out has neither.                                 *)
NoHeirAfterLogout ==
  \A s \in left \ crossed : Unraced(root[s]) =>
    /\ \A t \in Ids : root[t] = root[s] => ~Unrevoked(t)
    /\ \A c \in Calls : ~Serving(c, root[s])

RotationInv == OneHeir /\ HeirOrRefresh /\ OneRefresh /\ NoHeirAfterLogout

(* Nobody holds the right to a token before the first login.                *)
LEMMA InitRotation == Init => RotationInv
BY DEF Init, RotationInv, OneHeir, HeirOrRefresh, OneRefresh, NoHeirAfterLogout,
       Unrevoked, Exists, Serving, Idle

(* A step that adds neither sessions nor refreshes in progress.             *)
LEMMA ShrinkingStep ==
  ASSUME RotationInv,
         UNCHANGED <<owner, root>>, revoked \subseteq revoked', raced \subseteq raced',
         left' \ crossed' \subseteq left \ crossed,
         \A d \in Calls : call'[d] = call[d] \/ call'[d].at \notin {"revoke", "issue"}
                          \/ call'[d].session = 0
  PROVE  RotationInv'
<1> USE DEF RotationInv, Unrevoked, Exists, Unraced, Serving
<1>1. OneHeir'
  BY DEF OneHeir
<1>2. HeirOrRefresh'
  BY DEF HeirOrRefresh
<1>3. OneRefresh'
  BY DEF OneRefresh
<1>4. NoHeirAfterLogout'
  BY DEF NoHeirAfterLogout
<1>5. QED BY <1>1, <1>2, <1>3, <1>4

(* Refreshes, logins and logouts keep the right to a token in one place.    *)
LEMMA NextRotation ==
  ASSUME TypeOK, RotationInv, [Next]_vars PROVE RotationInv'
<1> USE SessionsAssumption
<1>1. ASSUME NEW c \in Calls, NEW u \in Users, Login(c, u) PROVE RotationInv'
  BY <1>1, ShrinkingStep DEF Login, Enter, TypeOK, rows
<1>2. ASSUME NEW c \in Calls, NEW s \in Ids, Find(c, s) PROVE RotationInv'
  <2>1. CASE s \in revoked
    BY <1>2, <2>1, ShrinkingStep DEF Find, Enter, TypeOK, rows
  <2>2. CASE s \notin revoked
    <3>1. /\ UNCHANGED <<owner, root, revoked, left, crossed>>
          /\ raced \subseteq raced'
          /\ call[c].at = "idle"
          /\ Unrevoked(s)
          /\ \A d \in Calls \ {c} : call'[d] = call[d]
          /\ call'[c].at = "revoke" /\ call'[c].session = s
          /\ \A d \in Calls : call[d].session = s => s \in raced'
      BY <1>2, <2>2 DEF Find, Enter, TypeOK, rows, Unrevoked, Exists
    <3>2. ASSUME Unraced(root[s])' PROVE \A d \in Calls : ~Serving(d, root[s])
      BY <3>1, <3>2 DEF RotationInv, HeirOrRefresh, Unraced
    <3> USE DEF RotationInv, Unrevoked, Exists, Unraced, Serving
    <3>3. OneHeir'
      BY <3>1 DEF OneHeir
    <3>4. HeirOrRefresh'
      BY <3>1 DEF HeirOrRefresh, OneHeir
    <3>5. OneRefresh'
      BY <3>1, <3>2 DEF OneRefresh
    <3>6. NoHeirAfterLogout'
      BY <3>1 DEF NoHeirAfterLogout, TypeOK
    <3>7. QED BY <3>3, <3>4, <3>5, <3>6
  <2>3. QED BY <2>1, <2>2
<1>3. ASSUME NEW c \in Calls, NEW s \in Ids, Issue(c, s) PROVE RotationInv'
  <2>1. /\ UNCHANGED <<revoked, raced, left, crossed>>
        /\ call[c].at = "issue"
        /\ ~Exists(s)
        /\ \A t \in Ids \ {s} : owner'[t] = owner[t] /\ root'[t] = root[t]
        /\ root'[s] = IF call[c].session = 0 THEN s ELSE root[call[c].session]
        /\ \A d \in Calls \ {c} : call'[d] = call[d]
        /\ call'[c].at = "answer"
    BY <1>3 DEF Issue, TypeOK, history
  <2>2. /\ \A t \in Ids : Exists(t) => t # s /\ root[t] # s
        /\ \A r \in raced \cup left : r \in Ids /\ r # s /\ root[r] # s
        /\ \A d \in Calls : call[d].at \in {"revoke", "issue"} /\ call[d].session # 0 =>
              call[d].session \in Ids /\ Exists(call[d].session)
    BY <2>1 DEF TypeOK, Exists
  <2>3. \A t \in Ids : Unrevoked(t)' => t = s \/ Unrevoked(t)
    BY <2>1 DEF Unrevoked, Exists
  <2>4. \A l : Unraced(l)' => Unraced(l)
    BY <2>1, <2>2 DEF Unraced
  <2>5. \A d \in Calls, l \in Ids : Serving(d, l)' => d # c /\ Serving(d, l) /\ l # s
    BY <2>1, <2>2 DEF Serving
  <2>6. ASSUME NEW t \in Ids, t # s, Unrevoked(t), root[t] = root'[s], Unraced(root[t])
        PROVE  FALSE
    <3>1. call[c].session # 0
      BY <2>1, <2>2, <2>6 DEF Unrevoked
    <3>2. Serving(c, root[t])
      BY <2>1, <2>6, <3>1 DEF Serving
    <3>3. QED BY <2>1, <2>6, <3>2 DEF RotationInv, HeirOrRefresh
  <2>7. OneHeir'
    <3> SUFFICES ASSUME NEW t \in Ids, NEW v \in Ids, Unrevoked(t)', Unrevoked(v)',
                        root'[t] = root'[v], Unraced(root[t])'
                 PROVE  t = v
      BY DEF OneHeir
    <3>1. CASE t # s /\ v # s
      BY <2>1, <2>3, <2>4, <3>1 DEF RotationInv, OneHeir
    <3>2. CASE t = s /\ v # s
      BY <2>1, <2>3, <2>4, <2>6, <3>2
    <3>3. CASE t # s /\ v = s
      BY <2>1, <2>3, <2>4, <2>6, <3>3
    <3>4. QED BY <3>1, <3>2, <3>3
  <2>8. HeirOrRefresh'
    <3> SUFFICES ASSUME NEW d \in Calls, NEW t \in Ids, Serving(d, root[t])',
                        Unrevoked(t)', Unraced(root[t])'
                 PROVE  (call[d].at = "revoke" /\ call[d].session = t)'
      BY DEF HeirOrRefresh
    <3>0. Exists(t)' /\ root'[t] \in Ids
      BY <2>1, <2>2, <2>3 DEF Unrevoked, TypeOK, Exists
    <3>1. d # c /\ Serving(d, root'[t]) /\ root'[t] # s
      BY <2>5, <3>0
    <3>2. CASE t # s
      BY <2>1, <2>3, <2>4, <3>1, <3>2 DEF RotationInv, HeirOrRefresh
    <3>3. CASE t = s
      <4>1. call[c].session # 0
        BY <2>1, <3>1, <3>3
      <4>2. Serving(c, root'[t])
        BY <2>1, <3>3, <4>1 DEF Serving
      <4>3. QED BY <2>4, <3>0, <3>1, <4>2 DEF RotationInv, OneRefresh
    <3>4. QED BY <3>2, <3>3
  <2>9. OneRefresh'
    BY <2>4, <2>5 DEF RotationInv, OneRefresh
  <2>10. NoHeirAfterLogout'
    <3> SUFFICES ASSUME NEW v \in left \ crossed, Unraced(root[v])'
                 PROVE  /\ \A t \in Ids : root'[t] = root'[v] => ~Unrevoked(t)'
                        /\ \A d \in Calls : ~Serving(d, root[v])'
      BY <2>1 DEF NoHeirAfterLogout
    <3>1. v \in Ids /\ v # s /\ root'[v] = root[v] /\ root[v] \in Ids /\ root[v] # s
      BY <2>1, <2>2 DEF TypeOK, Exists
    <3>2. /\ \A t \in Ids : root[t] = root[v] => ~Unrevoked(t)
          /\ \A d \in Calls : ~Serving(d, root[v])
      BY <2>4, <3>1 DEF RotationInv, NoHeirAfterLogout
    <3>3. \A d \in Calls : ~Serving(d, root[v])'
      BY <2>5, <3>1, <3>2
    <3>4. ASSUME NEW t \in Ids, root'[t] = root'[v], Unrevoked(t)' PROVE FALSE
      <4>1. CASE t # s
        BY <2>1, <2>3, <3>1, <3>2, <3>4, <4>1
      <4>2. CASE t = s
        <5>1. call[c].session # 0
          BY <2>1, <3>1, <3>4, <4>2
        <5>2. QED BY <2>1, <3>1, <3>2, <3>4, <4>2, <5>1 DEF Serving
      <4>3. QED BY <4>1, <4>2
    <3>5. QED BY <3>3, <3>4
  <2>11. QED BY <2>7, <2>8, <2>9, <2>10 DEF RotationInv
<1>4. ASSUME NEW c \in Calls, KillAll(c) PROVE RotationInv'
  BY <1>4, ShrinkingStep DEF KillAll, TypeOK, history, Idle
<1>5. ASSUME NEW c \in Calls, Revoke(c) PROVE RotationInv'
  <2>1. /\ UNCHANGED <<owner, root, raced, left, crossed>>
        /\ revoked' = revoked \cup {call[c].session}
        /\ call[c].at = "revoke" /\ call'[c].at = "issue"
        /\ \A d \in Calls : call'[d].session = call[d].session
        /\ \A d \in Calls \ {c} : call'[d] = call[d]
    BY <1>5 DEF Revoke, Step, TypeOK, history
  <2>2. \A d \in Calls, l \in Ids : Serving(d, l)' => Serving(d, l)
    BY <2>1 DEF Serving
  <2> USE DEF RotationInv, Unrevoked, Exists, Unraced
  <2>3. OneHeir'
    BY <2>1 DEF OneHeir
  <2>4. HeirOrRefresh'
    BY <2>1 DEF HeirOrRefresh, Serving
  <2>5. OneRefresh'
    BY <2>1 DEF OneRefresh, Serving
  <2>6. NoHeirAfterLogout'
    BY <2>1 DEF NoHeirAfterLogout, Serving
  <2>7. QED BY <2>3, <2>4, <2>5, <2>6
<1>6. ASSUME NEW c \in Calls, Answer(c) PROVE RotationInv'
  BY <1>6, ShrinkingStep DEF Answer, TypeOK, rows, history, Idle
<1>7. ASSUME NEW c \in Calls, Abort(c) PROVE RotationInv'
  BY <1>7, ShrinkingStep DEF Abort, TypeOK, rows, Idle
<1>8. ASSUME NEW s \in Ids, Logout(s) PROVE RotationInv'
  <2>1. /\ UNCHANGED <<owner, root, raced, call>>
        /\ Unrevoked(s)
        /\ revoked' = revoked \cup {s}
        /\ left' = left \cup {s}
        /\ crossed \subseteq crossed'
        /\ (\E c \in Calls : call[c].session = s) => s \in crossed'
    BY <1>8 DEF Logout, TypeOK, Unrevoked, Exists
  <2> USE DEF RotationInv, Unrevoked, Exists, Unraced, Serving
  <2>2. OneHeir'
    BY <2>1 DEF OneHeir
  <2>3. HeirOrRefresh'
    BY <2>1 DEF HeirOrRefresh
  <2>4. OneRefresh'
    BY <2>1 DEF OneRefresh
  <2>5. NoHeirAfterLogout'
    BY <2>1 DEF NoHeirAfterLogout, OneHeir, HeirOrRefresh
  <2>6. QED BY <2>2, <2>3, <2>4, <2>5
<1>9. ASSUME NEW s \in Ids, SessionExpires(s) PROVE RotationInv'
  BY <1>9, ShrinkingStep DEF SessionExpires, history
<1>10. CASE UNCHANGED vars
  BY <1>10, ShrinkingStep DEF vars, rows, history
<1>11. QED
  BY <1>1, <1>2, <1>3, <1>4, <1>5, <1>6, <1>7, <1>8, <1>9, <1>10 DEF Next, CallStep

(* The invariant of rotation holds in every reachable state.                *)
LEMMA RotationInvariant == Spec => [](TypeOK /\ RotationInv)
<1>1. Init => TypeOK /\ RotationInv
  BY InitTypeOK, InitRotation
<1>2. TypeOK /\ RotationInv /\ [Next]_vars => (TypeOK /\ RotationInv)'
  BY NextTypeOK, NextRotation
<1>3. QED BY <1>1, <1>2, PTL DEF Spec

(* What the invariant says of rows that can still be used.                  *)
LEMMA RotationMeansSafe == TypeOK /\ RotationInv => OneTokenPerLogin /\ LogoutEndsTheLogin
<1>1. TypeOK /\ RotationInv => OneTokenPerLogin
  BY DEF RotationInv, OneHeir, OneTokenPerLogin, Live, Unrevoked, Unraced
<1>2. TypeOK /\ RotationInv => LogoutEndsTheLogin
  BY DEF RotationInv, NoHeirAfterLogout, LogoutEndsTheLogin, Lineage, Live, Unrevoked,
         Unraced, TypeOK
<1>3. QED BY <1>1, <1>2

(* Rotation leaves a login at most one usable refresh token, for any number *)
(* of concurrent refreshes, logouts, kills and calls cut short, as long as  *)
(* none of its tokens is presented by two calls at once.                    *)
THEOREM RotationIsSingle == Spec => []OneTokenPerLogin
BY RotationMeansSafe, RotationInvariant, PTL

(* A login that was logged out is never continued, on the same condition,   *)
(* unless a refresh of the very session was under way at that moment.       *)
THEOREM LogoutIsFinal == Spec => []LogoutEndsTheLogin
BY RotationMeansSafe, RotationInvariant, PTL

-----------------------------------------------------------------------------
(* Honest users.  A row is revoked because its token was spent, it was      *)
(* logged out, or its user has presented a token that should not be used;   *)
(* only the last makes a call revoke everything.                            *)

Tainted(u) == \E t \in replayed \cup (used \cap left) : owner[t] = u

Reasons ==
  /\ \A s \in revoked : s \in used \cup left \/ Tainted(owner[s])
  /\ \A c \in Calls : call[c].at = "kill" => Tainted(call[c].user)
  /\ \A c \in Calls : call[c].at = "revoke" => call[c].session \in used

(* A login nobody ended has a live session, or a refresh is making one.     *)
Survives ==
  \A l \in Ids :
    /\ Exists(l) /\ root[l] = l
    /\ owner[l] \notin cut
    /\ ~Tainted(owner[l])
    /\ Lineage(l) \cap (left \cup expired) = {}
    => (\E s \in Lineage(l) : Live(s)) \/ (\E c \in Calls : Serving(c, l))

(* Who has presented a wrong token has done so for good.                    *)
LEMMA TaintStays ==
  ASSUME TypeOK, [Next]_vars, NEW u \in Users, Tainted(u) PROVE Tainted(u)'
<1>1. PICK t \in replayed \cup (used \cap left) : owner[t] = u
  BY DEF Tainted
<1>2. t \in Ids /\ owner[t] # NoUser
  BY <1>1, SessionsAssumption DEF TypeOK, Exists
<1>3. replayed \subseteq replayed' /\ used \subseteq used' /\ left \subseteq left'
  BY DEF Next, CallStep, Login, Find, KillAll, Revoke, Issue, Answer, Abort, Logout, SessionExpires,
         vars, history
<1>4. owner'[t] = owner[t]
  <2>1. ASSUME NEW c \in Calls, NEW s \in Ids, Issue(c, s) PROVE owner'[t] = owner[t]
    BY <1>2, <2>1 DEF Issue, Exists, TypeOK
  <2>2. ASSUME \A c \in Calls, s \in Ids : ~Issue(c, s) PROVE owner' = owner
    BY <2>2 DEF Next, CallStep, Login, Find, KillAll, Revoke, Answer, Abort, Logout, SessionExpires,
                vars, rows
  <2>3. QED BY <2>1, <2>2
<1>5. QED BY <1>1, <1>3, <1>4 DEF Tainted

(* No row is revoked, and no call revokes everything, without its reason.   *)
LEMMA NextReasons == ASSUME TypeOK, Reasons, [Next]_vars PROVE Reasons'
<1> USE SessionsAssumption
<1>0. \A u \in Users : Tainted(u) => Tainted(u)'
  BY TaintStays
<1>1. ASSUME NEW c \in Calls, NEW u \in Users, Login(c, u) PROVE Reasons'
  BY <1>1 DEF Login, Enter, Reasons, Tainted, TypeOK, rows
<1>2. ASSUME NEW c \in Calls, NEW s \in Ids, Find(c, s) PROVE Reasons'
  <2>1. /\ owner[s] \in Users /\ UNCHANGED <<owner, revoked, left>> /\ used' = used \cup {s}
        /\ call' = [call EXCEPT ![c] = [at |-> IF s \in revoked THEN "kill" ELSE "revoke",
                                        user |-> owner[s], session |-> s]]
        /\ replayed' = replayed \cup ({s} \cap used)
    BY <1>2 DEF Find, Enter, TypeOK, Exists, rows
  <2>2. s \in revoked => Tainted(owner[s])'
    <3>1. CASE s \in used \cup left
      BY <2>1, <3>1 DEF Tainted
    <3>2. CASE Tainted(owner[s])
      BY <2>1, <3>2 DEF Tainted
    <3>3. QED BY <3>1, <3>2 DEF Reasons
  <2>3. \A t \in revoked' : t \in used' \cup left' \/ Tainted(owner[t])'
    BY <2>1 DEF Reasons, Tainted
  <2>4. \A d \in Calls : call'[d].at = "kill" => Tainted(call[d].user)'
    BY <1>0, <2>1, <2>2 DEF Reasons, TypeOK, Tainted
  <2>5. \A d \in Calls : call'[d].at = "revoke" => call'[d].session \in used'
    BY <2>1 DEF Reasons, TypeOK
  <2>6. QED BY <2>1, <2>3, <2>4, <2>5 DEF Reasons, Tainted
<1>3. ASSUME NEW c \in Calls, NEW s \in Ids, Issue(c, s) PROVE Reasons'
  <2>1. /\ ~Exists(s) /\ owner' = [owner EXCEPT ![s] = call[c].user]
        /\ call[c].at = "issue" /\ call'[c].at = "answer"
        /\ \A d \in Calls \ {c} : call'[d] = call[d]
        /\ UNCHANGED <<revoked, used, replayed, left>>
    BY <1>3 DEF Issue, TypeOK, history
  <2>2. \A t \in Ids : Exists(t) => owner'[t] = owner[t]
    BY <2>1 DEF Exists, TypeOK
  <2>3. revoked \cup used \cup left \cup replayed \subseteq {t \in Ids : Exists(t)}
    BY DEF TypeOK
  <2>4. \A t \in revoked' : t \in used' \cup left' \/ \E r \in replayed' \cup (used' \cap left') : owner'[r] = owner'[t]
    BY <2>1, <2>2, <2>3 DEF Reasons, Tainted
  <2>5. \A d \in Calls : /\ call'[d].at = "kill" => call'[d] = call[d] /\ call[d].at = "kill"
                         /\ call'[d].at = "revoke" => call'[d] = call[d] /\ call[d].at = "revoke"
    BY <2>1
  <2>6. \A d \in Calls : call'[d].at = "kill" =>
          \E r \in replayed' \cup (used' \cap left') : owner'[r] = call'[d].user
    BY <2>1, <2>2, <2>3, <2>5 DEF Reasons, Tainted
  <2>7. \A d \in Calls : call'[d].at = "revoke" => call'[d].session \in used'
    BY <2>1, <2>5 DEF Reasons
  <2>8. QED BY <2>4, <2>6, <2>7 DEF Reasons, Tainted
<1>4. ASSUME NEW c \in Calls, KillAll(c) PROVE Reasons'
  BY <1>4 DEF KillAll, Reasons, Tainted, TypeOK, Idle, history
<1>5. ASSUME NEW c \in Calls, Revoke(c) PROVE Reasons'
  BY <1>5 DEF Revoke, Step, Reasons, Tainted, TypeOK, history
<1>6. ASSUME NEW c \in Calls, Answer(c) \/ Abort(c) PROVE Reasons'
  BY <1>6 DEF Answer, Abort, Reasons, Tainted, TypeOK, Idle, rows, history
<1>7. ASSUME NEW s \in Ids, Logout(s) PROVE Reasons'
  BY <1>7 DEF Logout, Reasons, Tainted, TypeOK
<1>8. ASSUME NEW s \in Ids, SessionExpires(s) PROVE Reasons'
  BY <1>8 DEF SessionExpires, Reasons, Tainted, history
<1>9. CASE UNCHANGED vars
  BY <1>9 DEF vars, rows, history, Reasons, Tainted
<1>10. QED
  BY <1>1, <1>2, <1>3, <1>4, <1>5, <1>6, <1>7, <1>8, <1>9 DEF Next, CallStep

(* A login that nothing ended survives every step.                          *)
LEMMA NextSurvives == ASSUME TypeOK, Reasons, Survives, [Next]_vars PROVE Survives'
<1> USE SessionsAssumption
<1> SUFFICES ASSUME NEW l \in Ids, Exists(l)', root'[l] = l, owner'[l] \notin cut',
                    ~Tainted(owner[l])', Lineage(l)' \cap (left' \cup expired') = {}
             PROVE  (\E s \in Lineage(l)' : Live(s)') \/ (\E c \in Calls : Serving(c, l)')
  BY DEF Survives
<1> DEFINE Goal == (\E s \in Lineage(l)' : Live(s)') \/ (\E c \in Calls : Serving(c, l)')
<1>0. ASSUME Exists(l), owner'[l] = owner[l], root'[l] = root[l], cut \subseteq cut',
             left \subseteq left', expired \subseteq expired', Lineage(l) \subseteq Lineage(l)'
      PROVE  (\E s \in Lineage(l) : Live(s)) \/ (\E c \in Calls : Serving(c, l))
  <2>1. owner[l] \in Users
    BY <1>0 DEF TypeOK, Exists
  <2>2. ~Tainted(owner[l])
    <3>1. PICK u \in Users : u = owner[l]
      BY <2>1
    <3>2. ~Tainted(u)'
      BY <1>0, <3>1 DEF Tainted
    <3>3. QED BY <3>1, <3>2, TaintStays
  <2>3. QED BY <1>0, <2>2 DEF Survives
<1> DEFINE Same == /\ UNCHANGED <<owner, root, left, expired>> /\ cut \subseteq cut'
<1>1. ASSUME Same PROVE (\E s \in Lineage(l) : Live(s)) \/ (\E c \in Calls : Serving(c, l))
  BY <1>0, <1>1 DEF Lineage, Exists
<1>2. ASSUME NEW c \in Calls, (\E u \in Users : Login(c, u)) \/ (\E s \in Ids : Find(c, s)) PROVE Goal
  <2>1. /\ Same /\ revoked' = revoked /\ call[c].at = "idle"
        /\ \A d \in Calls \ {c} : call'[d] = call[d]
    BY <1>2 DEF Login, Find, Enter, TypeOK, rows
  <2>2. QED BY <1>1, <2>1 DEF Lineage, Live, Exists, Serving
<1>3. ASSUME NEW c \in Calls, KillAll(c) PROVE Goal
  <2>1. /\ Same /\ call[c].at = "kill" /\ \A d \in Calls \ {c} : call'[d] = call[d]
        /\ revoked' = revoked \cup {s \in Ids : owner[s] = call[c].user}
        /\ replayed' = replayed /\ used' = used
    BY <1>3 DEF KillAll, TypeOK, history
  <2>2. owner[l] # call[c].user
    BY <2>1 DEF Reasons, Tainted
  <2>3. \A s \in Lineage(l) : owner[s] = owner[l]
    BY DEF Lineage, TypeOK
  <2>4. QED BY <1>1, <2>1, <2>2, <2>3 DEF Lineage, Live, Exists, Serving
<1>4. ASSUME NEW c \in Calls, Revoke(c) PROVE Goal
  <2>1. /\ Same /\ call[c].at = "revoke" /\ call[c].session \in Ids /\ call[c].session # 0
        /\ revoked' = revoked \cup {call[c].session}
        /\ call'[c].at = "issue" /\ call'[c].session = call[c].session
        /\ \A d \in Calls \ {c} : call'[d] = call[d]
    BY <1>4 DEF Revoke, Step, TypeOK, history
  <2>2. CASE root[call[c].session] = l
    BY <2>1, <2>2 DEF Serving
  <2>3. CASE root[call[c].session] # l
    BY <1>1, <2>1, <2>3 DEF Lineage, Live, Exists, Serving
  <2>4. QED BY <2>2, <2>3
<1>5. ASSUME NEW c \in Calls, NEW s \in Ids, Issue(c, s) PROVE Goal
  <2>1. /\ ~Exists(s) /\ call[c].at = "issue" /\ call[c].user \in Users /\ call[c].user # NoUser
        /\ owner' = [owner EXCEPT ![s] = call[c].user]
        /\ root' = [root EXCEPT ![s] = IF call[c].session = 0 THEN s ELSE root[call[c].session]]
        /\ UNCHANGED <<revoked, expired, left, cut>>
        /\ call'[c].at = "answer" /\ \A d \in Calls \ {c} : call'[d] = call[d]
    BY <1>5 DEF Issue, TypeOK, history
  <2>2. Exists(s)' /\ Live(s)'
    BY <2>1 DEF Exists, Live, TypeOK
  <2>3. CASE root'[s] = l
    BY <2>2, <2>3 DEF Lineage
  <2>4. CASE root'[s] # l
    <3>1. l # s /\ Exists(l) /\ owner'[l] = owner[l] /\ root'[l] = root[l]
      BY <2>1, <2>4 DEF Exists, TypeOK
    <3>2. \A t \in Ids : Exists(t) => t # s /\ Exists(t)' /\ root'[t] = root[t] /\ (Live(t) => Live(t)')
      BY <2>1 DEF Exists, Live, TypeOK
    <3>3. Lineage(l) \subseteq Lineage(l)'
      BY <3>2 DEF Lineage
    <3>4. (\E t \in Lineage(l) : Live(t)) \/ (\E d \in Calls : Serving(d, l))
      BY <1>0, <2>1, <3>1, <3>3
    <3>5. ASSUME NEW d \in Calls, Serving(d, l) PROVE Serving(d, l)'
      <4>1. call[d].session \in Ids /\ Exists(call[d].session)
        BY <3>5 DEF Serving, TypeOK, Exists
      <4>2. d # c
        BY <2>1, <2>4, <3>5 DEF Serving, TypeOK
      <4>3. QED BY <2>1, <3>2, <3>5, <4>1, <4>2 DEF Serving
    <3>6. QED BY <3>2, <3>3, <3>4, <3>5 DEF Lineage
  <2>5. QED BY <2>3, <2>4
<1>6. ASSUME NEW c \in Calls, Answer(c) PROVE Goal
  <2>1. /\ Same /\ revoked' = revoked /\ call[c].at = "answer"
        /\ \A d \in Calls \ {c} : call'[d] = call[d]
    BY <1>6 DEF Answer, TypeOK, rows, history
  <2>2. QED BY <1>1, <2>1 DEF Lineage, Live, Exists, Serving
<1>7. ASSUME NEW c \in Calls, Abort(c) PROVE Goal
  <2>1. /\ Same /\ revoked' = revoked /\ call[c].user \in cut'
        /\ \A d \in Calls \ {c} : call'[d] = call[d]
    BY <1>7 DEF Abort, TypeOK, rows
  <2>2. ~Serving(c, l)
    BY <2>1 DEF Serving, TypeOK, Exists
  <2>3. QED BY <1>1, <2>1, <2>2 DEF Lineage, Live, Exists, Serving
<1>8. ASSUME NEW s \in Ids, Logout(s) \/ SessionExpires(s) PROVE Goal
  <2>1. /\ UNCHANGED <<owner, root, call, cut>> /\ left \subseteq left' /\ expired \subseteq expired'
        /\ s \in left' \cup expired' /\ revoked' \subseteq revoked \cup {s} /\ expired' \subseteq expired \cup {s}
    BY <1>8 DEF Logout, SessionExpires, history
  <2>2. Lineage(l)' = Lineage(l) /\ s \notin Lineage(l)
    BY <2>1 DEF Lineage, Exists
  <2>3. (\E t \in Lineage(l) : Live(t)) \/ (\E d \in Calls : Serving(d, l))
    BY <1>0, <2>1, <2>2 DEF Exists
  <2>4. QED BY <2>1, <2>2, <2>3 DEF Live, Exists, Serving
<1>9. CASE UNCHANGED vars
  BY <1>1, <1>9 DEF vars, rows, history, Lineage, Live, Exists, Serving
<1>10. QED
  BY <1>2, <1>3, <1>4, <1>5, <1>6, <1>7, <1>8, <1>9 DEF Next, CallStep

(* With no call of its user in progress, such a login has a live session.   *)
LEMMA SurvivalMeansHonestStay == TypeOK /\ Reasons /\ Survives => HonestLoginsSurvive
<1>1. ASSUME TypeOK, Reasons, Survives, NEW l \in Ids, Exists(l), root[l] = l,
             NothingPending(owner[l]), owner[l] \notin cut,
             \A s \in replayed \cup (used \cap left) : owner[s] # owner[l],
             Lineage(l) \cap (left \cup expired) = {}
      PROVE  \E s \in Lineage(l) : Live(s)
  <2>1. \A c \in Calls : ~Serving(c, l)
    BY <1>1, SessionsAssumption DEF Serving, NothingPending, TypeOK, Exists
  <2>2. ~Tainted(owner[l])
    BY <1>1 DEF Tainted
  <2>3. QED BY <1>1, <2>1, <2>2 DEF Survives
<1>2. QED BY <1>1 DEF HonestLoginsSurvive

(* Nothing but a replayed or logged-out token, a call cut short, a logout   *)
(* or an expiry ends a login, whatever other users and calls do.            *)
THEOREM HonestUsersStay == Spec => []HonestLoginsSurvive
<1> DEFINE Inv == TypeOK /\ Reasons /\ Survives
<1>1. Init => Inv
  BY InitTypeOK DEF Init, Reasons, Survives, Exists, Idle
<1>2. Inv /\ [Next]_vars => Inv'
  BY NextTypeOK, NextReasons, NextSurvives
<1>3. QED BY <1>1, <1>2, SurvivalMeansHonestStay, PTL DEF Spec

-----------------------------------------------------------------------------
(* Reuse detection.  While the calls of a user come one after the other, a  *)
(* token that was spent is revoked before it can be presented again; what   *)
(* is presented twice starts a call that ends every login of its user, and  *)
(* a login that is over cannot come back.                                   *)

Clean(u) == u \notin overlapped \cup cut

OneAtATime ==
  \A c, d \in Calls :
    c # d /\ call[c].at # "idle" /\ call[d].user = call[c].user => ~Clean(call[c].user)

SpentIsRevoked ==
  \A s \in used : Clean(owner[s]) =>
    s \in revoked \/ \E c \in Calls : call[c].at = "revoke" /\ call[c].session = s

Over(l) == (\A t \in Lineage(l) : t \in revoked) /\ \A c \in Calls : ~Serving(c, l)

Killing(u) == \E c \in Calls : call[c].at = "kill" /\ call[c].user = u

ReplayIsPunished ==
  \A s \in replayed : Clean(owner[s]) => Killing(owner[s]) \/ Over(root[s])

DetectInv == OneAtATime /\ SpentIsRevoked /\ ReplayIsPunished

(* What a step that is not a refresh's first does to what was established.  *)
LEMMA QuietStep ==
  ASSUME TypeOK, DetectInv, NEW c \in Calls,
         UNCHANGED <<owner, root, used, replayed>>, revoked \subseteq revoked',
         overlapped \subseteq overlapped', cut \subseteq cut',
         \A d \in Calls \ {c} : call'[d] = call[d],
         \/ call' = call
         \/ call'[c] = Idle /\ (call[c].user \in cut' \/ call[c].at = "answer")
         \/ /\ call[c].at = "revoke" /\ call'[c].at = "issue" /\ call'[c].user = call[c].user
            /\ call'[c].session = call[c].session /\ call[c].session \in revoked'
         \/ /\ call[c].at = "idle" /\ call'[c].at = "issue" /\ call'[c].session = 0
            /\ call'[c].user \in Users
            /\ (\E d \in Calls \ {c} : call[d].user = call'[c].user) => call'[c].user \in overlapped'
  PROVE  DetectInv'
<1> USE SessionsAssumption
<1>0. \A u : Clean(u)' => Clean(u)
  BY DEF Clean
<1>1. OneAtATime'
  BY <1>0 DEF DetectInv, OneAtATime, Clean, TypeOK, Idle
<1>2. SpentIsRevoked'
  <2>1. SUFFICES ASSUME NEW s \in used, Clean(owner[s])', s \notin revoked'
                 PROVE  \E d \in Calls : call'[d].at = "revoke" /\ call'[d].session = s
    BY DEF SpentIsRevoked, Clean
  <2>2. PICK d \in Calls : call[d].at = "revoke" /\ call[d].session = s
    BY <2>1 DEF DetectInv, SpentIsRevoked, Clean
  <2>3. call[d].user = owner[s]
    BY <2>2 DEF TypeOK
  <2>4. call'[d] = call[d]
    BY <2>1, <2>2, <2>3 DEF Clean
  <2>5. QED BY <2>2, <2>4
<1>3. ReplayIsPunished'
  <2>1. SUFFICES ASSUME NEW s \in replayed, Clean(owner[s])'
                 PROVE  Killing(owner[s])' \/ Over(root[s])'
    BY DEF ReplayIsPunished, Clean
  <2>2. CASE Killing(owner[s])
    <3>1. PICK d \in Calls : call[d].at = "kill" /\ call[d].user = owner[s]
      BY <2>2 DEF Killing
    <3>2. call'[d] = call[d]
      BY <2>1, <3>1 DEF Clean
    <3>3. QED BY <3>1, <3>2 DEF Killing
  <2>3. CASE Over(root[s])
    <3>1. \A t \in Lineage(root[s])' : t \in revoked'
      BY <2>3 DEF Over, Lineage, Exists
    <3>2. \A d \in Calls : ~Serving(d, root[s])'
      BY <2>3 DEF Over, Serving, Idle
    <3>3. QED BY <3>1, <3>2 DEF Over, Lineage, Exists, Serving
  <2>4. QED BY <2>1, <2>2, <2>3 DEF DetectInv, ReplayIsPunished, Clean
<1>4. QED BY <1>1, <1>2, <1>3 DEF DetectInv

(* Presenting a token, killing and issuing keep the balance too.            *)
LEMMA NextDetect == ASSUME TypeOK, DetectInv, [Next]_vars PROVE DetectInv'
<1> USE SessionsAssumption
<1>1. ASSUME NEW c \in Calls, NEW u \in Users, Login(c, u) PROVE DetectInv'
  <2>1. /\ call[c].at = "idle" /\ call'[c] = [at |-> "issue", user |-> u, session |-> 0]
        /\ \A d \in Calls \ {c} : call'[d] = call[d]
        /\ UNCHANGED <<owner, root, used, replayed, revoked, cut>>
        /\ overlapped' = IF \E d \in Calls \ {c} : call[d].user = u
                           THEN overlapped \cup {u} ELSE overlapped
    BY <1>1 DEF Login, Enter, TypeOK, rows
  <2>2. QED BY <2>1, QuietStep
<1>2. ASSUME NEW c \in Calls, NEW s \in Ids, Find(c, s) PROVE DetectInv'
  <2>1. /\ call[c].at = "idle" /\ owner[s] \in Users /\ owner[s] # NoUser
        /\ call'[c] = [at |-> IF s \in revoked THEN "kill" ELSE "revoke",
                       user |-> owner[s], session |-> s]
        /\ \A d \in Calls \ {c} : call'[d] = call[d]
        /\ UNCHANGED <<owner, root, revoked, cut>>
        /\ used' = used \cup {s} /\ replayed' = replayed \cup ({s} \cap used)
        /\ overlapped' = IF \E d \in Calls \ {c} : call[d].user = owner[s]
                           THEN overlapped \cup {owner[s]} ELSE overlapped
    BY <1>2 DEF Find, Enter, TypeOK, Exists, rows
  <2>2. \A u : u \notin overlapped' \cup cut' => Clean(u)
    BY <2>1 DEF Clean
  <2>3. OneAtATime'
    BY <2>1, <2>2 DEF DetectInv, OneAtATime, Clean, TypeOK, Idle
  <2>4. SpentIsRevoked'
    <3>1. s \in revoked \/ (call'[c].at = "revoke" /\ call'[c].session = s)
      BY <2>1
    <3>2. \A d \in Calls : call[d].at = "revoke" => call'[d] = call[d]
      BY <2>1
    <3>3. QED BY <2>1, <2>2, <3>1, <3>2 DEF DetectInv, SpentIsRevoked, Clean
  <2>5. ASSUME NEW t \in replayed, owner[t] \notin overlapped' \cup cut'
        PROVE  Killing(owner[t])' \/ Over(root[t])'
    <3>1. CASE Killing(owner[t])
      <4>1. PICK d \in Calls : call[d].at = "kill" /\ call[d].user = owner[t]
        BY <3>1 DEF Killing
      <4>2. call'[d] = call[d]
        BY <2>1, <4>1
      <4>3. QED BY <2>1, <4>1, <4>2 DEF Killing
    <3>2. CASE Over(root[t])
      <4>1. \A r \in Lineage(root[t])' : r \in revoked'
        BY <2>1, <3>2 DEF Over, Lineage, Exists
      <4>2. s \in Lineage(root[t]) => s \in revoked
        BY <3>2 DEF Over
      <4>3. ~Serving(c, root[t])'
        BY <2>1, <4>2 DEF Serving, Lineage, Exists
      <4>4. \A d \in Calls \ {c} : ~Serving(d, root[t])'
        BY <2>1, <3>2 DEF Over, Serving
      <4>5. QED BY <2>1, <4>1, <4>3, <4>4 DEF Over
    <3>3. QED BY <2>2, <2>5, <3>1, <3>2 DEF DetectInv, ReplayIsPunished
  <2>6. ASSUME s \in used, owner[s] \notin overlapped' \cup cut' PROVE Killing(owner[s])'
    <3>1. \A d \in Calls \ {c} : call[d].user # owner[s]
      BY <2>1, <2>6
    <3>2. \A d \in Calls : ~(call[d].at = "revoke" /\ call[d].session = s)
      BY <2>1, <3>1 DEF TypeOK
    <3>3. s \in revoked
      BY <2>2, <2>6, <3>2 DEF DetectInv, SpentIsRevoked
    <3>4. QED BY <2>1, <3>3 DEF Killing
  <2>7. ReplayIsPunished'
    BY <2>1, <2>5, <2>6 DEF ReplayIsPunished, Clean
  <2>8. QED BY <2>3, <2>4, <2>7 DEF DetectInv
<1>3. ASSUME NEW c \in Calls, KillAll(c) PROVE DetectInv'
  <2>1. /\ call[c].at = "kill" /\ call[c].user \in Users /\ call'[c] = Idle
        /\ \A d \in Calls \ {c} : call'[d] = call[d]
        /\ UNCHANGED <<owner, root, used, replayed, overlapped, cut>>
        /\ revoked' = revoked \cup {s \in Ids : owner[s] = call[c].user}
    BY <1>3 DEF KillAll, TypeOK, history
  <2>2. OneAtATime'
    BY <2>1 DEF DetectInv, OneAtATime, Clean, TypeOK, Idle
  <2>3. SpentIsRevoked'
    <3>1. \A d \in Calls : call[d].at = "revoke" => call'[d] = call[d]
      BY <2>1
    <3>2. QED BY <2>1, <3>1 DEF DetectInv, SpentIsRevoked, Clean
  <2>4. ASSUME NEW t \in replayed, Clean(owner[t]) PROVE Killing(owner[t])' \/ Over(root[t])'
    <3>0. t \in Ids /\ Exists(t) /\ owner[root[t]] = owner[t]
      BY DEF TypeOK
    <3>1. CASE owner[t] = call[c].user
      <4>1. \A r \in Lineage(root[t])' : r \in revoked'
        BY <2>1, <3>0, <3>1 DEF Lineage, Exists, TypeOK
      <4>2. ASSUME NEW d \in Calls, Serving(d, root[t])' PROVE FALSE
        <5>1. d # c /\ call'[d] = call[d] /\ call[d].at # "idle" /\ call[d].session # 0
              /\ root[call[d].session] = root[t]
          BY <2>1, <4>2 DEF Serving, Idle
        <5>2. call[d].session \in Ids /\ call[d].user \in Users /\ owner[call[d].session] = call[d].user
          BY <5>1 DEF TypeOK
        <5>3. call[d].user = owner[t]
          BY <3>0, <5>1, <5>2 DEF TypeOK, Exists
        <5>4. QED BY <2>1, <2>4, <3>1, <5>1, <5>3 DEF DetectInv, OneAtATime
      <4>3. QED BY <2>1, <4>1, <4>2 DEF Over
    <3>2. CASE Killing(owner[t]) /\ owner[t] # call[c].user
      <4>1. PICK d \in Calls : call[d].at = "kill" /\ call[d].user = owner[t]
        BY <3>2 DEF Killing
      <4>2. call'[d] = call[d]
        BY <2>1, <3>2, <4>1
      <4>3. QED BY <2>1, <4>1, <4>2 DEF Killing
    <3>3. CASE Over(root[t])
      BY <2>1, <3>3 DEF Over, Lineage, Exists, Serving, Idle
    <3>4. QED BY <2>4, <3>1, <3>2, <3>3 DEF DetectInv, ReplayIsPunished
  <2>5. ReplayIsPunished'
    BY <2>1, <2>4 DEF ReplayIsPunished, Clean
  <2>6. QED BY <2>2, <2>3, <2>5 DEF DetectInv
<1>4. ASSUME NEW c \in Calls, Revoke(c) PROVE DetectInv'
  <2>1. /\ call[c].at = "revoke" /\ call'[c].at = "issue" /\ call'[c].user = call[c].user
        /\ call'[c].session = call[c].session /\ \A d \in Calls \ {c} : call'[d] = call[d]
        /\ revoked' = revoked \cup {call[c].session}
        /\ UNCHANGED <<owner, root, used, replayed, overlapped, cut>>
    BY <1>4 DEF Revoke, Step, TypeOK, history
  <2>2. QED BY <2>1, QuietStep
<1>5. ASSUME NEW c \in Calls, NEW s \in Ids, Issue(c, s) PROVE DetectInv'
  <2>1. /\ ~Exists(s) /\ call[c].at = "issue" /\ call[c].user \in Users
        /\ owner' = [owner EXCEPT ![s] = call[c].user]
        /\ root' = [root EXCEPT ![s] = IF call[c].session = 0 THEN s ELSE root[call[c].session]]
        /\ call'[c].at = "answer" /\ call'[c].user = call[c].user
        /\ \A d \in Calls \ {c} : call'[d] = call[d]
        /\ UNCHANGED <<used, replayed, revoked, overlapped, cut>>
    BY <1>5 DEF Issue, TypeOK, history
  <2>2. \A t \in Ids : Exists(t) => t # s /\ owner'[t] = owner[t] /\ root'[t] = root[t]
    BY <2>1 DEF Exists, TypeOK
  <2>3. used \cup replayed \subseteq {t \in Ids : Exists(t)}
    BY DEF TypeOK
  <2>4. OneAtATime'
    BY <2>1 DEF DetectInv, OneAtATime, Clean
  <2>5. SpentIsRevoked'
    <3>1. \A d \in Calls : call[d].at = "revoke" => call'[d] = call[d]
      BY <2>1
    <3>2. QED BY <2>1, <2>2, <2>3, <3>1 DEF DetectInv, SpentIsRevoked, Clean
  <2>6. ASSUME NEW t \in replayed, Clean(owner[t])
        PROVE  \/ \E d \in Calls : call'[d].at = "kill" /\ call'[d].user = owner[t]
               \/ /\ \A r \in Ids : Exists(r)' /\ root'[r] = root[t] => r \in revoked
                  /\ \A d \in Calls : ~Serving(d, root[t])'
    <3>1. CASE Killing(owner[t])
      BY <2>1, <3>1 DEF Killing
    <3>2. CASE Over(root[t])
      <4>1. root[t] \in Ids /\ Exists(root[t])
        BY <2>3 DEF TypeOK, Exists
      <4>2. ~Serving(c, root[t])
        BY <3>2 DEF Over
      <4>3. root'[s] # root[t]
        BY <2>1, <4>1, <4>2 DEF Serving, TypeOK
      <4>4. \A r \in Ids : Exists(r)' /\ root'[r] = root[t] => r \in revoked
        <5>1. ASSUME NEW r \in Ids, Exists(r)', root'[r] = root[t] PROVE r \in revoked
          <6>1. r # s
            BY <4>3, <5>1
          <6>2. Exists(r) /\ root[r] = root[t]
            BY <2>1, <5>1, <6>1 DEF Exists, TypeOK
          <6>3. QED BY <3>2, <6>2 DEF Over, Lineage
        <5>2. QED BY <5>1
      <4>5. ASSUME NEW d \in Calls, Serving(d, root[t])' PROVE FALSE
        <5>1. d # c /\ call'[d] = call[d] /\ call[d].at # "idle" /\ call[d].session # 0
          BY <2>1, <4>5 DEF Serving
        <5>2. call[d].session \in Ids /\ Exists(call[d].session)
          BY <5>1 DEF TypeOK, Exists
        <5>3. Serving(d, root[t])
          BY <2>2, <2>3, <4>5, <5>1, <5>2 DEF Serving
        <5>4. QED BY <3>2, <5>3 DEF Over
      <4>6. QED BY <4>4, <4>5
    <3>3. QED BY <2>6, <3>1, <3>2 DEF DetectInv, ReplayIsPunished
  <2>7. ReplayIsPunished'
    BY <2>1, <2>2, <2>3, <2>6 DEF ReplayIsPunished, Clean, Killing, Over, Lineage, Serving
  <2>8. QED BY <2>4, <2>5, <2>7 DEF DetectInv
<1>6. ASSUME NEW c \in Calls, Answer(c) PROVE DetectInv'
  <2>1. /\ call[c].at = "answer" /\ call'[c] = Idle /\ \A d \in Calls \ {c} : call'[d] = call[d]
        /\ UNCHANGED <<owner, root, used, replayed, revoked, overlapped, cut>>
    BY <1>6 DEF Answer, TypeOK, rows, history
  <2>2. QED BY <2>1, QuietStep
<1>7. ASSUME NEW c \in Calls, Abort(c) PROVE DetectInv'
  <2>1. /\ call'[c] = Idle /\ \A d \in Calls \ {c} : call'[d] = call[d]
        /\ UNCHANGED <<owner, root, used, replayed, revoked, overlapped>>
        /\ cut' = cut \cup {call[c].user}
    BY <1>7 DEF Abort, TypeOK, rows
  <2>2. QED BY <2>1, QuietStep
<1>8. ASSUME NEW s \in Ids, Logout(s) \/ SessionExpires(s) PROVE DetectInv'
  <2>1. UNCHANGED <<owner, root, used, replayed, overlapped, cut, call>> /\ revoked \subseteq revoked'
    BY <1>8 DEF Logout, SessionExpires, history
  <2>2. ASSUME NEW c \in Calls PROVE DetectInv'
    BY <2>1, QuietStep
  <2>3. CASE Calls = {}
    BY <2>1, <2>3 DEF DetectInv, OneAtATime, SpentIsRevoked, ReplayIsPunished, Killing, Over, Lineage,
                      Exists, Serving, Clean
  <2>4. QED BY <2>2, <2>3
<1>9. CASE UNCHANGED vars
  BY <1>9 DEF vars, rows, history, DetectInv, OneAtATime, SpentIsRevoked, ReplayIsPunished, Killing,
              Over, Lineage, Exists, Serving, Clean
<1>10. QED
  BY <1>1, <1>2, <1>3, <1>4, <1>5, <1>6, <1>7, <1>8, <1>9 DEF Next, CallStep

(* What the invariant says once the calls of the user are over.             *)
LEMMA DetectionMeansEnd == TypeOK /\ DetectInv => ReplayEndsTheLogin
BY DEF TypeOK, DetectInv, ReplayIsPunished, ReplayEndsTheLogin, Clean, Killing, Over, NothingPending, Live

(* A token presented twice ends its login, for any number of logins, tokens *)
(* and other users, when the calls of its user came one after the other.    *)
THEOREM ReuseIsDetected == Spec => []ReplayEndsTheLogin
<1>1. Init => TypeOK /\ DetectInv
  BY InitTypeOK DEF Init, DetectInv, OneAtATime, SpentIsRevoked, ReplayIsPunished, Idle
<1>2. TypeOK /\ DetectInv /\ [Next]_vars => TypeOK' /\ DetectInv'
  BY NextTypeOK, NextDetect
<1>3. QED BY <1>1, <1>2, DetectionMeansEnd, PTL DEF Spec

-----------------------------------------------------------------------------
(* Successors.  A token is revoked before it gets one, and from then on it  *)
(* is not accepted again; so a second one needs a second call that found it *)
(* before the first had revoked it.                                         *)

(* Call c will issue a successor of p.                                      *)
Succeeding(c, p) == call[c].at \in {"revoke", "issue"} /\ call[c].session = p

HasSuccessor(p) == \E s \in Ids : parent[s] = p

(* "Revoked and replaced atomically", as far as it goes: a refresh token    *)
(* that was never presented by two calls at the same time has one successor,*)
(* whatever was cut short, replayed, killed or logged out.                  *)
OneSuccessorUnlessRaced ==
  \A s, t \in Ids : parent[s] \notin raced \cup {0} /\ parent[s] = parent[t] => s = t

SuccessorInv ==
  /\ OneSuccessorUnlessRaced
  /\ \A s \in Ids : parent[s] # 0 => Exists(s) /\ parent[s] \in revoked
  /\ \A c \in Calls : call[c].at = "issue" /\ call[c].session # 0 => call[c].session \in revoked
  /\ \A c \in Calls, p \in Ids \ raced : Succeeding(c, p) =>
       ~HasSuccessor(p) /\ \A d \in Calls : Succeeding(d, p) => d = c

(* A step that issues nothing and starts no refresh.                        *)
LEMMA BarrenStep ==
  ASSUME SuccessorInv, UNCHANGED <<owner, parent>>, revoked \subseteq revoked', raced \subseteq raced',
         \A d \in Calls : \/ call'[d] = call[d]
                          \/ call'[d].at \notin {"revoke", "issue"}
                          \/ call'[d].session = 0
  PROVE  SuccessorInv'
<1> USE DEF SuccessorInv, Succeeding, HasSuccessor, Exists
<1>1. OneSuccessorUnlessRaced'
  BY DEF OneSuccessorUnlessRaced
<1>2. \A d \in Calls, p \in Ids : Succeeding(d, p)' => Succeeding(d, p)
  BY DEF Ids
<1>3. QED BY <1>1, <1>2

(* A second successor is never on its way, unless two calls raced.          *)
LEMMA NextSuccessor == ASSUME TypeOK, SuccessorInv, [Next]_vars PROVE SuccessorInv'
<1> USE DEF TypeOK
<1>1. ASSUME NEW c \in Calls, NEW u \in Users, Login(c, u) PROVE SuccessorInv'
  BY <1>1, BarrenStep DEF Login, Enter, rows
<1>2. ASSUME NEW c \in Calls, NEW s \in Ids, Find(c, s) PROVE SuccessorInv'
  <2>1. CASE s \in revoked
    BY <1>2, <2>1, BarrenStep DEF Find, Enter, rows
  <2>2. CASE s \notin revoked
    <3>1. /\ UNCHANGED <<owner, parent, revoked>> /\ raced \subseteq raced'
          /\ \A d \in Calls \ {c} : call'[d] = call[d]
          /\ call'[c].at = "revoke" /\ call'[c].session = s
          /\ \A d \in Calls : call[d].session = s => s \in raced'
      BY <1>2, <2>2 DEF Find, Enter, rows
    <3>2. ~HasSuccessor(s)
      BY <2>2 DEF SuccessorInv, HasSuccessor, Ids
    <3>3. OneSuccessorUnlessRaced'
      BY <3>1 DEF SuccessorInv, OneSuccessorUnlessRaced
    <3>4. ASSUME NEW b \in Calls, NEW p \in Ids \ raced', Succeeding(b, p)'
          PROVE  ~HasSuccessor(p)' /\ \A d \in Calls : Succeeding(d, p)' => d = b
      <4>1. CASE p = s
        BY <3>1, <3>2, <3>4, <4>1 DEF Succeeding, HasSuccessor
      <4>2. CASE p # s
        BY <3>1, <3>4, <4>2 DEF SuccessorInv, Succeeding, HasSuccessor
      <4>3. QED BY <4>1, <4>2
    <3>5. QED BY <3>1, <3>3, <3>4 DEF SuccessorInv, Exists
  <2>3. QED BY <2>1, <2>2
<1>3. ASSUME NEW c \in Calls, KillAll(c) \/ Abort(c) \/ Answer(c) PROVE SuccessorInv'
  BY <1>3, BarrenStep DEF KillAll, Abort, Answer, Idle, rows, history
<1>4. ASSUME NEW c \in Calls, Revoke(c) PROVE SuccessorInv'
  <2>1. /\ UNCHANGED <<owner, parent, raced>> /\ revoked' = revoked \cup {call[c].session}
        /\ \A d \in Calls \ {c} : call'[d] = call[d]
        /\ call[c].at = "revoke" /\ call'[c].at = "issue" /\ call'[c].session = call[c].session
    BY <1>4 DEF Revoke, Step, history
  <2>2. \A d \in Calls, p \in Ids : Succeeding(d, p)' <=> Succeeding(d, p)
    BY <2>1 DEF Succeeding
  <2>3. OneSuccessorUnlessRaced'
    BY <2>1 DEF SuccessorInv, OneSuccessorUnlessRaced
  <2>4. QED BY <2>1, <2>2, <2>3 DEF SuccessorInv, HasSuccessor, Exists
<1>5. ASSUME NEW c \in Calls, NEW s \in Ids, Issue(c, s) PROVE SuccessorInv'
  <2>1. /\ UNCHANGED <<revoked, raced>> /\ call[c].at = "issue" /\ ~Exists(s)
        /\ \A t \in Ids \ {s} : owner'[t] = owner[t] /\ parent'[t] = parent[t]
        /\ parent'[s] = call[c].session /\ owner'[s] = call[c].user
        /\ \A d \in Calls \ {c} : call'[d] = call[d]
        /\ call'[c].at = "answer"
    BY <1>5 DEF Issue, history
  <2>2. Exists(s)'
    BY <2>1, SessionsAssumption DEF Exists
  <2>3. \A d \in Calls, p \in Ids : Succeeding(d, p)' => Succeeding(d, p) /\ d # c
    BY <2>1 DEF Succeeding
  <2>4. \A p \in Ids \ raced : p = call[c].session => ~HasSuccessor(p)
    BY <2>1 DEF SuccessorInv, Succeeding
  <2>5. OneSuccessorUnlessRaced'
    <3>1. ASSUME NEW t \in Ids \ {s}, parent[t] = call[c].session, call[c].session \notin raced \cup {0}
          PROVE  FALSE
      BY <2>4, <3>1 DEF HasSuccessor
    <3>2. QED BY <2>1, <3>1 DEF SuccessorInv, OneSuccessorUnlessRaced
  <2>6. \A t \in Ids : parent'[t] # 0 => Exists(t)' /\ parent'[t] \in revoked'
    BY <2>1, <2>2 DEF SuccessorInv, Exists
  <2>7. \A d \in Calls : call'[d].at = "issue" /\ call'[d].session # 0 => call'[d].session \in revoked'
    BY <2>1 DEF SuccessorInv
  <2>8. ASSUME NEW b \in Calls, NEW p \in Ids \ raced', Succeeding(b, p)'
        PROVE  ~HasSuccessor(p)' /\ \A d \in Calls : Succeeding(d, p)' => d = b
    <3>1. Succeeding(b, p) /\ b # c /\ p \in Ids \ raced
      BY <2>1, <2>3, <2>8
    <3>2. ~HasSuccessor(p) /\ \A d \in Calls : Succeeding(d, p) => d = b
      BY <3>1 DEF SuccessorInv
    <3>3. p # call[c].session
      BY <2>1, <3>1, <3>2 DEF Succeeding
    <3>4. QED BY <2>1, <2>3, <3>2, <3>3 DEF HasSuccessor
  <2>9. QED BY <2>5, <2>6, <2>7, <2>8 DEF SuccessorInv
<1>6. ASSUME NEW s \in Ids, Logout(s) \/ SessionExpires(s) PROVE SuccessorInv'
  BY <1>6, BarrenStep DEF Logout, SessionExpires, history
<1>7. CASE UNCHANGED vars
  BY <1>7, BarrenStep DEF vars, rows, history
<1>8. QED
  BY <1>1, <1>2, <1>3, <1>4, <1>5, <1>6, <1>7 DEF Next, CallStep

(* Two successors of one refresh token need two calls that present it at the*)
(* same time: nothing else, for any number of calls, sessions and aborts,   *)
(* breaks what the comment of refresh() promises.                           *)
THEOREM OnlyRacesMakeTwins == Spec => []OneSuccessorUnlessRaced
<1>1. Init => SuccessorInv
  BY DEF Init, SuccessorInv, OneSuccessorUnlessRaced, Succeeding, Idle
<1>2. TypeOK /\ SuccessorInv /\ [Next]_vars => SuccessorInv'
  BY NextSuccessor
<1>3. SuccessorInv => OneSuccessorUnlessRaced
  BY DEF SuccessorInv
<1>4. QED BY <1>1, <1>2, <1>3, TypeCorrect, PTL DEF Spec

=============================================================================
