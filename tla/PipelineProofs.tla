--------------------------- MODULE PipelineProofs ---------------------------
(***************************************************************************)
(* Proofs about Pipeline, for any number of calls, any lifetimes of the    *)
(* caches and the token, and any number of changes and failures.           *)
(***************************************************************************)
EXTENDS Pipeline, TLAPS

(* The bounds are numbers, and an idle call is a call.                      *)
LEMMA Domains ==
  /\ PermsDrift \in Nat /\ TenantDrift \in Nat
  /\ Idle \in CallStates
BY PipelineAssumption DEF PermsDrift, TenantDrift, Idle, CallStates, Steps, Verdicts, Contexts

(* A call goes from step to step, and takes a permission or a context.      *)
LEMMA CallUpdates ==
  ASSUME NEW s \in CallStates, NEW at \in Steps, NEW perm \in Verdicts, NEW ctx \in Contexts
  PROVE  /\ [s EXCEPT !.at = at] \in CallStates
         /\ [s EXCEPT !.at = at, !.perm = perm] \in CallStates
         /\ [s EXCEPT !.at = at, !.ctx = ctx] \in CallStates
         /\ s.perm \in Verdicts /\ s.ctx \in Contexts
BY DEF CallStates

(* The answers and contexts there are, and where a call can stand.          *)
LEMMA Members ==
  /\ "granted" \in Verdicts /\ "inactive" \in Contexts
  /\ \A at \in {"mint", "permsQuery", "permsSet", "query", "store", "limit", "context"} : at \in Steps
BY DEF Verdicts, Contexts, Steps

(* A resolved call is a call.                                               *)
LEMMA ResolvedCall ==
  ASSUME NEW c \in Calls, call[c] \in CallStates, NEW ctx \in Contexts
  PROVE  Resolved(c, ctx) \in CallStates
<1>1. [call[c] EXCEPT !.at = "limit", !.ctx = ctx] \in CallStates
  BY Members, CallUpdates
<1>2. QED BY <1>1, Domains DEF Resolved

(* Empty caches, no calls.                                                  *)
LEMMA InitTypeOK == Init => TypeOK
<1> SUFFICES ASSUME Init PROVE TypeOK
  OBVIOUS
<1>1. /\ permsCache \in [value : Verdicts, left : Nat]
      /\ tenantCache \in [value : Contexts, left : Nat]
      /\ token \in [value : Verdicts, left : Nat]
  BY DEF Init, Contexts, Verdicts
<1>2. /\ call \in [Calls -> CallStates]
      /\ permsAge \in [Verdicts -> 0..PermsDrift]
      /\ contextAge \in [Contexts -> 0..TenantDrift]
  BY Domains DEF Init
<1>3. count \in 0..(RateMax + 1) /\ admitted \in Nat /\ changes \in 0..MaxChanges
      /\ failures \in 0..MaxFailures
  BY PipelineAssumption DEF Init
<1>4. QED
  BY <1>1, <1>2, <1>3 DEF Init, TypeOK

(* A step of a call that changes nothing else keeps to the types when the   *)
(* call does.                                                               *)
LEMMA OnlyTheCall ==
  ASSUME TypeOK, NEW c \in Calls, NEW new \in CallStates, Go(c, new),
         UNCHANGED <<truth, clearing, caches, token, limiter, races, failures>>
  PROVE  TypeOK'
BY DEF TypeOK, Go, truth, caches, limiter, races

(* No action takes a variable out of its type.                              *)
LEMMA NextTypeOK == TypeOK /\ [Next]_vars => TypeOK'
<1> SUFFICES ASSUME TypeOK, [Next]_vars PROVE TypeOK'
  OBVIOUS
<1> USE PipelineAssumption, Domains
<1> USE DEF TypeOK, Contexts, Verdicts, Steps, truth, limiter, races, caches
<1>1. CASE RolesChange
  BY <1>1 DEF RolesChange, Changed
<1>2. CASE EntitlementChanges
  BY <1>2 DEF EntitlementChanges, ContextBecomes, Changed, At
<1>3. CASE EntitlementCleared
  BY <1>3 DEF EntitlementCleared
<1>4. CASE EntitlementUncleared
  <2>1. failures' \in 0..MaxFailures
    BY <1>4 DEF EntitlementUncleared
  <2>2. missed' \in BOOLEAN
    BY <1>4 DEF EntitlementUncleared
  <2>3. clearing' = FALSE /\ UNCHANGED <<truth, caches, token, call, limiter, crossed>>
    BY <1>4 DEF EntitlementUncleared
  <2>4. QED
    BY <2>1, <2>2, <2>3
<1>5. CASE WorkspaceChanges
  BY <1>5 DEF WorkspaceChanges, ContextBecomes, Changed, At
<1>6. CASE Tick
  <2>1. call' \in [Calls -> CallStates]
    BY <1>6 DEF Tick, InProgress, At, CallStates
  <2>2. /\ permsCache' \in [value : Verdicts, left : Nat]
        /\ tenantCache' \in [value : Contexts, left : Nat]
        /\ token' \in [value : Verdicts, left : Nat]
        /\ missed' \in BOOLEAN
    BY <1>6 DEF Tick, Sooner
  <2>3. permsAge' \in [Verdicts -> 0..PermsDrift] /\ contextAge' \in [Contexts -> 0..TenantDrift]
    BY <1>6 DEF Tick, Later
  <2>4. UNCHANGED <<verdict, context, clearing, limiter, crossed, changes, failures>>
    BY <1>6 DEF Tick
  <2>5. QED BY <2>1, <2>2, <2>3, <2>4
<1>7. CASE NextWindow
  BY <1>7 DEF NextWindow
<1>8. ASSUME NEW c \in Calls, IssueArrives(c) PROVE TypeOK'
  <2> DEFINE new == [Idle EXCEPT !.at = "perms"]
  <2>1. new \in CallStates
    BY <1>8 DEF IssueArrives, CallStates
  <2>2. Go(c, new) /\ UNCHANGED <<truth, clearing, caches, token, limiter, races, failures>>
    BY <1>8 DEF IssueArrives
  <2>3. QED
    BY <2>1, <2>2, OnlyTheCall
<1>9. ASSUME NEW c \in Calls, PermsGet(c) PROVE TypeOK'
  <2> DEFINE new == IF permsCache.left > 0
                    THEN [call[c] EXCEPT !.at = "mint", !.perm = permsCache.value]
                    ELSE [call[c] EXCEPT !.at = "permsQuery"]
  <2>1. new \in CallStates
    <3> HIDE DEF TypeOK, Contexts, Verdicts, Steps
    <3>1. call[c] \in CallStates /\ permsCache.value \in Verdicts
      BY DEF TypeOK
    <3>2. QED BY <3>1, Members, CallUpdates
  <2>2. Go(c, new) /\ UNCHANGED <<truth, clearing, caches, token, limiter, races, failures>>
    BY <1>9 DEF PermsGet
  <2>3. QED
    BY <2>1, <2>2, OnlyTheCall
<1>10. ASSUME NEW c \in Calls, PermsQuery(c) PROVE TypeOK'
  <2> DEFINE new == [call[c] EXCEPT !.at = "permsSet", !.perm = verdict]
  <2>1. new \in CallStates
    <3> HIDE DEF TypeOK, Contexts, Verdicts, Steps
    <3>1. call[c] \in CallStates /\ verdict \in Verdicts
      BY DEF TypeOK
    <3>2. QED BY <3>1, Members, CallUpdates
  <2>2. Go(c, new) /\ UNCHANGED <<truth, clearing, caches, token, limiter, races, failures>>
    BY <1>10 DEF PermsQuery
  <2>3. QED
    BY <2>1, <2>2, OnlyTheCall
<1>11. ASSUME NEW c \in Calls, PermsSet(c) PROVE TypeOK'
  BY <1>11 DEF PermsSet, Go, CallStates
<1>12. ASSUME NEW c \in Calls, Mint(c) PROVE TypeOK'
  BY <1>12 DEF Mint, Go, CallStates
<1>13. ASSUME NEW c \in Calls, RequestArrives(c) PROVE TypeOK'
  <2> DEFINE new == [Idle EXCEPT !.at = "context", !.perm = token.value]
  <2>1. new \in CallStates
    BY <1>13 DEF RequestArrives, CallStates
  <2>2. Go(c, new) /\ UNCHANGED <<truth, clearing, caches, token, limiter, races, failures>>
    BY <1>13 DEF RequestArrives
  <2>3. QED
    BY <2>1, <2>2, OnlyTheCall
<1>14. ASSUME NEW c \in Calls, ContextGet(c) PROVE TypeOK'
  <2> DEFINE new == IF tenantCache.left > 0 THEN Resolved(c, tenantCache.value)
                                           ELSE [call[c] EXCEPT !.at = "query"]
  <2>1. new \in CallStates
    <3> HIDE DEF TypeOK, Contexts, Verdicts, Steps
    <3>1. call[c] \in CallStates /\ tenantCache.value \in Contexts
      BY DEF TypeOK
    <3>2. QED BY <3>1, Members, CallUpdates, ResolvedCall
  <2>2. Go(c, new) /\ UNCHANGED <<truth, clearing, caches, token, limiter, races, failures>>
    BY <1>14 DEF ContextGet
  <2>3. QED
    BY <2>1, <2>2, OnlyTheCall
<1>15. ASSUME NEW c \in Calls, ContextQuery(c) PROVE TypeOK'
  <2> DEFINE new == [call[c] EXCEPT !.at = "store", !.ctx = context]
  <2>1. new \in CallStates
    <3> HIDE DEF TypeOK, Contexts, Verdicts, Steps
    <3>1. call[c] \in CallStates /\ context \in Contexts
      BY DEF TypeOK
    <3>2. QED BY <3>1, Members, CallUpdates
  <2>2. Go(c, new) /\ UNCHANGED <<truth, clearing, caches, token, limiter, races, failures>>
    BY <1>15 DEF ContextQuery
  <2>3. QED
    BY <2>1, <2>2, OnlyTheCall
<1>16. ASSUME NEW c \in Calls, ContextSet(c) PROVE TypeOK'
  <2>1. call' \in [Calls -> CallStates]
    <3>1. Resolved(c, call[c].ctx) \in CallStates
      <4> HIDE DEF TypeOK, Contexts, Verdicts, Steps
      <4>1. call[c] \in CallStates
        BY DEF TypeOK
      <4>2. QED BY <4>1, Members, CallUpdates, ResolvedCall
    <3>2. Go(c, Resolved(c, call[c].ctx))
      BY <1>16 DEF ContextSet
    <3>3. QED
      BY <3>1, <3>2 DEF Go
  <2>2. tenantCache' \in [value : Contexts, left : Nat]
    <3>1. call[c].ctx \in Contexts /\ TenantTtl \in Nat
      BY DEF CallStates
    <3>2. QED
      BY <1>16, <3>1 DEF ContextSet
  <2>3. missed' \in BOOLEAN /\ crossed' \subseteq Calls
    BY <1>16 DEF ContextSet
  <2>4. UNCHANGED <<truth, clearing, permsCache, token, limiter, failures>>
    BY <1>16 DEF ContextSet
  <2>5. QED
    BY <2>1, <2>2, <2>3, <2>4
<1>17. ASSUME NEW c \in Calls, Decide(c) PROVE TypeOK'
  BY <1>17 DEF Decide, Refused, Permitted, Go, CallStates
<1>18. ASSUME NEW c \in Calls, NEW mutates \in BOOLEAN, HandlerReturns(c, mutates) PROVE TypeOK'
  <2> DEFINE new == IF mutates THEN [Idle EXCEPT !.at = "audit", !.perm = "granted"] ELSE Idle
  <2>1. new \in CallStates
    BY <1>18 DEF HandlerReturns, CallStates
  <2>2. Go(c, new) /\ UNCHANGED <<truth, clearing, caches, token, limiter, races, failures>>
    BY <1>18 DEF HandlerReturns
  <2>3. QED
    BY <2>1, <2>2, OnlyTheCall
<1>19. ASSUME NEW c \in Calls, AuditSettles(c) PROVE TypeOK'
  <2> DEFINE new == Idle
  <2>1. new \in CallStates
    BY <1>19 DEF AuditSettles, CallStates
  <2>2. Go(c, new) /\ UNCHANGED <<truth, clearing, caches, token, limiter, races, failures>>
    BY <1>19 DEF AuditSettles
  <2>3. QED
    BY <2>1, <2>2, OnlyTheCall
<1>20. ASSUME NEW c \in Calls, Fails(c) PROVE TypeOK'
  BY <1>20 DEF Fails, Go
<1>21. CASE UNCHANGED vars
  BY <1>21 DEF vars
<1>22. QED
  BY <1>1, <1>2, <1>3, <1>4, <1>5, <1>6, <1>7, <1>8, <1>9, <1>10, <1>11, <1>12,
     <1>13, <1>14, <1>15, <1>16, <1>17, <1>18, <1>19, <1>20, <1>21
     DEF Next, Change, Issuing, Guarded

(* Types of the caches, the token, the calls and the counters.              *)
THEOREM TypeCorrect == Spec => []TypeOK
BY InitTypeOK, NextTypeOK, PTL DEF Spec

-----------------------------------------------------------------------------
(* Drift of permissions.  Every copy of an answer is as old as the time it  *)
(* can have spent on its way: in a call, in the cache, in the token.        *)

PermsAgeIn(c) ==
  /\ At(c, {"permsSet"}) => permsAge[call[c].perm] <= call[c].hold
  /\ At(c, {"mint"}) => permsAge[call[c].perm] < MaxHold + PermsTtl + call[c].hold
  /\ At(c, {"context", "query", "store", "limit", "handler"}) =>
       permsAge[call[c].perm] + 1 < 2 * MaxHold + PermsTtl + TokenTtl + call[c].hold

PermsInv ==
  /\ permsAge[verdict] = 0
  /\ permsCache.left > 0 =>
       permsAge[permsCache.value] + permsCache.left <= MaxHold + PermsTtl
  /\ token.left > 0 =>
       permsAge[token.value] + token.left < 2 * MaxHold + PermsTtl + TokenTtl
  /\ \A c \in Calls : PermsAgeIn(c)

(* A step that leaves the ages, the cache and the token alone, and moves at *)
(* most one call.                                                           *)
LEMMA PermsFrame ==
  ASSUME PermsInv, NEW c \in Calls, TypeOK,
         \A d \in Calls \ {c} : call'[d] = call[d],
         UNCHANGED <<verdict, permsAge, permsCache, token>>, PermsAgeIn(c)'
  PROVE  PermsInv'
BY DEF PermsInv, PermsAgeIn, At

(* Filling the cache, minting a token and the passing of time keep the ages *)
(* of the permissions within what their lifetimes leave.                    *)
LEMMA NextPermsInv == TypeOK /\ PermsInv /\ [Next]_vars => PermsInv'
<1> SUFFICES ASSUME TypeOK, PermsInv, [Next]_vars PROVE PermsInv'
  OBVIOUS
<1> USE PipelineAssumption
<1>1. CASE RolesChange
  <2>1. UNCHANGED <<call, permsCache, token>> /\ permsAge'[verdict'] = 0
        /\ \A v \in Verdicts : permsAge'[v] \in Nat /\ permsAge'[v] <= permsAge[v]
    BY <1>1, Domains DEF RolesChange, caches, TypeOK
  <2>2. QED
    BY <2>1 DEF PermsInv, PermsAgeIn, At, TypeOK, CallStates
<1>2. CASE EntitlementChanges \/ EntitlementCleared \/ EntitlementUncleared \/ WorkspaceChanges
           \/ NextWindow \/ UNCHANGED vars
  <2>1. UNCHANGED <<call, verdict, permsAge, permsCache, token>>
    BY <1>2 DEF EntitlementChanges, EntitlementCleared, EntitlementUncleared, WorkspaceChanges,
       NextWindow, vars, truth, caches
  <2>2. QED
    BY <2>1 DEF PermsInv, PermsAgeIn, At
<1>3. CASE Tick
  <2>1. /\ permsAge'[verdict'] = 0
        /\ \A v \in Verdicts : permsAge'[v] \in Nat /\ permsAge'[v] <= permsAge[v] + 1
    BY <1>3, Domains DEF Tick, Later, TypeOK
  <2>2. /\ permsCache' = [permsCache EXCEPT !.left = Sooner(@)]
        /\ token' = [token EXCEPT !.left = Sooner(@)]
    BY <1>3 DEF Tick
  <2>3. \A c \in Calls : /\ call'[c].at = call[c].at /\ call'[c].perm = call[c].perm
                         /\ InProgress(c) => call'[c].hold = call[c].hold + 1
    BY <1>3 DEF Tick, TypeOK, CallStates
  <2>4. \A c \in Calls : PermsAgeIn(c)'
    BY <2>1, <2>3 DEF PermsInv, PermsAgeIn, InProgress, At, TypeOK, CallStates
  <2>5. QED
    BY <2>1, <2>2, <2>4 DEF PermsInv, Sooner, TypeOK
<1>4. ASSUME NEW c \in Calls, PermsSet(c) PROVE PermsInv'
  <2>1. /\ permsCache' = [value |-> call[c].perm, left |-> PermsTtl]
        /\ UNCHANGED <<verdict, permsAge, token>>
    BY <1>4 DEF PermsSet, truth
  <2>2. permsAge[call[c].perm] <= call[c].hold
    BY <1>4 DEF PermsSet, PermsInv, PermsAgeIn
  <2>3. /\ \A d \in Calls \ {c} : call'[d] = call[d]
        /\ call'[c] = [call[c] EXCEPT !.at = "mint"]
    BY <1>4 DEF PermsSet, Go, TypeOK
  <2>4. /\ call'[c].at = "mint" /\ call'[c].perm = call[c].perm
        /\ call'[c].hold = call[c].hold
    BY <2>3 DEF TypeOK, CallStates
  <2>5. \A d \in Calls : PermsAgeIn(d)'
    BY <2>1, <2>2, <2>3, <2>4 DEF PermsInv, PermsAgeIn, At, TypeOK, CallStates
  <2>6. QED
    BY <2>1, <2>2, <2>5 DEF PermsInv, TypeOK, CallStates
<1>5. ASSUME NEW c \in Calls, Mint(c) PROVE PermsInv'
  <2>1. /\ token' = [value |-> call[c].perm, left |-> TokenTtl]
        /\ UNCHANGED <<verdict, permsAge, permsCache>>
    BY <1>5 DEF Mint, truth, caches
  <2>2. permsAge[call[c].perm] < MaxHold + PermsTtl + call[c].hold
    BY <1>5 DEF Mint, PermsInv, PermsAgeIn
  <2>3. \A d \in Calls : PermsAgeIn(d)'
    BY <1>5, <2>1 DEF Mint, PermsInv, PermsAgeIn, At, Go, Idle, TypeOK
  <2>4. QED
    BY <2>1, <2>2, <2>3 DEF PermsInv, TypeOK, CallStates
<1>6. ASSUME NEW c \in Calls, IssueArrives(c) \/ PermsGet(c) \/ PermsQuery(c) PROVE PermsInv'
  <2>1. /\ \A d \in Calls \ {c} : call'[d] = call[d]
        /\ UNCHANGED <<verdict, permsAge, permsCache, token>>
    BY <1>6 DEF IssueArrives, PermsGet, PermsQuery, Go, truth, caches, TypeOK
  <2>2. PermsAgeIn(c)'
    <3>1. CASE IssueArrives(c)
      BY <3>1 DEF IssueArrives, Go, PermsAgeIn, At, Idle, TypeOK
    <3>2. CASE PermsGet(c)
      BY <3>2, <2>1 DEF PermsGet, Go, PermsInv, PermsAgeIn, At, TypeOK, CallStates
    <3>3. CASE PermsQuery(c)
      BY <3>3, <2>1 DEF PermsQuery, Go, PermsInv, PermsAgeIn, At, TypeOK, CallStates
    <3>4. QED
      BY <1>6, <3>1, <3>2, <3>3
  <2>3. QED
    BY <2>1, <2>2, PermsFrame
<1>7. ASSUME NEW c \in Calls, RequestArrives(c) PROVE PermsInv'
  <2>1. /\ \A d \in Calls \ {c} : call'[d] = call[d]
        /\ UNCHANGED <<verdict, permsAge, permsCache, token>>
    BY <1>7 DEF RequestArrives, Go, truth, caches, TypeOK
  <2>2. PermsAgeIn(c)'
    BY <1>7, <2>1 DEF RequestArrives, Go, PermsInv, PermsAgeIn, At, Idle, TypeOK, CallStates
  <2>3. QED
    BY <2>1, <2>2, PermsFrame
<1>8. ASSUME NEW c \in Calls, ContextGet(c) \/ ContextQuery(c) PROVE PermsInv'
  <2>1. /\ \A d \in Calls \ {c} : call'[d] = call[d]
        /\ UNCHANGED <<verdict, permsAge, permsCache, token>>
    BY <1>8 DEF ContextGet, ContextQuery, Go, truth, caches, TypeOK
  <2>2. PermsAgeIn(c)'
    <3>1. CASE ContextGet(c)
      BY <3>1, <2>1
         DEF ContextGet, Resolved, Go, PermsInv, PermsAgeIn, At, Idle, TypeOK, CallStates
    <3>2. CASE ContextQuery(c)
      BY <3>2, <2>1 DEF ContextQuery, Go, PermsInv, PermsAgeIn, At, TypeOK, CallStates
    <3>3. QED
      BY <1>8, <3>1, <3>2
  <2>3. QED
    BY <2>1, <2>2, PermsFrame
<1>9. ASSUME NEW c \in Calls, ContextSet(c) PROVE PermsInv'
  <2>1. /\ \A d \in Calls \ {c} : call'[d] = call[d]
        /\ UNCHANGED <<verdict, permsAge, permsCache, token>>
    BY <1>9 DEF ContextSet, Go, truth, caches, TypeOK
  <2>2. PermsAgeIn(c)'
    BY <1>9, <2>1 DEF ContextSet, Go, PermsInv, PermsAgeIn, At, Idle, TypeOK, CallStates, Resolved
  <2>3. QED
    BY <2>1, <2>2, PermsFrame
<1>10. ASSUME NEW c \in Calls, Decide(c) PROVE PermsInv'
  <2>1. /\ \A d \in Calls \ {c} : call'[d] = call[d]
        /\ UNCHANGED <<verdict, permsAge, permsCache, token>>
    BY <1>10 DEF Decide, Refused, Permitted, Go, truth, caches, TypeOK
  <2>2. PermsAgeIn(c)'
    BY <1>10, <2>1 DEF Decide, Refused, Permitted, Go, PermsInv, PermsAgeIn, At, Idle, TypeOK, CallStates
  <2>3. QED
    BY <2>1, <2>2, PermsFrame
<1>11. ASSUME NEW c \in Calls, NEW mutates \in BOOLEAN, HandlerReturns(c, mutates) PROVE PermsInv'
  <2>1. /\ \A d \in Calls \ {c} : call'[d] = call[d]
        /\ UNCHANGED <<verdict, permsAge, permsCache, token>>
    BY <1>11 DEF HandlerReturns, Go, truth, caches, TypeOK
  <2>2. PermsAgeIn(c)'
    BY <1>11, <2>1 DEF HandlerReturns, Go, PermsInv, PermsAgeIn, At, Idle, TypeOK, CallStates
  <2>3. QED
    BY <2>1, <2>2, PermsFrame
<1>12. ASSUME NEW c \in Calls, AuditSettles(c) \/ Fails(c) PROVE PermsInv'
  <2>1. /\ \A d \in Calls \ {c} : call'[d] = call[d]
        /\ UNCHANGED <<verdict, permsAge, permsCache, token>>
    BY <1>12 DEF AuditSettles, Fails, Go, truth, caches, TypeOK
  <2>2. PermsAgeIn(c)'
    BY <1>12, <2>1 DEF AuditSettles, Fails, Go, PermsInv, PermsAgeIn, At, Idle, TypeOK, CallStates
  <2>3. QED
    BY <2>1, <2>2, PermsFrame
<1>13. QED
  BY <1>1, <1>2, <1>3, <1>4, <1>5, <1>6, <1>7, <1>8, <1>9, <1>10, <1>11, <1>12
     DEF Next, Change, Issuing, Guarded

(* "Drift is bounded", whatever the lifetimes.                              *)
THEOREM DriftOfPermissions == Spec => []PermissionDriftBounded
<1>1. Init => PermsInv
  BY PipelineAssumption DEF Init, PermsInv, PermsAgeIn, At, Idle, Verdicts
<1>2. TypeOK /\ PermsInv => PermissionDriftBounded
  BY PipelineAssumption
     DEF PermsInv, PermsAgeIn, PermissionDriftBounded, PermsDrift, At, TypeOK, CallStates
<1>3. QED
  BY <1>1, <1>2, TypeCorrect, NextPermsInv, PTL DEF Spec

-----------------------------------------------------------------------------
(* Drift of the workspace's context, through the copy a resolve() holds and *)
(* the cache.                                                               *)

TenantAgeIn(c) ==
  /\ At(c, {"store"}) => contextAge[call[c].ctx] <= call[c].hold
  /\ At(c, {"limit", "handler"}) =>
       contextAge[call[c].ctx] < MaxHold + TenantTtl + call[c].hold

TenantInv ==
  /\ contextAge[context] = 0
  /\ tenantCache.left > 0 =>
       contextAge[tenantCache.value] + tenantCache.left <= MaxHold + TenantTtl
  /\ \A c \in Calls : TenantAgeIn(c)

(* The same frame for the workspace's context.                              *)
LEMMA TenantFrame ==
  ASSUME TenantInv, NEW c \in Calls, TypeOK,
         \A d \in Calls \ {c} : call'[d] = call[d],
         UNCHANGED <<context, contextAge, tenantCache>>, TenantAgeIn(c)'
  PROVE  TenantInv'
BY DEF TenantInv, TenantAgeIn, At

(* Filling the cache and the passing of time keep the ages of the contexts  *)
(* within what the cache's lifetime leaves.                                 *)
LEMMA NextTenantInv == TypeOK /\ TenantInv /\ [Next]_vars => TenantInv'
<1> SUFFICES ASSUME TypeOK, TenantInv, [Next]_vars PROVE TenantInv'
  OBVIOUS
<1> USE PipelineAssumption
<1>1. ASSUME NEW v \in Contexts, ContextBecomes(v), UNCHANGED <<call, tenantCache>>
      PROVE  TenantInv'
  <2>1. /\ contextAge'[context'] = 0
        /\ \A w \in Contexts : contextAge'[w] \in Nat /\ contextAge'[w] <= contextAge[w]
    BY <1>1, Domains DEF ContextBecomes, TypeOK
  <2>2. QED
    BY <1>1, <2>1 DEF TenantInv, TenantAgeIn, At, TypeOK, CallStates
<1>2. CASE EntitlementChanges \/ WorkspaceChanges
  <2>1. PICK v \in Contexts : ContextBecomes(v)
    BY <1>2 DEF EntitlementChanges, WorkspaceChanges, Contexts
  <2>2. UNCHANGED <<call, tenantCache>>
    BY <1>2 DEF EntitlementChanges, WorkspaceChanges, caches
  <2>3. QED
    BY <1>1, <2>1, <2>2
<1>3. CASE EntitlementCleared
  <2>1. /\ tenantCache' = [tenantCache EXCEPT !.left = 0]
        /\ UNCHANGED <<call, context, contextAge>>
    BY <1>3 DEF EntitlementCleared, truth
  <2>2. QED
    BY <2>1 DEF TenantInv, TenantAgeIn, At, TypeOK
<1>4. CASE RolesChange \/ EntitlementUncleared \/ NextWindow \/ UNCHANGED vars
  <2>1. UNCHANGED <<call, context, contextAge, tenantCache>>
    BY <1>4 DEF RolesChange, EntitlementUncleared, NextWindow, vars, truth, caches
  <2>2. QED
    BY <2>1 DEF TenantInv, TenantAgeIn, At
<1>5. CASE Tick
  <2>1. /\ contextAge'[context'] = 0
        /\ \A v \in Contexts : contextAge'[v] \in Nat /\ contextAge'[v] <= contextAge[v] + 1
    BY <1>5, Domains DEF Tick, Later, TypeOK
  <2>2. tenantCache' = [tenantCache EXCEPT !.left = Sooner(@)]
    BY <1>5 DEF Tick
  <2>3. \A c \in Calls : /\ call'[c].at = call[c].at /\ call'[c].ctx = call[c].ctx
                         /\ InProgress(c) => call'[c].hold = call[c].hold + 1
    BY <1>5 DEF Tick, TypeOK, CallStates
  <2>4. \A c \in Calls : TenantAgeIn(c)'
    BY <2>1, <2>3 DEF TenantInv, TenantAgeIn, InProgress, At, TypeOK, CallStates
  <2>5. QED
    BY <2>1, <2>2, <2>4 DEF TenantInv, Sooner, TypeOK
<1>6. ASSUME NEW c \in Calls, ContextSet(c) PROVE TenantInv'
  <2>1. /\ tenantCache' = [value |-> call[c].ctx, left |-> TenantTtl]
        /\ UNCHANGED <<context, contextAge>>
    BY <1>6 DEF ContextSet, truth
  <2>2. contextAge[call[c].ctx] <= call[c].hold
    BY <1>6 DEF ContextSet, TenantInv, TenantAgeIn
  <2>3. /\ \A d \in Calls \ {c} : call'[d] = call[d]
        /\ call'[c] = Resolved(c, call[c].ctx)
    BY <1>6 DEF ContextSet, Go, TypeOK
  <2>4. TenantAgeIn(c)'
    BY <2>1, <2>2, <2>3 DEF Resolved, Idle, TenantAgeIn, At, TypeOK, CallStates
  <2>5. \A d \in Calls : TenantAgeIn(d)'
    BY <2>1, <2>3, <2>4 DEF TenantInv, TenantAgeIn, At
  <2>6. QED
    BY <2>1, <2>2, <2>5 DEF TenantInv, TypeOK, CallStates
<1>7. ASSUME NEW c \in Calls, IssueArrives(c) \/ PermsGet(c) PROVE TenantInv'
  <2>1. /\ \A d \in Calls \ {c} : call'[d] = call[d]
        /\ UNCHANGED <<context, contextAge, tenantCache>>
    BY <1>7 DEF IssueArrives, PermsGet, Go, truth, caches, TypeOK
  <2>2. TenantAgeIn(c)'
    <3>1. CASE IssueArrives(c)
      BY <3>1 DEF IssueArrives, Go, TenantAgeIn, At, Idle, TypeOK
    <3>2. CASE PermsGet(c)
      <4>1. call'[c].at \in {"mint", "permsQuery"}
        BY <3>2 DEF PermsGet, Go, TypeOK, CallStates
      <4>2. QED
        BY <4>1 DEF TenantAgeIn, At
    <3>3. QED
      BY <1>7, <3>1, <3>2
  <2>3. QED
    BY <2>1, <2>2, TenantFrame
<1>8. ASSUME NEW c \in Calls, PermsQuery(c) \/ PermsSet(c) \/ Mint(c) PROVE TenantInv'
  <2>1. /\ \A d \in Calls \ {c} : call'[d] = call[d]
        /\ UNCHANGED <<context, contextAge, tenantCache>>
    BY <1>8 DEF PermsQuery, PermsSet, Mint, Go, truth, caches, TypeOK
  <2>2. TenantAgeIn(c)'
    <3>1. call'[c].at \in {"permsSet", "mint", "idle"}
      <4>1. CASE PermsQuery(c)
        BY <4>1 DEF PermsQuery, Go, TypeOK, CallStates
      <4>2. CASE PermsSet(c)
        BY <4>2 DEF PermsSet, Go, TypeOK, CallStates
      <4>3. CASE Mint(c)
        BY <4>3 DEF Mint, Go, Idle, TypeOK
      <4>4. QED
        BY <1>8, <4>1, <4>2, <4>3
    <3>2. QED
      BY <3>1 DEF TenantAgeIn, At
  <2>3. QED
    BY <2>1, <2>2, TenantFrame
<1>9. ASSUME NEW c \in Calls, RequestArrives(c) PROVE TenantInv'
  <2>1. /\ \A d \in Calls \ {c} : call'[d] = call[d]
        /\ UNCHANGED <<context, contextAge, tenantCache>>
    BY <1>9 DEF RequestArrives, Go, truth, caches, TypeOK
  <2>2. TenantAgeIn(c)'
    BY <1>9, <2>1 DEF RequestArrives, Go, TenantInv, TenantAgeIn, At, Idle, TypeOK, CallStates
  <2>3. QED
    BY <2>1, <2>2, TenantFrame
<1>10. ASSUME NEW c \in Calls, ContextGet(c) PROVE TenantInv'
  <2>1. /\ \A d \in Calls \ {c} : call'[d] = call[d]
        /\ UNCHANGED <<context, contextAge, tenantCache>>
    BY <1>10 DEF ContextGet, Go, truth, caches, TypeOK
  <2>2. TenantAgeIn(c)'
    BY <1>10, <2>1 DEF ContextGet, Go, TenantInv, TenantAgeIn, At, Idle, TypeOK, CallStates, Resolved
  <2>3. QED
    BY <2>1, <2>2, TenantFrame
<1>11. ASSUME NEW c \in Calls, ContextQuery(c) PROVE TenantInv'
  <2>1. /\ \A d \in Calls \ {c} : call'[d] = call[d]
        /\ UNCHANGED <<context, contextAge, tenantCache>>
    BY <1>11 DEF ContextQuery, Go, truth, caches, TypeOK
  <2>2. TenantAgeIn(c)'
    BY <1>11, <2>1 DEF ContextQuery, Go, TenantInv, TenantAgeIn, At, Idle, TypeOK, CallStates
  <2>3. QED
    BY <2>1, <2>2, TenantFrame
<1>12. ASSUME NEW c \in Calls, Decide(c) PROVE TenantInv'
  <2>1. /\ \A d \in Calls \ {c} : call'[d] = call[d]
        /\ UNCHANGED <<context, contextAge, tenantCache>>
    BY <1>12 DEF Decide, Refused, Permitted, Go, truth, caches, TypeOK
  <2>2. TenantAgeIn(c)'
    BY <1>12, <2>1 DEF Decide, Refused, Permitted, Go, TenantInv, TenantAgeIn, At, Idle, TypeOK, CallStates
  <2>3. QED
    BY <2>1, <2>2, TenantFrame
<1>13. ASSUME NEW c \in Calls, NEW mutates \in BOOLEAN, HandlerReturns(c, mutates) PROVE TenantInv'
  <2>1. /\ \A d \in Calls \ {c} : call'[d] = call[d]
        /\ UNCHANGED <<context, contextAge, tenantCache>>
    BY <1>13 DEF HandlerReturns, Go, truth, caches, TypeOK
  <2>2. TenantAgeIn(c)'
    BY <1>13, <2>1 DEF HandlerReturns, Go, TenantInv, TenantAgeIn, At, Idle, TypeOK, CallStates
  <2>3. QED
    BY <2>1, <2>2, TenantFrame
<1>14. ASSUME NEW c \in Calls, AuditSettles(c) \/ Fails(c) PROVE TenantInv'
  <2>1. /\ \A d \in Calls \ {c} : call'[d] = call[d]
        /\ UNCHANGED <<context, contextAge, tenantCache>>
    BY <1>14 DEF AuditSettles, Fails, Go, truth, caches, TypeOK
  <2>2. TenantAgeIn(c)'
    BY <1>14, <2>1 DEF AuditSettles, Fails, Go, TenantInv, TenantAgeIn, At, Idle, TypeOK, CallStates
  <2>3. QED
    BY <2>1, <2>2, TenantFrame
<1>15. QED
  BY <1>2, <1>3, <1>4, <1>5, <1>6, <1>7, <1>8, <1>9, <1>10, <1>11, <1>12, <1>13, <1>14
     DEF Next, Change, Issuing, Guarded

(* The context a request is judged by is no older than the cache and two    *)
(* calls make it, whatever the lifetimes.                                   *)
THEOREM DriftOfEntitlements == Spec => []EntitlementDriftBounded
<1>1. Init => TenantInv
  BY PipelineAssumption DEF Init, TenantInv, TenantAgeIn, At, Idle, Contexts
<1>2. TypeOK /\ TenantInv => EntitlementDriftBounded
  BY PipelineAssumption
     DEF TenantInv, TenantAgeIn, EntitlementDriftBounded, TenantDrift, At, TypeOK, CallStates
<1>3. QED
  BY <1>1, <1>2, TypeCorrect, NextTenantInv, PTL DEF Spec

-----------------------------------------------------------------------------
(* Explicit invalidation.                                                   *)

(* A resolve() about to store something else than the database says was     *)
(* crossed by a change.                                                     *)
RaceInv ==
  /\ StaleOnlyIfRaced
  /\ \A c \in Calls : At(c, {"store"}) /\ call[c].ctx # context => c \in crossed

(* Each way in which a stale entry can arise or stay is recorded.           *)
LEMMA NextRaceInv == TypeOK /\ RaceInv /\ [Next]_vars => RaceInv'
<1> SUFFICES ASSUME TypeOK, RaceInv, [Next]_vars PROVE RaceInv'
  OBVIOUS
<1> USE DEF RaceInv, StaleOnlyIfRaced
<1>1. CASE EntitlementChanges
  BY <1>1 DEF EntitlementChanges, ContextBecomes, At
<1>2. CASE EntitlementCleared
  <2>1. tenantCache'.left = 0
    BY <1>2 DEF EntitlementCleared, TypeOK
  <2>2. UNCHANGED <<context, call, crossed>>
    BY <1>2 DEF EntitlementCleared, truth
  <2>3. QED
    BY <2>1, <2>2 DEF At
<1>3. CASE EntitlementUncleared
  <2>1. (tenantCache.left > 0 => missed') /\ UNCHANGED <<context, call, crossed, tenantCache>>
    BY <1>3 DEF EntitlementUncleared, truth, caches
  <2>2. QED
    BY <2>1 DEF At
<1>4. CASE WorkspaceChanges
  <2>1. /\ tenantCache.left > 0 => missed'
        /\ crossed' = {c \in Calls : At(c, {"store"})}
        /\ UNCHANGED <<call, tenantCache>>
    BY <1>4 DEF WorkspaceChanges, ContextBecomes, caches
  <2>2. QED
    BY <2>1 DEF At
<1>5. CASE Tick
  <2>1. \A c \in Calls : call'[c].at = call[c].at /\ call'[c].ctx = call[c].ctx
    BY <1>5 DEF Tick, TypeOK, CallStates
  <2>2. UNCHANGED <<context, clearing, crossed>> /\ tenantCache'.value = tenantCache.value
    BY <1>5 DEF Tick, TypeOK
  <2>3. tenantCache'.left > 0 => tenantCache.left > 0 /\ (missed => missed')
    BY <1>5 DEF Tick, Sooner, TypeOK
  <2>4. QED
    BY <2>1, <2>2, <2>3 DEF At
<1>6. CASE RolesChange \/ NextWindow \/ UNCHANGED vars
  BY <1>6 DEF RolesChange, NextWindow, vars, truth, caches, races, At
<1>7. ASSUME NEW c \in Calls, ContextSet(c) PROVE RaceInv'
  <2>1. /\ tenantCache'.value = call[c].ctx /\ (missed' <=> c \in crossed)
        /\ crossed' = crossed \ {c} /\ UNCHANGED <<context, clearing>>
    BY <1>7 DEF ContextSet, truth
  <2>2. /\ \A d \in Calls \ {c} : call'[d] = call[d]
        /\ call'[c].at # "store"
    BY <1>7 DEF ContextSet, Go, Resolved, Idle, TypeOK, CallStates
  <2>3. QED
    BY <1>7, <2>1, <2>2 DEF ContextSet, At
<1>8. ASSUME NEW c \in Calls, ContextQuery(c) PROVE RaceInv'
  <2>1. call'[c].ctx = context /\ UNCHANGED <<context, clearing, tenantCache, races>>
    BY <1>8 DEF ContextQuery, Go, truth, caches, TypeOK, CallStates
  <2>2. \A d \in Calls \ {c} : call'[d] = call[d]
    BY <1>8 DEF ContextQuery, Go, TypeOK
  <2>3. QED
    BY <2>1, <2>2 DEF At, races
<1>9. ASSUME NEW c \in Calls, call'[c].at # "store", \A d \in Calls \ {c} : call'[d] = call[d],
             UNCHANGED <<context, clearing, tenantCache, missed>>, crossed \ {c} \subseteq crossed'
      PROVE  RaceInv'
  BY <1>9 DEF At
<1>10. ASSUME NEW c \in Calls,
              \/ IssueArrives(c) \/ PermsGet(c) \/ PermsQuery(c) \/ PermsSet(c) \/ Mint(c)
              \/ RequestArrives(c) \/ ContextGet(c) \/ Decide(c)
       PROVE  RaceInv'
  <2>1. UNCHANGED <<context, clearing, tenantCache, races>>
    BY <1>10 DEF IssueArrives, PermsGet, PermsQuery, PermsSet, Mint, RequestArrives, ContextGet,
       Decide, Refused, Permitted, truth, caches
  <2>2. \A d \in Calls \ {c} : call'[d] = call[d]
    BY <1>10 DEF IssueArrives, PermsGet, PermsQuery, PermsSet, Mint, RequestArrives, ContextGet,
       Decide, Refused, Permitted, Go, TypeOK
  <2>3. call'[c].at # "store"
    <3>1. CASE IssueArrives(c)
      BY <3>1 DEF IssueArrives, Go, Idle, TypeOK, CallStates
    <3>2. CASE PermsGet(c)
      BY <3>2 DEF PermsGet, Go, TypeOK, CallStates
    <3>3. CASE PermsQuery(c)
      BY <3>3 DEF PermsQuery, Go, TypeOK, CallStates
    <3>4. CASE PermsSet(c)
      BY <3>4 DEF PermsSet, Go, TypeOK, CallStates
    <3>5. CASE Mint(c)
      BY <3>5 DEF Mint, Go, Idle, TypeOK, CallStates
    <3>6. CASE RequestArrives(c)
      BY <3>6 DEF RequestArrives, Go, Idle, TypeOK, CallStates
    <3>7. CASE ContextGet(c)
      BY <3>7 DEF ContextGet, Resolved, Go, Idle, TypeOK, CallStates
    <3>8. CASE Decide(c)
      BY <3>8 DEF Decide, Refused, Permitted, Go, Idle, TypeOK, CallStates
    <3>9. QED
      BY <1>10, <3>1, <3>2, <3>3, <3>4, <3>5, <3>6, <3>7, <3>8
  <2>4. QED
    BY <1>9, <2>1, <2>2, <2>3 DEF races
<1>11. ASSUME NEW c \in Calls, NEW mutates \in BOOLEAN, HandlerReturns(c, mutates) PROVE RaceInv'
  BY <1>9, <1>11 DEF HandlerReturns, Go, Idle, truth, caches, races, TypeOK
<1>12. ASSUME NEW c \in Calls, AuditSettles(c) \/ Fails(c) PROVE RaceInv'
  BY <1>9, <1>12 DEF AuditSettles, Fails, Go, Idle, truth, caches, races, TypeOK
<1>13. QED
  BY <1>1, <1>2, <1>3, <1>4, <1>5, <1>6, <1>7, <1>8, <1>10, <1>11, <1>12
     DEF Next, Change, Issuing, Guarded

(* A cached context that is wrong although enableProduct or disableProduct  *)
(* returned has one of the three known causes, whatever the interleaving.   *)
THEOREM InvalidationWorks == Spec => []StaleOnlyIfRaced
<1>1. Init => RaceInv
  BY DEF Init, RaceInv, StaleOnlyIfRaced, At, Idle
<1>2. RaceInv => StaleOnlyIfRaced
  BY DEF RaceInv
<1>3. QED
  BY <1>1, <1>2, TypeCorrect, NextRaceInv, PTL DEF Spec

-----------------------------------------------------------------------------
(* The rate limit.                                                          *)

RateInv == admitted <= count /\ RateHolds

(* The counter covers what was admitted, and never falls within a window.   *)
LEMMA NextRateInv == TypeOK /\ RateInv /\ [Next]_vars => RateInv'
<1> SUFFICES ASSUME TypeOK, RateInv, [Next]_vars PROVE RateInv'
  OBVIOUS
<1> USE PipelineAssumption DEF RateInv, RateHolds
<1>1. ASSUME NEW c \in Calls, Decide(c) PROVE RateInv'
  <2>1. count' = IF count <= RateMax THEN count + 1 ELSE count
    BY <1>1 DEF Decide, Refused, Permitted
  <2>2. admitted' = IF count' > RateMax THEN admitted ELSE admitted + 1
    BY <1>1 DEF Decide, Refused, Permitted
  <2>3. QED
    BY <2>1, <2>2 DEF TypeOK
<1>2. CASE NextWindow
  BY <1>2 DEF NextWindow
<1>3. CASE UNCHANGED limiter
  BY <1>3 DEF limiter
<1>4. ASSUME NEW c \in Calls,
             IssueArrives(c) \/ RequestArrives(c) \/ Issuing(c) \/ AuditSettles(c) \/ Fails(c)
      PROVE  UNCHANGED limiter
  BY <1>4 DEF IssueArrives, RequestArrives, Issuing, PermsGet, PermsQuery, PermsSet, Mint,
     AuditSettles, Fails
<1>5. ASSUME NEW c \in Calls, ContextGet(c) \/ ContextQuery(c) \/ ContextSet(c)
      PROVE  UNCHANGED limiter
  BY <1>5 DEF ContextGet, ContextQuery, ContextSet
<1>6. ASSUME NEW c \in Calls, NEW mutates \in BOOLEAN, HandlerReturns(c, mutates)
      PROVE  UNCHANGED limiter
  BY <1>6 DEF HandlerReturns
<1>7. Change \/ Tick \/ UNCHANGED vars => UNCHANGED limiter
  BY DEF Change, RolesChange, EntitlementChanges, EntitlementCleared, EntitlementUncleared,
     WorkspaceChanges, Tick, vars, limiter
<1>8. QED
  BY <1>1, <1>2, <1>3, <1>4, <1>5, <1>6, <1>7 DEF Next, Guarded

(* No window admits more than RateMax calls, however many compete.          *)
THEOREM RateLimitHolds == Spec => []RateHolds
<1>1. Init => RateInv
  BY PipelineAssumption DEF Init, RateInv, RateHolds
<1>2. RateInv => RateHolds
  BY DEF RateInv
<1>3. QED
  BY <1>1, <1>2, TypeCorrect, NextRateInv, PTL DEF Spec
=============================================================================
