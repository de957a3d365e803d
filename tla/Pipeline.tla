------------------------------ MODULE Pipeline ------------------------------
(***************************************************************************)
(* What a request passes on its way to a handler, and the copies of the    *)
(* truth it is judged by: permissions read through a Redis cache into an   *)
(* access token, and the workspace's context read through another.         *)
(*                                                                         *)
(* One user of one workspace and one product route stand for all: a call   *)
(* is either a login or refresh, which issues a token, or a request for    *)
(* that route.  JavaScript runs to the next await, so a step is one        *)
(* statement sent to Redis or PostgreSQL with what follows it.  Time is    *)
(* the number of Ticks since something happened.                           *)
(***************************************************************************)
EXTENDS Integers, FiniteSets

CONSTANTS
  Calls,        \* HTTP calls in progress at the same time
  PermsTtl,     \* 300 s in the code
  TokenTtl,     \* 900 s
  TenantTtl,    \* 60 s
  MaxHold,      \* how long a call may take
  RateMax,      \* calls admitted per window
  MaxChanges,   \* bound: changes of roles, entitlement and workspace
  MaxFailures   \* bound: calls and audit writes that fail

ASSUME PipelineAssumption ==
  /\ PermsTtl \in Nat \ {0} /\ TokenTtl \in Nat \ {0} /\ TenantTtl \in Nat \ {0}
  /\ MaxHold \in Nat /\ RateMax \in Nat /\ MaxChanges \in Nat /\ MaxFailures \in Nat

(* What resolve() caches: the context with or without the product, or null. *)
Contexts == {"enabled", "disabled", "inactive"}

(* What the user's roles say of the route's permission.                     *)
Verdicts == {"granted", "denied"}

(* How long after a change the old value may still decide.                  *)
PermsDrift  == PermsTtl + TokenTtl + 3 * MaxHold
TenantDrift == TenantTtl + 2 * MaxHold

VARIABLES
  verdict,      \* the user's roles on the route's permission
  context,      \* the workspace as the database has it
  clearing,     \* enable/disableProduct stands between its update and its del
  permsCache,   \* entry t:<tenant>:perms:<user> (left = 0: none)
  tenantCache,  \* entry tenantctx:<tenant>
  token,        \* the access token the client holds
  call,         \* where each call stands, and what it read
  count,        \* the rate limiter's counter of the current window
  admitted,     \* calls it let through in that window
  permsAge,     \* for each answer: Ticks since the roles said so, or PermsDrift
  contextAge,   \* for each context: Ticks since the workspace was in it, likewise
  crossed,      \* resolve() calls between query and set when the workspace changed
  missed,       \* the tenantCache entry outlives a change no del followed
  changes,
  failures

vars == <<verdict, context, clearing, permsCache, tenantCache, token, call, count,
          admitted, permsAge, contextAge, crossed, missed, changes, failures>>

Idle == [at |-> "idle", hold |-> 0, perm |-> "denied", ctx |-> "inactive"]

Init ==
  /\ verdict \in Verdicts
  /\ context \in Contexts
  /\ clearing = FALSE
  /\ permsCache = [value |-> "denied", left |-> 0]
  /\ tenantCache = [value |-> "inactive", left |-> 0]
  /\ token = [value |-> "denied", left |-> 0]
  /\ call = [c \in Calls |-> Idle]
  /\ count = 0
  /\ admitted = 0
  /\ permsAge = [v \in Verdicts |-> IF v = verdict THEN 0 ELSE PermsDrift]
  /\ contextAge = [v \in Contexts |-> IF v = context THEN 0 ELSE TenantDrift]
  /\ crossed = {}
  /\ missed = FALSE
  /\ changes = 0
  /\ failures = 0

At(c, pcs)  == call[c].at \in pcs
Go(c, new)  == call' = [call EXCEPT ![c] = new]
truth       == <<verdict, context, permsAge, contextAge, changes>>
limiter     == <<count, admitted>>
races       == <<crossed, missed>>
caches      == <<permsCache, tenantCache>>

-----------------------------------------------------------------------------
(* The truth changes, and time passes.                                      *)

Changed == changes < MaxChanges /\ changes' = changes + 1

(* Roles change: no caller of RbacService.invalidate exists.                *)
RolesChange ==
  /\ Changed
  /\ verdict' \in Verdicts \ {verdict}
  /\ permsAge' = [permsAge EXCEPT ![verdict'] = 0]
  /\ UNCHANGED <<context, clearing, caches, token, call, limiter,
                 contextAge, races, failures>>

ContextBecomes(v) ==
  /\ Changed
  /\ v # context
  /\ context' = v
  /\ contextAge' = [contextAge EXCEPT ![v] = 0]
  /\ crossed' = {c \in Calls : At(c, {"store"})}

(* enableProduct and disableProduct: the update ...                         *)
EntitlementChanges ==
  /\ ~clearing
  /\ context # "inactive"
  /\ ContextBecomes(IF context = "enabled" THEN "disabled" ELSE "enabled")
  /\ clearing' = TRUE
  /\ UNCHANGED <<verdict, caches, token, call, limiter, permsAge, missed,
                 failures>>

(* Mutant: the cache is left to expire.                                     *)
EntitlementForgotten ==
  /\ clearing
  /\ clearing' = FALSE
  /\ UNCHANGED <<truth, caches, token, call, limiter, races, failures>>

(* ... and then the del.                                                    *)
EntitlementCleared ==
  /\ clearing
  /\ clearing' = FALSE
  /\ tenantCache' = [tenantCache EXCEPT !.left = 0]
  /\ missed' = FALSE
  /\ UNCHANGED <<truth, permsCache, token, call, limiter, crossed, failures>>

(* The del fails, or the process ends before it.                            *)
EntitlementUncleared ==
  /\ clearing
  /\ failures < MaxFailures
  /\ failures' = failures + 1
  /\ clearing' = FALSE
  /\ missed' = (tenantCache.left > 0)
  /\ UNCHANGED <<truth, caches, token, call, limiter, crossed>>

(* Tenant.status changes in the database: nothing clears the cache.         *)
WorkspaceChanges ==
  /\ \/ context = "inactive" /\ \E v \in {"enabled", "disabled"} : ContextBecomes(v)
     \/ ContextBecomes("inactive")
  /\ missed' = (tenantCache.left > 0)
  /\ UNCHANGED <<verdict, clearing, caches, token, call, limiter, permsAge,
                 failures>>

Sooner(n)       == IF n > 0 THEN n - 1 ELSE 0
Later(n, drift) == IF n < drift THEN n + 1 ELSE n

InProgress(c) == ~At(c, {"idle", "audit"})

(* Cache entries and the token grow older; no call takes longer than        *)
(* MaxHold.                                                                 *)
Tick ==
  /\ \A c \in Calls : InProgress(c) => call[c].hold < MaxHold
  /\ call' = [c \in Calls |->
                IF InProgress(c) THEN [call[c] EXCEPT !.hold = @ + 1] ELSE call[c]]
  /\ permsCache' = [permsCache EXCEPT !.left = Sooner(@)]
  /\ tenantCache' = [tenantCache EXCEPT !.left = Sooner(@)]
  /\ missed' = (missed /\ tenantCache.left > 1)
  /\ token' = [token EXCEPT !.left = Sooner(@)]
  /\ permsAge' =
       [v \in Verdicts |-> IF v = verdict THEN 0 ELSE Later(permsAge[v], PermsDrift)]
  /\ contextAge' =
       [v \in Contexts |-> IF v = context THEN 0 ELSE Later(contextAge[v], TenantDrift)]
  /\ UNCHANGED <<verdict, context, clearing, limiter, crossed, changes, failures>>

(* The limiter's next window has a key of its own.                          *)
NextWindow ==
  /\ count > 0
  /\ count' = 0
  /\ admitted' = 0
  /\ UNCHANGED <<truth, clearing, caches, token, call, races, failures>>

-----------------------------------------------------------------------------
(* issue(): permissionsFor through the cache, then the token.               *)

IssueArrives(c) ==
  /\ At(c, {"idle"})
  /\ Go(c, [Idle EXCEPT !.at = "perms"])
  /\ UNCHANGED <<truth, clearing, caches, token, limiter, races, failures>>

(* Mutant: every hit keeps the entry for another PermsTtl.                  *)
PermsGetSliding(c) ==
  /\ At(c, {"perms"})
  /\ permsCache' = [permsCache EXCEPT !.left = IF @ > 0 THEN PermsTtl ELSE 0]
  /\ Go(c, IF permsCache.left > 0
             THEN [call[c] EXCEPT !.at = "mint", !.perm = permsCache.value]
             ELSE [call[c] EXCEPT !.at = "permsQuery"])
  /\ UNCHANGED <<truth, clearing, tenantCache, token, limiter, races, failures>>

PermsGet(c) ==
  /\ At(c, {"perms"})
  /\ Go(c, IF permsCache.left > 0
             THEN [call[c] EXCEPT !.at = "mint", !.perm = permsCache.value]
             ELSE [call[c] EXCEPT !.at = "permsQuery"])
  /\ UNCHANGED <<truth, clearing, caches, token, limiter, races, failures>>

PermsQuery(c) ==
  /\ At(c, {"permsQuery"})
  /\ Go(c, [call[c] EXCEPT !.at = "permsSet", !.perm = verdict])
  /\ UNCHANGED <<truth, clearing, caches, token, limiter, races, failures>>

(* Mutant: SET without EX, whose TTL Redis gives as -1.                     *)
PermsSetForGood(c) ==
  /\ At(c, {"permsSet"})
  /\ permsCache' = [value |-> call[c].perm, left |-> -1]
  /\ Go(c, [call[c] EXCEPT !.at = "mint"])
  /\ UNCHANGED <<truth, clearing, tenantCache, token, limiter, races, failures>>

PermsSet(c) ==
  /\ At(c, {"permsSet"})
  /\ permsCache' = [value |-> call[c].perm, left |-> PermsTtl]
  /\ Go(c, [call[c] EXCEPT !.at = "mint"])
  /\ UNCHANGED <<truth, clearing, tenantCache, token, limiter, races, failures>>

Mint(c) ==
  /\ At(c, {"mint"})
  /\ token' = [value |-> call[c].perm, left |-> TokenTtl]
  /\ Go(c, Idle)
  /\ UNCHANGED <<truth, clearing, caches, limiter, races, failures>>

-----------------------------------------------------------------------------
(* A request for the route.                                                 *)

(* AuthGuard: without a valid token the answer is 401, recorded nowhere.    *)
RequestArrives(c) ==
  /\ At(c, {"idle"})
  /\ token.left > 0
  /\ Go(c, [Idle EXCEPT !.at = "context", !.perm = token.value])
  /\ UNCHANGED <<truth, clearing, caches, token, limiter, races, failures>>

(* TenantGuard: an inactive workspace is answered 403 and, since req.tenant *)
(* is not set yet, recorded nowhere.                                        *)
Resolved(c, v) ==
  IF v = "inactive" THEN Idle ELSE [call[c] EXCEPT !.at = "limit", !.ctx = v]

ContextGet(c) ==
  /\ At(c, {"context"})
  /\ Go(c, IF tenantCache.left > 0 THEN Resolved(c, tenantCache.value)
                                   ELSE [call[c] EXCEPT !.at = "query"])
  /\ UNCHANGED <<truth, clearing, caches, token, limiter, races, failures>>

ContextQuery(c) ==
  /\ At(c, {"query"})
  /\ Go(c, [call[c] EXCEPT !.at = "store", !.ctx = context])
  /\ UNCHANGED <<truth, clearing, caches, token, limiter, races, failures>>

(* Mutant: SET without EX.                                                  *)
ContextSetForGood(c) ==
  /\ At(c, {"store"})
  /\ tenantCache' = [value |-> call[c].ctx, left |-> TenantTtl + TenantDrift]
  /\ missed' = (c \in crossed)
  /\ crossed' = crossed \ {c}
  /\ Go(c, Resolved(c, call[c].ctx))
  /\ UNCHANGED <<truth, clearing, permsCache, token, limiter, failures>>

ContextSet(c) ==
  /\ At(c, {"store"})
  /\ tenantCache' = [value |-> call[c].ctx, left |-> TenantTtl]
  /\ missed' = (c \in crossed)
  /\ crossed' = crossed \ {c}
  /\ Go(c, Resolved(c, call[c].ctx))
  /\ UNCHANGED <<truth, clearing, permsCache, token, limiter, failures>>

(* PermissionGuard: the product is enabled, the permission granted.         *)
Permitted(c) == call[c].ctx = "enabled" /\ call[c].perm = "granted"

(* A refusal is answered, and recorded in the audit trail as denied.        *)
Refused == [Idle EXCEPT !.at = "audit"]

(* Mutant: the counter is compared before the call is counted.              *)
DecideFirst(c) ==
  /\ At(c, {"limit"})
  /\ count' = IF count <= RateMax THEN count + 1 ELSE count
  /\ IF count > RateMax
       THEN Go(c, Refused) /\ UNCHANGED admitted
       ELSE /\ Go(c, IF Permitted(c) THEN [call[c] EXCEPT !.at = "handler"] ELSE Refused)
            /\ admitted' = admitted + 1
  /\ UNCHANGED <<truth, clearing, caches, token, races, failures>>

(* RateLimitGuard, then PermissionGuard in the same turn.                   *)
Decide(c) ==
  /\ At(c, {"limit"})
  /\ count' = IF count <= RateMax THEN count + 1 ELSE count
  /\ IF count' > RateMax
       THEN Go(c, Refused) /\ UNCHANGED admitted
       ELSE /\ Go(c, IF Permitted(c) THEN [call[c] EXCEPT !.at = "handler"] ELSE Refused)
            /\ admitted' = admitted + 1
  /\ UNCHANGED <<truth, clearing, caches, token, races, failures>>

(* The handler returns: a mutation is recorded as allowed.                  *)
HandlerReturns(c, mutates) ==
  /\ At(c, {"handler"})
  /\ Go(c, IF mutates THEN [Idle EXCEPT !.at = "audit", !.perm = "granted"] ELSE Idle)
  /\ UNCHANGED <<truth, clearing, caches, token, limiter, races, failures>>

(* The audit write nobody waits for settles.                                *)
AuditSettles(c) ==
  /\ At(c, {"audit"})
  /\ Go(c, Idle)
  /\ UNCHANGED <<truth, clearing, caches, token, limiter, races, failures>>

(* A statement throws, or the process ends.                                 *)
Fails(c) ==
  /\ ~At(c, {"idle"})
  /\ failures < MaxFailures
  /\ failures' = failures + 1
  /\ Go(c, Idle)
  /\ crossed' = crossed \ {c}
  /\ UNCHANGED <<truth, clearing, caches, token, limiter, missed>>

Change ==
  \/ RolesChange \/ WorkspaceChanges
  \/ EntitlementChanges \/ EntitlementCleared \/ EntitlementUncleared

Issuing(c) == PermsGet(c) \/ PermsQuery(c) \/ PermsSet(c) \/ Mint(c)

Guarded(c) ==
  \/ ContextGet(c) \/ ContextQuery(c) \/ ContextSet(c) \/ Decide(c) \/ AuditSettles(c)
  \/ \E mutates \in BOOLEAN : HandlerReturns(c, mutates)

Next ==
  \/ Change
  \/ Tick
  \/ NextWindow
  \/ \E c \in Calls :
       IssueArrives(c) \/ RequestArrives(c) \/ Issuing(c) \/ Guarded(c) \/ Fails(c)

Spec == Init /\ [][Next]_vars

-----------------------------------------------------------------------------
(* Properties.                                                              *)

Steps == {"idle", "perms", "permsQuery", "permsSet", "mint", "context", "query",
          "store", "limit", "handler", "audit"}

CallStates == [at : Steps, hold : 0..MaxHold, perm : Verdicts, ctx : Contexts]

(* Types of the caches, the token, the calls and the counters.              *)
TypeOK ==
  /\ verdict \in Verdicts /\ context \in Contexts /\ clearing \in BOOLEAN
  /\ permsCache \in [value : Verdicts, left : Nat]
  /\ tenantCache \in [value : Contexts, left : Nat]
  /\ token \in [value : Verdicts, left : Nat]
  /\ call \in [Calls -> CallStates]
  /\ count \in 0..(RateMax + 1) /\ admitted \in Nat
  /\ permsAge \in [Verdicts -> 0..PermsDrift]
  /\ contextAge \in [Contexts -> 0..TenantDrift]
  /\ crossed \subseteq Calls /\ missed \in BOOLEAN
  /\ changes \in 0..MaxChanges /\ failures \in 0..MaxFailures

(* "Drift is bounded": the permission a request is judged by was the        *)
(* user's at some moment of the last PermsDrift, through whatever           *)
(* interleaving of cache fills, tokens and role changes it came.            *)
PermissionDriftBounded ==
  \A c \in Calls : At(c, {"limit", "handler"}) => permsAge[call[c].perm] < PermsDrift

(* A request is judged by a context the workspace was in at some moment of  *)
(* the last TenantDrift, also when a resolve() that read before a change    *)
(* stores its copy after the change was cleared.                            *)
EntitlementDriftBounded ==
  \A c \in Calls : At(c, {"limit", "handler"}) => contextAge[call[c].ctx] < TenantDrift

(* "Invalidated explicitly": once enableProduct or disableProduct returned, *)
(* a cached context differs from the database's only if a resolve() was     *)
(* between its query and its set when the workspace changed, if a status    *)
(* nobody clears changed, or if the del failed.                             *)
StaleOnlyIfRaced ==
  ~clearing /\ tenantCache.left > 0 /\ tenantCache.value # context => missed

(* However calls interleave at the limit, no window lets more than RateMax  *)
(* of them past RateLimitGuard.                                             *)
RateHolds == admitted <= RateMax
=============================================================================
