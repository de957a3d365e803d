------------------------------ MODULE EventBus ------------------------------
(***************************************************************************)
(* The transactional outbox of the platform and everything that drains it: *)
(*                                                                         *)
(*  - publish() of InProcessEventBus, one INSERT into OutboxEvent;         *)
(*  - relay() of InProcessEventBus, started every second in every API      *)
(*    replica, whether or not the previous call has returned: it reads a   *)
(*    batch, runs the subscribed handlers, and writes the row back;        *)
(*  - relayOutbox() of the worker deployable, which claims rows and puts   *)
(*    one job per row on the queue helix.events, and that queue's consumer.*)
(*                                                                         *)
(* An event is its position in creation order.  A replica's calls of       *)
(* relay() that may be in progress at the same time are the members of     *)
(* Relays it hosts; the worker's calls are the members of Workers.         *)
(***************************************************************************)
EXTENDS Integers, FiniteSets

CONSTANTS
  MaxEvents,      \* bound: how many events are ever published
  Names,          \* event names
  NoName,         \* the name of a row that does not exist yet
  Handlers,       \* handler functions registered by the product modules
  Subscriptions,  \* the handler map: name -> handlers subscribed to it
  Replicas,       \* API processes
  Relays,         \* calls of relay() that may overlap
  HostOf,         \* the replica each of them runs in
  Workers,        \* calls of relayOutbox() that may overlap
  MaxAttempts,    \* 10 in the code
  BatchSize,      \* 50 in the code
  WorkerBatch,    \* 200 in the code
  MaxCrashes      \* bound: how many process exits

Events == 1..MaxEvents

ASSUME BoundsAssumption ==
  /\ MaxEvents \in Nat
  /\ MaxAttempts \in Nat \ {0}
  /\ BatchSize \in Nat \ {0}
  /\ WorkerBatch \in Nat \ {0}
  /\ MaxCrashes \in Nat

ASSUME SubscriptionsAssumption ==
  /\ NoName \notin Names
  /\ Subscriptions \in [Names -> SUBSET Handlers]

ASSUME HostAssumption == HostOf \in [Relays -> Replicas]

VARIABLES
  status,     \* OutboxEvent.status, or "absent" before the insert
  attempts,   \* OutboxEvent.attempts
  due,        \* whether OutboxEvent.availableAt has passed
  name,       \* OutboxEvent.name
  pc,         \* where each call of relay() stands
  batch,      \* the ids it selected and has not reached yet
  event,      \* the event it is working on (0: none)
  seen,       \* row.attempts as it read it
  running,    \* the handlers it started that have not settled
  orphans,    \* <<replica, event, handler>>: still running after Promise.all
              \* was rejected by another handler
  delivered,  \* <<event, handler>>: handler calls that resolved
  failures,   \* how many dispatches of each event ended in the catch block
  claimed,    \* rows a worker call has marked published and not enqueued
  jobs,       \* jobs ever added to helix.events, per event
  consumed,   \* jobs whose processor has run, per event
  crashes

outbox  == <<status, attempts, due, name>>
relays  == <<pc, batch, event, seen, running, orphans>>
effects == <<delivered, failures>>
queue   == <<claimed, jobs, consumed>>
vars    == <<outbox, relays, effects, queue, crashes>>

Init ==
  /\ status    = [e \in Events |-> "absent"]
  /\ attempts  = [e \in Events |-> 0]
  /\ due       = [e \in Events |-> FALSE]
  /\ name      = [e \in Events |-> NoName]
  /\ pc        = [r \in Relays |-> "idle"]
  /\ batch     = [r \in Relays |-> {}]
  /\ event     = [r \in Relays |-> 0]
  /\ seen      = [r \in Relays |-> 0]
  /\ running   = [r \in Relays |-> {}]
  /\ orphans   = {}
  /\ delivered = {}
  /\ failures  = [e \in Events |-> 0]
  /\ claimed   = [w \in Workers |-> {}]
  /\ jobs      = [e \in Events |-> 0]
  /\ consumed  = [e \in Events |-> 0]
  /\ crashes   = 0

-----------------------------------------------------------------------------
(* Rows a drain query selects: pending, available, oldest first, limited.   *)

(* Mutant: a row that has failed is not selected again.                     *)
DueOnce == {e \in Events : status[e] = "pending" /\ due[e] /\ attempts[e] = 0}

Due == {e \in Events : status[e] = "pending" /\ due[e]}

Oldest(S, n) == {e \in S : Cardinality({d \in S : d < e}) < n}

IsFirst(e, S) == e \in S /\ \A d \in S : e <= d

-----------------------------------------------------------------------------
(* publish(): one INSERT, available at once.                                *)

(* Mutant: the row is created without the name of its event.                *)
PublishNameless(e, n) ==
  /\ status[e] = "absent"
  /\ \A d \in Events : d < e => status[d] # "absent"
  /\ status' = [status EXCEPT ![e] = "pending"]
  /\ due'    = [due EXCEPT ![e] = TRUE]
  /\ UNCHANGED <<attempts, name, relays, effects, queue, crashes>>

Publish(e, n) ==
  /\ status[e] = "absent"
  /\ \A d \in Events : d < e => status[d] # "absent"
  /\ status' = [status EXCEPT ![e] = "pending"]
  /\ due'    = [due EXCEPT ![e] = TRUE]
  /\ name'   = [name EXCEPT ![e] = n]
  /\ UNCHANGED <<attempts, relays, effects, queue, crashes>>

(* availableAt, pushed into the future by a failure, is reached.            *)
BackoffElapses(e) ==
  /\ status[e] = "pending"
  /\ ~due[e]
  /\ due' = [due EXCEPT ![e] = TRUE]
  /\ UNCHANGED <<status, attempts, name, relays, effects, queue, crashes>>

-----------------------------------------------------------------------------
(* relay() of an API replica.                                               *)

(* The SELECT ... FOR UPDATE SKIP LOCKED is a statement of its own: its row *)
(* locks are gone when it returns, and nothing marks the rows as taken.     *)
RelayPoll(r) ==
  /\ pc[r] = "idle"
  /\ Due # {}
  /\ batch' = [batch EXCEPT ![r] = Oldest(Due, BatchSize)]
  /\ pc'    = [pc EXCEPT ![r] = "next"]
  /\ UNCHANGED <<outbox, event, seen, running, orphans, effects, queue, crashes>>

(* findUnique, then every handler is called.  The row is read again but its *)
(* status is not looked at.  No row is ever deleted, so it is found.        *)
RelayRead(r, e) ==
  /\ pc[r] = "next"
  /\ IsFirst(e, batch[r])
  /\ batch'   = [batch EXCEPT ![r] = @ \ {e}]
  /\ event'   = [event EXCEPT ![r] = e]
  /\ seen'    = [seen EXCEPT ![r] = attempts[e]]
  /\ running' = [running EXCEPT ![r] = Subscriptions[name[e]]]
  /\ pc'      = [pc EXCEPT ![r] = "dispatch"]
  /\ UNCHANGED <<outbox, orphans, effects, queue, crashes>>

HandlerResolves(r, h) ==
  /\ pc[r] = "dispatch"
  /\ h \in running[r]
  /\ running'   = [running EXCEPT ![r] = @ \ {h}]
  /\ delivered' = delivered \cup {<<event[r], h>>}
  /\ UNCHANGED <<outbox, pc, batch, event, seen, orphans, failures, queue, crashes>>

(* Mutant: Promise.allSettled instead of Promise.all.                       *)
HandlerRejectsUnnoticed(r, h) ==
  /\ pc[r] = "dispatch"
  /\ h \in running[r]
  /\ running' = [running EXCEPT ![r] = @ \ {h}]
  /\ UNCHANGED <<outbox, pc, batch, event, seen, orphans, effects, queue, crashes>>

(* The first rejection rejects Promise.all; the other handlers run on.      *)
HandlerRejects(r, h) ==
  /\ pc[r] = "dispatch"
  /\ h \in running[r]
  /\ running'  = [running EXCEPT ![r] = {}]
  /\ orphans'  = orphans \cup {<<HostOf[r], event[r], g>> : g \in running[r] \ {h}}
  /\ failures' = [failures EXCEPT ![event[r]] = @ + 1]
  /\ pc'       = [pc EXCEPT ![r] = "nack"]
  /\ UNCHANGED <<outbox, batch, event, seen, delivered, queue, crashes>>

(* Nobody awaits an orphan any more: it completes, or its error is dropped. *)
OrphanSettles(o, resolves) ==
  /\ o \in orphans
  /\ orphans'   = orphans \ {o}
  /\ delivered' = IF resolves THEN delivered \cup {<<o[2], o[3]>>} ELSE delivered
  /\ UNCHANGED <<outbox, pc, batch, event, seen, running, failures, queue, crashes>>

(* The loop goes on with the next id of the batch, or relay() returns.      *)
Advance(r) ==
  /\ pc'    = [pc EXCEPT ![r] = IF batch[r] = {} THEN "idle" ELSE "next"]
  /\ event' = [event EXCEPT ![r] = 0]
  /\ seen'  = [seen EXCEPT ![r] = 0]
  /\ UNCHANGED <<batch, running, orphans>>

(* Mutant: the promise of the handlers is not awaited.                      *)
AckAtOnce(r) ==
  /\ pc[r] = "dispatch"
  /\ status'  = [status EXCEPT ![event[r]] = "published"]
  /\ running' = [running EXCEPT ![r] = {}]
  /\ pc'      = [pc EXCEPT ![r] = IF batch[r] = {} THEN "idle" ELSE "next"]
  /\ event'   = [event EXCEPT ![r] = 0]
  /\ seen'    = [seen EXCEPT ![r] = 0]
  /\ UNCHANGED <<attempts, due, name, batch, orphans, effects, queue, crashes>>

(* Every handler resolved: the row becomes published whatever it was.       *)
Ack(r) ==
  /\ pc[r] = "dispatch"
  /\ running[r] = {}
  /\ status' = [status EXCEPT ![event[r]] = "published"]
  /\ Advance(r)
  /\ UNCHANGED <<attempts, due, name, effects, queue, crashes>>

(* The update to published sits in the try block: when it throws (having    *)
(* been applied or not), the catch block runs as if a handler had failed.   *)
AckFails(r, applied) ==
  /\ pc[r] = "dispatch"
  /\ running[r] = {}
  /\ status'   = [status EXCEPT ![event[r]] = IF applied THEN "published" ELSE @]
  /\ failures' = [failures EXCEPT ![event[r]] = @ + 1]
  /\ pc'       = [pc EXCEPT ![r] = "nack"]
  /\ UNCHANGED <<attempts, due, name, batch, event, seen, running, orphans,
                 delivered, queue, crashes>>

(* Mutant: the limit is compared one too early.                             *)
NackParksEarly(r) ==
  /\ pc[r] = "nack"
  /\ attempts' = [attempts EXCEPT ![event[r]] = seen[r] + 1]
  /\ status'   = [status EXCEPT ![event[r]] =
                    IF seen[r] + 1 >= MaxAttempts - 1 THEN "failed" ELSE "pending"]
  /\ due'      = [due EXCEPT ![event[r]] = FALSE]
  /\ Advance(r)
  /\ UNCHANGED <<name, effects, queue, crashes>>

(* The catch block writes attempts from the copy read before the dispatch.  *)
Nack(r) ==
  /\ pc[r] = "nack"
  /\ attempts' = [attempts EXCEPT ![event[r]] = seen[r] + 1]
  /\ status'   = [status EXCEPT ![event[r]] =
                    IF seen[r] + 1 >= MaxAttempts THEN "failed" ELSE "pending"]
  /\ due'      = [due EXCEPT ![event[r]] = FALSE]
  /\ Advance(r)
  /\ UNCHANGED <<name, effects, queue, crashes>>

(* A replica exits: killed, redeployed, or stopped by the rejection of a    *)
(* query that relay() does not catch (the SELECT, findUnique, or the update *)
(* of the catch block).  It restarts with no relay in progress.             *)
Crash(p) ==
  /\ crashes < MaxCrashes
  /\ crashes' = crashes + 1
  /\ pc'      = [r \in Relays |-> IF HostOf[r] = p THEN "idle" ELSE pc[r]]
  /\ batch'   = [r \in Relays |-> IF HostOf[r] = p THEN {} ELSE batch[r]]
  /\ event'   = [r \in Relays |-> IF HostOf[r] = p THEN 0 ELSE event[r]]
  /\ seen'    = [r \in Relays |-> IF HostOf[r] = p THEN 0 ELSE seen[r]]
  /\ running' = [r \in Relays |-> IF HostOf[r] = p THEN {} ELSE running[r]]
  /\ orphans' = {o \in orphans : o[1] # p}
  /\ UNCHANGED <<outbox, effects, queue>>

-----------------------------------------------------------------------------
(* relayOutbox() of the worker.                                             *)

(* Mutant: rows are selected FOR UPDATE SKIP LOCKED and marked afterwards.  *)
WorkerClaimUnmarked(w) ==
  /\ claimed[w] = {}
  /\ Due # {}
  /\ claimed' = [claimed EXCEPT ![w] = Oldest(Due, WorkerBatch)]
  /\ UNCHANGED <<outbox, relays, effects, jobs, consumed, crashes>>

(* One UPDATE ... RETURNING marks the rows published and returns them.      *)
WorkerClaim(w) ==
  /\ claimed[w] = {}
  /\ Due # {}
  /\ LET rows == Oldest(Due, WorkerBatch) IN
       /\ status'  = [e \in Events |-> IF e \in rows THEN "published" ELSE status[e]]
       /\ claimed' = [claimed EXCEPT ![w] = rows]
  /\ UNCHANGED <<attempts, due, name, relays, effects, jobs, consumed, crashes>>

(* eventQueue.add for one row, in the order the UPDATE returned them (any). *)
WorkerEnqueue(w, e) ==
  /\ e \in claimed[w]
  /\ claimed' = [claimed EXCEPT ![w] = @ \ {e}]
  /\ jobs'    = [jobs EXCEPT ![e] = @ + 1]
  /\ UNCHANGED <<outbox, relays, effects, consumed, crashes>>

(* The add rejects, or the worker exits: the rest of the claim is dropped.  *)
WorkerFails(w) ==
  /\ crashes < MaxCrashes
  /\ claimed[w] # {}
  /\ claimed' = [claimed EXCEPT ![w] = {}]
  /\ crashes' = crashes + 1
  /\ UNCHANGED <<outbox, relays, effects, jobs, consumed>>

(* The consumer of helix.events: every case of its switch only breaks.      *)
ConsumeJob(e) ==
  /\ consumed[e] < jobs[e]
  /\ consumed' = [consumed EXCEPT ![e] = @ + 1]
  /\ UNCHANGED <<outbox, relays, effects, claimed, jobs, crashes>>

-----------------------------------------------------------------------------
HandlersStep(r) == \E h \in Handlers : HandlerResolves(r, h) \/ HandlerRejects(r, h)

OutcomeStep(r) == Ack(r) \/ (\E applied \in BOOLEAN : AckFails(r, applied)) \/ Nack(r)

RelayStep(r) ==
  \/ RelayPoll(r)
  \/ \E e \in Events : RelayRead(r, e)
  \/ HandlersStep(r)
  \/ OutcomeStep(r)

WorkerStep(w) == WorkerClaim(w) \/ (\E e \in Events : WorkerEnqueue(w, e)) \/ WorkerFails(w)

Next ==
  \/ \E e \in Events, n \in Names : Publish(e, n)
  \/ \E e \in Events : BackoffElapses(e) \/ ConsumeJob(e)
  \/ \E r \in Relays : RelayStep(r)
  \/ \E o \in orphans, resolves \in BOOLEAN : OrphanSettles(o, resolves)
  \/ \E p \in Replicas : Crash(p)
  \/ \E w \in Workers : WorkerStep(w)

Spec == Init /\ [][Next]_vars

(* The timers keep firing, started handlers settle one way or the other,    *)
(* and time passes.  No handler is assumed to resolve.                      *)
Fairness ==
  /\ \A e \in Events : WF_vars(BackoffElapses(e))
  /\ \A r \in Relays : WF_vars(RelayStep(r))

FairSpec == Spec /\ Fairness

-----------------------------------------------------------------------------
(* Properties.                                                              *)

(* Every variable keeps to its type; a relay that is past its read of a row *)
(* holds the id of a row that exists.                                       *)
TypeOK ==
  /\ status \in [Events -> {"absent", "pending", "published", "failed"}]
  /\ attempts \in [Events -> Nat]
  /\ due \in [Events -> BOOLEAN]
  /\ name \in [Events -> Names \cup {NoName}]
  /\ \A e \in Events : status[e] # "absent" => name[e] \in Names
  /\ pc \in [Relays -> {"idle", "next", "dispatch", "nack"}]
  /\ batch \in [Relays -> SUBSET {e \in Events : status[e] # "absent"}]
  /\ event \in [Relays -> Events \cup {0}]
  /\ \A r \in Relays : pc[r] \in {"dispatch", "nack"} =>
        event[r] \in Events /\ status[event[r]] # "absent"
  /\ seen \in [Relays -> Nat]
  /\ running \in [Relays -> SUBSET Handlers]
  /\ orphans \subseteq Replicas \X Events \X Handlers
  /\ delivered \subseteq Events \X Handlers
  /\ failures \in [Events -> Nat]
  /\ claimed \in [Workers -> SUBSET {e \in Events : status[e] # "absent"}]
  /\ jobs \in [Events -> Nat]
  /\ consumed \in [Events -> Nat]
  /\ crashes \in 0..MaxCrashes

(* At-least-once: a row is published only when every handler subscribed to  *)
(* its event has resolved for it at least once, over however many attempts, *)
(* overlapping relays and restarts that took.                               *)
PublishedMeansDelivered ==
  \A e \in Events : status[e] = "published" =>
    \A h \in Subscriptions[name[e]] : <<e, h>> \in delivered

(* No event is given up early: a parked row has really failed MaxAttempts   *)
(* times, although attempts is computed from a copy that other relays may   *)
(* have made stale.                                                         *)
ParkedOnlyAfterMaxAttempts ==
  \A e \in Events : status[e] = "failed" => failures[e] >= MaxAttempts

(* A poison event is retried a bounded number of times and never blocks the *)
(* others: each pending row is published or parked in the end, even when a  *)
(* handler rejects every time.                                              *)
EveryEventSettles ==
  \A e \in Events : status[e] = "pending" ~> status[e] \in {"published", "failed"}

(* The API relays implement the promise of EventDelivery, every overlap and *)
(* restart included: a delivery is never undone, and a row only becomes     *)
(* published after its handlers.                                            *)
Delivery == INSTANCE EventDelivery WITH phase <- status

ImplementsDelivery == Delivery!Spec

(* "Without double-delivering": the claims of overlapping workers put an    *)
(* event on the queue once, and again only if an API relay that was still   *)
(* working on it has failed and made its row pending again.                 *)
EnqueuedOncePerFailure ==
  \A e \in Events :
    jobs[e] + Cardinality({w \in Workers : e \in claimed[w]}) <= 1 + failures[e]

(* "Parked after 10 attempts": no event fails more often than that.         *)
AttemptsBounded == \A e \in Events : failures[e] <= MaxAttempts
=============================================================================
