--------------------------- MODULE EventBusProofs ---------------------------
(* Theorems about EventBus, for every value of its constants.               *)
EXTENDS EventBus, FiniteSetTheorems, TLAPS

(* The oldest rows of a set are rows of that set.                           *)
LEMMA OldestSubset == \A S, n : Oldest(S, n) \subseteq S
BY DEF Oldest

(* The outbox is empty and no relay is in progress.                         *)
LEMMA InitTypeOK == Init => TypeOK
BY BoundsAssumption, SubscriptionsAssumption, HostAssumption
   DEF Init, TypeOK, Events

(* No action takes a variable out of its type.                              *)
LEMMA NextTypeOK == TypeOK /\ [Next]_vars => TypeOK'
<1> SUFFICES ASSUME TypeOK, [Next]_vars PROVE TypeOK'
  OBVIOUS
<1> USE BoundsAssumption, SubscriptionsAssumption, HostAssumption DEF TypeOK
<1> USE DEF outbox, relays, effects, queue
<1>1. ASSUME NEW e \in Events, NEW n \in Names, Publish(e, n) PROVE TypeOK'
  BY <1>1 DEF Publish
<1>2. ASSUME NEW e \in Events, BackoffElapses(e) PROVE TypeOK'
  BY <1>2 DEF BackoffElapses
<1>3. ASSUME NEW e \in Events, ConsumeJob(e) PROVE TypeOK'
  BY <1>3 DEF ConsumeJob
<1>4. ASSUME NEW r \in Relays, RelayPoll(r) PROVE TypeOK'
  <2>1. Oldest(Due, BatchSize) \subseteq {e \in Events : status[e] # "absent"}
    BY OldestSubset DEF Due
  <2>2. QED BY <1>4, <2>1 DEF RelayPoll
<1>5. ASSUME NEW r \in Relays, NEW e \in Events, RelayRead(r, e) PROVE TypeOK'
  <2>1. name[e] \in Names /\ status[e] # "absent"
    BY <1>5 DEF RelayRead, IsFirst
  <2>2. QED BY <1>5, <2>1 DEF RelayRead, IsFirst
<1>6. ASSUME NEW r \in Relays, NEW h \in Handlers, HandlerResolves(r, h) PROVE TypeOK'
  BY <1>6 DEF HandlerResolves
<1>7. ASSUME NEW r \in Relays, NEW h \in Handlers, HandlerRejects(r, h) PROVE TypeOK'
  <2>1. {<<HostOf[r], event[r], g>> : g \in running[r] \ {h}}
          \subseteq Replicas \X Events \X Handlers
    BY <1>7 DEF HandlerRejects
  <2>2. QED BY <1>7, <2>1 DEF HandlerRejects
<1>8. ASSUME NEW r \in Relays, Ack(r) PROVE TypeOK'
  BY <1>8 DEF Ack, Advance
<1>9. ASSUME NEW r \in Relays, NEW applied \in BOOLEAN, AckFails(r, applied)
      PROVE TypeOK'
  BY <1>9 DEF AckFails
<1>10. ASSUME NEW r \in Relays, Nack(r) PROVE TypeOK'
  BY <1>10 DEF Nack, Advance
<1>11. ASSUME NEW o \in orphans, NEW resolves \in BOOLEAN, OrphanSettles(o, resolves)
       PROVE TypeOK'
  BY <1>11 DEF OrphanSettles
<1>12. ASSUME NEW p \in Replicas, Crash(p) PROVE TypeOK'
  BY <1>12 DEF Crash
<1>13. ASSUME NEW w \in Workers, WorkerClaim(w) PROVE TypeOK'
  <2>1. Oldest(Due, WorkerBatch) \subseteq {e \in Events : status[e] = "pending"}
    BY OldestSubset DEF Due
  <2>2. QED BY <1>13, <2>1 DEF WorkerClaim
<1>14. ASSUME NEW w \in Workers, NEW e \in Events, WorkerEnqueue(w, e) PROVE TypeOK'
  BY <1>14 DEF WorkerEnqueue
<1>15. ASSUME NEW w \in Workers, WorkerFails(w) PROVE TypeOK'
  BY <1>15 DEF WorkerFails
<1>16. CASE UNCHANGED vars
  BY <1>16 DEF vars
<1>17. QED
  BY <1>1, <1>2, <1>3, <1>4, <1>5, <1>6, <1>7, <1>8, <1>9, <1>10, <1>11, <1>12,
     <1>13, <1>14, <1>15, <1>16
  DEF Next, RelayStep, HandlersStep, OutcomeStep, WorkerStep

(* Every variable keeps to its type, whatever the number of events,         *)
(* handlers, replicas, overlapping relays and workers.                      *)
THEOREM TypeCorrect == Spec => []TypeOK
BY InitTypeOK, NextTypeOK, PTL DEF Spec

-----------------------------------------------------------------------------
(* At-least-once delivery.  The property speaks of published rows only; what *)
(* makes it inductive is the promise of a dispatch in progress, that every   *)
(* handler of its event has resolved for it or is one it still waits for.    *)

DispatchCovers ==
  \A r \in Relays : pc[r] = "dispatch" =>
    \A h \in Subscriptions[name[event[r]]] :
      h \in running[r] \/ <<event[r], h>> \in delivered

DeliveryInv == TypeOK /\ PublishedMeansDelivered /\ DispatchCovers

(* Nothing is published before anything was inserted.                       *)
LEMMA InitDeliveryInv == Init => DeliveryInv
BY InitTypeOK DEF Init, DeliveryInv, PublishedMeansDelivered, DispatchCovers

(* Without a worker, every relay step keeps the promise of its dispatch.    *)
LEMMA NextDeliveryInv ==
  ASSUME Workers = {}, DeliveryInv, [Next]_vars PROVE DeliveryInv'
<1> USE BoundsAssumption, SubscriptionsAssumption, HostAssumption
<1> USE DEF outbox, relays, effects, queue
<1>0. TypeOK /\ TypeOK'
  BY NextTypeOK DEF DeliveryInv
<1> DEFINE Inv == PublishedMeansDelivered /\ DispatchCovers
<1>a. Inv
  BY DEF DeliveryInv
<1> SUFFICES Inv'
  BY <1>0 DEF DeliveryInv
<1> USE DEF PublishedMeansDelivered, DispatchCovers
<1>1. ASSUME NEW e \in Events, NEW n \in Names, Publish(e, n) PROVE Inv'
  <2>1. PublishedMeansDelivered'
    BY <1>0, <1>a, <1>1 DEF Publish, TypeOK
  <2>2. DispatchCovers'
    BY <1>0, <1>a, <1>1 DEF Publish, TypeOK
  <2>3. QED BY <2>1, <2>2
<1>2. ASSUME NEW e \in Events, BackoffElapses(e) PROVE Inv'
  BY <1>a, <1>2 DEF BackoffElapses
<1>3. ASSUME NEW e \in Events, ConsumeJob(e) PROVE Inv'
  BY <1>a, <1>3 DEF ConsumeJob
<1>4. ASSUME NEW r \in Relays, RelayPoll(r) PROVE Inv'
  BY <1>0, <1>a, <1>4 DEF RelayPoll, TypeOK
<1>5. ASSUME NEW r \in Relays, NEW e \in Events, RelayRead(r, e) PROVE Inv'
  BY <1>0, <1>a, <1>5 DEF RelayRead, TypeOK
<1>6. ASSUME NEW r \in Relays, NEW h \in Handlers, HandlerResolves(r, h) PROVE Inv'
  BY <1>0, <1>a, <1>6 DEF HandlerResolves, TypeOK
<1>7. ASSUME NEW r \in Relays, NEW h \in Handlers, HandlerRejects(r, h) PROVE Inv'
  BY <1>0, <1>a, <1>7 DEF HandlerRejects, TypeOK
<1>8. ASSUME NEW r \in Relays, Ack(r) PROVE Inv'
  <2>1. /\ pc[r] = "dispatch" /\ running[r] = {} /\ event[r] \in Events
        /\ \A e \in Events : status'[e] = status[e] \/ e = event[r]
        /\ \A s \in Relays : pc'[s] = "dispatch" => s # r /\ pc[s] = pc'[s] /\ event'[s] = event[s]
        /\ UNCHANGED <<name, running, delivered>>
    BY <1>0, <1>8 DEF Ack, Advance, TypeOK
  <2>2. PublishedMeansDelivered'
    BY <1>a, <2>1
  <2>3. DispatchCovers'
    BY <1>a, <2>1
  <2>4. QED BY <2>2, <2>3
<1>9. ASSUME NEW r \in Relays, NEW applied \in BOOLEAN, AckFails(r, applied) PROVE Inv'
  <2>1. /\ pc[r] = "dispatch" /\ running[r] = {} /\ event[r] \in Events
        /\ \A e \in Events : status'[e] = status[e] \/ e = event[r]
        /\ \A s \in Relays : pc'[s] = "dispatch" => pc[s] = pc'[s] /\ event'[s] = event[s]
        /\ UNCHANGED <<name, running, delivered>>
    BY <1>0, <1>9 DEF AckFails, TypeOK
  <2>2. PublishedMeansDelivered'
    BY <1>a, <2>1
  <2>3. DispatchCovers'
    BY <1>a, <2>1
  <2>4. QED BY <2>2, <2>3
<1>10. ASSUME NEW r \in Relays, Nack(r) PROVE Inv'
  <2>1. /\ event[r] \in Events
        /\ \A e \in Events : status'[e] = "published" => status[e] = "published"
        /\ \A s \in Relays : pc'[s] = "dispatch" => s # r /\ pc[s] = pc'[s] /\ event'[s] = event[s]
        /\ UNCHANGED <<name, running, delivered>>
    BY <1>0, <1>10 DEF Nack, Advance, TypeOK
  <2>2. QED BY <1>a, <2>1
<1>11. ASSUME NEW o \in orphans, NEW resolves \in BOOLEAN, OrphanSettles(o, resolves)
       PROVE Inv'
  BY <1>0, <1>a, <1>11 DEF OrphanSettles, TypeOK
<1>12. ASSUME NEW p \in Replicas, Crash(p) PROVE Inv'
  BY <1>0, <1>a, <1>12 DEF Crash, TypeOK
<1>13. CASE UNCHANGED vars
  BY <1>a, <1>13 DEF vars
<1>14. QED
  BY <1>1, <1>2, <1>3, <1>4, <1>5, <1>6, <1>7, <1>8, <1>9, <1>10, <1>11, <1>12, <1>13
  DEF Next, RelayStep, HandlersStep, OutcomeStep

(* With no worker draining the same table, a row is published only after    *)
(* every handler of its event has resolved for it.                          *)
THEOREM AtLeastOnce == ASSUME Workers = {} PROVE Spec => []PublishedMeansDelivered
<1>1. DeliveryInv /\ [Next]_vars => DeliveryInv'
  BY NextDeliveryInv
<1>2. DeliveryInv => PublishedMeansDelivered
  BY DEF DeliveryInv
<1>3. QED BY InitDeliveryInv, <1>1, <1>2, PTL DEF Spec

-----------------------------------------------------------------------------
(* Parking.  Relays overwrite attempts with one more than the copy they     *)
(* read, so it can go back and forth; but neither the row nor any copy of   *)
(* it is ever ahead of the failures that really happened.                   *)

AttemptsAreFailures == \A e \in Events : attempts[e] <= failures[e]

CopiesAreFailures ==
  \A r \in Relays :
    /\ pc[r] = "dispatch" => seen[r] <= failures[event[r]]
    /\ pc[r] = "nack" => seen[r] < failures[event[r]]

ParkingInv ==
  TypeOK /\ ParkedOnlyAfterMaxAttempts /\ AttemptsAreFailures /\ CopiesAreFailures

(* Nothing has failed yet.                                                  *)
LEMMA InitParkingInv == Init => ParkingInv
BY InitTypeOK
DEF Init, ParkingInv, ParkedOnlyAfterMaxAttempts, AttemptsAreFailures, CopiesAreFailures

(* Neither a relay nor a worker lets a copy get ahead of the failures.      *)
LEMMA NextParkingInv == ASSUME ParkingInv, [Next]_vars PROVE ParkingInv'
<1> USE BoundsAssumption
<1> USE DEF outbox, relays, effects, queue
<1>0. TypeOK /\ TypeOK'
  BY NextTypeOK DEF ParkingInv
<1> DEFINE Inv == ParkedOnlyAfterMaxAttempts /\ AttemptsAreFailures /\ CopiesAreFailures
<1>a. Inv
  BY DEF ParkingInv
<1> SUFFICES Inv'
  BY <1>0 DEF ParkingInv
<1> USE DEF ParkedOnlyAfterMaxAttempts, AttemptsAreFailures, CopiesAreFailures
<1>1. ASSUME NEW e \in Events, NEW n \in Names, Publish(e, n) PROVE Inv'
  BY <1>0, <1>a, <1>1 DEF Publish, TypeOK
<1>2. ASSUME NEW e \in Events, BackoffElapses(e) PROVE Inv'
  BY <1>a, <1>2 DEF BackoffElapses
<1>3. ASSUME NEW e \in Events, ConsumeJob(e) PROVE Inv'
  BY <1>a, <1>3 DEF ConsumeJob
<1>4. ASSUME NEW r \in Relays, RelayPoll(r) PROVE Inv'
  BY <1>0, <1>a, <1>4 DEF RelayPoll, TypeOK
<1>5. ASSUME NEW r \in Relays, NEW e \in Events, RelayRead(r, e) PROVE Inv'
  BY <1>0, <1>a, <1>5 DEF RelayRead, TypeOK
<1>6. ASSUME NEW r \in Relays, NEW h \in Handlers, HandlerResolves(r, h) PROVE Inv'
  BY <1>0, <1>a, <1>6 DEF HandlerResolves, TypeOK
<1>7. ASSUME NEW r \in Relays, NEW h \in Handlers, HandlerRejects(r, h) PROVE Inv'
  BY <1>0, <1>a, <1>7 DEF HandlerRejects, TypeOK
<1>8. ASSUME NEW r \in Relays, Ack(r) PROVE Inv'
  BY <1>0, <1>a, <1>8 DEF Ack, Advance, TypeOK
<1>9. ASSUME NEW r \in Relays, NEW applied \in BOOLEAN, AckFails(r, applied) PROVE Inv'
  BY <1>0, <1>a, <1>9 DEF AckFails, TypeOK
<1>10. ASSUME NEW r \in Relays, Nack(r) PROVE Inv'
  BY <1>0, <1>a, <1>10 DEF Nack, Advance, TypeOK
<1>11. ASSUME NEW o \in orphans, NEW resolves \in BOOLEAN, OrphanSettles(o, resolves)
       PROVE Inv'
  BY <1>0, <1>a, <1>11 DEF OrphanSettles, TypeOK
<1>12. ASSUME NEW p \in Replicas, Crash(p) PROVE Inv'
  BY <1>0, <1>a, <1>12 DEF Crash, TypeOK
<1>13. ASSUME NEW w \in Workers, WorkerStep(w) PROVE Inv'
  BY <1>0, <1>a, <1>13 DEF WorkerStep, WorkerClaim, WorkerEnqueue, WorkerFails, TypeOK
<1>14. CASE UNCHANGED vars
  BY <1>a, <1>14 DEF vars
<1>15. QED
  BY <1>1, <1>2, <1>3, <1>4, <1>5, <1>6, <1>7, <1>8, <1>9, <1>10, <1>11, <1>12,
     <1>13, <1>14
  DEF Next, RelayStep, HandlersStep, OutcomeStep

(* No event is parked before MaxAttempts dispatches of it have failed,      *)
(* however the relays of however many replicas overlap, and with workers    *)
(* claiming rows in between.                                                *)
THEOREM NeverParkedEarly == Spec => []ParkedOnlyAfterMaxAttempts
<1>1. ParkingInv /\ [Next]_vars => ParkingInv'
  BY NextParkingInv
<1>2. ParkingInv => ParkedOnlyAfterMaxAttempts
  BY DEF ParkingInv
<1>3. QED BY InitParkingInv, <1>1, <1>2, PTL DEF Spec

-----------------------------------------------------------------------------
(* Retries.  With a single relay the copy it writes back is never stale: a  *)
(* failed dispatch is counted in the row, is about to be, or was lost with  *)
(* the process, and a row that is parked is not taken up again.             *)

Nacking(e) == \E r \in Relays : pc[r] = "nack" /\ event[r] = e

FailuresAreCounted ==
  \A e \in Events :
    /\ attempts[e] <= MaxAttempts
    /\ attempts[e] = MaxAttempts => status[e] = "failed"
    /\ failures[e] <= attempts[e] + crashes + 1
    /\ ~Nacking(e) => failures[e] <= attempts[e] + crashes

CopiesAreFresh ==
  \A r \in Relays : pc[r] \in {"dispatch", "nack"} =>
    /\ seen[r] = attempts[event[r]]
    /\ event[r] \notin batch[r]
    /\ status[event[r]] # "failed"

ParkedIsLeftAlone == \A r \in Relays : \A e \in batch[r] : status[e] # "failed"

RetryInv == FailuresAreCounted /\ CopiesAreFresh /\ ParkedIsLeftAlone

(* "A poison event is parked after 10 attempts", as far as it goes: its     *)
(* dispatches fail no more often than that and once for each process exit.  *)
RetriesBounded == \A e \in Events : failures[e] <= MaxAttempts + crashes

(* One relay, alone or beside workers, counts every failure.                *)
LEMMA NextRetryInv ==
  ASSUME \A r, s \in Relays : r = s, TypeOK, RetryInv, [Next]_vars PROVE RetryInv'
<1> USE BoundsAssumption
<1> USE DEF outbox, relays, effects, queue
<1>0. TypeOK /\ FailuresAreCounted /\ CopiesAreFresh /\ ParkedIsLeftAlone
  BY DEF RetryInv
<1> USE DEF FailuresAreCounted, CopiesAreFresh, ParkedIsLeftAlone, Nacking
<1> DEFINE Inv == FailuresAreCounted /\ CopiesAreFresh /\ ParkedIsLeftAlone
<1> SUFFICES Inv'
  BY DEF RetryInv
<1>1. ASSUME NEW e \in Events, NEW n \in Names, Publish(e, n) PROVE Inv'
  BY <1>0, <1>1 DEF Publish, TypeOK
<1>2. ASSUME NEW e \in Events, BackoffElapses(e) \/ ConsumeJob(e) PROVE Inv'
  BY <1>0, <1>2 DEF BackoffElapses, ConsumeJob
<1>3. ASSUME NEW r \in Relays, RelayPoll(r) PROVE Inv'
  <2>1. /\ \A s \in Relays : s = r /\ pc[s] = "idle" /\ pc'[s] = "next"
        /\ \A e \in batch'[r] : status[e] = "pending"
        /\ UNCHANGED <<status, attempts, failures, crashes>>
    BY <1>0, <1>3 DEF RelayPoll, Oldest, Due, TypeOK
  <2>2. QED BY <1>0, <2>1
<1>4. ASSUME NEW r \in Relays, NEW e \in Events, RelayRead(r, e) PROVE Inv'
  <2>1. /\ \A s \in Relays : s = r
        /\ pc[r] = "next" /\ pc'[r] = "dispatch" /\ event'[r] = e /\ seen'[r] = attempts[e]
        /\ e \in batch[r] /\ batch'[r] = batch[r] \ {e}
        /\ UNCHANGED <<status, attempts, failures, crashes>>
    BY <1>0, <1>4 DEF RelayRead, IsFirst, TypeOK
  <2>2. QED BY <1>0, <2>1
<1>5. ASSUME NEW r \in Relays, NEW h \in Handlers, HandlerResolves(r, h) PROVE Inv'
  BY <1>0, <1>5 DEF HandlerResolves
<1>6. ASSUME NEW r \in Relays,
             (\E h \in Handlers : HandlerRejects(r, h)) \/ (\E applied \in BOOLEAN : AckFails(r, applied))
      PROVE  Inv'
  <2>1. /\ \A s \in Relays : s = r
        /\ event[r] \in Events /\ pc[r] = "dispatch" /\ pc'[r] = "nack"
        /\ failures' = [failures EXCEPT ![event[r]] = @ + 1]
        /\ \A e \in Events : status'[e] = status[e] \/ (e = event[r] /\ status'[e] = "published")
        /\ UNCHANGED <<attempts, batch, event, seen, crashes>>
    BY <1>0, <1>6 DEF HandlerRejects, AckFails, TypeOK
  <2>2. \A e \in Events : failures[e] \in Nat /\ ~Nacking(e)
    BY <1>0, <2>1 DEF TypeOK
  <2>3. /\ \A e \in Events \ {event[r]} : failures'[e] = failures[e]
        /\ failures'[event[r]] = failures[event[r]] + 1
        /\ Nacking(event[r])'
    BY <1>0, <2>1 DEF TypeOK
  <2>4. attempts[event[r]] # MaxAttempts
    BY <1>0, <2>1
  <2>5. \A e \in Events : attempts[e] \in Nat /\ crashes \in Nat
    BY <1>0 DEF TypeOK
  <2>6. FailuresAreCounted'
    BY <1>0, <2>1, <2>2, <2>3, <2>4, <2>5
  <2>7. CopiesAreFresh' /\ ParkedIsLeftAlone'
    BY <1>0, <2>1 DEF TypeOK
  <2>8. QED BY <2>6, <2>7
<1>7. ASSUME NEW r \in Relays, Ack(r) PROVE Inv'
  <2>1. /\ \A s \in Relays : s = r
        /\ event[r] \in Events /\ pc[r] = "dispatch" /\ pc'[r] \in {"idle", "next"}
        /\ \A e \in Events : status'[e] = status[e] \/ (e = event[r] /\ status'[e] = "published")
        /\ status[event[r]] # "failed"
        /\ UNCHANGED <<attempts, batch, failures, crashes>>
    BY <1>0, <1>7 DEF Ack, Advance, TypeOK
  <2>2. FailuresAreCounted'
    BY <1>0, <2>1
  <2>3. CopiesAreFresh' /\ ParkedIsLeftAlone'
    BY <1>0, <2>1 DEF TypeOK
  <2>4. QED BY <2>2, <2>3
<1>8. ASSUME NEW r \in Relays, Nack(r) PROVE Inv'
  <2> DEFINE e == event[r]
  <2>1. /\ \A s \in Relays : s = r
        /\ e \in Events /\ pc[r] = "nack" /\ pc'[r] \in {"idle", "next"}
        /\ seen[r] = attempts[e] /\ e \notin batch[r] /\ status[e] # "failed"
        /\ \A d \in Events \ {e} : status'[d] = status[d] /\ attempts'[d] = attempts[d]
        /\ attempts'[e] = seen[r] + 1
        /\ status'[e] = IF seen[r] + 1 >= MaxAttempts THEN "failed" ELSE "pending"
        /\ UNCHANGED <<batch, failures, crashes>>
    BY <1>0, <1>8 DEF Nack, Advance, TypeOK
  <2>2. \A d \in Events : attempts[d] \in Nat /\ crashes \in Nat /\ failures[d] \in Nat
    BY <1>0 DEF TypeOK
  <2>3. attempts[e] < MaxAttempts /\ failures[e] <= attempts[e] + crashes + 1
    BY <1>0, <2>1, <2>2
  <2>4. FailuresAreCounted'
    <3>1. ASSUME NEW d \in Events, d # e PROVE failures[d] <= attempts[d] + crashes
      BY <1>0, <2>1, <3>1
    <3>2. QED
      <4> HIDE DEF e
      <4>1. QED BY <1>0, <2>1, <2>2, <2>3, <3>1
  <2>5. CopiesAreFresh' /\ ParkedIsLeftAlone'
    BY <1>0, <2>1 DEF TypeOK
  <2>6. QED BY <2>4, <2>5
<1>9. ASSUME NEW o \in orphans, NEW resolves \in BOOLEAN, OrphanSettles(o, resolves) PROVE Inv'
  BY <1>0, <1>9 DEF OrphanSettles
<1>10. ASSUME NEW p \in Replicas, Crash(p) PROVE Inv'
  <2>1. crashes' = crashes + 1 /\ UNCHANGED <<status, attempts, failures>>
    BY <1>10 DEF Crash
  <2>2. ASSUME NEW r \in Relays
        PROVE  \/ pc'[r] = pc[r] /\ event'[r] = event[r] /\ seen'[r] = seen[r] /\ batch'[r] = batch[r]
               \/ pc'[r] = "idle" /\ batch'[r] = {}
    BY <1>10 DEF Crash
  <2>3. \A e \in Events : attempts[e] \in Nat /\ crashes \in Nat /\ failures[e] \in Nat
    BY <1>0 DEF TypeOK
  <2>4. FailuresAreCounted'
    <3>1. ASSUME NEW e \in Events
          PROVE  failures[e] <= attempts[e] + crashes'
      BY <1>0, <2>1, <2>3
    <3>2. QED BY <1>0, <2>1, <2>3, <3>1
  <2>5. CopiesAreFresh' /\ ParkedIsLeftAlone'
    BY <1>0, <2>1, <2>2
  <2>6. QED BY <2>4, <2>5
<1>11. ASSUME NEW w \in Workers, WorkerStep(w) PROVE Inv'
  <2>1. /\ \A e \in Events : status'[e] = status[e] \/ (status[e] = "pending" /\ status'[e] = "published")
        /\ crashes' = crashes \/ crashes' = crashes + 1
        /\ UNCHANGED <<attempts, failures, pc, event, seen, batch>>
    BY <1>11 DEF WorkerStep, WorkerClaim, WorkerEnqueue, WorkerFails, Oldest, Due
  <2>2. \A e \in Events : attempts[e] \in Nat /\ crashes \in Nat /\ failures[e] \in Nat
    BY <1>0 DEF TypeOK
  <2>3. \A r \in Relays : batch[r] \subseteq Events /\ (pc[r] \in {"dispatch", "nack"} => event[r] \in Events)
    BY <1>0 DEF TypeOK
  <2>4. FailuresAreCounted'
    BY <1>0, <2>1, <2>2
  <2>5. CopiesAreFresh' /\ ParkedIsLeftAlone'
    BY <1>0, <2>1, <2>3
  <2>6. QED BY <2>4, <2>5
<1>12. CASE UNCHANGED vars
  BY <1>0, <1>12 DEF vars
<1>13. QED
  BY <1>1, <1>2, <1>3, <1>4, <1>5, <1>6, <1>7, <1>8, <1>9, <1>10, <1>11, <1>12
  DEF Next, RelayStep, HandlersStep, OutcomeStep

(* With a single relay no event fails more than MaxAttempts times and once  *)
(* per process exit: what lets events be retried more often is the overlap  *)
(* of relays, and nothing else, be it beside how many workers.              *)
THEOREM OneRelayParksInTime ==
  ASSUME \A r, s \in Relays : r = s PROVE Spec => []RetriesBounded
<1>1. Init => RetryInv
  BY BoundsAssumption DEF Init, RetryInv, FailuresAreCounted, CopiesAreFresh, ParkedIsLeftAlone, Nacking
<1>2. TypeOK /\ RetryInv /\ [Next]_vars => RetryInv'
  BY NextRetryInv
<1>3. TypeOK /\ RetryInv => RetriesBounded
  <2>1. ASSUME TypeOK, RetryInv, NEW e \in Events PROVE failures[e] <= MaxAttempts + crashes
    <3>1. attempts[e] \in Nat /\ crashes \in Nat /\ failures[e] \in Nat
      BY <2>1 DEF TypeOK
    <3>2. CASE Nacking(e)
      <4>1. attempts[e] # MaxAttempts
        BY <2>1, <3>2 DEF RetryInv, FailuresAreCounted, CopiesAreFresh, Nacking
      <4>2. QED BY <2>1, <3>1, <4>1, BoundsAssumption DEF RetryInv, FailuresAreCounted
    <3>3. CASE ~Nacking(e)
      BY <2>1, <3>1, <3>3, BoundsAssumption DEF RetryInv, FailuresAreCounted
    <3>4. QED BY <3>2, <3>3
  <2>2. QED BY <2>1 DEF RetriesBounded
<1>4. QED BY <1>1, <1>2, <1>3, TypeCorrect, PTL DEF Spec

-----------------------------------------------------------------------------
(* Refinement of EventDelivery.  A handler call that is still in progress,   *)
(* awaited or orphaned, is a call the subscriptions asked for.               *)

CallsAreSubscribed ==
  /\ \A r \in Relays : pc[r] = "dispatch" =>
        running[r] \subseteq Subscriptions[name[event[r]]]
  /\ \A o \in orphans :
        status[o[2]] # "absent" /\ o[3] \in Subscriptions[name[o[2]]]

CallsInv == DeliveryInv /\ CallsAreSubscribed

(* No handler call is in progress.                                          *)
LEMMA InitCallsInv == Init => CallsInv
BY InitDeliveryInv DEF Init, CallsInv, CallsAreSubscribed

(* Handlers are called for the events they are subscribed to.               *)
LEMMA NextCallsInv ==
  ASSUME Workers = {}, CallsInv, [Next]_vars PROVE CallsInv'
<1> USE BoundsAssumption, SubscriptionsAssumption, HostAssumption
<1> USE DEF outbox, relays, effects, queue
<1>0. TypeOK /\ DeliveryInv'
  BY NextDeliveryInv DEF CallsInv, DeliveryInv
<1>a. CallsAreSubscribed
  BY DEF CallsInv
<1> SUFFICES CallsAreSubscribed'
  BY <1>0 DEF CallsInv
<1> USE DEF CallsAreSubscribed
<1>1. ASSUME NEW e \in Events, NEW n \in Names, Publish(e, n) PROVE CallsAreSubscribed'
  BY <1>0, <1>a, <1>1 DEF Publish, TypeOK
<1>2. ASSUME NEW e \in Events, BackoffElapses(e) \/ ConsumeJob(e)
      PROVE CallsAreSubscribed'
  BY <1>a, <1>2 DEF BackoffElapses, ConsumeJob
<1>3. ASSUME NEW r \in Relays, RelayPoll(r) PROVE CallsAreSubscribed'
  BY <1>0, <1>a, <1>3 DEF RelayPoll, TypeOK
<1>4. ASSUME NEW r \in Relays, NEW e \in Events, RelayRead(r, e)
      PROVE CallsAreSubscribed'
  BY <1>0, <1>a, <1>4 DEF RelayRead, TypeOK
<1>5. ASSUME NEW r \in Relays, NEW h \in Handlers, HandlerResolves(r, h)
      PROVE CallsAreSubscribed'
  BY <1>0, <1>a, <1>5 DEF HandlerResolves, TypeOK
<1>6. ASSUME NEW r \in Relays, NEW h \in Handlers, HandlerRejects(r, h)
      PROVE CallsAreSubscribed'
  BY <1>0, <1>a, <1>6 DEF HandlerRejects, TypeOK
<1>7. ASSUME NEW r \in Relays, OutcomeStep(r) PROVE CallsAreSubscribed'
  <2>1. event[r] \in Events /\ pc'[r] # "dispatch"
    BY <1>0, <1>7 DEF OutcomeStep, Ack, AckFails, Nack, Advance, TypeOK
  <2>2. \A e \in Events : status[e] # "absent" => status'[e] # "absent"
    BY <1>0, <1>7 DEF OutcomeStep, Ack, AckFails, Nack, TypeOK
  <2>3. /\ UNCHANGED <<name, orphans, running>>
        /\ \A s \in Relays : s # r => pc'[s] = pc[s] /\ event'[s] = event[s]
    BY <1>0, <1>7 DEF OutcomeStep, Ack, AckFails, Nack, Advance, TypeOK
  <2>4. \A o \in orphans' : status'[o[2]] # "absent" /\ o[3] \in Subscriptions[name'[o[2]]]
    BY <1>0, <1>a, <2>2, <2>3 DEF TypeOK
  <2>5. \A s \in Relays : pc'[s] = "dispatch" =>
          running'[s] \subseteq Subscriptions[name'[event'[s]]]
    BY <1>a, <2>1, <2>3
  <2>6. QED BY <2>4, <2>5
<1>8. ASSUME NEW o \in orphans, NEW resolves \in BOOLEAN, OrphanSettles(o, resolves)
      PROVE CallsAreSubscribed'
  BY <1>0, <1>a, <1>8 DEF OrphanSettles, TypeOK
<1>9. ASSUME NEW p \in Replicas, Crash(p) PROVE CallsAreSubscribed'
  BY <1>0, <1>a, <1>9 DEF Crash, TypeOK
<1>10. CASE UNCHANGED vars
  BY <1>a, <1>10 DEF vars
<1>11. QED
  BY <1>1, <1>2, <1>3, <1>4, <1>5, <1>6, <1>7, <1>8, <1>9, <1>10
  DEF Next, RelayStep, HandlersStep

(* Each step of a relay is a step of EventDelivery, or none.                *)
LEMMA StepRefines ==
  ASSUME Workers = {}, CallsInv, [Next]_vars
  PROVE  [Delivery!Next]_(Delivery!vars)
<1> USE BoundsAssumption, SubscriptionsAssumption, HostAssumption
<1> USE DEF outbox, relays, effects, queue, Delivery!vars, Delivery!Accepts, Delivery!Completes
<1>0. TypeOK /\ DispatchCovers /\ CallsAreSubscribed
  BY DEF CallsInv, DeliveryInv
<1>1. ASSUME NEW e \in Events, NEW n \in Names, Publish(e, n) PROVE Delivery!Accept(e, n)
  BY <1>1 DEF Publish, Delivery!Accept
<1>2. ASSUME NEW r \in Relays, NEW h \in Handlers, HandlerResolves(r, h)
      PROVE event[r] \in Events /\ Delivery!Deliver(event[r], h)
  BY <1>0, <1>2 DEF HandlerResolves, TypeOK, CallsAreSubscribed, Delivery!Deliver
<1>3. ASSUME NEW o \in orphans, OrphanSettles(o, TRUE)
      PROVE o[2] \in Events /\ o[3] \in Handlers /\ Delivery!Deliver(o[2], o[3])
  BY <1>0, <1>3 DEF OrphanSettles, TypeOK, CallsAreSubscribed, Delivery!Deliver
<1>4. ASSUME NEW r \in Relays, Ack(r)
      PROVE event[r] \in Events /\ Delivery!Settle(event[r], "published")
  <2>1. Delivery!DeliveredToAll(event[r])
    BY <1>0, <1>4 DEF Ack, DispatchCovers, Delivery!DeliveredToAll
  <2>2. QED BY <1>0, <1>4, <2>1 DEF Ack, TypeOK, Delivery!Settle
<1>5. ASSUME NEW r \in Relays, AckFails(r, TRUE)
      PROVE event[r] \in Events /\ Delivery!Settle(event[r], "published")
  <2>1. Delivery!DeliveredToAll(event[r])
    BY <1>0, <1>5 DEF AckFails, DispatchCovers, Delivery!DeliveredToAll
  <2>2. QED BY <1>0, <1>5, <2>1 DEF AckFails, TypeOK, Delivery!Settle
<1>6. ASSUME NEW r \in Relays, Nack(r)
      PROVE event[r] \in Events /\ \E outcome \in {"failed", "pending"} :
              Delivery!Settle(event[r], outcome)
  BY <1>0, <1>6 DEF Nack, TypeOK, Delivery!Settle
<1>7. ASSUME NEW r \in Relays, AckFails(r, FALSE) PROVE UNCHANGED Delivery!vars
  BY <1>0, <1>7 DEF AckFails, TypeOK
<1>8. ASSUME NEW o \in orphans, OrphanSettles(o, FALSE) PROVE UNCHANGED Delivery!vars
  BY <1>8 DEF OrphanSettles
<1>9. ASSUME NEW e \in Events, BackoffElapses(e) \/ ConsumeJob(e)
      PROVE UNCHANGED Delivery!vars
  BY <1>9 DEF BackoffElapses, ConsumeJob
<1>10. ASSUME NEW r \in Relays,
              RelayPoll(r) \/ \/ \E e \in Events : RelayRead(r, e)
                            \/ \E h \in Handlers : HandlerRejects(r, h)
       PROVE UNCHANGED Delivery!vars
  BY <1>10 DEF RelayPoll, RelayRead, HandlerRejects
<1>11. ASSUME NEW p \in Replicas, Crash(p) PROVE UNCHANGED Delivery!vars
  BY <1>11 DEF Crash
<1>12. CASE UNCHANGED vars
  BY <1>12 DEF vars
<1>13. QED
  BY <1>1, <1>2, <1>3, <1>4, <1>5, <1>6, <1>7, <1>8, <1>9, <1>10, <1>11, <1>12
  DEF Next, RelayStep, HandlersStep, OutcomeStep, Delivery!Next

(* What EventDelivery keeps: names do not change once accepted, and only    *)
(* what was delivered to every subscriber is published.                     *)
PromiseInv ==
  /\ DOMAIN name = Events /\ DOMAIN status = Events
  /\ PublishedMeansDelivered

(* The promise is worth having: whatever bus keeps it delivers at least     *)
(* once.                                                                    *)
THEOREM PromiseMeansDelivery == ImplementsDelivery => []PublishedMeansDelivered
<1> USE DEF PromiseInv, PublishedMeansDelivered
<1>1. Delivery!Init => PromiseInv
  BY DEF Delivery!Init
<1>2. ASSUME PromiseInv, [Delivery!Next]_(Delivery!vars) PROVE PromiseInv'
  <2>1. ASSUME NEW e \in Events, NEW n \in Names, Delivery!Accepts(e, n), delivered \subseteq delivered'
        PROVE  PromiseInv'
    BY <1>2, <2>1 DEF Delivery!Accepts
  <2>2. ASSUME NEW e \in Events, NEW h \in Handlers, Delivery!Deliver(e, h) PROVE PromiseInv'
    BY <1>2, <2>2 DEF Delivery!Deliver, Delivery!Completes
  <2>3. ASSUME NEW e \in Events, NEW outcome \in {"published", "failed", "pending"},
               Delivery!Settle(e, outcome)
        PROVE  PromiseInv'
    BY <1>2, <2>3 DEF Delivery!Settle, Delivery!DeliveredToAll
  <2>4. CASE UNCHANGED Delivery!vars
    BY <1>2, <2>4 DEF Delivery!vars
  <2>5. QED
    <3> HIDE DEF PromiseInv
    <3>1. QED BY <1>2, <2>1, <2>2, <2>3, <2>4
              DEF Delivery!Next, Delivery!Accept, Delivery!Reply, Delivery!Completes
<1>3. PromiseInv => PublishedMeansDelivered
  OBVIOUS
<1>4. QED
  BY <1>1, <1>2, <1>3, PTL DEF ImplementsDelivery, Delivery!Spec

(* With no worker draining the same table, the outbox and its overlapping   *)
(* relays implement the promise of EventDelivery.                           *)
THEOREM RelaysImplementDelivery == ASSUME Workers = {} PROVE Spec => ImplementsDelivery
<1>1. Init => Delivery!Init
  BY DEF Init, Delivery!Init
<1>2. CallsInv /\ [Next]_vars => CallsInv'
  BY NextCallsInv
<1>3. CallsInv /\ [Next]_vars => [Delivery!Next]_(Delivery!vars)
  BY StepRefines
<1>4. QED
  BY InitCallsInv, <1>1, <1>2, <1>3, PTL DEF Spec, ImplementsDelivery, Delivery!Spec
-----------------------------------------------------------------------------
(* The worker's queue.  A row is claimed again only after a relay has made  *)
(* it pending again, and that relay has failed first: the jobs, claims and  *)
(* relays about to write a failure back never outnumber the failures by     *)
(* more than one, and not at all while the row is pending.                  *)

Claimers(e) == {w \in Workers : e \in claimed[w]}
Failing(e)  == {r \in Relays : pc[r] = "nack" /\ event[r] = e}

Load(e) == jobs[e] + Cardinality(Claimers(e)) + Cardinality(Failing(e))

QueueInv ==
  \A e \in Events :
    /\ status[e] = "absent" => jobs[e] = 0
    /\ status[e] = "pending" => Load(e) <= failures[e]
    /\ Load(e) <= failures[e] + 1

(* A subset of a finite set has no more elements than the set.              *)
LEMMA Fewer ==
  ASSUME NEW S, NEW T, IsFiniteSet(T), S \subseteq T
  PROVE  Cardinality(S) \in Nat /\ Cardinality(T) \in Nat /\ Cardinality(S) <= Cardinality(T)
BY FS_Subset, FS_CardinalityType

(* One more element, or none, is at most one more.                          *)
LEMMA OneMore ==
  ASSUME NEW S, NEW T, NEW x, IsFiniteSet(S), T \subseteq S \cup {x}
  PROVE  Cardinality(T) \in Nat /\ Cardinality(S) \in Nat /\ Cardinality(T) <= Cardinality(S) + 1
<1>1. IsFiniteSet(S \cup {x}) /\ Cardinality(S \cup {x}) <= Cardinality(S) + 1
  <2>1. Cardinality(S) \in Nat
    BY FS_CardinalityType
  <2>2. /\ IsFiniteSet(S \cup {x})
        /\ Cardinality(S \cup {x}) = IF x \in S THEN Cardinality(S) ELSE Cardinality(S) + 1
    BY FS_AddElement
  <2>3. QED BY <2>1, <2>2
<1>2. QED BY <1>1, Fewer, FS_CardinalityType

(* An element that goes makes the set smaller.                              *)
LEMMA OneLess ==
  ASSUME NEW S, NEW T, NEW x, IsFiniteSet(S), x \in S, T \subseteq S \ {x}
  PROVE  Cardinality(T) \in Nat /\ Cardinality(S) \in Nat /\ Cardinality(T) <= Cardinality(S) - 1
<1>1. /\ IsFiniteSet(S \ {x}) /\ Cardinality(S \ {x}) = Cardinality(S) - 1
  BY FS_RemoveElement
<1>2. QED BY <1>1, Fewer, FS_CardinalityType

(* Every claim, failure and write-back keeps the balance.                   *)
LEMMA NextQueueInv ==
  ASSUME IsFiniteSet(Relays), IsFiniteSet(Workers), TypeOK, QueueInv, [Next]_vars
  PROVE  QueueInv'
<1> USE DEF outbox, relays, effects, queue
<1> DEFINE C(e) == Cardinality(Claimers(e))
           F(e) == Cardinality(Failing(e))
<1>0. \A e \in Events :
        /\ IsFiniteSet(Claimers(e)) /\ IsFiniteSet(Claimers(e)')
        /\ IsFiniteSet(Failing(e)) /\ IsFiniteSet(Failing(e)')
        /\ C(e) \in Nat /\ C(e)' \in Nat /\ F(e) \in Nat /\ F(e)' \in Nat
        /\ jobs[e] \in Nat /\ failures[e] \in Nat
  <2>1. \A e : /\ Claimers(e) \subseteq Workers /\ Claimers(e)' \subseteq Workers
               /\ Failing(e) \subseteq Relays /\ Failing(e)' \subseteq Relays
    BY DEF Claimers, Failing
  <2>2. QED BY <2>1, FS_Subset, FS_CardinalityType DEF TypeOK
<1>a. \A e \in Events :
        /\ status[e] = "absent" => jobs[e] = 0
        /\ status[e] = "pending" => jobs[e] + C(e) + F(e) <= failures[e]
        /\ jobs[e] + C(e) + F(e) <= failures[e] + 1
  BY DEF QueueInv, Load
<1> SUFFICES ASSUME NEW e \in Events
             PROVE  /\ status'[e] = "absent" => jobs'[e] = 0
                    /\ status'[e] = "pending" => jobs'[e] + C(e)' + F(e)' <= failures'[e]
                    /\ jobs'[e] + C(e)' + F(e)' <= failures'[e] + 1
  BY DEF QueueInv, Load
<1> DEFINE Goal == /\ status'[e] = "absent" => jobs'[e] = 0
                   /\ status'[e] = "pending" => jobs'[e] + C(e)' + F(e)' <= failures'[e]
                   /\ jobs'[e] + C(e)' + F(e)' <= failures'[e] + 1
<1>1. UNCHANGED claimed => C(e)' = C(e)
  BY DEF Claimers
<1>2. UNCHANGED <<pc, event>> => F(e)' = F(e)
  BY DEF Failing
<1>3. Failing(e)' \subseteq Failing(e) => F(e)' <= F(e)
  BY <1>0, Fewer
<1>4. Claimers(e)' \subseteq Claimers(e) => C(e)' <= C(e)
  BY <1>0, Fewer
<1> HIDE DEF C, F
<1>5. ASSUME NEW d \in Events, NEW n \in Names, Publish(d, n) PROVE Goal
  <2>1. CASE d # e
    BY <1>0, <1>a, <1>1, <1>2, <1>5, <2>1 DEF Publish, TypeOK
  <2>2. CASE d = e
    <3>1. status[e] = "absent" /\ status'[e] = "pending" /\ UNCHANGED <<claimed, pc, event, jobs, failures>>
      BY <1>5, <2>2 DEF Publish, TypeOK
    <3>2. Claimers(e) = {} /\ Failing(e) = {}
      BY <3>1 DEF Claimers, Failing, TypeOK
    <3>3. C(e) = 0 /\ F(e) = 0
      BY <3>2, FS_EmptySet DEF C, F
    <3>4. QED BY <1>0, <1>a, <1>1, <1>2, <3>1, <3>3
  <2>3. QED BY <2>1, <2>2
<1>6. ASSUME NEW d \in Events, BackoffElapses(d) \/ ConsumeJob(d) PROVE Goal
  BY <1>0, <1>a, <1>1, <1>2, <1>6 DEF BackoffElapses, ConsumeJob
<1>7. ASSUME NEW r \in Relays, RelayPoll(r) \/ (\E d \in Events : RelayRead(r, d)) PROVE Goal
  <2>1. Failing(e)' \subseteq Failing(e) /\ UNCHANGED <<status, claimed, jobs, failures>>
    BY <1>7 DEF RelayPoll, RelayRead, Failing, TypeOK
  <2>2. QED BY <1>0, <1>a, <1>1, <1>3, <2>1
<1>8. ASSUME NEW r \in Relays, NEW h \in Handlers, HandlerResolves(r, h) PROVE Goal
  BY <1>0, <1>a, <1>1, <1>2, <1>8 DEF HandlerResolves
<1>9. ASSUME NEW r \in Relays, event[r] \in Events, pc[r] = "dispatch", pc' = [pc EXCEPT ![r] = "nack"],
             failures' = [failures EXCEPT ![event[r]] = @ + 1], UNCHANGED <<event, claimed, jobs>>,
             \A d \in Events : status'[d] = status[d] \/ status'[d] = "published"
      PROVE  Goal
  <2>1. CASE event[r] = e
    <3>1. Failing(e)' \subseteq Failing(e) \cup {r}
      BY <1>9 DEF Failing, TypeOK
    <3>2. F(e)' <= F(e) + 1
      BY <1>0, <3>1, OneMore DEF F
    <3>3. failures'[e] = failures[e] + 1
      BY <1>9, <2>1 DEF TypeOK
    <3>4. QED BY <1>0, <1>a, <1>1, <1>9, <3>2, <3>3
  <2>2. CASE event[r] # e
    <3>1. Failing(e)' \subseteq Failing(e) /\ failures'[e] = failures[e]
      BY <1>9, <2>2 DEF Failing, TypeOK
    <3>2. QED BY <1>0, <1>a, <1>1, <1>3, <1>9, <3>1
  <2>3. QED BY <2>1, <2>2
<1>10. ASSUME NEW r \in Relays, (\E h \in Handlers : HandlerRejects(r, h)) \/ (\E applied \in BOOLEAN : AckFails(r, applied))
       PROVE  Goal
  <2>1. /\ event[r] \in Events /\ pc[r] = "dispatch" /\ pc' = [pc EXCEPT ![r] = "nack"]
        /\ failures' = [failures EXCEPT ![event[r]] = @ + 1] /\ UNCHANGED <<event, claimed, jobs>>
        /\ \A d \in Events : status'[d] = status[d] \/ status'[d] = "published"
    BY <1>10 DEF HandlerRejects, AckFails, TypeOK
  <2>2. QED BY <1>9, <2>1
<1>11. ASSUME NEW r \in Relays, Ack(r) PROVE Goal
  <2>1. Failing(e)' \subseteq Failing(e) /\ UNCHANGED <<claimed, jobs, failures>>
    BY <1>11 DEF Ack, Advance, Failing, TypeOK
  <2>2. status'[e] = status[e] \/ status'[e] = "published"
    BY <1>11 DEF Ack, TypeOK
  <2>3. QED BY <1>0, <1>a, <1>1, <1>3, <2>1, <2>2
<1>12. ASSUME NEW r \in Relays, Nack(r) PROVE Goal
  <2>1. event[r] \in Events /\ status[event[r]] # "absent" /\ UNCHANGED <<claimed, jobs, failures>>
    BY <1>12 DEF Nack, TypeOK
  <2>2. CASE event[r] = e
    <3>1. r \in Failing(e) /\ Failing(e)' \subseteq Failing(e) \ {r}
      BY <1>12, <2>2 DEF Nack, Advance, Failing, TypeOK
    <3>2. F(e)' <= F(e) - 1
      BY <1>0, <3>1, OneLess DEF F
    <3>3. status'[e] # "absent"
      BY <1>12, <2>1, <2>2 DEF Nack, TypeOK
    <3>4. QED BY <1>0, <1>a, <1>1, <2>1, <3>2, <3>3
  <2>3. CASE event[r] # e
    <3>1. Failing(e)' \subseteq Failing(e) /\ status'[e] = status[e]
      BY <1>12, <2>3 DEF Nack, Advance, Failing, TypeOK
    <3>2. QED BY <1>0, <1>a, <1>1, <1>3, <2>1, <3>1
  <2>4. QED BY <2>2, <2>3
<1>13. ASSUME NEW o \in orphans, NEW resolves \in BOOLEAN, OrphanSettles(o, resolves) PROVE Goal
  BY <1>0, <1>a, <1>1, <1>2, <1>13 DEF OrphanSettles
<1>14. ASSUME NEW p \in Replicas, Crash(p) PROVE Goal
  <2>1. Failing(e)' \subseteq Failing(e) /\ UNCHANGED <<status, claimed, jobs, failures>>
    BY <1>14 DEF Crash, Failing, TypeOK
  <2>2. QED BY <1>0, <1>a, <1>1, <1>3, <2>1
<1>15. ASSUME NEW w \in Workers, WorkerClaim(w) PROVE Goal
  <2>0. UNCHANGED <<pc, event, jobs, failures>>
    BY <1>15 DEF WorkerClaim
  <2>1. CASE e \in Oldest(Due, WorkerBatch)
    <3>1. status[e] = "pending" /\ status'[e] = "published"
      BY <1>15, <2>1, OldestSubset DEF WorkerClaim, Due
    <3>2. Claimers(e)' \subseteq Claimers(e) \cup {w}
      BY <1>15 DEF WorkerClaim, Claimers, TypeOK
    <3>3. C(e)' <= C(e) + 1
      BY <1>0, <3>2, OneMore DEF C
    <3>4. QED BY <1>0, <1>a, <1>2, <2>0, <3>1, <3>3
  <2>2. CASE e \notin Oldest(Due, WorkerBatch)
    <3>1. Claimers(e)' \subseteq Claimers(e) /\ status'[e] = status[e]
      BY <1>15, <2>2 DEF WorkerClaim, Claimers, TypeOK
    <3>2. QED BY <1>0, <1>a, <1>2, <1>4, <2>0, <3>1
  <2>3. QED BY <2>1, <2>2
<1>16. ASSUME NEW w \in Workers, NEW d \in Events, WorkerEnqueue(w, d) PROVE Goal
  <2>0. /\ UNCHANGED <<status, pc, event, failures>> /\ d \in claimed[w]
        /\ claimed' = [claimed EXCEPT ![w] = @ \ {d}] /\ jobs' = [jobs EXCEPT ![d] = @ + 1]
    BY <1>16 DEF WorkerEnqueue
  <2>1. CASE d = e
    <3>1. w \in Claimers(e) /\ Claimers(e)' \subseteq Claimers(e) \ {w}
      BY <2>0, <2>1 DEF Claimers, TypeOK
    <3>2. C(e)' <= C(e) - 1
      BY <1>0, <3>1, OneLess DEF C
    <3>3. jobs'[e] = jobs[e] + 1 /\ status[e] # "absent"
      BY <2>0, <2>1 DEF TypeOK
    <3>4. QED BY <1>0, <1>a, <1>2, <2>0, <3>2, <3>3
  <2>2. CASE d # e
    <3>1. Claimers(e)' \subseteq Claimers(e) /\ jobs'[e] = jobs[e]
      BY <2>0, <2>2 DEF Claimers, TypeOK
    <3>2. QED BY <1>0, <1>a, <1>2, <1>4, <2>0, <3>1
  <2>3. QED BY <2>1, <2>2
<1>17. ASSUME NEW w \in Workers, WorkerFails(w) PROVE Goal
  <2>1. Claimers(e)' \subseteq Claimers(e) /\ UNCHANGED <<status, pc, event, jobs, failures>>
    BY <1>17 DEF WorkerFails, Claimers, TypeOK
  <2>2. QED BY <1>0, <1>a, <1>2, <1>4, <2>1
<1>18. ASSUME UNCHANGED vars PROVE Goal
  BY <1>0, <1>a, <1>1, <1>2, <1>18 DEF vars
<1>19. QED
  <2> HIDE DEF Goal
  <2>1. ASSUME NEW r \in Relays, RelayStep(r) PROVE Goal
    BY <1>7, <1>8, <1>10, <1>11, <1>12, <2>1 DEF RelayStep, HandlersStep, OutcomeStep
  <2>2. ASSUME NEW w \in Workers, WorkerStep(w) PROVE Goal
    BY <1>15, <1>16, <1>17, <2>2 DEF WorkerStep
  <2>3. Goal
    BY <1>5, <1>6, <1>13, <1>14, <1>18, <2>1, <2>2 DEF Next
  <2>4. QED BY <2>3 DEF Goal

(* However many workers, relays and replicas overlap, an event is put on    *)
(* the queue once, and once more at most for each dispatch that failed.     *)
THEOREM OnceOnTheQueue ==
  ASSUME IsFiniteSet(Relays), IsFiniteSet(Workers) PROVE Spec => []EnqueuedOncePerFailure
<1>1. Init => TypeOK /\ QueueInv
  <2>1. SUFFICES ASSUME Init PROVE QueueInv
    BY InitTypeOK
  <2>2. \A e \in Events : Claimers(e) = {} /\ Failing(e) = {}
    BY <2>1 DEF Init, Claimers, Failing
  <2>3. \A e \in Events : jobs[e] = 0 /\ failures[e] = 0 /\ status[e] = "absent"
    BY <2>1 DEF Init
  <2>4. \A e \in Events : Load(e) = 0
    BY <2>2, <2>3, FS_EmptySet DEF Load
  <2>5. QED BY <2>3, <2>4 DEF QueueInv
<1>2. TypeOK /\ QueueInv /\ [Next]_vars => TypeOK' /\ QueueInv'
  BY NextTypeOK, NextQueueInv
<1>3. TypeOK /\ QueueInv => EnqueuedOncePerFailure
  <2>1. ASSUME TypeOK, QueueInv, NEW e \in Events
        PROVE  jobs[e] + Cardinality(Claimers(e)) <= 1 + failures[e]
    <3>1. Claimers(e) \subseteq Workers /\ Failing(e) \subseteq Relays
      BY DEF Claimers, Failing
    <3>2. Cardinality(Claimers(e)) \in Nat /\ Cardinality(Failing(e)) \in Nat
      BY <3>1, Fewer
    <3>3. QED BY <2>1, <3>2 DEF QueueInv, Load, TypeOK
  <2>2. QED BY <2>1 DEF EnqueuedOncePerFailure, Claimers
<1>4. QED BY <1>1, <1>2, <1>3, PTL DEF Spec

=============================================================================
