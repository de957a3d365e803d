------------------------- MODULE SearchIndexProofs --------------------------
(***************************************************************************)
(* Proofs of what failures alone can disturb.  As long as nothing failed,  *)
(* no change is silent: every row and every cancellation has its event,    *)
(* whatever overlaps.  And if, besides, one relay publishes the events in  *)
(* order, the search index is exactly what exists.  Both for any number of *)
(* requests, rows and events, and any quota and batch size.                *)
(***************************************************************************)
EXTENDS ProductFlowProofs

-----------------------------------------------------------------------------
(* What holds in any case.                                                  *)

Creations ==
  {"meet.room.scheduled", "calendar.event.created", "drive.node.created", "notes.item.created"}

(* There is an event named n about x in the outbox.                         *)
Recorded(n, x) == \E e \in Events : status[e] # "absent" /\ name[e] = n /\ subject[e] = x

(* A document is about a row whose creation was published.                  *)
IndexTells == \A x \in index : \E n \in Creations : Recorded(n, x)

(* Notes stay found: only cancelled calendar events are ever removed.       *)
NotesKept == \A e \in Events : <<e, "notes.index">> \in delivered => subject[e] \in index

(* Notes are indexed for notes, documents removed for cancelled events.     *)
CallsNamed ==
  \A e \in Events :
    /\ <<e, "notes.index">> \in delivered => name[e] = "notes.item.created"
    /\ <<e, "calendar.remove">> \in delivered => name[e] = "calendar.event.cancelled"

(* A note has no row.                                                       *)
NotesUnstored == \A x \in stored : kind[x] # "note"

(* Events enter the outbox one after the other.                             *)
OneByOne ==
  /\ \A d, e \in Events : d < e /\ status[e] # "absent" => status[d] # "absent"
  /\ \A e \in Events : status[e] = "absent" => name[e] = NoName

-----------------------------------------------------------------------------
(* What holds while nothing has failed.                                     *)

(* Nothing was rejected, so nothing is put off, parked or abandoned.        *)
Undisturbed ==
  /\ orphans = {} /\ abandoned = {}
  /\ \A r \in Relays : pc[r] # "nack"
  /\ \A e \in Events : status[e] # "failed"
  /\ \A e \in Events : status[e] = "pending" => due[e]

Dispatching(r, e) == pc[r] = "dispatch" /\ event[r] = e

(* The relay works on the oldest pending row, and the rows of its batch     *)
(* come next.                                                               *)
OldestFirst ==
  /\ \A d, e \in Events : status[d] = "published" /\ status[e] = "pending" => d < e
  /\ \A r \in Relays : pc[r] = "dispatch" =>
       /\ status[event[r]] = "pending" /\ event[r] \notin batch[r]
       /\ \A e \in Events : status[e] = "pending" => event[r] <= e
  /\ \A r \in Relays : \A e \in batch[r] :
       /\ status[e] = "pending"
       /\ \A d \in Events : d < e /\ status[d] = "pending" => d \in batch[r] \/ Dispatching(r, d)
  /\ \A e \in Events, h \in Handlers : <<e, h>> \in delivered =>
       status[e] = "published" \/ \E r \in Relays : Dispatching(r, e)

InTurn == Undisturbed /\ OldestFirst

(* What the rows of the products call for.                                  *)
Owed(n, x) ==
  \/ n = "meet.room.scheduled" /\ kind[x] = "room"
  \/ n = "drive.node.created" /\ kind[x] = "file"
  \/ n = "calendar.event.created" /\ kind[x] = "event"
  \/ n = "calendar.event.cancelled" /\ kind[x] = "event" /\ x \notin stored

(* It is in the outbox, or somebody is about to put it there.               *)
Announced == \A x \in Ids, n \in Names : Owed(n, x) => Told(n, x) \/ Recorded(n, x)

(* What was removed stays removed.                                          *)
Removed == \A e \in Events : <<e, "calendar.remove">> \in delivered => subject[e] \notin index

IndexInv ==
  /\ IndexTells /\ NotesKept /\ CallsNamed /\ NotesUnstored /\ OneByOne
  /\ NothingFailed => InTurn /\ Announced /\ (InOrder => Removed)
-----------------------------------------------------------------------------
(* Steps that leave nothing failed behind.                                  *)

CleanRequest(q) ==
  \/ \E x \in Ids :
       \/ \E k \in {"room", "file"} : InsertRow(q, k, x)
       \/ NameNote(q, x)
       \/ CreateFolder(q, x)
       \/ InsertEvent(q, x)
       \/ DeleteEvent(q, x)
  \/ ConsumeQuota(q) \/ RefuseQuota(q)
  \/ \E e \in Events : RequestPublishes(q, e)

CleanRelay(r) ==
  \/ (RelayPoll(r) \/ (\E e \in Events : RelayRead(r, e)) \/ Ack(r)) /\ UNCHANGED flow
  \/ \E h \in Handlers : FlowHandlerResolves(r, h)
  \/ \E x \in Ids : ReactInserts(r, x)
  \/ \E e \in Events : ReactPublishes(r, e)

CleanNext == (\E q \in Requests : CleanRequest(q)) \/ (\E r \in Relays : CleanRelay(r))

(* The counts of failures only grow, and every step but those of CleanNext  *)
(* adds to them or needs an earlier failure.                                *)
LEMMA FailuresStay ==
  ASSUME TypeOK, Shape, NothingFailed => Undisturbed, [FlowNext]_allVars, NothingFailed'
  PROVE  NothingFailed /\ (CleanNext \/ UNCHANGED allVars)
<1> USE DEF NothingFailed
<1>0. /\ failures \in [Events -> Nat] /\ aborts \in 0..MaxAborts /\ crashes \in 0..MaxCrashes
      /\ \A e \in Events : failures'[e] = 0
      /\ aborts' = 0 /\ crashes' = 0
  BY DEF TypeOK, Shape
<1>1. ASSUME NEW q \in Requests, RequestStep(q) PROVE NothingFailed /\ CleanRequest(q)
  <2>1. ~RequestAborts(q)
    BY <1>0, FlowAssumption DEF RequestAborts
  <2>2. CleanRequest(q)
    BY <1>1, <2>1 DEF RequestStep, CleanRequest
  <2>3. UNCHANGED <<failures, crashes, aborts>>
    BY <2>2 DEF CleanRequest, InsertRow, NameNote, CreateFolder, InsertEvent, DeleteEvent, ConsumeQuota,
                RefuseQuota, RequestPublishes, Publish, vars, effects
  <2>4. QED BY <1>0, <2>2, <2>3
<1>2. ASSUME NEW r \in Relays, NEW h \in Handlers, FlowHandlerRejects(r, h) PROVE FALSE
  <2>1. event[r] \in Events /\ failures' = [failures EXCEPT ![event[r]] = @ + 1]
    BY <1>2 DEF FlowHandlerRejects, HandlerRejects, TypeOK
  <2>2. QED BY <1>0, <2>1
<1>3. ASSUME NEW r \in Relays, NEW applied \in BOOLEAN, AckFails(r, applied) PROVE FALSE
  <2>1. event[r] \in Events /\ failures' = [failures EXCEPT ![event[r]] = @ + 1]
    BY <1>3 DEF AckFails, TypeOK
  <2>2. QED BY <1>0, <2>1
<1>4. ASSUME NEW p \in Replicas, FlowCrash(p) PROVE FALSE
  BY <1>0, <1>4, BoundsAssumption DEF FlowCrash, Crash
<1>5. ASSUME NEW r \in Relays, CleanRelay(r) PROVE NothingFailed
  <2>1. UNCHANGED <<failures, crashes, aborts>>
    BY <1>5 DEF CleanRelay, RelayPoll, RelayRead, Ack, FlowHandlerResolves, HandlerResolves, ReactInserts,
                ReactPublishes, flow, vars, effects
  <2>2. QED BY <1>0, <2>1
<1>6. ASSUME BusStep PROVE NothingFailed /\ \E r \in Relays : CleanRelay(r)
  <2>1. aborts' = aborts /\ UNCHANGED flow
    BY <1>6 DEF BusStep, flow
  <2>2. ASSUME NEW e \in Events, BackoffElapses(e) PROVE FALSE
    <3>1. NothingFailed
      BY <1>0, <2>1, <2>2 DEF BackoffElapses, effects
    <3>2. QED BY <2>2, <3>1 DEF BackoffElapses, Undisturbed
  <2>3. ASSUME NEW r \in Relays, Nack(r) PROVE FALSE
    <3>1. NothingFailed
      BY <1>0, <2>1, <2>3 DEF Nack, effects
    <3>2. QED BY <2>3, <3>1 DEF Nack, Undisturbed
  <2>4. ASSUME NEW r \in Relays, RelayPoll(r) \/ (\E e \in Events : RelayRead(r, e)) \/ Ack(r)
        PROVE  CleanRelay(r)
    BY <2>1, <2>4 DEF CleanRelay
  <2>5. QED BY <1>3, <1>5, <1>6, <2>2, <2>3, <2>4 DEF BusStep, OutcomeStep
<1>7. ASSUME NEW o \in orphans, NEW resolves \in BOOLEAN, FlowOrphanSettles(o, resolves) PROVE FALSE
  <2>1. NothingFailed
    BY <1>0, <1>7 DEF FlowOrphanSettles, OrphanSettles
  <2>2. QED BY <2>1 DEF Undisturbed
<1>8. ASSUME NEW a \in abandoned,
             (\E x \in Ids : OrphanInserts(a, x)) \/ (\E e \in Events : OrphanPublishes(a, e))
      PROVE  FALSE
  <2>1. NothingFailed
    BY <1>0, <1>8 DEF OrphanInserts, OrphanPublishes, vars, effects
  <2>2. QED BY <2>1 DEF Undisturbed
<1>9. ASSUME NEW r \in Relays,
             \/ \E h \in Handlers : FlowHandlerResolves(r, h)
             \/ \E x \in Ids : ReactInserts(r, x)
             \/ \E e \in Events : ReactPublishes(r, e)
      PROVE  CleanRelay(r)
  BY <1>9 DEF CleanRelay
<1>10. CASE UNCHANGED allVars
  BY <1>0, <1>10 DEF allVars, vars, flow, effects
<1>11. QED
  BY <1>1, <1>2, <1>4, <1>5, <1>6, <1>7, <1>8, <1>9, <1>10 DEF FlowNext, CleanNext

-----------------------------------------------------------------------------
(* One relay takes the rows in turn.                                        *)

(* A row is appended to the outbox; in the middle of a dispatch it is its   *)
(* reaction that does it, and is done with that.                            *)
Appends(e) ==
  /\ status[e] = "absent" /\ \A d \in Events : d < e => status[d] # "absent"
  /\ status' = [status EXCEPT ![e] = "pending"] /\ due' = [due EXCEPT ![e] = TRUE]
  /\ UNCHANGED <<pc, batch, event, orphans>>
  /\ \/ delivered' = delivered
     \/ \E r \in Relays :
          pc[r] = "dispatch" /\ delivered' = delivered \cup {<<event[r], "calendar.react">>}

(* What a clean step does to the bus.                                       *)
LEMMA CleanBus ==
  ASSUME CleanNext \/ UNCHANGED allVars
  PROVE  \/ UNCHANGED vars
         \/ \E e \in Events : Appends(e)
         \/ \E r \in Relays, h \in Handlers : HandlerResolves(r, h)
         \/ \E r \in Relays : RelayPoll(r) \/ (\E e \in Events : RelayRead(r, e)) \/ Ack(r)
<1> DEFINE Goal == \/ UNCHANGED vars
                   \/ \E e \in Events : Appends(e)
                   \/ \E r \in Relays, h \in Handlers : HandlerResolves(r, h)
                   \/ \E r \in Relays : RelayPoll(r) \/ (\E e \in Events : RelayRead(r, e)) \/ Ack(r)
<1>1. ASSUME NEW q \in Requests, CleanRequest(q) PROVE Goal
  <2>1. ASSUME NEW e \in Events, RequestPublishes(q, e) PROVE Appends(e)
    BY <2>1 DEF RequestPublishes, Publish, Appends, relays, effects
  <2>2. ASSUME \A e \in Events : ~RequestPublishes(q, e) PROVE UNCHANGED vars
    BY <1>1, <2>2 DEF CleanRequest, InsertRow, NameNote, CreateFolder, InsertEvent, DeleteEvent,
                      ConsumeQuota, RefuseQuota
  <2>3. QED BY <2>1, <2>2
<1>2. ASSUME NEW r \in Relays, NEW e \in Events, ReactPublishes(r, e) PROVE Appends(e)
  BY <1>2 DEF ReactPublishes, Appends
<1>3. ASSUME NEW r \in Relays, CleanRelay(r) PROVE Goal
  <2>1. ASSUME NEW x \in Ids, ReactInserts(r, x) PROVE UNCHANGED vars
    BY <2>1 DEF ReactInserts
  <2>2. ASSUME NEW h \in Handlers, FlowHandlerResolves(r, h) PROVE HandlerResolves(r, h)
    BY <2>2 DEF FlowHandlerResolves
  <2>3. QED BY <1>2, <1>3, <2>1, <2>2 DEF CleanRelay
<1>4. CASE UNCHANGED allVars
  BY <1>4 DEF allVars
<1>5. QED BY <1>1, <1>3, <1>4 DEF CleanNext

(* Rows of the products that are put aside stay as they are.                *)
LEMMA CleanAbandoned ==
  ASSUME CleanNext \/ UNCHANGED allVars PROVE abandoned' = abandoned
BY DEF CleanNext, CleanRequest, CleanRelay, InsertRow, NameNote, CreateFolder, InsertEvent, DeleteEvent,
       ConsumeQuota, RefuseQuota, RequestPublishes, FlowHandlerResolves, ReactInserts, ReactPublishes,
       allVars, flow

(* A clean step puts nothing off.                                           *)
LEMMA NextUndisturbed ==
  ASSUME TypeOK, Undisturbed, CleanNext \/ UNCHANGED allVars PROVE Undisturbed'
<1> USE DEF Undisturbed
<1>0. abandoned' = {}
  BY CleanAbandoned
<1>1. ASSUME UNCHANGED vars PROVE Undisturbed'
  BY <1>0, <1>1 DEF vars, outbox, relays
<1>2. ASSUME NEW e \in Events, Appends(e) PROVE Undisturbed'
  BY <1>0, <1>2 DEF Appends, TypeOK
<1>3. ASSUME NEW r \in Relays, NEW h \in Handlers, HandlerResolves(r, h) PROVE Undisturbed'
  BY <1>0, <1>3 DEF HandlerResolves, outbox
<1>4. ASSUME NEW r \in Relays, RelayPoll(r) \/ (\E e \in Events : RelayRead(r, e)) PROVE Undisturbed'
  BY <1>0, <1>4 DEF RelayPoll, RelayRead, TypeOK, outbox
<1>5. ASSUME NEW r \in Relays, Ack(r) PROVE Undisturbed'
  BY <1>0, <1>5 DEF Ack, Advance, TypeOK
<1>6. QED BY <1>1, <1>2, <1>3, <1>4, <1>5, CleanBus

(* The oldest rows of a set come with every older row of it.                *)
LEMMA OldestClosed ==
  ASSUME NEW S \in SUBSET Events, NEW n \in Nat, NEW e \in Oldest(S, n), NEW d \in S, d < e
  PROVE  d \in Oldest(S, n)
<1> DEFINE Before(x) == {c \in S : c < x}
<1>1. \A x : IsFiniteSet(Before(x)) /\ Cardinality(Before(x)) \in Nat
  <2>1. IsFiniteSet(Events)
    BY FS_Interval, BoundsAssumption DEF Events
  <2>2. \A x : Before(x) \subseteq Events
    OBVIOUS
  <2>3. QED BY <2>1, <2>2, FS_Subset, FS_CardinalityType
<1>2. Before(d) \subseteq Before(e)
  <2>1. e \in S
    BY DEF Oldest
  <2>2. \A x \in S : x \in Int
    BY DEF Events
  <2>3. ASSUME NEW c \in S, c < d PROVE c < e
    BY <2>1, <2>2, <2>3
  <2>4. QED BY <2>3
<1>3. Cardinality(Before(d)) <= Cardinality(Before(e))
  BY <1>1, <1>2, FS_Subset
<1>4. Cardinality(Before(e)) < n
  BY DEF Oldest
<1>5. Cardinality(Before(d)) < n
  BY <1>1, <1>3, <1>4
<1>6. QED BY <1>5 DEF Oldest

(* A clean step keeps the order, when there is one relay.                   *)
LEMMA NextOldestFirst ==
  ASSUME \A r, s \in Relays : r = s, TypeOK, CallsAreSubscribed, OneByOne, Undisturbed, OldestFirst,
         CleanNext \/ UNCHANGED allVars
  PROVE  OldestFirst'
<1> USE DEF OldestFirst, Dispatching
<1>0. /\ status \in [Events -> {"absent", "pending", "published", "failed"}]
      /\ pc \in [Relays -> {"idle", "next", "dispatch", "nack"}]
      /\ batch \in [Relays -> SUBSET Events]
      /\ event \in [Relays -> Events \cup {0}]
      /\ \A r \in Relays : pc[r] = "dispatch" => event[r] \in Events
      /\ delivered \subseteq Events \X Handlers
      /\ \A e \in Events : e \in Int
  BY DEF TypeOK, Events
<1>1. ASSUME UNCHANGED vars PROVE OldestFirst'
  BY <1>1 DEF vars, outbox, relays, effects
<1>2. ASSUME NEW e \in Events, Appends(e) PROVE OldestFirst'
  <2>1. /\ \A d \in Events \ {e} : status'[d] = status[d]
        /\ status[e] = "absent" /\ status'[e] = "pending"
        /\ UNCHANGED <<pc, batch, event>>
    BY <1>0, <1>2 DEF Appends
  <2>2. \A d \in Events : status[d] # "absent" => d < e
    BY <1>0, <2>1 DEF OneByOne
  <2>3. \A c \in Events, h \in Handlers : <<c, h>> \in delivered' =>
          <<c, h>> \in delivered \/ \E r \in Relays : pc[r] = "dispatch" /\ event[r] = c
    BY <1>2 DEF Appends
  <2>4. \A c, d \in Events : status'[c] = "published" /\ status'[d] = "pending" => c < d
    BY <2>1, <2>2
  <2>5. ASSUME NEW r \in Relays, pc'[r] = "dispatch"
        PROVE  /\ status'[event'[r]] = "pending" /\ event'[r] \notin batch'[r]
               /\ \A d \in Events : status'[d] = "pending" => event'[r] <= d
    BY <1>0, <2>1, <2>2, <2>5
  <2>6. ASSUME NEW r \in Relays, NEW d \in batch'[r]
        PROVE  /\ status'[d] = "pending"
               /\ \A c \in Events : c < d /\ status'[c] = "pending" =>
                    c \in batch'[r] \/ (pc'[r] = "dispatch" /\ event'[r] = c)
    <3>1. d \in batch[r] /\ d \in Events /\ status[d] = "pending" /\ d < e
      BY <1>0, <2>1, <2>2
    <3>2. QED BY <1>0, <2>1, <3>1
  <2>7. QED BY <1>0, <2>1, <2>3, <2>4, <2>5, <2>6
<1>3. ASSUME NEW r \in Relays, NEW h \in Handlers, HandlerResolves(r, h) PROVE OldestFirst'
  BY <1>0, <1>3 DEF HandlerResolves, outbox
<1>4. ASSUME NEW r \in Relays, RelayPoll(r) PROVE OldestFirst'
  <2>1. /\ pc[r] = "idle" /\ pc'[r] = "next" /\ batch'[r] = Oldest(Due, BatchSize)
        /\ UNCHANGED <<status, event, delivered>>
    BY <1>0, <1>4 DEF RelayPoll, outbox, effects
  <2>2. \A s \in Relays : s = r
    OBVIOUS
  <2>3. Due = {e \in Events : status[e] = "pending"}
    BY DEF Due, Undisturbed
  <2>4. ASSUME NEW e \in batch'[r]
        PROVE  /\ status[e] = "pending"
               /\ \A d \in Events : d < e /\ status[d] = "pending" => d \in batch'[r]
    <3>1. e \in Due
      BY <2>1, OldestSubset
    <3>2. ASSUME NEW d \in Due, d < e PROVE d \in batch'[r]
      BY <2>1, <2>3, <3>2, OldestClosed, BoundsAssumption
    <3>3. QED BY <2>3, <3>1, <3>2
  <2>5. QED BY <1>0, <2>1, <2>2, <2>4
<1>5. ASSUME NEW r \in Relays, NEW e \in Events, RelayRead(r, e) PROVE OldestFirst'
  <2>1. /\ pc[r] = "next" /\ pc'[r] = "dispatch" /\ event'[r] = e /\ batch'[r] = batch[r] \ {e}
        /\ e \in batch[r] /\ \A d \in batch[r] : e <= d
        /\ UNCHANGED <<status, delivered>>
    BY <1>0, <1>5 DEF RelayRead, IsFirst, outbox, effects
  <2>2. \A s \in Relays : s = r
    OBVIOUS
  <2>3. ASSUME NEW d \in Events, status[d] = "pending" PROVE e <= d
    <3>1. CASE d < e
      BY <2>1, <2>3, <3>1
    <3>2. QED BY <1>0, <3>1
  <2>4. \A d \in Events, h \in Handlers : <<d, h>> \in delivered => status[d] = "published"
    BY <2>1, <2>2
  <2>5. QED BY <1>0, <2>1, <2>2, <2>3, <2>4
<1>6. ASSUME NEW r \in Relays, Ack(r) PROVE OldestFirst'
  <2>1. /\ pc[r] = "dispatch" /\ pc'[r] # "dispatch" /\ event[r] \in Events
        /\ status' = [status EXCEPT ![event[r]] = "published"]
        /\ UNCHANGED <<batch, delivered>>
    BY <1>0, <1>6 DEF Ack, Advance, effects
  <2>2. \A s \in Relays : s = r
    OBVIOUS
  <2>3. \A d \in Events \ {event[r]} : status'[d] = status[d]
    BY <1>0, <2>1
  <2>4. status'[event[r]] = "published"
    BY <1>0, <2>1
  <2>5. \A c, d \in Events : status'[c] = "published" /\ status'[d] = "pending" => c < d
    <3>1. SUFFICES ASSUME NEW c \in Events, NEW d \in Events,
                          status'[c] = "published", status'[d] = "pending"
                   PROVE  c < d
      OBVIOUS
    <3>2. d # event[r] /\ status[d] = "pending"
      BY <2>3, <2>4, <3>1
    <3>3. CASE c = event[r]
      BY <1>0, <2>1, <3>2, <3>3
    <3>4. CASE c # event[r]
      BY <2>3, <3>1, <3>2, <3>4
    <3>5. QED BY <3>3, <3>4
  <2>6. ASSUME NEW e \in batch'[r]
        PROVE  /\ status'[e] = "pending"
               /\ \A d \in Events : d < e /\ status'[d] = "pending" => d \in batch'[r]
    <3>1. e \in batch[r] /\ e \in Events /\ e # event[r]
      BY <1>0, <2>1
    <3>2. status'[e] = "pending"
      BY <2>3, <3>1
    <3>3. ASSUME NEW d \in Events, d < e, status'[d] = "pending" PROVE d \in batch'[r]
      BY <2>1, <2>2, <2>3, <2>4, <3>1, <3>3
    <3>4. QED BY <3>2, <3>3
  <2>7. \A d \in Events, h \in Handlers : <<d, h>> \in delivered' => status'[d] = "published"
    BY <2>1, <2>2, <2>3, <2>4
  <2>8. QED BY <2>1, <2>2, <2>5, <2>6, <2>7
<1>7. QED BY <1>1, <1>2, <1>3, <1>4, <1>5, <1>6, CleanBus

(* Rows are inserted one after the other, in any case.                      *)
LEMMA NextOneByOne ==
  ASSUME TypeOK, OneByOne, [FlowNext]_allVars PROVE OneByOne'
<1> USE DEF OneByOne, outbox
<1> DEFINE ComesIn(e) ==
      /\ status[e] = "absent" /\ \A d \in Events : d < e => status[d] # "absent"
      /\ status' = [status EXCEPT ![e] = "pending"]
      /\ \A d \in Events \ {e} : name'[d] = name[d]
<1>0. status \in [Events -> {"absent", "pending", "published", "failed"}] /\ \A e \in Events : e \in Int
  BY DEF TypeOK, Events
<1>1. ASSUME UNCHANGED <<status, name>> PROVE OneByOne'
  BY <1>1
<1>2. ASSUME NEW e \in Events, ComesIn(e) PROVE OneByOne'
  <2>1. \A d \in Events : status'[d] # "absent" <=> status[d] # "absent" \/ d = e
    BY <1>0, <1>2
  <2>2. \A d \in Events : status[d] # "absent" => d < e
    BY <1>0, <1>2
  <2>3. QED BY <1>0, <1>2, <2>1, <2>2
<1>3. ASSUME NEW q \in Requests, NEW e \in Events, RequestPublishes(q, e) PROVE ComesIn(e)
  BY <1>3 DEF RequestPublishes, Publish, TypeOK
<1>4. ASSUME NEW r \in Relays, NEW e \in Events, ReactPublishes(r, e) PROVE ComesIn(e)
  BY <1>4 DEF ReactPublishes, TypeOK
<1>5. ASSUME NEW a \in abandoned, NEW e \in Events, OrphanPublishes(a, e) PROVE ComesIn(e)
  BY <1>5 DEF OrphanPublishes, TypeOK
<1>6. ASSUME NEW q \in Requests, RequestStep(q), \A e \in Events : ~RequestPublishes(q, e)
      PROVE  UNCHANGED <<status, name>>
  BY <1>6 DEF RequestStep, InsertRow, NameNote, CreateFolder, InsertEvent, DeleteEvent, ConsumeQuota,
              RefuseQuota, RequestAborts, vars
<1>7. ASSUME BusStep PROVE OneByOne'
  <2>1. ASSUME \/ \E e \in Events : BackoffElapses(e)
               \/ \E r \in Relays : RelayPoll(r) \/ (\E e \in Events : RelayRead(r, e))
        PROVE  UNCHANGED <<status, name>>
    BY <2>1 DEF BackoffElapses, RelayPoll, RelayRead
  <2>2. ASSUME NEW r \in Relays, OutcomeStep(r) PROVE OneByOne'
    <3>1. name' = name /\ event[r] \in Events /\ status[event[r]] # "absent"
      BY <2>2 DEF OutcomeStep, Ack, AckFails, Nack, TypeOK
    <3>2. \A e \in Events : status'[e] # status[e] => e = event[r] /\ status'[e] # "absent"
      BY <1>0, <2>2 DEF OutcomeStep, Ack, AckFails, Nack
    <3>3. \A e \in Events : status'[e] = "absent" <=> status[e] = "absent"
      BY <3>1, <3>2
    <3>4. QED BY <3>1, <3>3
  <2>3. QED BY <1>1, <1>7, <2>1, <2>2 DEF BusStep
<1>8. ASSUME \/ \E r \in Relays :
                  \/ \E h \in Handlers : FlowHandlerResolves(r, h) \/ FlowHandlerRejects(r, h)
                  \/ \E x \in Ids : ReactInserts(r, x)
             \/ \E o \in orphans, resolves \in BOOLEAN : FlowOrphanSettles(o, resolves)
             \/ \E a \in abandoned, x \in Ids : OrphanInserts(a, x)
             \/ \E p \in Replicas : FlowCrash(p)
             \/ UNCHANGED allVars
      PROVE  UNCHANGED <<status, name>>
  BY <1>8 DEF FlowHandlerResolves, HandlerResolves, FlowHandlerRejects, HandlerRejects, ReactInserts,
              FlowOrphanSettles, OrphanSettles, OrphanInserts, FlowCrash, Crash, allVars, vars
<1>9. QED
  <2> HIDE DEF OneByOne, ComesIn
  <2>1. QED BY <1>1, <1>2, <1>3, <1>4, <1>5, <1>6, <1>7, <1>8 DEF FlowNext

(* What is in the outbox stays there; so if events are in order afterwards, *)
(* they were before.                                                        *)
LEMMA RecordedStays ==
  ASSUME TypeOK, Shape, OneByOne, [FlowNext]_allVars
  PROVE  /\ \A n, x : Recorded(n, x) => Recorded(n, x)'
         /\ InOrder' => InOrder
<1>1. OutboxKept
  BY OutboxEffects
<1>2. \A n, x : Recorded(n, x) => Recorded(n, x)'
  BY <1>1 DEF OutboxKept, Recorded
<1>3. \A e \in Events : name[e] \in {"calendar.event.created", "calendar.event.cancelled"} =>
        status[e] # "absent"
  BY WiredNames, SubscriptionsAssumption DEF OneByOne
<1>4. InOrder' => InOrder
  BY <1>1, <1>3 DEF OutboxKept, InOrder
<1>5. QED BY <1>2, <1>4

-----------------------------------------------------------------------------
(* Every change is announced.                                               *)

(* Who is about to publish an event does, or still is.                      *)
LEMMA TellersTell ==
  ASSUME TypeOK, Shape, Undisturbed, CleanNext \/ UNCHANGED allVars, NEW n, NEW x, Told(n, x)
  PROVE  Told(n, x)' \/ Recorded(n, x)'
<1>1. ASSUME NEW q \in Requests, request[q].at = "publish", request[q].publishes = n, request[q].id = x
      PROVE  Told(n, x)' \/ Recorded(n, x)'
  <2>1. ASSUME NEW e \in Events, RequestPublishes(q, e) PROVE Recorded(n, x)'
    BY <1>1, <2>1 DEF RequestPublishes, Publish, Recorded, TypeOK, Shape
  <2>2. ASSUME NEW p \in Requests, CleanRequest(p), p # q PROVE request'[q] = request[q]
    BY <2>2 DEF CleanRequest, InsertRow, NameNote, CreateFolder, InsertEvent, DeleteEvent, ConsumeQuota,
                RefuseQuota, RequestPublishes, GoPublish, Shape
  <2>3. ASSUME CleanRequest(q), \A e \in Events : ~RequestPublishes(q, e) PROVE request'[q] = request[q]
    BY <1>1, <2>3 DEF CleanRequest, InsertRow, NameNote, CreateFolder, InsertEvent, DeleteEvent,
                      ConsumeQuota, RefuseQuota
  <2>4. ASSUME (\E r \in Relays : CleanRelay(r)) \/ UNCHANGED allVars PROVE request' = request
    BY <2>4 DEF CleanRelay, FlowHandlerResolves, ReactInserts, ReactPublishes, allVars, flow
  <2>5. request'[q] = request[q] => Told(n, x)'
    BY <1>1 DEF Told
  <2>6. QED BY <2>1, <2>2, <2>3, <2>4, <2>5 DEF CleanNext
<1>2. ASSUME NEW r \in Relays, n = "calendar.event.created", reaction[r] = x, x # 0
      PROVE  Told(n, x)' \/ Recorded(n, x)'
  <2>1. ASSUME NEW e \in Events, ReactPublishes(r, e) PROVE Recorded(n, x)'
    BY <1>2, <2>1 DEF ReactPublishes, Recorded, TypeOK, Shape
  <2>2. ASSUME NEW s \in Relays, NEW e \in Events, ReactPublishes(s, e), s # r PROVE reaction'[r] = reaction[r]
    BY <2>2 DEF ReactPublishes, Shape
  <2>3. ASSUME NEW s \in Relays, NEW y \in Ids, ReactInserts(s, y) PROVE reaction'[r] = reaction[r]
    BY <1>2, <2>3 DEF ReactInserts, Shape
  <2>4. ASSUME NEW s \in Relays, CleanRelay(s), \A e \in Events : ~ReactPublishes(s, e),
               \A y \in Ids : ~ReactInserts(s, y)
        PROVE  reaction' = reaction
    BY <2>4 DEF CleanRelay, FlowHandlerResolves, flow
  <2>5. ASSUME (\E q \in Requests : CleanRequest(q)) \/ UNCHANGED allVars PROVE reaction' = reaction
    BY <2>5 DEF CleanRequest, InsertRow, NameNote, CreateFolder, InsertEvent, DeleteEvent, ConsumeQuota,
                RefuseQuota, RequestPublishes, allVars, flow
  <2>6. reaction'[r] = reaction[r] => Told(n, x)'
    BY <1>2 DEF Told
  <2>7. QED BY <2>1, <2>2, <2>3, <2>4, <2>5, <2>6 DEF CleanNext
<1>3. QED BY <1>1, <1>2 DEF Told, Undisturbed

(* Who changes a row is about to tell.                                      *)
LEMMA ChangesAreTold ==
  ASSUME Shape, CleanNext \/ UNCHANGED allVars, NEW x \in Ids, NEW n, Owed(n, x)', ~Owed(n, x)
  PROVE  Told(n, x)'
<1>1. kind \in [Ids -> Kinds] /\ reaction \in [Relays -> Ids \cup {0}]
      /\ request \in [Requests -> RequestStates]
  BY DEF Shape
<1>2. ASSUME UNCHANGED <<kind, stored>> PROVE FALSE
  BY <1>2 DEF Owed
<1>3. ASSUME NEW q \in Requests, CleanRequest(q) PROVE Told(n, x)'
  <2>1. ASSUME NEW y \in Ids, NEW k \in {"room", "file"}, InsertRow(q, k, y) PROVE Told(n, x)'
    <3>1. y = x
      BY <1>1, <2>1 DEF InsertRow, Insert, Owed
    <3>2. n = IF k = "room" THEN "meet.room.scheduled" ELSE "drive.node.created"
      BY <1>1, <2>1, <3>1 DEF InsertRow, Insert, Owed
    <3>3. request'[q].at = "publish" /\ request'[q].publishes = n /\ request'[q].id = x
      BY <1>1, <2>1, <3>1, <3>2 DEF InsertRow, GoPublish
    <3>4. QED BY <3>3 DEF Told
  <2>2. ASSUME NEW y \in Ids, NameNote(q, y) PROVE FALSE
    BY <1>1, <2>2 DEF NameNote, Fresh, Owed
  <2>3. ASSUME NEW y \in Ids, CreateFolder(q, y) PROVE FALSE
    BY <1>1, <2>3 DEF CreateFolder, Insert, Fresh, Owed
  <2>4. ASSUME NEW y \in Ids, InsertEvent(q, y) PROVE Told(n, x)'
    <3>1. y = x /\ n = "calendar.event.created"
      BY <1>1, <2>4 DEF InsertEvent, Insert, Fresh, Owed
    <3>2. request'[q].at = "publish" /\ request'[q].publishes = n /\ request'[q].id = x
      BY <1>1, <2>4, <3>1 DEF InsertEvent, GoPublish
    <3>3. QED BY <3>2 DEF Told
  <2>5. ASSUME NEW y \in Ids, DeleteEvent(q, y) PROVE Told(n, x)'
    <3>1. y = x /\ n = "calendar.event.cancelled"
      BY <1>1, <2>5 DEF DeleteEvent, Owed
    <3>2. request'[q].at = "publish" /\ request'[q].publishes = n /\ request'[q].id = x
      BY <1>1, <2>5, <3>1 DEF DeleteEvent, GoPublish
    <3>3. QED BY <3>2 DEF Told
  <2>6. ASSUME ConsumeQuota(q) \/ RefuseQuota(q) \/ \E e \in Events : RequestPublishes(q, e)
        PROVE  FALSE
    BY <1>2, <2>6 DEF ConsumeQuota, RefuseQuota, RequestPublishes, rows
  <2>7. QED BY <1>3, <2>1, <2>2, <2>3, <2>4, <2>5, <2>6 DEF CleanRequest
<1>4. ASSUME NEW r \in Relays, NEW y \in Ids, ReactInserts(r, y) PROVE Told(n, x)'
  <2>1. y = x /\ n = "calendar.event.created"
    BY <1>1, <1>4 DEF ReactInserts, Insert, Fresh, Owed
  <2>2. reaction'[r] = x /\ x # 0
    BY <1>1, <1>4, <2>1 DEF ReactInserts, Ids
  <2>3. QED BY <2>1, <2>2 DEF Told
<1>5. ASSUME NEW r \in Relays, CleanRelay(r), \A y \in Ids : ~ReactInserts(r, y) PROVE FALSE
  BY <1>2, <1>5 DEF CleanRelay, FlowHandlerResolves, ReactPublishes, flow, rows
<1>6. CASE UNCHANGED allVars
  BY <1>2, <1>6 DEF allVars, flow, rows
<1>7. QED BY <1>3, <1>4, <1>5, <1>6 DEF CleanNext

(* So whatever a row calls for is in the outbox, or about to be.            *)
LEMMA NextAnnounced ==
  ASSUME TypeOK, Shape, OneByOne, Undisturbed, Announced, [FlowNext]_allVars,
         CleanNext \/ UNCHANGED allVars
  PROVE  Announced'
<1>1. ASSUME NEW x \in Ids, NEW n \in Names, Owed(n, x)' PROVE Told(n, x)' \/ Recorded(n, x)'
  <2>1. CASE Owed(n, x)
    <3>1. Told(n, x) \/ Recorded(n, x)
      BY <2>1 DEF Announced
    <3>2. QED BY <3>1, TellersTell, RecordedStays
  <2>2. CASE ~Owed(n, x)
    BY <1>1, <2>2, ChangesAreTold
  <2>3. QED BY <2>1, <2>2
<1>2. QED BY <1>1 DEF Announced

(* When all is quiet, nobody is about to publish any more.                  *)
LEMMA QuietRecords ==
  ASSUME FlowInv, Undisturbed, Announced, Quiet, NEW n \in Names, NEW x \in Ids, Owed(n, x)
  PROVE  Recorded(n, x)
<1>1. \A r \in Relays : reaction[r] = 0
  BY DEF FlowInv, Quiet, TruthInv, ReactionsTell
<1>2. ~Told(n, x)
  BY <1>1 DEF Told, Quiet, Undisturbed
<1>3. QED BY <1>2 DEF Announced

(* It takes neither order nor a single relay for changes to be announced.   *)
AnnounceInv == OneByOne /\ (NothingFailed => Undisturbed /\ Announced)

(* "No committed change without an event", as far as it goes: once all is   *)
(* quiet and nothing has failed, every room, file and calendar event that   *)
(* was created, and every calendar event that was deleted, is in the outbox.*)
NoSilentChange ==
  NothingFailed =>
    /\ CommittedChangeHasEvent
    /\ Quiet => /\ \A x \in stored : kind[x] = "room" => x \in Published("meet.room.scheduled")
                /\ \A x \in stored : kind[x] = "file" => x \in Published("drive.node.created")
                /\ {x \in Ids : kind[x] = "event"} \ stored \subseteq Published("calendar.event.cancelled")

(* Only a failure makes a change silent: a statement that throws, a process *)
(* that exits, or a handler that rejects; never the interleaving of any     *)
(* number of requests, reactions and overlapping relays.                    *)
THEOREM OnlyFailuresAreSilent == ASSUME Workers = {} PROVE FlowSpec => []NoSilentChange
<1>1. FlowInit => AnnounceInv
  BY DEF FlowInit, Init, AnnounceInv, OneByOne, Undisturbed, Announced, Owed
<1>2. FlowInv /\ AnnounceInv /\ [FlowNext]_allVars => AnnounceInv'
  <2>1. ASSUME FlowInv, AnnounceInv, [FlowNext]_allVars PROVE AnnounceInv'
    <3>1. TypeOK /\ Shape /\ OneByOne
      BY <2>1 DEF FlowInv, CallsInv, DeliveryInv, AnnounceInv
    <3>2. OneByOne'
      BY <2>1, <3>1, NextOneByOne
    <3>3. ASSUME NothingFailed' PROVE Undisturbed' /\ Announced'
      <4>1. NothingFailed /\ (CleanNext \/ UNCHANGED allVars)
        BY <2>1, <3>1, <3>3, FailuresStay DEF AnnounceInv
      <4>2. Undisturbed /\ Announced
        BY <2>1, <4>1 DEF AnnounceInv
      <4>3. QED BY <2>1, <3>1, <4>1, <4>2, NextUndisturbed, NextAnnounced
    <3>4. QED BY <3>2, <3>3 DEF AnnounceInv
  <2>2. QED BY <2>1
<1>3. ASSUME FlowInv, AnnounceInv PROVE NoSilentChange
  <2>1. SUFFICES ASSUME NothingFailed, Quiet
                 PROVE  /\ \A x \in stored : kind[x] = "event" => x \in Published("calendar.event.created")
                        /\ \A x \in stored : kind[x] = "room" => x \in Published("meet.room.scheduled")
                        /\ \A x \in stored : kind[x] = "file" => x \in Published("drive.node.created")
                        /\ {x \in Ids : kind[x] = "event"} \ stored \subseteq Published("calendar.event.cancelled")
    BY DEF NoSilentChange, CommittedChangeHasEvent
  <2>2. \A n \in Names, x \in Ids : Owed(n, x) => x \in Published(n)
    <3>1. Undisturbed /\ Announced
      BY <1>3, <2>1 DEF AnnounceInv
    <3>2. \A n \in Names, x \in Ids : Owed(n, x) => Recorded(n, x)
      BY <1>3, <2>1, <3>1, QuietRecords
    <3>3. QED BY <3>2 DEF Recorded, Published
  <2>3. stored \subseteq Ids
    BY <1>3 DEF FlowInv, Shape
  <2>4. QED BY <2>2, <2>3, WiredNames DEF Owed
<1>4. QED BY <1>1, <1>2, <1>3, FlowInvariant, PTL DEF FlowSpec

-----------------------------------------------------------------------------
(* What is indexed and removed.                                             *)

(* Which event a handler is subscribed to.                                  *)
LEMMA Wiring ==
  ASSUME NEW n \in Names, NEW h \in Subscriptions[n]
  PROVE  /\ h = "notes.index" <=> n = "notes.item.created"
         /\ h = "calendar.remove" <=> n = "calendar.event.cancelled"
         /\ h \notin {"calendar.react", "calendar.remove"} => n \in Creations
BY WiringAssumption DEF ProductSubscriptions, ProductNames, Creations

(* Documents keep to events that were published, in any case.               *)
LEMMA NextTold ==
  ASSUME CallsInv, Shape, TruthInv, DoneInv, OneByOne, IndexTells, NotesKept, CallsNamed,
         [FlowNext]_allVars
  PROVE  IndexTells' /\ NotesKept' /\ CallsNamed'
<1>0. /\ TypeOK /\ OutboxKept
      /\ \A e \in Events, h \in Handlers : <<e, h>> \in delivered => status[e] # "absent"
      /\ \A e \in Events : status[e] # "absent" => name[e] \in Names /\ Tells(name[e], subject[e])
  BY OutboxEffects DEF CallsInv, DeliveryInv, DoneInv, Existing, TruthInv, EventsTell, TypeOK
<1>1. "notes.index" \in Handlers /\ "calendar.remove" \in Handlers
  BY WiringAssumption DEF ProductHandlers
<1>2. ASSUME NEW e \in Events, NEW h \in {"notes.index", "calendar.remove"}, <<e, h>> \in delivered
      PROVE  name'[e] = name[e] /\ subject'[e] = subject[e] /\ status[e] # "absent"
  BY <1>0, <1>1, <1>2 DEF OutboxKept
<1>3. \A x \in index : \E n \in Creations : Recorded(n, x)'
  BY <1>0, RecordedStays DEF IndexTells
<1>4. ASSUME UNCHANGED <<delivered, index>> PROVE IndexTells' /\ NotesKept' /\ CallsNamed'
  BY <1>2, <1>3, <1>4 DEF IndexTells, NotesKept, CallsNamed
<1>5. ASSUME NEW e \in Events, NEW h \in Handlers, status[e] # "absent", h \in Subscriptions[name[e]],
             delivered' = delivered \cup {<<e, h>>}, UNCHANGED <<rows, outbox, subject>>,
             index' = Indexed(h, subject[e])
      PROVE  IndexTells' /\ NotesKept' /\ CallsNamed'
  <2>1. name[e] \in Names /\ UNCHANGED <<status, name, subject>>
    BY <1>0, <1>5 DEF outbox
  <2>2. CallsNamed'
    BY <1>5, <2>1, Wiring DEF CallsNamed
  <2>3. IndexTells'
    <3>1. SUFFICES ASSUME NEW x \in index', x \notin index PROVE \E n \in Creations : Recorded(n, x)'
      BY <1>3 DEF IndexTells
    <3>2. x = subject[e] /\ h \notin {"calendar.react", "calendar.remove"}
      BY <1>5, <3>1 DEF Indexed
    <3>3. name[e] \in Creations
      BY <1>5, <2>1, <3>2, Wiring
    <3>4. QED BY <1>5, <2>1, <3>2, <3>3 DEF Recorded
  <2>4. ASSUME NEW d \in Events, <<d, "notes.index">> \in delivered' PROVE subject[d] \in index'
    <3>1. CASE <<d, "notes.index">> \in delivered
      <4>1. subject[d] \in index /\ name[d] = "notes.item.created" /\ status[d] # "absent"
        BY <1>2, <3>1 DEF NotesKept, CallsNamed
      <4>2. kind[subject[d]] = "note"
        BY <1>0, <4>1 DEF Tells
      <4>3. CASE h = "calendar.remove"
        <5>1. name[e] = "calendar.event.cancelled"
          BY <1>5, <2>1, <4>3, Wiring
        <5>2. kind[subject[e]] = "event"
          BY <1>0, <1>5, <5>1 DEF Tells
        <5>3. QED BY <1>5, <4>1, <4>2, <4>3, <5>2 DEF Indexed
      <4>4. CASE h # "calendar.remove"
        BY <1>5, <4>1, <4>4 DEF Indexed
      <4>5. QED BY <4>3, <4>4
    <3>2. CASE <<d, "notes.index">> \notin delivered
      <4>1. d = e /\ h = "notes.index"
        BY <1>5, <2>4, <3>2
      <4>2. QED BY <1>5, <4>1 DEF Indexed
    <3>3. QED BY <3>1, <3>2
  <2>5. QED BY <2>1, <2>2, <2>3, <2>4 DEF NotesKept
<1>6. ASSUME NEW e \in Events, delivered' = delivered \cup {<<e, "calendar.react">>}, index' = index
      PROVE  IndexTells' /\ NotesKept' /\ CallsNamed'
  <2>1. \A d \in Events, h \in {"notes.index", "calendar.remove"} :
          <<d, h>> \in delivered' => <<d, h>> \in delivered
    BY <1>6
  <2>2. QED BY <1>2, <1>3, <1>6, <2>1 DEF IndexTells, NotesKept, CallsNamed
<1>7. QED BY <1>4, <1>5, <1>6, HandlerEffects

(* Nobody stores a note.                                                    *)
LEMMA NextNotesUnstored ==
  ASSUME Shape, NotesUnstored, [FlowNext]_allVars PROVE NotesUnstored'
<1> USE DEF NotesUnstored
<1>0. kind \in [Ids -> Kinds] /\ \A x \in stored : x \in Ids /\ kind[x] # "none"
  BY DEF Shape
<1>1. ASSUME UNCHANGED <<kind, stored>> PROVE NotesUnstored'
  BY <1>1
<1>2. ASSUME NEW x \in Ids, NEW k \in {"room", "file", "folder", "event"}, Insert(k, x)
      PROVE  NotesUnstored'
  BY <1>0, <1>2 DEF Insert
<1>3. ASSUME NEW q \in Requests, NEW x \in Ids, NameNote(q, x) \/ DeleteEvent(q, x)
      PROVE  NotesUnstored'
  BY <1>0, <1>3 DEF NameNote, DeleteEvent, Fresh
<1>4. ASSUME NEW q \in Requests, RequestStep(q) PROVE NotesUnstored'
  <2>1. ASSUME NEW x \in Ids,
               (\E k \in {"room", "file"} : InsertRow(q, k, x)) \/ CreateFolder(q, x) \/ InsertEvent(q, x)
        PROVE  \E k \in {"room", "file", "folder", "event"} : Insert(k, x)
    BY <2>1 DEF InsertRow, CreateFolder, InsertEvent
  <2>2. ASSUME \/ ConsumeQuota(q) \/ RefuseQuota(q) \/ RequestAborts(q)
               \/ \E e \in Events : RequestPublishes(q, e)
        PROVE  UNCHANGED <<kind, stored>>
    BY <2>2 DEF ConsumeQuota, RefuseQuota, RequestAborts, RequestPublishes, rows
  <2>3. QED BY <1>1, <1>2, <1>3, <1>4, <2>1, <2>2 DEF RequestStep
<1>5. ASSUME \/ \E r \in Relays, x \in Ids : ReactInserts(r, x)
             \/ \E a \in abandoned, x \in Ids : OrphanInserts(a, x)
      PROVE  NotesUnstored'
  BY <1>2, <1>5 DEF ReactInserts, OrphanInserts
<1>6. ASSUME \/ BusStep
             \/ \E r \in Relays :
                  \/ \E h \in Handlers : FlowHandlerResolves(r, h) \/ FlowHandlerRejects(r, h)
                  \/ \E e \in Events : ReactPublishes(r, e)
             \/ \E o \in orphans, resolves \in BOOLEAN : FlowOrphanSettles(o, resolves)
             \/ \E a \in abandoned, e \in Events : OrphanPublishes(a, e)
             \/ \E p \in Replicas : FlowCrash(p)
             \/ UNCHANGED allVars
      PROVE  UNCHANGED <<kind, stored>>
  BY <1>6 DEF BusStep, FlowHandlerResolves, FlowHandlerRejects, ReactPublishes,
              FlowOrphanSettles, OrphanPublishes, FlowCrash, flow, allVars, rows
<1>7. QED
  <2> HIDE DEF NotesUnstored
  <2>1. QED BY <1>1, <1>4, <1>5, <1>6 DEF FlowNext

(* In turn, a removed document does not come back: its created event was    *)
(* done with before its cancelled event began.                              *)
LEMMA NextRemoved ==
  ASSUME CallsInv, Shape, TruthInv, CallsNamed, DoneInv, OneByOne, InTurn, InOrder, Removed,
         CleanNext \/ UNCHANGED allVars, [FlowNext]_allVars
  PROVE  Removed'
<1>0. /\ TypeOK /\ CallsAreSubscribed /\ OutboxKept
      /\ \A e \in Events : status[e] # "absent" => name[e] \in Names /\ Tells(name[e], subject[e])
      /\ \A e \in Events : <<e, "calendar.remove">> \in delivered => status[e] # "absent"
  BY OutboxEffects DEF CallsInv, DeliveryInv, DoneInv, Existing, TruthInv, EventsTell, TypeOK
<1>1. ASSUME NEW r \in Relays, NEW h \in Handlers, FlowHandlerResolves(r, h) PROVE Removed'
  <2> DEFINE e == event[r]
  <2>1. /\ e \in Events /\ status[e] = "pending" /\ name[e] \in Names /\ h \in Subscriptions[name[e]]
        /\ \A d \in Events : status[d] = "pending" => e <= d
        /\ \A d \in Events : status[d] = "published" => d < e
    BY <1>0, <1>1 DEF FlowHandlerResolves, HandlerResolves, InTurn, OldestFirst, TypeOK, CallsAreSubscribed
  <2>2. /\ delivered' = delivered \cup {<<e, h>>} /\ index' = Indexed(h, subject[e])
        /\ UNCHANGED subject
    BY <1>1 DEF FlowHandlerResolves, HandlerResolves
  <2>3. ASSUME NEW d \in Events, <<d, "calendar.remove">> \in delivered, h # "calendar.remove",
               h # "calendar.react", subject[d] = subject[e]
        PROVE  FALSE
    <3>1. name[d] = "calendar.event.cancelled" /\ status[d] # "absent"
      BY <1>0, <2>3 DEF CallsNamed
    <3>2. kind[subject[d]] = "event"
      BY <1>0, <3>1 DEF Tells
    <3>3. name[e] \in Creations
      BY <2>1, <2>3, Wiring
    <3>4. Tells(name[e], subject[e])
      BY <1>0, <2>1
    <3>5. name[e] = "calendar.event.created"
      BY <2>3, <3>2, <3>3, <3>4 DEF Tells, Creations
    <3>6. e < d
      BY <2>1, <2>3, <3>1, <3>5 DEF InOrder
    <3>7. d = e \/ status[d] = "published"
      <4>1. "calendar.remove" \in Handlers
        BY WiringAssumption DEF ProductHandlers
      <4>2. status[d] = "published" \/ \E s \in Relays : Dispatching(s, d)
        BY <2>3, <4>1 DEF InTurn, OldestFirst
      <4>3. ASSUME NEW s \in Relays, Dispatching(s, d) PROVE d <= e
        BY <2>1, <4>3 DEF Dispatching, InTurn, OldestFirst
      <4>4. d \in Int /\ e \in Int
        BY <2>1 DEF Events
      <4>5. QED BY <3>6, <4>2, <4>3, <4>4
    <3>8. d \in Int /\ e \in Int
      BY <2>1 DEF Events
    <3>9. QED BY <2>1, <3>6, <3>7, <3>8
  <2>4. ASSUME NEW d \in Events, <<d, "calendar.remove">> \in delivered' PROVE subject[d] \notin index'
    <3>1. CASE <<d, "calendar.remove">> \in delivered
      BY <2>2, <2>3, <3>1 DEF Removed, Indexed
    <3>2. CASE d = e /\ h = "calendar.remove"
      BY <2>2, <3>2 DEF Indexed
    <3>3. QED BY <2>2, <2>4, <3>1, <3>2
  <2>5. QED BY <2>2, <2>4 DEF Removed
<1>2. ASSUME index' = index, \A d \in Events : <<d, "calendar.remove">> \in delivered' =>
                               <<d, "calendar.remove">> \in delivered
      PROVE  Removed'
  BY <1>0, <1>2 DEF Removed, OutboxKept
<1>3. ASSUME NEW r \in Relays, NEW e \in Events, ReactPublishes(r, e) PROVE Removed'
  <2>1. index' = index /\ delivered' = delivered \cup {<<event[r], "calendar.react">>}
    BY <1>3 DEF ReactPublishes
  <2>2. QED BY <1>2, <2>1
<1>4. ASSUME NEW q \in Requests, CleanRequest(q) PROVE index' = index /\ delivered' = delivered
  BY <1>4 DEF CleanRequest, InsertRow, NameNote, CreateFolder, InsertEvent, DeleteEvent, ConsumeQuota,
              RefuseQuota, RequestPublishes, Publish, vars, effects
<1>5. ASSUME NEW r \in Relays, CleanRelay(r), \A h \in Handlers : ~FlowHandlerResolves(r, h),
             \A e \in Events : ~ReactPublishes(r, e)
      PROVE  index' = index /\ delivered' = delivered
  BY <1>5 DEF CleanRelay, RelayPoll, RelayRead, Ack, ReactInserts, flow, vars, effects
<1>6. CASE UNCHANGED allVars
  BY <1>2, <1>6 DEF allVars, flow, vars, effects
<1>7. QED BY <1>1, <1>2, <1>3, <1>4, <1>5, <1>6 DEF CleanNext

-----------------------------------------------------------------------------
(* The theorem.                                                             *)

(* Nothing is published or indexed yet.                                     *)
LEMMA InitIndexInv == FlowInit => IndexInv
<1> SUFFICES ASSUME FlowInit PROVE IndexInv
  OBVIOUS
<1> USE DEF FlowInit, Init, Idle
<1>1. IndexTells /\ NotesKept /\ CallsNamed /\ NotesUnstored /\ OneByOne
  BY DEF IndexTells, NotesKept, CallsNamed, NotesUnstored, OneByOne
<1>2. Undisturbed
  BY DEF Undisturbed
<1>3. OldestFirst
  BY DEF OldestFirst
<1>4. Announced
  BY DEF Announced, Owed
<1>5. Removed
  BY DEF Removed
<1>6. QED BY <1>1, <1>2, <1>3, <1>4, <1>5 DEF IndexInv, InTurn

(* The invariant is inductive when one relay drains the outbox.             *)
LEMMA NextIndexInv ==
  ASSUME \A r, s \in Relays : r = s, FlowInv, IndexInv, [FlowNext]_allVars PROVE IndexInv'
<1>1. /\ CallsInv /\ TypeOK /\ CallsAreSubscribed /\ Shape /\ TruthInv /\ DoneInv
      /\ IndexTells /\ NotesKept /\ CallsNamed /\ NotesUnstored /\ OneByOne
  BY DEF FlowInv, CallsInv, DeliveryInv, IndexInv
<1>2. IndexTells' /\ NotesKept' /\ CallsNamed'
  BY <1>1, NextTold
<1>3. NotesUnstored' /\ OneByOne'
  BY <1>1, NextNotesUnstored, NextOneByOne
<1>4. ASSUME NothingFailed' PROVE InTurn' /\ Announced' /\ (InOrder' => Removed')
  <2>1. NothingFailed /\ (CleanNext \/ UNCHANGED allVars)
    BY <1>1, <1>4, FailuresStay DEF IndexInv, InTurn
  <2>2. Undisturbed /\ OldestFirst /\ InTurn /\ Announced /\ (InOrder => Removed)
    BY <2>1 DEF IndexInv, InTurn
  <2>3. Undisturbed' /\ OldestFirst'
    BY <1>1, <2>1, <2>2, NextUndisturbed, NextOldestFirst
  <2>4. Announced'
    BY <1>1, <2>1, <2>2, NextAnnounced
  <2>5. InOrder' => Removed'
    BY <1>1, <2>1, <2>2, RecordedStays, NextRemoved
  <2>6. QED BY <2>3, <2>4, <2>5 DEF InTurn
<1>5. QED BY <1>2, <1>3, <1>4 DEF IndexInv

(* When all is quiet, the index is what it should be.                       *)
LEMMA QuietIndex == ASSUME FlowInv, IndexInv PROVE IndexIsCurrent
<1>1. SUFFICES ASSUME Quiet, NothingFailed, InOrder
               PROVE  index = {x \in stored : kind[x] # "folder"} \cup Published("notes.item.created")
  BY DEF IndexIsCurrent
<1>2. /\ TypeOK /\ PublishedMeansDelivered /\ Shape /\ TruthInv /\ IndexKept
      /\ IndexTells /\ NotesKept /\ NotesUnstored /\ Undisturbed /\ Announced /\ Removed
  BY <1>1 DEF FlowInv, CallsInv, DeliveryInv, DoneInv, IndexInv, InTurn
<1>3. ASSUME NEW n \in Names, NEW x, Recorded(n, x)
      PROVE  \E e \in Events :
               /\ status[e] = "published" /\ name[e] = n /\ subject[e] = x
               /\ \A h \in Subscriptions[n] : <<e, h>> \in delivered
  <2>1. PICK e \in Events : status[e] # "absent" /\ name[e] = n /\ subject[e] = x
    BY <1>3 DEF Recorded
  <2>2. status[e] = "published"
    BY <1>1, <2>1 DEF Quiet
  <2>3. QED BY <1>2, <2>1, <2>2 DEF PublishedMeansDelivered
<1>4. ASSUME NEW n \in Names, NEW x \in Ids, Owed(n, x) PROVE Recorded(n, x)
  BY <1>1, <1>2, <1>4, QuietRecords
<1>5. ASSUME NEW n, NEW x, Recorded(n, x) PROVE Tells(n, x)
  BY <1>2, <1>5 DEF Recorded, TruthInv, EventsTell
<1>6. /\ Subscriptions["calendar.event.cancelled"] = {"calendar.remove"}
      /\ Subscriptions["calendar.event.created"] = {"calendar.index"}
      /\ Subscriptions["drive.node.created"] = {"drive.index"}
      /\ Subscriptions["notes.item.created"] = {"notes.index"}
      /\ "meet.index" \in Subscriptions["meet.room.scheduled"]
  BY WiringAssumption DEF ProductSubscriptions, ProductNames
<1>7. ASSUME NEW x \in index
      PROVE  (x \in stored /\ kind[x] # "folder") \/ x \in Published("notes.item.created")
  <2>1. PICK n \in Creations : Recorded(n, x)
    BY <1>2 DEF IndexTells
  <2>2. Tells(n, x)
    BY <1>5, <2>1
  <2>3. CASE n = "notes.item.created"
    BY <2>1, <2>3 DEF Recorded, Published
  <2>4. CASE n = "calendar.event.created"
    <3>1. x \in Ids /\ kind[x] = "event"
      BY <2>2, <2>4 DEF Tells
    <3>2. ASSUME x \notin stored PROVE FALSE
      <4>1. Recorded("calendar.event.cancelled", x)
        BY <1>4, <3>1, <3>2, WiredNames DEF Owed
      <4>2. PICK e \in Events : subject[e] = x /\ <<e, "calendar.remove">> \in delivered
        BY <1>3, <1>6, <4>1, WiredNames
      <4>3. QED BY <1>2, <4>2 DEF Removed
    <3>3. QED BY <3>1, <3>2
  <2>5. CASE n \in {"meet.room.scheduled", "drive.node.created"}
    BY <2>2, <2>5 DEF Tells
  <2>6. QED BY <2>3, <2>4, <2>5 DEF Creations
<1>8. ASSUME NEW x \in stored, kind[x] # "folder" PROVE x \in index
  <2>1. x \in Ids /\ kind[x] \in {"room", "event", "file"}
    BY <1>2, <1>8 DEF Shape, Kinds, NotesUnstored
  <2>2. ASSUME NEW n \in Names, NEW h \in Indexers, h \in Subscriptions[n], Owed(n, x) PROVE x \in index
    <3>1. Recorded(n, x)
      BY <1>4, <2>1, <2>2
    <3>2. PICK e \in Events : subject[e] = x /\ <<e, h>> \in delivered
      BY <1>3, <2>2, <3>1
    <3>3. QED BY <1>2, <3>2 DEF IndexKept
  <2>3. QED BY <1>6, <2>1, <2>2, WiredNames DEF Owed, Indexers
<1>9. ASSUME NEW x \in Published("notes.item.created") PROVE x \in index
  <2>1. Recorded("notes.item.created", x)
    BY DEF Recorded, Published
  <2>2. PICK e \in Events : subject[e] = x /\ <<e, "notes.index">> \in delivered
    BY <1>3, <1>6, <2>1, WiredNames
  <2>3. QED BY <1>2, <2>2 DEF NotesKept
<1>10. QED BY <1>7, <1>8, <1>9

(* "Keep the unified index current": whenever one relay has drained the     *)
(* outbox, nothing failed and events were published in order, the search    *)
(* index holds exactly the searchable rows that exist, however requests,    *)
(* reactions and the relay interleaved on the way.                          *)
THEOREM IndexStaysCurrent ==
  ASSUME Workers = {}, \A r, s \in Relays : r = s PROVE FlowSpec => []IndexIsCurrent
<1>1. FlowInv /\ IndexInv /\ [FlowNext]_allVars => IndexInv'
  BY NextIndexInv
<1>2. FlowInv /\ IndexInv => IndexIsCurrent
  BY QuietIndex
<1>3. FlowSpec => []FlowInv
  BY FlowInvariant
<1>4. QED BY InitIndexInv, <1>1, <1>2, <1>3, PTL DEF FlowSpec

=============================================================================
