------------------------- MODULE ProductFlowProofs --------------------------
(***************************************************************************)
(* Proofs about ProductFlow, for any number of requests, relays, replicas, *)
(* rows and events, any attempt limit and quota, and any number of aborted *)
(* requests and process exits.  The worker is left out, as in the runs.    *)
(***************************************************************************)
EXTENDS ProductFlow, EventBusProofs

RequestStates ==
  [at : {"idle", "insert", "refuse", "publish"}, publishes : Names \cup {NoName},
   id : Ids \cup {0}]

Kinds == {"none", "room", "event", "file", "folder", "note"}

(* The types of the products' own variables; a row that was never inserted  *)
(* belongs to no room.                                                      *)
Shape ==
  /\ kind \in [Ids -> Kinds]
  /\ stored \subseteq {x \in Ids : kind[x] # "none"}
  /\ roomOf \in [Ids -> Ids \cup {0}]
  /\ \A x \in Ids : kind[x] = "none" => roomOf[x] = 0
  /\ subject \in [Events -> Ids \cup {0}]
  /\ index \subseteq {x \in Ids : kind[x] # "none"}
  /\ request \in [Requests -> RequestStates]
  /\ eventsUsed \in Nat
  /\ reaction \in [Relays -> Ids \cup {0}]
  /\ abandoned \subseteq Replicas \X Events \X (Ids \cup {0})
  /\ aborts \in 0..MaxAborts

(* What an event named n promises of the row x it is about.                 *)
Tells(n, x) ==
  /\ x \in Ids /\ kind[x] # "none"
  /\ n = "meet.room.scheduled" => kind[x] = "room" /\ x \in stored
  /\ n = "drive.node.created" => kind[x] = "file" /\ x \in stored
  /\ n = "calendar.event.created" => kind[x] = "event"
  /\ n = "calendar.event.cancelled" => kind[x] = "event" /\ x \notin stored
  /\ n = "notes.item.created" => kind[x] = "note"

(* Events tell the truth, also those a request, a reaction or an abandoned  *)
(* reaction is about to publish.                                            *)
EventsTell == \A e \in Events : status[e] # "absent" => Tells(name[e], subject[e])

RequestsTell ==
  \A q \in Requests : request[q].at = "publish" =>
    request[q].publishes \in Names /\ Tells(request[q].publishes, request[q].id)

ReactionsTell ==
  \A r \in Relays : reaction[r] # 0 =>
    /\ hasCalendar /\ pc[r] = "dispatch" /\ "calendar.react" \in running[r]
    /\ kind[reaction[r]] = "event" /\ roomOf[reaction[r]] = subject[event[r]]

AbandonedTell ==
  \A a \in abandoned :
    /\ status[a[2]] # "absent"
    /\ a[3] # 0 => kind[a[3]] = "event" /\ roomOf[a[3]] = subject[a[2]]

TruthInv == EventsTell /\ RequestsTell /\ ReactionsTell /\ AbandonedTell

BaseInv == CallsInv /\ Shape /\ TruthInv

(* "calendar.event.created" is an event, and the events are those wired.    *)
LEMMA WiredNames ==
  /\ "calendar.event.created" \in Names
  /\ "meet.room.scheduled" \in Names /\ "drive.node.created" \in Names
  /\ "calendar.event.cancelled" \in Names /\ "notes.item.created" \in Names
BY WiringAssumption DEF ProductNames

(* The reaction of a dispatch publishes its event and is delivered at once: *)
(* the bus keeps its promises.                                              *)
LEMMA ReactPublishesBus ==
  ASSUME CallsInv, NEW r \in Relays, NEW e \in Events, ReactPublishes(r, e)
  PROVE  CallsInv'
<1> USE SubscriptionsAssumption
<1>0. TypeOK /\ PublishedMeansDelivered /\ DispatchCovers /\ CallsAreSubscribed
  BY DEF CallsInv, DeliveryInv
<1>1. /\ status[e] = "absent" /\ status' = [status EXCEPT ![e] = "pending"]
      /\ name' = [name EXCEPT ![e] = "calendar.event.created"]
      /\ due' = [due EXCEPT ![e] = TRUE]
      /\ pc[r] = "dispatch" /\ "calendar.react" \in running[r]
      /\ running' = [running EXCEPT ![r] = @ \ {"calendar.react"}]
      /\ delivered' = delivered \cup {<<event[r], "calendar.react">>}
      /\ UNCHANGED <<attempts, pc, batch, event, seen, orphans, failures, queue, crashes>>
  BY DEF ReactPublishes
<1>2. event[r] \in Events /\ status[event[r]] # "absent" /\ event[r] # e
  BY <1>0, <1>1 DEF TypeOK
<1>3. TypeOK'
  BY <1>0, <1>1, <1>2, WiredNames DEF TypeOK, queue
<1>4. PublishedMeansDelivered'
  BY <1>0, <1>1 DEF PublishedMeansDelivered, TypeOK
<1>5. DispatchCovers'
  BY <1>0, <1>1 DEF DispatchCovers, TypeOK
<1>6. CallsAreSubscribed'
  BY <1>0, <1>1 DEF CallsAreSubscribed, TypeOK
<1>7. QED
  BY <1>3, <1>4, <1>5, <1>6 DEF CallsInv, DeliveryInv

(* So does a reaction nobody awaits.                                        *)
LEMMA OrphanPublishesBus ==
  ASSUME CallsInv, Shape, NEW a \in abandoned, NEW e \in Events, OrphanPublishes(a, e)
  PROVE  CallsInv'
<1> USE SubscriptionsAssumption
<1>0. TypeOK /\ PublishedMeansDelivered /\ DispatchCovers /\ CallsAreSubscribed
  BY DEF CallsInv, DeliveryInv
<1>1. /\ status[e] = "absent" /\ status' = [status EXCEPT ![e] = "pending"]
      /\ name' = [name EXCEPT ![e] = "calendar.event.created"]
      /\ due' = [due EXCEPT ![e] = TRUE]
      /\ orphans' = orphans \ {<<a[1], a[2], "calendar.react">>}
      /\ delivered' = delivered \cup {<<a[2], "calendar.react">>}
      /\ UNCHANGED <<attempts, pc, batch, event, seen, running, failures, queue, crashes>>
  BY DEF OrphanPublishes
<1>2. a[2] \in Events /\ "calendar.react" \in Handlers
  BY WiringAssumption DEF Shape, ProductHandlers
<1>3. TypeOK'
  BY <1>0, <1>1, <1>2, WiredNames DEF TypeOK, queue
<1>4. PublishedMeansDelivered'
  BY <1>0, <1>1 DEF PublishedMeansDelivered, TypeOK
<1>5. DispatchCovers'
  BY <1>0, <1>1 DEF DispatchCovers, TypeOK
<1>6. CallsAreSubscribed'
  BY <1>0, <1>1 DEF CallsAreSubscribed, TypeOK
<1>7. QED
  BY <1>3, <1>4, <1>5, <1>6 DEF CallsInv, DeliveryInv

(* Every step of the products is one of the bus, one that leaves the bus    *)
(* alone, or one of the two above: what is proved of the bus carries over.  *)
LEMMA FlowCallsInv ==
  ASSUME Workers = {}, CallsInv, Shape, RequestsTell, [FlowNext]_allVars
  PROVE  CallsInv'
<1>1. ASSUME [Next]_vars PROVE CallsInv'
  BY <1>1, NextCallsInv
<1>2. ASSUME NEW q \in Requests, RequestStep(q) PROVE CallsInv'
  <2>1. ASSUME NEW e \in Events, RequestPublishes(q, e) PROVE [Next]_vars
    BY <2>1 DEF RequestPublishes, RequestsTell, Next
  <2>2. ASSUME NEW x \in Ids,
               \/ \E k \in {"room", "file"} : InsertRow(q, k, x)
               \/ NameNote(q, x) \/ CreateFolder(q, x) \/ InsertEvent(q, x) \/ DeleteEvent(q, x)
        PROVE  UNCHANGED vars
    BY <2>2 DEF InsertRow, NameNote, CreateFolder, InsertEvent, DeleteEvent
  <2>3. ASSUME ConsumeQuota(q) \/ RefuseQuota(q) \/ RequestAborts(q) PROVE UNCHANGED vars
    BY <2>3 DEF ConsumeQuota, RefuseQuota, RequestAborts
  <2>4. QED
    BY <1>1, <1>2, <2>1, <2>2, <2>3 DEF RequestStep
<1>3. ASSUME BusStep PROVE [Next]_vars
  BY <1>3 DEF BusStep, Next, RelayStep
<1>4. ASSUME NEW r \in Relays, NEW h \in Handlers,
             FlowHandlerResolves(r, h) \/ FlowHandlerRejects(r, h)
      PROVE  [Next]_vars
  BY <1>4 DEF FlowHandlerResolves, FlowHandlerRejects, Next, RelayStep, HandlersStep
<1>5. ASSUME NEW r \in Relays, NEW x \in Ids, ReactInserts(r, x) PROVE UNCHANGED vars
  BY <1>5 DEF ReactInserts
<1>6. ASSUME NEW o \in orphans, NEW resolves \in BOOLEAN, FlowOrphanSettles(o, resolves)
      PROVE  [Next]_vars
  BY <1>6 DEF FlowOrphanSettles, Next
<1>7. ASSUME NEW a \in abandoned, NEW x \in Ids, OrphanInserts(a, x) PROVE UNCHANGED vars
  BY <1>7 DEF OrphanInserts
<1>8. ASSUME NEW p \in Replicas, FlowCrash(p) PROVE [Next]_vars
  BY <1>8 DEF FlowCrash, Next
<1>9. CASE UNCHANGED allVars
  BY <1>1, <1>9 DEF allVars
<1>10. QED
  BY <1>1, <1>2, <1>3, <1>4, <1>5, <1>6, <1>7, <1>8, <1>9, ReactPublishesBus, OrphanPublishesBus
  DEF FlowNext

-----------------------------------------------------------------------------
(* What one step can do to the rows: nothing, one row that is new, or one   *)
(* calendar event that is deleted.                                          *)

NewRow(x, k) ==
  /\ kind[x] = "none" /\ k # "none" /\ kind' = [kind EXCEPT ![x] = k]
  /\ stored' = stored \/ (stored' = stored \cup {x})
  /\ \/ roomOf' = roomOf
     \/ /\ k = "event"
        /\ \E e \in Events : status[e] # "absent" /\ roomOf' = [roomOf EXCEPT ![x] = subject[e]]

DeletedRow(x) ==
  /\ kind[x] = "event" /\ x \in stored /\ stored' = stored \ {x}
  /\ UNCHANGED <<kind, roomOf>>

(* The rows change one at a time.                                           *)
LEMMA RowEffects ==
  ASSUME TypeOK, Shape, AbandonedTell, [FlowNext]_allVars
  PROVE  \/ UNCHANGED rows
         \/ \E x \in Ids, k \in Kinds : NewRow(x, k)
         \/ \E x \in Ids : DeletedRow(x)
<1> DEFINE Goal == \/ UNCHANGED rows
                   \/ \E x \in Ids, k \in Kinds : NewRow(x, k)
                   \/ \E x \in Ids : DeletedRow(x)
<1> USE DEF rows
<1>1. ASSUME NEW q \in Requests, RequestStep(q) PROVE Goal
  <2>1. ASSUME NEW x \in Ids, NEW k \in {"room", "file"}, InsertRow(q, k, x) PROVE Goal
    <3>1. NewRow(x, k) /\ k \in Kinds
      BY <2>1 DEF InsertRow, Insert, Fresh, NewRow, Kinds
    <3>2. QED BY <3>1
  <2>2. ASSUME NEW x \in Ids, NameNote(q, x) PROVE Goal
    <3>1. NewRow(x, "note") /\ "note" \in Kinds
      BY <2>2 DEF NameNote, Fresh, NewRow, Kinds
    <3>2. QED BY <3>1
  <2>3. ASSUME NEW x \in Ids, CreateFolder(q, x) PROVE Goal
    <3>1. NewRow(x, "folder") /\ "folder" \in Kinds
      BY <2>3 DEF CreateFolder, Insert, Fresh, NewRow, Kinds
    <3>2. QED BY <3>1
  <2>4. ASSUME NEW x \in Ids, InsertEvent(q, x) PROVE Goal
    <3>1. NewRow(x, "event") /\ "event" \in Kinds
      BY <2>4 DEF InsertEvent, Insert, Fresh, NewRow, Kinds
    <3>2. QED BY <3>1
  <2>5. ASSUME NEW x \in Ids, DeleteEvent(q, x) PROVE Goal
    <3>1. DeletedRow(x)
      BY <2>5 DEF DeleteEvent, DeletedRow
    <3>2. QED BY <3>1
  <2>6. ASSUME \/ ConsumeQuota(q) \/ RefuseQuota(q) \/ RequestAborts(q)
               \/ \E e \in Events : RequestPublishes(q, e)
        PROVE  UNCHANGED rows
    BY <2>6 DEF ConsumeQuota, RefuseQuota, RequestAborts, RequestPublishes
  <2>7. QED
    BY <1>1, <2>1, <2>2, <2>3, <2>4, <2>5, <2>6 DEF RequestStep
<1>2. ASSUME NEW r \in Relays, NEW x \in Ids, ReactInserts(r, x) PROVE Goal
  <2>1. event[r] \in Events /\ status[event[r]] # "absent"
    BY <1>2 DEF TypeOK, ReactInserts
  <2>2. NewRow(x, "event") /\ "event" \in Kinds
    BY <1>2, <2>1 DEF ReactInserts, Insert, Fresh, NewRow, Kinds
  <2>3. QED BY <2>2
<1>3. ASSUME NEW a \in abandoned, NEW x \in Ids, OrphanInserts(a, x) PROVE Goal
  <2>0. a[2] \in Events
    BY DEF Shape
  <2>1. NewRow(x, "event") /\ "event" \in Kinds
    BY <1>3, <2>0 DEF OrphanInserts, Insert, Fresh, NewRow, Kinds, AbandonedTell
  <2>2. QED BY <2>1
<1>4. ASSUME \/ BusStep
             \/ \E r \in Relays :
                  \/ \E h \in Handlers : FlowHandlerResolves(r, h) \/ FlowHandlerRejects(r, h)
                  \/ \E e \in Events : ReactPublishes(r, e)
             \/ \E o \in orphans, resolves \in BOOLEAN : FlowOrphanSettles(o, resolves)
             \/ \E a \in abandoned, e \in Events : OrphanPublishes(a, e)
             \/ \E p \in Replicas : FlowCrash(p)
             \/ UNCHANGED allVars
      PROVE  UNCHANGED rows
  BY <1>4 DEF BusStep, FlowHandlerResolves, FlowHandlerRejects, ReactPublishes,
              FlowOrphanSettles, OrphanPublishes, FlowCrash, flow, allVars
<1>5. QED
  BY <1>1, <1>2, <1>3, <1>4 DEF FlowNext

(* What one step can do to the outbox: what is in it stays as it is, and a  *)
(* new event is one a request, a reaction or an abandoned reaction tells.   *)
Told(n, x) ==
  \/ \E q \in Requests : request[q].at = "publish" /\ request[q].publishes = n /\ request[q].id = x
  \/ n = "calendar.event.created" /\ \E r \in Relays : reaction[r] = x /\ x # 0
  \/ n = "calendar.event.created" /\ \E a \in abandoned : a[3] = x /\ x # 0

OutboxKept ==
  \A e \in Events : status[e] # "absent" =>
    status'[e] # "absent" /\ name'[e] = name[e] /\ subject'[e] = subject[e]

OutboxGrows == \A e \in Events : status[e] = "absent" /\ status'[e] # "absent" => Told(name'[e], subject'[e])

(* No step takes an event back or changes what it is about, and none tells  *)
(* anything nobody was about to tell.                                       *)
LEMMA OutboxEffects ==
  ASSUME TypeOK, Shape, [FlowNext]_allVars PROVE OutboxKept /\ OutboxGrows
<1> DEFINE Goal == OutboxKept /\ OutboxGrows
<1> USE DEF OutboxKept, OutboxGrows, outbox
<1>1. ASSUME UNCHANGED <<outbox, subject>> PROVE Goal
  BY <1>1
<1>2. ASSUME NEW q \in Requests, NEW e \in Events, RequestPublishes(q, e) PROVE Goal
  BY <1>2 DEF RequestPublishes, Publish, TypeOK, Shape, Told
<1>3. ASSUME NEW r \in Relays, NEW e \in Events, ReactPublishes(r, e) PROVE Goal
  BY <1>3 DEF ReactPublishes, TypeOK, Shape, Told
<1>4. ASSUME NEW a \in abandoned, NEW e \in Events, OrphanPublishes(a, e) PROVE Goal
  BY <1>4 DEF OrphanPublishes, TypeOK, Shape, Told
<1>5. ASSUME NEW q \in Requests, RequestStep(q), \A e \in Events : ~RequestPublishes(q, e)
      PROVE  UNCHANGED <<outbox, subject>>
  BY <1>5 DEF RequestStep, InsertRow, NameNote, CreateFolder, InsertEvent, DeleteEvent, ConsumeQuota,
              RefuseQuota, RequestAborts, vars
<1>6. ASSUME BusStep PROVE Goal
  <2>1. subject' = subject
    BY <1>6 DEF BusStep, flow
  <2>2. ASSUME NEW e \in Events, BackoffElapses(e) PROVE Goal
    BY <2>1, <2>2 DEF BackoffElapses
  <2>3. ASSUME NEW r \in Relays, RelayPoll(r) \/ (\E e \in Events : RelayRead(r, e)) PROVE Goal
    BY <2>1, <2>3 DEF RelayPoll, RelayRead
  <2>4. ASSUME NEW r \in Relays, OutcomeStep(r) PROVE Goal
    <3>1. name' = name /\ event[r] \in Events /\ status[event[r]] # "absent"
      BY <2>4 DEF OutcomeStep, Ack, AckFails, Nack, TypeOK
    <3>2. \A e \in Events : status'[e] # status[e] => e = event[r] /\ status'[e] # "absent"
      BY <2>4 DEF OutcomeStep, Ack, AckFails, Nack, TypeOK
    <3>3. QED BY <2>1, <3>1, <3>2
  <2>5. QED BY <1>6, <2>2, <2>3, <2>4 DEF BusStep
<1>7. ASSUME \/ \E r \in Relays :
                  \/ \E h \in Handlers : FlowHandlerResolves(r, h) \/ FlowHandlerRejects(r, h)
                  \/ \E x \in Ids : ReactInserts(r, x)
             \/ \E o \in orphans, resolves \in BOOLEAN : FlowOrphanSettles(o, resolves)
             \/ \E a \in abandoned, x \in Ids : OrphanInserts(a, x)
             \/ \E p \in Replicas : FlowCrash(p)
             \/ UNCHANGED allVars
      PROVE  UNCHANGED <<outbox, subject>>
  BY <1>7 DEF FlowHandlerResolves, HandlerResolves, FlowHandlerRejects, HandlerRejects, ReactInserts,
              FlowOrphanSettles, OrphanSettles, OrphanInserts, FlowCrash, Crash, allVars, flow, vars
<1>8. QED
  BY <1>1, <1>2, <1>3, <1>4, <1>5, <1>6, <1>7 DEF FlowNext

(* What an event promises of its row stays true.                            *)
LEMMA TellsKept ==
  ASSUME TypeOK, Shape, AbandonedTell, [FlowNext]_allVars, NEW n, NEW x, Tells(n, x)
  PROVE  Tells(n, x)' /\ kind'[x] = kind[x] /\ roomOf'[x] = roomOf[x]
<1>1. CASE UNCHANGED rows
  BY <1>1 DEF rows, Tells
<1>2. ASSUME NEW y \in Ids, NEW k \in Kinds, NewRow(y, k)
      PROVE  Tells(n, x)' /\ kind'[x] = kind[x] /\ roomOf'[x] = roomOf[x]
  BY <1>2 DEF NewRow, Tells, Shape
<1>3. ASSUME NEW y \in Ids, DeletedRow(y)
      PROVE  Tells(n, x)' /\ kind'[x] = kind[x] /\ roomOf'[x] = roomOf[x]
  BY <1>3 DEF DeletedRow, Tells, Shape
<1>4. QED BY <1>1, <1>2, <1>3, RowEffects

(* What nobody was about to tell is never told: events keep telling the     *)
(* truth.                                                                   *)
LEMMA NextEventsTell ==
  ASSUME TypeOK, Shape, TruthInv, [FlowNext]_allVars PROVE EventsTell'
<1>1. \A n, x : Told(n, x) => Tells(n, x)
  <2>1. SUFFICES ASSUME NEW n, NEW x, Told(n, x) PROVE Tells(n, x)
    OBVIOUS
  <2>2. ASSUME NEW r \in Relays, n = "calendar.event.created", reaction[r] = x, x # 0
        PROVE  Tells(n, x)
    BY <2>2 DEF TruthInv, ReactionsTell, Shape, Tells
  <2>3. ASSUME NEW a \in abandoned, n = "calendar.event.created", a[3] = x, x # 0
        PROVE  Tells(n, x)
    BY <2>3 DEF TruthInv, AbandonedTell, Shape, Tells
  <2>4. QED BY <2>1, <2>2, <2>3 DEF Told, TruthInv, RequestsTell
<1>2. \A n, x : Tells(n, x) => Tells(n, x)'
  BY TellsKept DEF TruthInv
<1>3. OutboxKept /\ OutboxGrows
  BY OutboxEffects
<1>4. ASSUME NEW e \in Events, status'[e] # "absent" PROVE Tells(name[e], subject[e])'
  <2>1. \E n, x : n = name'[e] /\ x = subject'[e] /\ Tells(n, x)
    <3>1. CASE status[e] = "absent"
      BY <1>1, <1>3, <1>4, <3>1 DEF OutboxGrows
    <3>2. CASE status[e] # "absent"
      BY <1>3, <3>2 DEF OutboxKept, TruthInv, EventsTell
    <3>3. QED BY <3>1, <3>2
  <2>2. PICK n, x : n = name'[e] /\ x = subject'[e] /\ Tells(n, x)
    BY <2>1
  <2>3. Tells(n, x)'
    BY <1>2, <2>2
  <2>4. QED BY <2>2, <2>3 DEF Tells
<1>5. QED BY <1>4 DEF EventsTell

(* A request that goes on to publish has just made true what it will tell.  *)
LEMMA NextRequestsTell ==
  ASSUME TypeOK, Shape, TruthInv, [FlowNext]_allVars PROVE RequestsTell'
<1> USE WiredNames
<1>1. ASSUME NEW q \in Requests, NEW p \in Requests, request'[p].at = "publish",
             RequestStep(q), request'[p] # request[p]
      PROVE  request'[p].publishes \in Names /\ Tells(request[p].publishes, request[p].id)'
  <2> DEFINE Goal == request'[p].publishes \in Names /\ Tells(request[p].publishes, request[p].id)'
  <2> USE DEF Shape, RequestStates
  <2>1. ASSUME NEW x \in Ids, NEW k \in {"room", "file"}, InsertRow(q, k, x) PROVE Goal
    BY <1>1, <2>1 DEF InsertRow, Insert, Fresh, GoPublish, Tells
  <2>2. ASSUME NEW x \in Ids, NameNote(q, x) PROVE Goal
    BY <1>1, <2>2 DEF NameNote, Fresh, GoPublish, Tells
  <2>3. ASSUME NEW x \in Ids, InsertEvent(q, x) PROVE Goal
    BY <1>1, <2>3 DEF InsertEvent, Insert, Fresh, GoPublish, Tells
  <2>4. ASSUME NEW x \in Ids, DeleteEvent(q, x) PROVE Goal
    BY <1>1, <2>4 DEF DeleteEvent, GoPublish, Tells
  <2>5. ASSUME NEW x \in Ids, CreateFolder(q, x) PROVE FALSE
    BY <1>1, <2>5 DEF CreateFolder
  <2>6. ASSUME \/ ConsumeQuota(q) \/ RefuseQuota(q) \/ RequestAborts(q)
               \/ \E e \in Events : RequestPublishes(q, e)
        PROVE  FALSE
    BY <1>1, <2>6 DEF ConsumeQuota, RefuseQuota, RequestAborts, RequestPublishes, Idle
  <2>7. QED
    BY <1>1, <2>1, <2>2, <2>3, <2>4, <2>5, <2>6 DEF RequestStep
<1>2. ASSUME \A q \in Requests : ~RequestStep(q) PROVE request' = request
  BY <1>2 DEF FlowNext, BusStep, FlowHandlerResolves, FlowHandlerRejects, ReactInserts, ReactPublishes,
              FlowOrphanSettles, OrphanInserts, OrphanPublishes, FlowCrash, allVars, flow
<1>3. ASSUME NEW p \in Requests, request'[p].at = "publish", request'[p] = request[p]
      PROVE  request'[p].publishes \in Names /\ Tells(request[p].publishes, request[p].id)'
  <2>1. PICK n, x : n = request[p].publishes /\ x = request[p].id
    OBVIOUS
  <2>2. n \in Names /\ Tells(n, x)
    BY <1>3, <2>1 DEF TruthInv, RequestsTell
  <2>3. Tells(n, x)'
    BY <2>2, TellsKept DEF TruthInv
  <2>4. QED BY <1>3, <2>1, <2>2, <2>3 DEF Tells
<1>4. QED
  BY <1>1, <1>2, <1>3 DEF RequestsTell

(* Whether the host has a calendar is settled before any of this.           *)
LEMMA HostKept == [FlowNext]_allVars => hasCalendar' = hasCalendar
BY DEF FlowNext, RequestStep, InsertRow, NameNote, CreateFolder, InsertEvent, DeleteEvent, ConsumeQuota,
       RefuseQuota, RequestAborts, RequestPublishes, BusStep, FlowHandlerResolves, FlowHandlerRejects,
       ReactInserts, ReactPublishes, FlowOrphanSettles, OrphanInserts, OrphanPublishes, FlowCrash,
       allVars, flow

(* A relay that holds the row of a reaction is inside that reaction, and    *)
(* the row stays one of the room it was made for.                           *)
LEMMA NextReactionsTell ==
  ASSUME TypeOK, Shape, TruthInv, [FlowNext]_allVars PROVE ReactionsTell'
<1> DEFINE Holds(r) ==
      /\ hasCalendar' /\ pc'[r] = "dispatch" /\ "calendar.react" \in running'[r]
      /\ kind'[reaction'[r]] = "event" /\ roomOf'[reaction'[r]] = subject'[event'[r]]
<1>0. hasCalendar' = hasCalendar
  BY HostKept
<1>1. ASSUME NEW r \in Relays, NEW x \in Ids, ReactInserts(r, x) PROVE Holds(r)
  <2>1. event[r] \in Events /\ kind[x] = "none"
    BY <1>1 DEF ReactInserts, Insert, Fresh, TypeOK
  <2>2. QED BY <1>1, <2>1 DEF ReactInserts, Insert, Shape, vars, relays, outbox
<1>2. ASSUME NEW r \in Relays, reaction'[r] = reaction[r], reaction[r] # 0,
             pc'[r] = pc[r], event'[r] = event[r], "calendar.react" \in running'[r]
      PROVE  Holds(r)
  <2>1. /\ hasCalendar /\ pc[r] = "dispatch" /\ kind[reaction[r]] = "event"
        /\ roomOf[reaction[r]] = subject[event[r]] /\ reaction[r] \in Ids
    BY <1>2 DEF TruthInv, ReactionsTell, Shape
  <2>2. Tells("calendar.event.created", reaction[r])
    BY <2>1 DEF Tells
  <2>3. PICK x : x = reaction[r]
    OBVIOUS
  <2>4. kind'[x] = kind[x] /\ roomOf'[x] = roomOf[x]
    BY <2>2, <2>3, TellsKept DEF TruthInv
  <2>5. event[r] \in Events /\ status[event[r]] # "absent"
    BY <2>1 DEF TypeOK
  <2>6. subject'[event[r]] = subject[event[r]]
    BY <2>5, OutboxEffects DEF OutboxKept
  <2>7. QED BY <1>0, <1>2, <2>1, <2>3, <2>4, <2>6
<1> DEFINE Same(r) ==
      /\ reaction'[r] = reaction[r]
      /\ reaction[r] # 0 =>
           pc'[r] = pc[r] /\ event'[r] = event[r] /\ "calendar.react" \in running'[r]
<1>3. ASSUME NEW r \in Relays, reaction'[r] # 0, ~Same(r) PROVE \E x \in Ids : ReactInserts(r, x)
  <2>0. /\ reaction \in [Relays -> Ids \cup {0}]
        /\ reaction[r] # 0 => hasCalendar /\ pc[r] = "dispatch" /\ "calendar.react" \in running[r]
    BY <1>3 DEF Shape, TruthInv, ReactionsTell
  <2> USE DEF vars, relays
  <2>1. ASSUME UNCHANGED <<reaction, relays>> PROVE FALSE
    BY <1>3, <2>0, <2>1
  <2>2. ASSUME NEW q \in Requests, RequestStep(q) PROVE UNCHANGED <<reaction, relays>>
    BY <2>2 DEF RequestStep, InsertRow, NameNote, CreateFolder, InsertEvent, DeleteEvent, ConsumeQuota,
                RefuseQuota, RequestAborts, RequestPublishes, Publish
  <2>3. ASSUME BusStep PROVE FALSE
    <3>0. reaction' = reaction
      BY <2>3 DEF BusStep, flow
    <3>1. ASSUME NEW e \in Events, BackoffElapses(e) PROVE UNCHANGED relays
      BY <3>1 DEF BackoffElapses
    <3>2. ASSUME NEW s \in Relays,
                 RelayPoll(s) \/ (\E e \in Events : RelayRead(s, e)) \/ OutcomeStep(s)
          PROVE  Same(r)
      BY <2>0, <3>0, <3>2 DEF RelayPoll, RelayRead, OutcomeStep, Ack, AckFails, Nack, Advance, TypeOK
    <3>3. QED BY <1>3, <2>1, <2>3, <3>0, <3>1, <3>2 DEF BusStep
  <2>4. ASSUME NEW s \in Relays, NEW h \in Handlers, FlowHandlerResolves(s, h) PROVE Same(r)
    BY <2>0, <2>4 DEF FlowHandlerResolves, HandlerResolves, TypeOK
  <2>5. ASSUME NEW s \in Relays, NEW h \in Handlers, FlowHandlerRejects(s, h) PROVE Same(r)
    BY <1>3, <2>0, <2>5 DEF FlowHandlerRejects, HandlerRejects, TypeOK
  <2>6. ASSUME NEW s \in Relays, NEW x \in Ids, ReactInserts(s, x), s # r PROVE Same(r)
    BY <2>0, <2>6 DEF ReactInserts
  <2>7. ASSUME NEW s \in Relays, NEW e \in Events, ReactPublishes(s, e) PROVE Same(r)
    BY <1>3, <2>0, <2>7 DEF ReactPublishes, TypeOK
  <2>8. ASSUME NEW o \in orphans, NEW resolves \in BOOLEAN, FlowOrphanSettles(o, resolves)
        PROVE  Same(r)
    BY <2>0, <2>8 DEF FlowOrphanSettles, OrphanSettles
  <2>9. ASSUME NEW a \in abandoned, (\E x \in Ids : OrphanInserts(a, x)) \/ (\E e \in Events : OrphanPublishes(a, e))
        PROVE  Same(r)
    BY <2>0, <2>9 DEF OrphanInserts, OrphanPublishes
  <2>10. ASSUME NEW p \in Replicas, FlowCrash(p) PROVE Same(r)
    BY <1>3, <2>0, <2>10 DEF FlowCrash, Crash
  <2>11. CASE UNCHANGED allVars
    BY <2>1, <2>11 DEF allVars, flow
  <2>12. QED
    BY <1>3, <2>1, <2>2, <2>3, <2>4, <2>5, <2>6, <2>7, <2>8, <2>9, <2>10, <2>11 DEF FlowNext
<1>4. ASSUME NEW r \in Relays, reaction'[r] # 0 PROVE Holds(r)
  <2>1. CASE Same(r)
    <3>1. reaction[r] # 0
      BY <1>4, <2>1
    <3>2. QED BY <1>2, <2>1, <3>1
  <2>2. CASE ~Same(r)
    BY <1>1, <1>3, <1>4, <2>2
  <2>3. QED BY <2>1, <2>2
<1>5. QED BY <1>4 DEF ReactionsTell

(* An abandoned reaction stays about a room that is in the outbox.          *)
LEMMA NextAbandonedTell ==
  ASSUME TypeOK, Shape, TruthInv, [FlowNext]_allVars PROVE AbandonedTell'
<1> DEFINE Good(a) ==
      /\ status'[a[2]] # "absent"
      /\ a[3] # 0 => kind'[a[3]] = "event" /\ roomOf'[a[3]] = subject'[a[2]]
<1>0. TypeOK /\ ReactionsTell /\ AbandonedTell
  BY DEF TruthInv
<1>1. ASSUME NEW e \in Events, status[e] # "absent"
      PROVE  status'[e] # "absent" /\ subject'[e] = subject[e]
  BY <1>1, OutboxEffects DEF OutboxKept
<1>2. ASSUME NEW x \in Ids, kind[x] = "event" PROVE kind'[x] = "event" /\ roomOf'[x] = roomOf[x]
  <2>1. Tells("calendar.event.created", x)
    BY <1>2 DEF Tells
  <2>2. QED BY <1>2, <2>1, TellsKept DEF TruthInv
<1>3. ASSUME NEW a \in abandoned PROVE Good(a)
  <2>1. a[2] \in Events /\ a[3] \in Ids \cup {0}
    BY DEF Shape
  <2>2. QED BY <1>0, <1>1, <1>2, <2>1 DEF AbandonedTell
<1>4. ASSUME NEW r \in Relays, NEW h \in Handlers, FlowHandlerRejects(r, h),
             NEW a \in abandoned' \ abandoned
      PROVE  Good(a)
  <2>1. a = <<HostOf[r], event[r], reaction[r]>> /\ event[r] \in Events /\ status[event[r]] # "absent"
    BY <1>0, <1>4 DEF FlowHandlerRejects, HandlerRejects, TypeOK
  <2>2. reaction[r] # 0 =>
          reaction[r] \in Ids /\ kind[reaction[r]] = "event" /\ roomOf[reaction[r]] = subject[event[r]]
    BY <1>0 DEF ReactionsTell, Shape
  <2>3. QED BY <1>1, <1>2, <2>1, <2>2
<1>5. ASSUME NEW b \in abandoned, NEW x \in Ids, OrphanInserts(b, x), NEW a \in abandoned' \ abandoned
      PROVE  Good(a)
  <2>1. /\ a = <<b[1], b[2], x>> /\ b[2] \in Events /\ status[b[2]] # "absent"
        /\ kind' = [kind EXCEPT ![x] = "event"] /\ roomOf' = [roomOf EXCEPT ![x] = subject[b[2]]]
    BY <1>0, <1>5 DEF OrphanInserts, Insert, AbandonedTell, Shape
  <2>2. QED BY <1>1, <2>1 DEF Shape
<1>6. ASSUME NEW a \in abandoned' \ abandoned
      PROVE  \/ \E r \in Relays, h \in Handlers : FlowHandlerRejects(r, h)
             \/ \E b \in abandoned, x \in Ids : OrphanInserts(b, x)
  <2>1. ASSUME NEW q \in Requests, RequestStep(q) PROVE abandoned' = abandoned
    BY <2>1 DEF RequestStep, InsertRow, NameNote, CreateFolder, InsertEvent, DeleteEvent, ConsumeQuota,
                RefuseQuota, RequestAborts, RequestPublishes
  <2>2. ASSUME \/ BusStep
               \/ \E r \in Relays :
                    \/ \E h \in Handlers : FlowHandlerResolves(r, h)
                    \/ \E x \in Ids : ReactInserts(r, x)
                    \/ \E e \in Events : ReactPublishes(r, e)
               \/ \E o \in orphans, resolves \in BOOLEAN : FlowOrphanSettles(o, resolves)
               \/ \E b \in abandoned, e \in Events : OrphanPublishes(b, e)
               \/ \E p \in Replicas : FlowCrash(p)
               \/ UNCHANGED allVars
        PROVE  abandoned' \subseteq abandoned
    BY <2>2 DEF BusStep, FlowHandlerResolves, ReactInserts, ReactPublishes, FlowOrphanSettles,
                OrphanPublishes, FlowCrash, allVars, flow
  <2>3. QED BY <1>6, <2>1, <2>2 DEF FlowNext
<1>7. \A a \in abandoned' : Good(a)
  BY <1>3, <1>4, <1>5, <1>6
<1>8. QED BY <1>7 DEF AbandonedTell

-----------------------------------------------------------------------------
(* The quota.  The counter runs ahead of what was granted and refused only  *)
(* by the requests that were cut short.                                     *)

QuotaInv == QuotaHolds /\ QuotaIsHonest

(* The sets that are counted are finite.                                    *)
LEMMA CountedFinite ==
  /\ IsFiniteSet(Paid) /\ Cardinality(Paid) \in Nat
  /\ \A at : IsFiniteSet(In(at)) /\ Cardinality(In(at)) \in Nat
<1>1. IsFiniteSet(Ids)
  BY FS_Interval, FlowAssumption DEF Ids
<1>2. Paid \subseteq Ids /\ \A at : In(at) \subseteq Requests
  BY DEF Paid, In
<1>3. QED BY <1>1, <1>2, FS_Subset, FS_CardinalityType, FlowAssumption

(* A request that enters a state is counted there once more.                *)
LEMMA Enters ==
  ASSUME NEW q \in Requests, NEW at, request \in [Requests -> RequestStates],
         request' \in [Requests -> RequestStates], request'[q].at = at, request[q].at # at,
         \A p \in Requests \ {q} : request'[p] = request[p]
  PROVE  Cardinality(In(at)') = Cardinality(In(at)) + 1
<1>1. In(at)' = In(at) \cup {q} /\ q \notin In(at)
  BY DEF In
<1>2. QED BY <1>1, CountedFinite, FS_AddElement

(* A request that leaves a state is counted there no more.                  *)
LEMMA Leaves ==
  ASSUME NEW q \in Requests, NEW at, request \in [Requests -> RequestStates],
         request' \in [Requests -> RequestStates], request'[q].at # at, request[q].at = at,
         \A p \in Requests \ {q} : request'[p] = request[p]
  PROVE  Cardinality(In(at)') = Cardinality(In(at)) - 1 /\ Cardinality(In(at)) > 0
<1>1. In(at)' = In(at) \ {q} /\ q \in In(at)
  BY DEF In
<1>2. Cardinality(In(at) \ {q}) = Cardinality(In(at)) - 1 /\ Cardinality(In(at) \ {q}) \in Nat
  BY <1>1, CountedFinite, FS_RemoveElement, FS_Subset, FS_CardinalityType
<1>3. QED BY <1>1, <1>2, CountedFinite

(* Any other move leaves the count of a state alone.                        *)
LEMMA Passes ==
  ASSUME NEW at, request \in [Requests -> RequestStates],
         \A p \in Requests : request'[p].at = at <=> request[p].at = at
  PROVE  Cardinality(In(at)') = Cardinality(In(at))
<1>1. In(at)' = In(at)
  BY DEF In
<1>2. QED BY <1>1

(* No step takes a variable of the products out of its type.  The counter   *)
(* stays natural because a refused unit was counted.                        *)
LEMMA NextShape ==
  ASSUME CallsInv, Shape, TruthInv, QuotaInv, [FlowNext]_allVars PROVE Shape'
<1> DEFINE RowsOK == /\ kind \in [Ids -> Kinds]
                     /\ stored \subseteq {x \in Ids : kind[x] # "none"}
                     /\ roomOf \in [Ids -> Ids \cup {0}]
                     /\ \A x \in Ids : kind[x] = "none" => roomOf[x] = 0
           Others == /\ subject \in [Events -> Ids \cup {0}]
                     /\ request \in [Requests -> RequestStates]
                     /\ eventsUsed \in Nat
                     /\ reaction \in [Relays -> Ids \cup {0}]
                     /\ abandoned \subseteq Replicas \X Events \X (Ids \cup {0})
                     /\ aborts \in 0..MaxAborts
<1>0. TypeOK /\ RowsOK /\ Others /\ index \subseteq {x \in Ids : kind[x] # "none"}
  BY DEF Shape, CallsInv, DeliveryInv
<1>1. RowsOK' /\ \A x \in Ids : kind[x] # "none" => kind'[x] # "none"
  <2>1. CASE UNCHANGED rows
    BY <1>0, <2>1 DEF rows
  <2>2. ASSUME NEW x \in Ids, NEW k \in Kinds, NewRow(x, k)
        PROVE  RowsOK' /\ \A y \in Ids : kind[y] # "none" => kind'[y] # "none"
    <3>1. kind' \in [Ids -> Kinds] /\ kind'[x] = k /\ \A y \in Ids \ {x} : kind'[y] = kind[y]
      BY <1>0, <2>2 DEF NewRow
    <3>2. /\ roomOf' \in [Ids -> Ids \cup {0}]
          /\ \A y \in Ids \ {x} : roomOf'[y] = roomOf[y]
      BY <1>0, <2>2 DEF NewRow
    <3>3. QED BY <1>0, <2>2, <3>1, <3>2 DEF NewRow
  <2>3. ASSUME NEW x \in Ids, DeletedRow(x)
        PROVE  RowsOK' /\ \A y \in Ids : kind[y] # "none" => kind'[y] # "none"
    BY <1>0, <2>3 DEF DeletedRow
  <2>4. QED BY <2>1, <2>2, <2>3, <1>0, RowEffects DEF TruthInv
<1>2. \A e \in Events : status[e] # "absent" => subject[e] \in Ids /\ kind[subject[e]] # "none"
  BY DEF TruthInv, EventsTell, Tells
<1>3. index' \subseteq {x \in Ids : kind[x] # "none"}
  <2>1. ASSUME NEW r \in Relays, NEW h \in Handlers, FlowHandlerResolves(r, h)
        PROVE  index' \subseteq {x \in Ids : kind[x] # "none"}
    <3>1. event[r] \in Events /\ status[event[r]] # "absent"
      BY <1>0, <2>1 DEF FlowHandlerResolves, HandlerResolves, TypeOK
    <3>2. QED BY <1>0, <1>2, <2>1, <3>1 DEF FlowHandlerResolves, Indexed
  <2>2. ASSUME NEW o \in orphans, NEW resolves \in BOOLEAN, FlowOrphanSettles(o, resolves)
        PROVE  index' \subseteq {x \in Ids : kind[x] # "none"}
    <3>1. o[2] \in Events /\ status[o[2]] # "absent"
      BY <1>0 DEF TypeOK, CallsInv, CallsAreSubscribed
    <3>2. QED BY <1>0, <1>2, <2>2, <3>1 DEF FlowOrphanSettles, Indexed
  <2>3. ASSUME \/ \E q \in Requests : RequestStep(q)
               \/ BusStep
               \/ \E r \in Relays :
                    \/ \E h \in Handlers : FlowHandlerRejects(r, h)
                    \/ \E x \in Ids : ReactInserts(r, x)
                    \/ \E e \in Events : ReactPublishes(r, e)
               \/ \E a \in abandoned :
                    (\E x \in Ids : OrphanInserts(a, x)) \/ (\E e \in Events : OrphanPublishes(a, e))
               \/ \E p \in Replicas : FlowCrash(p)
               \/ UNCHANGED allVars
        PROVE  index' = index
    BY <2>3 DEF RequestStep, InsertRow, NameNote, CreateFolder, InsertEvent, DeleteEvent, ConsumeQuota,
                RefuseQuota, RequestAborts, RequestPublishes, BusStep, FlowHandlerRejects, ReactInserts,
                ReactPublishes, OrphanInserts, OrphanPublishes, FlowCrash, allVars, flow
  <2>4. QED
    BY <1>0, <2>1, <2>2, <2>3 DEF FlowNext
<1>4. Others'
  <2> USE <1>0 DEF RequestStates
  <2>1. ASSUME NEW q \in Requests, RequestStep(q) PROVE Others'
    <3>1. ASSUME NEW x \in Ids,
                 \/ \E k \in {"room", "file"} : InsertRow(q, k, x)
                 \/ NameNote(q, x) \/ CreateFolder(q, x) \/ InsertEvent(q, x) \/ DeleteEvent(q, x)
          PROVE  Others'
      BY <3>1, WiredNames
      DEF InsertRow, NameNote, CreateFolder, InsertEvent, DeleteEvent, GoPublish
    <3>2. CASE ConsumeQuota(q)
      BY <3>2 DEF ConsumeQuota
    <3>3. CASE RefuseQuota(q)
      <4>1. q \in In("refuse") /\ IsFiniteSet(In("refuse"))
        BY <3>3, CountedFinite DEF RefuseQuota, In
      <4>2. Cardinality(In("refuse")) \in Nat /\ Cardinality(In("refuse")) # 0
        BY <4>1, CountedFinite, FS_EmptySet
      <4>3. eventsUsed - (Cardinality(Paid) + Cardinality(In("insert")) + Cardinality(In("refuse"))) \in 0..aborts
        BY DEF QuotaInv, QuotaIsHonest
      <4>4. eventsUsed - 1 \in Nat
        BY <4>2, <4>3, CountedFinite
      <4>5. QED BY <3>3, <4>4 DEF RefuseQuota, Idle
    <3>4. ASSUME NEW e \in Events, RequestPublishes(q, e) PROVE Others'
      BY <3>4 DEF RequestPublishes, Idle
    <3>5. CASE RequestAborts(q)
      BY <3>5, FlowAssumption DEF RequestAborts, Idle
    <3>6. QED
      BY <2>1, <3>1, <3>2, <3>3, <3>4, <3>5 DEF RequestStep
  <2>2. ASSUME NEW r \in Relays, NEW x \in Ids, ReactInserts(r, x) PROVE Others'
    BY <2>2 DEF ReactInserts
  <2>3. ASSUME NEW r \in Relays, NEW e \in Events, ReactPublishes(r, e) PROVE Others'
    BY <2>3 DEF ReactPublishes
  <2>4. ASSUME NEW r \in Relays, NEW h \in Handlers, FlowHandlerRejects(r, h) PROVE Others'
    <3>1. <<HostOf[r], event[r], reaction[r]>> \in Replicas \X Events \X (Ids \cup {0})
      BY <2>4, HostAssumption DEF FlowHandlerRejects, HandlerRejects, TypeOK
    <3>2. QED BY <2>4, <3>1 DEF FlowHandlerRejects
  <2>5. ASSUME NEW a \in abandoned, NEW x \in Ids, OrphanInserts(a, x) PROVE Others'
    BY <2>5 DEF OrphanInserts
  <2>6. ASSUME NEW a \in abandoned, NEW e \in Events, OrphanPublishes(a, e) PROVE Others'
    BY <2>6 DEF OrphanPublishes
  <2>7. ASSUME NEW o \in orphans, NEW resolves \in BOOLEAN, FlowOrphanSettles(o, resolves) PROVE Others'
    BY <2>7 DEF FlowOrphanSettles
  <2>8. ASSUME NEW p \in Replicas, FlowCrash(p) PROVE Others'
    BY <2>8 DEF FlowCrash
  <2>9. ASSUME BusStep \/ (\E r \in Relays, h \in Handlers : FlowHandlerResolves(r, h)) \/ UNCHANGED allVars
        PROVE  Others'
    BY <2>9 DEF BusStep, FlowHandlerResolves, allVars, flow
  <2>10. QED
    BY <2>1, <2>2, <2>3, <2>4, <2>5, <2>6, <2>7, <2>8, <2>9 DEF FlowNext
<1>5. QED
  BY <1>1, <1>3, <1>4 DEF Shape

(* What a step does to the quota depends on whether it moves a request      *)
(* between the counted states or makes a row that is paid for.              *)
LEMMA PaidRows ==
  ASSUME CallsInv, Shape, TruthInv, [FlowNext]_allVars,
         \A q \in Requests, x \in Ids : ~InsertEvent(q, x)
  PROVE  Paid' = Paid
<1>0. TypeOK /\ AbandonedTell
  BY DEF CallsInv, DeliveryInv, TruthInv
<1>1. CASE UNCHANGED rows
  BY <1>1 DEF rows, Paid
<1>2. ASSUME NEW x \in Ids, DeletedRow(x) PROVE Paid' = Paid
  BY <1>2 DEF DeletedRow, Paid
<1>3. ASSUME NEW x \in Ids, NEW k \in Kinds, NewRow(x, k), k # "event" PROVE Paid' = Paid
  BY <1>3 DEF NewRow, Paid, Shape
<1>4. ASSUME NEW x \in Ids, NEW e \in Events, status[e] # "absent", kind[x] = "none",
             kind' = [kind EXCEPT ![x] = "event"], roomOf' = [roomOf EXCEPT ![x] = subject[e]]
      PROVE  Paid' = Paid
  <2>1. subject[e] \in Ids /\ subject[e] # 0
    BY <1>4 DEF TruthInv, EventsTell, Tells, Ids
  <2>2. QED BY <1>4, <2>1 DEF Paid, Shape
<1>5. ASSUME NEW x \in Ids, NewRow(x, "event"), roomOf' = roomOf PROVE FALSE
  <2>1. kind[x] = "none" /\ kind'[x] = "event" /\ roomOf[x] = 0 /\ roomOf'[x] = 0
    BY <1>5 DEF NewRow, Shape
  <2>2. ASSUME NEW q \in Requests, RequestStep(q) PROVE FALSE
    <3>1. ASSUME NEW y \in Ids,
                 \/ \E k \in {"room", "file"} : InsertRow(q, k, y)
                 \/ NameNote(q, y) \/ CreateFolder(q, y) \/ DeleteEvent(q, y)
          PROVE  kind'[x] # "event" \/ kind'[x] = kind[x]
      BY <3>1 DEF InsertRow, NameNote, CreateFolder, DeleteEvent, Insert, Shape
    <3>2. ASSUME \/ ConsumeQuota(q) \/ RefuseQuota(q) \/ RequestAborts(q)
                 \/ \E e \in Events : RequestPublishes(q, e)
          PROVE  kind' = kind
      BY <3>2 DEF ConsumeQuota, RefuseQuota, RequestAborts, RequestPublishes, rows
    <3>3. QED BY <2>1, <2>2, <3>1, <3>2 DEF RequestStep
  <2>3. ASSUME NEW r \in Relays, NEW y \in Ids, ReactInserts(r, y) PROVE FALSE
    <3>1. event[r] \in Events /\ status[event[r]] # "absent"
      BY <1>0, <2>3 DEF ReactInserts, TypeOK
    <3>2. subject[event[r]] # 0
      BY <3>1 DEF TruthInv, EventsTell, Tells, Ids
    <3>3. QED BY <2>1, <2>3, <3>2 DEF ReactInserts, Insert, Shape
  <2>4. ASSUME NEW a \in abandoned, NEW y \in Ids, OrphanInserts(a, y) PROVE FALSE
    <3>1. a[2] \in Events /\ status[a[2]] # "absent"
      BY <1>0 DEF AbandonedTell, Shape
    <3>2. subject[a[2]] # 0
      BY <3>1 DEF TruthInv, EventsTell, Tells, Ids
    <3>3. QED BY <2>1, <2>4, <3>2 DEF OrphanInserts, Insert, Shape
  <2>5. ASSUME \/ BusStep
               \/ \E r \in Relays :
                    \/ \E h \in Handlers : FlowHandlerResolves(r, h) \/ FlowHandlerRejects(r, h)
                    \/ \E e \in Events : ReactPublishes(r, e)
               \/ \E o \in orphans, resolves \in BOOLEAN : FlowOrphanSettles(o, resolves)
               \/ \E a \in abandoned, e \in Events : OrphanPublishes(a, e)
               \/ \E p \in Replicas : FlowCrash(p)
               \/ UNCHANGED allVars
        PROVE  kind' = kind
    BY <2>5 DEF BusStep, FlowHandlerResolves, FlowHandlerRejects, ReactPublishes, FlowOrphanSettles,
                OrphanPublishes, FlowCrash, allVars, flow, rows
  <2>6. QED
    BY <2>1, <2>2, <2>3, <2>4, <2>5 DEF FlowNext
<1>6. QED
  BY <1>0, <1>1, <1>2, <1>3, <1>4, <1>5, RowEffects DEF NewRow

(* Every step keeps the quota and its accounting: a request takes its unit  *)
(* before it looks, gives it back when it is refused, and leaves at most    *)
(* one behind when it is cut short.                                         *)
LEMMA NextQuotaInv ==
  ASSUME CallsInv, Shape, TruthInv, QuotaInv, Shape', [FlowNext]_allVars PROVE QuotaInv'
<1> DEFINE P == Cardinality(Paid)
           I == Cardinality(In("insert"))
           R == Cardinality(In("refuse"))
<1>0. /\ P \in Nat /\ I \in Nat /\ R \in Nat /\ eventsUsed \in Nat /\ aborts \in Nat
      /\ EventsPerMonth \in Nat
      /\ request \in [Requests -> RequestStates] /\ request' \in [Requests -> RequestStates]
  BY CountedFinite, FlowAssumption DEF Shape
<1>a. /\ P + I <= EventsPerMonth
      /\ eventsUsed - (P + I + R) \in 0..aborts
      /\ R > 0 => P + I + aborts >= EventsPerMonth
  BY DEF QuotaInv, QuotaHolds, QuotaIsHonest
<1> SUFFICES /\ P' + I' <= EventsPerMonth
             /\ eventsUsed' - (P' + I' + R') \in 0..aborts'
             /\ R' > 0 => P' + I' + aborts' >= EventsPerMonth
  BY DEF QuotaInv, QuotaHolds, QuotaIsHonest
<1> HIDE DEF P, I, R
<1>1. ASSUME NEW q \in Requests, NEW x \in Ids, InsertEvent(q, x)
      PROVE  P' = P + 1 /\ I' = I - 1 /\ R' = R /\ UNCHANGED <<eventsUsed, aborts>>
  <2>1. Paid' = Paid \cup {x} /\ x \notin Paid
    BY <1>1 DEF InsertEvent, Insert, Fresh, Paid, Shape
  <2>2. P' = P + 1
    BY <2>1, CountedFinite, FS_AddElement DEF P
  <2>3. request[q].at = "insert" /\ request' = [request EXCEPT ![q] =
          [at |-> "publish", publishes |-> "calendar.event.created", id |-> x]]
    BY <1>1 DEF InsertEvent, GoPublish
  <2>4. I' = I - 1
    BY <1>0, <2>3, Leaves DEF I
  <2>5. R' = R
    BY <1>0, <2>3, Passes DEF R
  <2>6. QED BY <1>1, <2>2, <2>4, <2>5 DEF InsertEvent
<1>2. CASE \E q \in Requests, x \in Ids : InsertEvent(q, x)
  BY <1>0, <1>a, <1>1, <1>2
<1>3. CASE \A q \in Requests, x \in Ids : ~InsertEvent(q, x)
  <2>0. P' = P
    BY <1>3, PaidRows DEF P
  <2>1. ASSUME NEW q \in Requests, ConsumeQuota(q)
        PROVE  /\ eventsUsed' = eventsUsed + 1 /\ aborts' = aborts
               /\ \/ eventsUsed' > EventsPerMonth /\ I' = I /\ R' = R + 1
                  \/ eventsUsed' <= EventsPerMonth /\ I' = I + 1 /\ R' = R
    <3>1. /\ request[q].at = "idle" /\ eventsUsed' = eventsUsed + 1 /\ aborts' = aborts
          /\ request' = [request EXCEPT ![q].at =
                           IF eventsUsed' > EventsPerMonth THEN "refuse" ELSE "insert"]
      BY <2>1 DEF ConsumeQuota
    <3>2. \A p \in Requests \ {q} : request'[p] = request[p]
      BY <1>0, <3>1
    <3>3. CASE eventsUsed' > EventsPerMonth
      <4>1. request'[q].at = "refuse"
        BY <1>0, <3>1, <3>3 DEF RequestStates
      <4>2. R' = R + 1
        BY <1>0, <3>1, <3>2, <4>1, Enters DEF R
      <4>3. I' = I
        BY <1>0, <3>1, <3>2, <4>1, Passes DEF I
      <4>4. QED BY <3>1, <3>3, <4>2, <4>3
    <3>4. CASE ~(eventsUsed' > EventsPerMonth)
      <4>1. request'[q].at = "insert"
        BY <1>0, <3>1, <3>4 DEF RequestStates
      <4>2. I' = I + 1
        BY <1>0, <3>1, <3>2, <4>1, Enters DEF I
      <4>3. R' = R
        BY <1>0, <3>1, <3>2, <4>1, Passes DEF R
      <4>4. QED BY <1>0, <3>1, <3>4, <4>2, <4>3
    <3>5. QED BY <3>3, <3>4
  <2>2. ASSUME NEW q \in Requests, RefuseQuota(q)
        PROVE  eventsUsed' = eventsUsed - 1 /\ aborts' = aborts /\ I' = I /\ R' = R - 1 /\ R > 0
    <3>1. /\ request[q].at = "refuse" /\ eventsUsed' = eventsUsed - 1 /\ aborts' = aborts
          /\ request'[q].at = "idle" /\ \A p \in Requests \ {q} : request'[p] = request[p]
      BY <1>0, <2>2 DEF RefuseQuota, Idle
    <3>2. R' = R - 1 /\ R > 0
      BY <1>0, <3>1, Leaves DEF R
    <3>3. I' = I
      BY <1>0, <3>1, Passes DEF I
    <3>4. QED BY <3>1, <3>2, <3>3
  <2>3. ASSUME NEW q \in Requests, RequestAborts(q)
        PROVE  /\ eventsUsed' = eventsUsed /\ aborts' = aborts + 1
               /\ \/ I' = I - 1 /\ I > 0 /\ R' = R
                  \/ I' = I /\ R' = R - 1 /\ R > 0
                  \/ I' = I /\ R' = R
    <3>1. /\ eventsUsed' = eventsUsed /\ aborts' = aborts + 1
          /\ request'[q].at = "idle" /\ \A p \in Requests \ {q} : request'[p] = request[p]
      BY <1>0, <2>3 DEF RequestAborts, Idle
    <3>2. CASE request[q].at = "insert"
      <4>1. I' = I - 1 /\ I > 0
        BY <1>0, <3>1, <3>2, Leaves DEF I
      <4>2. R' = R
        BY <1>0, <3>1, <3>2, Passes DEF R
      <4>3. QED BY <3>1, <4>1, <4>2
    <3>3. CASE request[q].at = "refuse"
      <4>1. R' = R - 1 /\ R > 0
        BY <1>0, <3>1, <3>3, Leaves DEF R
      <4>2. I' = I
        BY <1>0, <3>1, <3>3, Passes DEF I
      <4>3. QED BY <3>1, <4>1, <4>2
    <3>4. CASE request[q].at \notin {"insert", "refuse"}
      <4>1. I' = I
        BY <1>0, <3>1, <3>4, Passes DEF I
      <4>2. R' = R
        BY <1>0, <3>1, <3>4, Passes DEF R
      <4>3. QED BY <3>1, <4>1, <4>2
    <3>5. QED BY <3>2, <3>3, <3>4
  <2>4. ASSUME NEW q \in Requests, RequestStep(q), ~ConsumeQuota(q), ~RefuseQuota(q), ~RequestAborts(q)
        PROVE  I' = I /\ R' = R /\ UNCHANGED <<eventsUsed, aborts>>
    <3> DEFINE Moves == \A p \in Requests :
                 (request'[p] # request[p]) =>
                   request[p].at \in {"idle", "publish"} /\ request'[p].at \in {"idle", "publish"}
               Elsewhere == UNCHANGED <<eventsUsed, aborts>> /\ Moves
    <3>1. ASSUME NEW x \in Ids, NEW k \in {"room", "file"}, InsertRow(q, k, x) PROVE Elsewhere
      BY <1>0, <3>1 DEF InsertRow, GoPublish
    <3>2. ASSUME NEW x \in Ids, NameNote(q, x) PROVE Elsewhere
      BY <1>0, <3>2 DEF NameNote, GoPublish
    <3>3. ASSUME NEW x \in Ids, CreateFolder(q, x) PROVE Elsewhere
      BY <1>0, <3>3 DEF CreateFolder
    <3>4. ASSUME NEW x \in Ids, DeleteEvent(q, x) PROVE Elsewhere
      BY <1>0, <3>4 DEF DeleteEvent, GoPublish
    <3>5. ASSUME NEW e \in Events, RequestPublishes(q, e) PROVE Elsewhere
      BY <1>0, <3>5 DEF RequestPublishes, Idle
    <3>6. Elsewhere
      <4> HIDE DEF Elsewhere
      <4>1. QED BY <1>3, <2>4, <3>1, <3>2, <3>3, <3>4, <3>5 DEF RequestStep
    <3>7. I' = I
      BY <1>0, <3>6, Passes DEF I
    <3>8. R' = R
      BY <1>0, <3>6, Passes DEF R
    <3>9. QED BY <3>6, <3>7, <3>8
  <2>5. ASSUME \A q \in Requests : ~RequestStep(q)
        PROVE  I' = I /\ R' = R /\ UNCHANGED <<eventsUsed, aborts>>
    <3>1. UNCHANGED <<request, eventsUsed, aborts>>
      BY <2>5 DEF FlowNext, BusStep, FlowHandlerResolves, FlowHandlerRejects, ReactInserts, ReactPublishes,
                  FlowOrphanSettles, OrphanInserts, OrphanPublishes, FlowCrash, allVars, flow
    <3>2. I' = I
      BY <1>0, <3>1, Passes DEF I
    <3>3. R' = R
      BY <1>0, <3>1, Passes DEF R
    <3>4. QED BY <3>1, <3>2, <3>3
  <2>6. CASE \E q \in Requests : ConsumeQuota(q)
    BY <1>0, <1>a, <2>0, <2>1, <2>6
  <2>7. CASE \E q \in Requests : RefuseQuota(q)
    BY <1>0, <1>a, <2>0, <2>2, <2>7
  <2>8. CASE \E q \in Requests : RequestAborts(q)
    BY <1>0, <1>a, <2>0, <2>3, <2>8
  <2>9. CASE I' = I /\ R' = R /\ UNCHANGED <<eventsUsed, aborts>>
    BY <1>a, <2>0, <2>9
  <2>10. QED
    BY <2>4, <2>5, <2>6, <2>7, <2>8, <2>9
<1>4. QED BY <1>2, <1>3

-----------------------------------------------------------------------------
(* What the handlers have done once they resolved.                          *)

Indexers == {"meet.index", "calendar.index", "drive.index"}

(* Calls are recorded for events that exist.                                *)
Existing == \A d \in delivered : status[d[1]] # "absent"

(* A row that is still there has its document once its indexer resolved.    *)
IndexKept ==
  \A e \in Events, h \in Indexers :
    <<e, h>> \in delivered /\ subject[e] \in stored => subject[e] \in index

(* A reaction that resolved has put its own event into the outbox.          *)
Reacted ==
  hasCalendar =>
    \A e \in Events : <<e, "calendar.react">> \in delivered =>
      \E d \in Events :
        /\ status[d] # "absent" /\ name[d] = "calendar.event.created"
        /\ roomOf[subject[d]] = subject[e]

DoneInv == Existing /\ IndexKept /\ Reacted

(* Which calls a step records, and what it does to the index.               *)
LEMMA HandlerEffects ==
  ASSUME CallsInv, Shape, TruthInv, [FlowNext]_allVars
  PROVE  \/ delivered' = delivered /\ index' = index
         \/ \E e \in Events, h \in Handlers :
              /\ status[e] # "absent" /\ h \in Subscriptions[name[e]]
              /\ delivered' = delivered \cup {<<e, h>>}
              /\ UNCHANGED <<rows, outbox, subject>>
              /\ index' = Indexed(h, subject[e])
              /\ h = "calendar.react" => ~hasCalendar
         \/ \E e, d \in Events :
              /\ status[e] # "absent" /\ delivered' = delivered \cup {<<e, "calendar.react">>}
              /\ status'[d] # "absent" /\ name'[d] = "calendar.event.created"
              /\ roomOf[subject'[d]] = subject[e] /\ UNCHANGED rows /\ index' = index
<1> DEFINE Goal1 == delivered' = delivered /\ index' = index
           Goal2 == \E e \in Events, h \in Handlers :
              /\ status[e] # "absent" /\ h \in Subscriptions[name[e]]
              /\ delivered' = delivered \cup {<<e, h>>}
              /\ UNCHANGED <<rows, outbox, subject>>
              /\ index' = Indexed(h, subject[e])
              /\ h = "calendar.react" => ~hasCalendar
           Goal3 == \E e, d \in Events :
              /\ status[e] # "absent" /\ delivered' = delivered \cup {<<e, "calendar.react">>}
              /\ status'[d] # "absent" /\ name'[d] = "calendar.event.created"
              /\ roomOf[subject'[d]] = subject[e] /\ UNCHANGED rows /\ index' = index
<1>0. TypeOK /\ CallsAreSubscribed
  BY DEF CallsInv, DeliveryInv
<1>1. ASSUME NEW r \in Relays, NEW h \in Handlers, FlowHandlerResolves(r, h) PROVE Goal2
  <2>1. /\ event[r] \in Events /\ status[event[r]] # "absent"
        /\ h \in Subscriptions[name[event[r]]]
    BY <1>0, <1>1 DEF FlowHandlerResolves, HandlerResolves, TypeOK, CallsAreSubscribed
  <2>2. QED BY <1>1, <2>1 DEF FlowHandlerResolves, HandlerResolves
<1>2. ASSUME NEW o \in orphans, FlowOrphanSettles(o, TRUE) PROVE Goal2
  <2>1. /\ o[2] \in Events /\ o[3] \in Handlers /\ status[o[2]] # "absent"
        /\ o[3] \in Subscriptions[name[o[2]]]
    BY <1>0 DEF TypeOK, CallsAreSubscribed
  <2>2. QED BY <1>2, <2>1 DEF FlowOrphanSettles, OrphanSettles
<1>3. ASSUME NEW o \in orphans, FlowOrphanSettles(o, FALSE) PROVE Goal1
  BY <1>3 DEF FlowOrphanSettles, OrphanSettles
<1>4. ASSUME NEW r \in Relays, NEW e \in Events, ReactPublishes(r, e) PROVE Goal3
  <2>1. event[r] \in Events /\ status[event[r]] # "absent"
    BY <1>0, <1>4 DEF ReactPublishes, TypeOK
  <2>2. roomOf[reaction[r]] = subject[event[r]]
    BY <1>4 DEF ReactPublishes, TruthInv, ReactionsTell
  <2>3. status'[e] # "absent" /\ name'[e] = "calendar.event.created" /\ subject'[e] = reaction[r]
    BY <1>0, <1>4 DEF ReactPublishes, TypeOK, Shape
  <2>4. QED BY <1>4, <2>1, <2>2, <2>3 DEF ReactPublishes
<1>5. ASSUME NEW a \in abandoned, NEW e \in Events, OrphanPublishes(a, e) PROVE Goal3
  <2>1. a[2] \in Events /\ status[a[2]] # "absent" /\ roomOf[a[3]] = subject[a[2]]
    BY <1>5 DEF OrphanPublishes, TruthInv, AbandonedTell, Shape
  <2>2. status'[e] # "absent" /\ name'[e] = "calendar.event.created" /\ subject'[e] = a[3]
    BY <1>0, <1>5 DEF OrphanPublishes, TypeOK, Shape
  <2>3. QED BY <1>5, <2>1, <2>2 DEF OrphanPublishes
<1>6. ASSUME \/ \E q \in Requests : RequestStep(q)
             \/ BusStep
             \/ \E r \in Relays :
                  \/ \E h \in Handlers : FlowHandlerRejects(r, h)
                  \/ \E x \in Ids : ReactInserts(r, x)
             \/ \E a \in abandoned, x \in Ids : OrphanInserts(a, x)
             \/ \E p \in Replicas : FlowCrash(p)
             \/ UNCHANGED allVars
      PROVE  Goal1
  BY <1>6 DEF RequestStep, InsertRow, NameNote, CreateFolder, InsertEvent, DeleteEvent, ConsumeQuota,
              RefuseQuota, RequestAborts, RequestPublishes, Publish, BusStep, BackoffElapses, RelayPoll,
              RelayRead, OutcomeStep, Ack, AckFails, Nack, FlowHandlerRejects, HandlerRejects,
              ReactInserts, OrphanInserts, FlowCrash, Crash, allVars, flow, vars, effects
<1>7. QED
  <2> HIDE DEF Goal1, Goal2, Goal3
  <2>1. Goal1 \/ Goal2 \/ Goal3
    BY <1>1, <1>2, <1>3, <1>4, <1>5, <1>6 DEF FlowNext
  <2>2. QED BY <2>1 DEF Goal1, Goal2, Goal3

(* A handler that resolved is done for good: nothing that happens later     *)
(* takes a document of an existing row away, or an event of a room.         *)
LEMMA NextDoneInv ==
  ASSUME CallsInv, Shape, TruthInv, DoneInv, [FlowNext]_allVars PROVE DoneInv'
<1>0. TypeOK /\ AbandonedTell /\ Existing /\ IndexKept /\ Reacted
  BY DEF CallsInv, DeliveryInv, TruthInv, DoneInv
<1>1. ASSUME NEW e \in Events, status[e] # "absent"
      PROVE  /\ status'[e] # "absent" /\ name'[e] = name[e] /\ subject'[e] = subject[e]
             /\ subject[e] \in Ids /\ kind[subject[e]] # "none" /\ Tells(name[e], subject[e])
             /\ roomOf'[subject[e]] = roomOf[subject[e]]
  <2>1. Tells(name[e], subject[e])
    BY <1>1 DEF TruthInv, EventsTell
  <2>2. roomOf'[subject[e]] = roomOf[subject[e]]
    <3>1. PICK n, x : n = name[e] /\ x = subject[e]
      OBVIOUS
    <3>2. QED BY <1>0, <2>1, <3>1, TellsKept
  <2>3. QED BY <1>0, <1>1, <2>1, <2>2, OutboxEffects DEF OutboxKept, Tells
<1>2. ASSUME NEW x \in Ids, kind[x] # "none", x \in stored' PROVE x \in stored
  <2>1. CASE UNCHANGED rows
    BY <1>2, <2>1 DEF rows
  <2>2. ASSUME NEW y \in Ids, NEW k \in Kinds, NewRow(y, k) PROVE x \in stored
    BY <1>2, <2>2 DEF NewRow
  <2>3. ASSUME NEW y \in Ids, DeletedRow(y) PROVE x \in stored
    BY <1>2, <2>3 DEF DeletedRow
  <2>4. QED BY <1>0, <2>1, <2>2, <2>3, RowEffects
<1>3. \A d \in delivered : d[1] \in Events /\ status[d[1]] # "absent"
  BY <1>0 DEF TypeOK, Existing
<1>4. Existing'
  BY <1>1, <1>3, HandlerEffects DEF Existing
<1>5. ASSUME NEW e \in Events, NEW h \in Indexers, <<e, h>> \in delivered', subject'[e] \in stored'
      PROVE  subject'[e] \in index'
  <2>1. CASE <<e, h>> \in delivered
    <3>1. status[e] # "absent"
      BY <1>3, <2>1
    <3>2. subject'[e] = subject[e] /\ subject[e] \in stored /\ subject[e] \in index
      BY <1>0, <1>1, <1>2, <1>5, <2>1, <3>1 DEF IndexKept
    <3>3. ASSUME NEW d \in Events, NEW g \in Handlers, status[d] # "absent",
                 g \in Subscriptions[name[d]], index' = Indexed(g, subject[d])
          PROVE  subject[e] \in index'
      <4>1. CASE g = "calendar.remove"
        <5>1. name[d] = "calendar.event.cancelled"
          BY <1>0, <3>3, <4>1, WiringAssumption DEF ProductSubscriptions, ProductNames, TypeOK
        <5>2. subject[d] \notin stored
          BY <1>1, <3>3, <5>1 DEF Tells
        <5>3. QED BY <3>2, <3>3, <5>2 DEF Indexed
      <4>2. CASE g # "calendar.remove"
        BY <3>2, <3>3, <4>2 DEF Indexed
      <4>3. QED BY <4>1, <4>2
    <3>4. QED BY <3>2, <3>3, HandlerEffects
  <2>2. CASE <<e, h>> \notin delivered
    <3>1. h # "calendar.react" /\ h # "calendar.remove"
      BY DEF Indexers
    <3>2. index' = Indexed(h, subject[e]) /\ status[e] # "absent"
      BY <1>5, <2>2, <3>1, HandlerEffects
    <3>3. QED BY <1>1, <3>1, <3>2 DEF Indexed
  <2>3. QED BY <2>1, <2>2
<1>6. ASSUME hasCalendar', NEW e \in Events, <<e, "calendar.react">> \in delivered'
      PROVE  \E d \in Events : /\ status'[d] # "absent" /\ name'[d] = "calendar.event.created"
                               /\ roomOf'[subject'[d]] = subject'[e]
  <2>0. hasCalendar
    BY <1>6, HostKept
  <2>1. CASE <<e, "calendar.react">> \in delivered
    <3>1. PICK d \in Events : /\ status[d] # "absent" /\ name[d] = "calendar.event.created"
                             /\ roomOf[subject[d]] = subject[e]
      BY <1>0, <2>0, <2>1 DEF Reacted
    <3>2. subject'[e] = subject[e]
      BY <1>1, <1>3, <2>1
    <3>3. QED BY <1>1, <3>1, <3>2
  <2>2. CASE <<e, "calendar.react">> \notin delivered
    <3>1. PICK d \in Events :
            /\ status[e] # "absent" /\ status'[d] # "absent" /\ name'[d] = "calendar.event.created"
            /\ roomOf[subject'[d]] = subject[e] /\ UNCHANGED rows
      BY <1>6, <2>0, <2>2, HandlerEffects
    <3>2. QED BY <1>1, <3>1 DEF rows
  <2>3. QED BY <2>1, <2>2
<1>7. IndexKept' /\ Reacted'
  BY <1>5, <1>6 DEF IndexKept, Reacted
<1>8. QED BY <1>4, <1>7 DEF DoneInv

-----------------------------------------------------------------------------
(* The theorems.                                                            *)

FlowInv == CallsInv /\ Shape /\ TruthInv /\ QuotaInv /\ DoneInv

(* Nothing has happened yet.                                                *)
LEMMA InitFlowInv == FlowInit => FlowInv
<1> SUFFICES ASSUME FlowInit PROVE FlowInv
  OBVIOUS
<1>1. CallsInv
  BY InitCallsInv DEF FlowInit
<1>2. Shape
  BY FlowAssumption DEF FlowInit, Shape, Kinds, RequestStates, Idle
<1>3. TruthInv
  BY DEF FlowInit, Init, TruthInv, EventsTell, RequestsTell, ReactionsTell, AbandonedTell, Idle
<1>4. Paid = {} /\ In("insert") = {} /\ In("refuse") = {}
  BY DEF FlowInit, Paid, In, Idle
<1>5. QuotaInv
  BY <1>4, FS_EmptySet, FlowAssumption DEF FlowInit, QuotaInv, QuotaHolds, QuotaIsHonest
<1>6. DoneInv
  BY DEF FlowInit, Init, DoneInv, Existing, IndexKept, Reacted
<1>7. QED BY <1>1, <1>2, <1>3, <1>5, <1>6 DEF FlowInv

(* The invariant is inductive when no worker drains the same table.         *)
LEMMA NextFlowInv == ASSUME Workers = {}, FlowInv, [FlowNext]_allVars PROVE FlowInv'
<1>1. /\ CallsInv /\ TypeOK /\ Shape /\ QuotaInv /\ DoneInv
      /\ TruthInv /\ RequestsTell
  BY DEF FlowInv, CallsInv, DeliveryInv, TruthInv
<1>2. CallsInv'
  BY <1>1, FlowCallsInv
<1>3. Shape'
  BY <1>1, NextShape
<1>4. TruthInv'
  BY <1>1, NextEventsTell, NextRequestsTell, NextReactionsTell, NextAbandonedTell DEF TruthInv
<1>5. QuotaInv'
  BY <1>1, <1>3, NextQuotaInv
<1>6. DoneInv'
  BY <1>1, NextDoneInv
<1>7. QED BY <1>2, <1>3, <1>4, <1>5, <1>6 DEF FlowInv

(* It holds in every reachable state.                                       *)
LEMMA FlowInvariant == ASSUME Workers = {} PROVE FlowSpec => []FlowInv
<1>1. FlowInv /\ [FlowNext]_allVars => FlowInv'
  BY NextFlowInv
<1>2. QED BY InitFlowInv, <1>1, PTL DEF FlowSpec

(* Every variable keeps to its type; in particular the quota counter never  *)
(* goes below zero, however its increments and decrements interleave.       *)
THEOREM FlowTypeCorrect == ASSUME Workers = {} PROVE FlowSpec => []FlowTypeOK
<1>1. FlowInv => FlowTypeOK
  BY DEF FlowInv, CallsInv, DeliveryInv, Shape, Kinds, RequestStates, FlowTypeOK
<1>2. QED BY FlowInvariant, <1>1, PTL

(* At-least-once delivery survives the products' own publishing from inside *)
(* handlers, awaited or abandoned.                                          *)
THEOREM FlowDelivers == ASSUME Workers = {} PROVE FlowSpec => []PublishedMeansDelivered
<1>1. FlowInv => PublishedMeansDelivered
  BY DEF FlowInv, CallsInv, DeliveryInv
<1>2. QED BY FlowInvariant, <1>1, PTL

(* No event is ever about a row that was not inserted, or cancelled while   *)
(* it still exists, for any number of requests, retries and restarts.       *)
THEOREM NoPhantoms == ASSUME Workers = {} PROVE FlowSpec => []NoPhantomEvents
<1>1. FlowInv => NoPhantomEvents
  BY DEF FlowInv, TruthInv, EventsTell, Tells, NoPhantomEvents, Published
<1>2. QED BY FlowInvariant, <1>1, PTL

(* Once the event of a room is published, the host's calendar has an event  *)
(* of that room and its own created event is in the outbox.                 *)
THEOREM RoomsAreAnswered == ASSUME Workers = {} PROVE FlowSpec => []RoomsReachTheCalendar
<1>1. ASSUME FlowInv PROVE RoomsReachTheCalendar
  <2>1. SUFFICES ASSUME hasCalendar, NEW e \in Events, status[e] = "published",
                        name[e] = "meet.room.scheduled"
                 PROVE  \E x \in Published("calendar.event.created") : roomOf[x] = subject[e]
    BY DEF RoomsReachTheCalendar
  <2>2. "calendar.react" \in Subscriptions[name[e]]
    BY <2>1, WiringAssumption DEF ProductSubscriptions, ProductNames
  <2>3. <<e, "calendar.react">> \in delivered
    BY <1>1, <2>1, <2>2 DEF FlowInv, CallsInv, DeliveryInv, PublishedMeansDelivered
  <2>4. PICK d \in Events : /\ status[d] # "absent" /\ name[d] = "calendar.event.created"
                           /\ roomOf[subject[d]] = subject[e]
    BY <1>1, <2>1, <2>3 DEF FlowInv, DoneInv, Reacted
  <2>5. QED BY <2>4 DEF Published
<1>2. QED BY FlowInvariant, <1>1, PTL

(* A row that still exists has its document once its event is published.    *)
THEOREM WhatExistsIsFound == ASSUME Workers = {} PROVE FlowSpec => []PublishedIsFound
<1>1. ASSUME FlowInv PROVE PublishedIsFound
  <2>1. SUFFICES ASSUME NEW e \in Events, status[e] = "published", subject[e] \in stored,
                        name[e] \in {"meet.room.scheduled", "calendar.event.created", "drive.node.created"}
                 PROVE  subject[e] \in index
    BY DEF PublishedIsFound
  <2>2. \E h \in Indexers : h \in Subscriptions[name[e]]
    BY <2>1, WiringAssumption DEF ProductSubscriptions, ProductNames, Indexers
  <2>3. PICK h \in Indexers : <<e, h>> \in delivered
    BY <1>1, <2>1, <2>2 DEF FlowInv, CallsInv, DeliveryInv, PublishedMeansDelivered
  <2>4. QED BY <1>1, <2>1, <2>3 DEF FlowInv, DoneInv, IndexKept
<1>2. QED BY FlowInvariant, <1>1, PTL

(* Events that were paid for never exceed the plan's quota, however many    *)
(* requests consume it at the same time.                                    *)
THEOREM QuotaIsKept == ASSUME Workers = {} PROVE FlowSpec => []QuotaHolds
<1>1. FlowInv => QuotaHolds
  BY DEF FlowInv, QuotaInv
<1>2. QED BY FlowInvariant, <1>1, PTL

(* The counter exceeds what was granted and refused by at most the requests *)
(* that were cut short.                                                     *)
THEOREM QuotaIsTold == ASSUME Workers = {} PROVE FlowSpec => []QuotaIsHonest
<1>1. FlowInv => QuotaIsHonest
  BY DEF FlowInv, QuotaInv
<1>2. QED BY FlowInvariant, <1>1, PTL

-----------------------------------------------------------------------------
(* Refinement of EventDelivery.  Products and bus together keep the promise *)
(* of the bus, with handlers that publish events of their own, awaited by a *)
(* relay or by nobody: those were called for an event that asked for them.  *)

AbandonedAreSubscribed ==
  \A a \in abandoned : "calendar.react" \in Subscriptions[name[a[2]]]

(* A rejected dispatch only leaves calls behind that its event asked for.   *)
LEMMA NextAbandonedAreSubscribed ==
  ASSUME FlowInv, AbandonedAreSubscribed, [FlowNext]_allVars PROVE AbandonedAreSubscribed'
<1>0. TypeOK /\ CallsAreSubscribed /\ Shape /\ TruthInv
  BY DEF FlowInv, CallsInv, DeliveryInv
<1>1. ASSUME NEW e \in Events, status[e] # "absent" PROVE name'[e] = name[e]
  BY <1>0, <1>1, OutboxEffects DEF OutboxKept
<1>2. ASSUME NEW a \in abandoned PROVE a[2] \in Events /\ "calendar.react" \in Subscriptions[name'[a[2]]]
  BY <1>0, <1>1 DEF Shape, TruthInv, AbandonedTell, AbandonedAreSubscribed
<1>3. ASSUME \A a \in abandoned' : \E b \in abandoned : a[2] = b[2] PROVE AbandonedAreSubscribed'
  BY <1>2, <1>3 DEF AbandonedAreSubscribed
<1>4. ASSUME NEW r \in Relays, NEW h \in Handlers, FlowHandlerRejects(r, h) PROVE AbandonedAreSubscribed'
  <2>1. /\ name' = name
        /\ \A a \in abandoned' : a \in abandoned \/ (a[2] = event[r] /\ "calendar.react" \in running[r])
        /\ running[r] \subseteq Subscriptions[name[event[r]]]
    BY <1>0, <1>4 DEF FlowHandlerRejects, HandlerRejects, CallsAreSubscribed, outbox
  <2>2. QED BY <1>2, <2>1 DEF AbandonedAreSubscribed
<1>5. ASSUME NEW a \in abandoned, NEW x \in Ids, OrphanInserts(a, x) PROVE AbandonedAreSubscribed'
  BY <1>3, <1>5 DEF OrphanInserts
<1>6. ASSUME abandoned' \subseteq abandoned PROVE AbandonedAreSubscribed'
  BY <1>3, <1>6
<1>7. ASSUME NEW q \in Requests, RequestStep(q) PROVE abandoned' \subseteq abandoned
  BY <1>7 DEF RequestStep, InsertRow, NameNote, CreateFolder, InsertEvent, DeleteEvent, ConsumeQuota,
              RefuseQuota, RequestPublishes, RequestAborts
<1>8. ASSUME \/ BusStep
             \/ \E r \in Relays :
                  \/ \E h \in Handlers : FlowHandlerResolves(r, h)
                  \/ \E x \in Ids : ReactInserts(r, x)
                  \/ \E e \in Events : ReactPublishes(r, e)
             \/ \E o \in orphans, resolves \in BOOLEAN : FlowOrphanSettles(o, resolves)
             \/ \E a \in abandoned, e \in Events : OrphanPublishes(a, e)
             \/ \E p \in Replicas : FlowCrash(p)
             \/ UNCHANGED allVars
      PROVE  abandoned' \subseteq abandoned
  BY <1>8 DEF BusStep, FlowHandlerResolves, ReactInserts, ReactPublishes, FlowOrphanSettles,
              OrphanPublishes, FlowCrash, flow, allVars
<1>9. QED BY <1>4, <1>5, <1>6, <1>7, <1>8 DEF FlowNext

(* Each step of the products and the bus is a step of EventDelivery or none.*)
LEMMA FlowStepRefines ==
  ASSUME Workers = {}, FlowInv, AbandonedAreSubscribed, [FlowNext]_allVars
  PROVE  [Delivery!Next]_(Delivery!vars)
<1>0. /\ CallsInv /\ TypeOK /\ CallsAreSubscribed /\ Shape /\ TruthInv
      /\ "calendar.react" \in Handlers
  BY WiringAssumption DEF FlowInv, CallsInv, DeliveryInv, ProductHandlers
<1>1. ASSUME [Next]_vars PROVE [Delivery!Next]_(Delivery!vars)
  BY <1>0, <1>1, StepRefines
<1>2. ASSUME NEW q \in Requests, RequestStep(q) PROVE [Next]_vars
  <2>1. ASSUME NEW e \in Events, RequestPublishes(q, e) PROVE [Next]_vars
    BY <1>0, <2>1 DEF RequestPublishes, TruthInv, RequestsTell, Next
  <2>2. ASSUME \A e \in Events : ~RequestPublishes(q, e) PROVE UNCHANGED vars
    BY <1>2, <2>2 DEF RequestStep, InsertRow, NameNote, CreateFolder, InsertEvent, DeleteEvent,
                      ConsumeQuota, RefuseQuota, RequestAborts
  <2>3. QED BY <2>1, <2>2
<1>3. ASSUME NEW r \in Relays, NEW e \in Events, ReactPublishes(r, e)
      PROVE  event[r] \in Events /\ Delivery!Reply(event[r], "calendar.react")
  <2>1. Delivery!Accepts(e, "calendar.event.created")
    BY <1>3 DEF ReactPublishes, Delivery!Accepts
  <2>2. event[r] \in Events /\ Delivery!Completes(event[r], "calendar.react")
    BY <1>0, <1>3 DEF ReactPublishes, TypeOK, CallsAreSubscribed, Delivery!Completes
  <2>3. QED BY <2>1, <2>2, WiredNames DEF Delivery!Reply
<1>4. ASSUME NEW a \in abandoned, NEW e \in Events, OrphanPublishes(a, e)
      PROVE  a[2] \in Events /\ Delivery!Reply(a[2], "calendar.react")
  <2>1. Delivery!Accepts(e, "calendar.event.created")
    BY <1>4 DEF OrphanPublishes, Delivery!Accepts
  <2>2. a[2] \in Events /\ Delivery!Completes(a[2], "calendar.react")
    BY <1>0, <1>4 DEF OrphanPublishes, Shape, TruthInv, AbandonedTell, AbandonedAreSubscribed,
                      Delivery!Completes
  <2>3. QED BY <2>1, <2>2, WiredNames DEF Delivery!Reply
<1>5. ASSUME \/ \E r \in Relays, x \in Ids : ReactInserts(r, x)
             \/ \E a \in abandoned, x \in Ids : OrphanInserts(a, x)
             \/ UNCHANGED allVars
      PROVE  UNCHANGED vars
  BY <1>5 DEF ReactInserts, OrphanInserts, allVars
<1>6. ASSUME \/ BusStep
             \/ \E r \in Relays, h \in Handlers : FlowHandlerResolves(r, h) \/ FlowHandlerRejects(r, h)
             \/ \E o \in orphans, resolves \in BOOLEAN : FlowOrphanSettles(o, resolves)
             \/ \E p \in Replicas : FlowCrash(p)
      PROVE  Next
  BY <1>6 DEF BusStep, FlowHandlerResolves, FlowHandlerRejects, FlowOrphanSettles, FlowCrash,
              Next, RelayStep, HandlersStep
<1>7. ASSUME NEW e \in Events, Delivery!Reply(e, "calendar.react") PROVE Delivery!Next
  BY <1>0, <1>7 DEF Delivery!Next
<1>8. QED BY <1>1, <1>2, <1>3, <1>4, <1>5, <1>6, <1>7 DEF FlowNext

(* Products and bus together implement the promise of EventDelivery: what a *)
(* product publishes, from a request or from a handler, awaited or left to  *)
(* itself, reaches every subscriber before it counts as published.          *)
THEOREM FlowImplementsDelivery == ASSUME Workers = {} PROVE FlowSpec => ImplementsDelivery
<1>1. FlowInit => Delivery!Init /\ AbandonedAreSubscribed
  BY DEF FlowInit, Init, Delivery!Init, AbandonedAreSubscribed
<1>2. FlowInv /\ AbandonedAreSubscribed /\ [FlowNext]_allVars => AbandonedAreSubscribed'
  BY NextAbandonedAreSubscribed
<1>3. FlowInv /\ AbandonedAreSubscribed /\ [FlowNext]_allVars => [Delivery!Next]_(Delivery!vars)
  BY FlowStepRefines
<1>4. QED
  BY <1>1, <1>2, <1>3, FlowInvariant, PTL DEF FlowSpec, ImplementsDelivery, Delivery!Spec
=============================================================================
