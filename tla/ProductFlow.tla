---------------------------- MODULE ProductFlow -----------------------------
(***************************************************************************)
(* The products on top of the event bus: the requests of Meet, Calendar,   *)
(* Drive and Notes that write a row and publish an event, the handlers     *)
(* their modules subscribe, and the unified search index the handlers keep.*)
(*                                                                         *)
(* A request is a sequence of separate statements, each its own            *)
(* transaction: an insert or delete, then publish().  A product row, and   *)
(* the search document about it, is known by its id.                       *)
(***************************************************************************)
EXTENDS EventBus

CONSTANTS
  Requests,        \* HTTP requests in progress at the same time
  MaxIds,          \* bound: product rows ever created
  EventsPerMonth,  \* the plan's quota of calendar.eventsPerMonth
  MaxAborts        \* bound: requests cut short

Ids == 1..MaxIds

ASSUME FlowAssumption ==
  /\ MaxIds \in Nat /\ EventsPerMonth \in Nat /\ MaxAborts \in Nat
  /\ IsFiniteSet(Requests)

ProductNames ==
  {"meet.room.scheduled", "calendar.event.created", "calendar.event.cancelled",
   "drive.node.created", "notes.item.created"}

ProductHandlers == {"meet.index", "calendar.react", "calendar.index",
                    "calendar.remove", "drive.index", "notes.index"}

(* Mutant: the modules of Drive and Notes forget to subscribe.              *)
SubscriptionsWithoutDrive ==
  [n \in ProductNames |->
    CASE n = "meet.room.scheduled"      -> {"meet.index", "calendar.react"}
      [] n = "calendar.event.created"   -> {"calendar.index"}
      [] n = "calendar.event.cancelled" -> {"calendar.remove"}
      [] OTHER                          -> {}]

(* What the onModuleInit of the product modules subscribes.                 *)
ProductSubscriptions ==
  [n \in ProductNames |->
    CASE n = "meet.room.scheduled"      -> {"meet.index", "calendar.react"}
      [] n = "calendar.event.created"   -> {"calendar.index"}
      [] n = "calendar.event.cancelled" -> {"calendar.remove"}
      [] n = "drive.node.created"       -> {"drive.index"}
      [] n = "notes.item.created"       -> {"notes.index"}]

ASSUME WiringAssumption ==
  /\ Names = ProductNames /\ Handlers = ProductHandlers
  /\ Subscriptions = ProductSubscriptions

VARIABLES
  kind,         \* what each id was given to
  stored,       \* ids whose row is in the product's table
  roomOf,       \* CalendarEvent.meetRoomId (0: none)
  subject,      \* the id in the payload of each outbox event
  index,        \* ids with a document in SearchDocument
  request,      \* where each request stands, and what it will publish
  eventsUsed,   \* the quota counter
  hasCalendar,  \* the host of the rooms has a default calendar
  reaction,     \* the calendar row a relay's onMeetRoomScheduled call created
  abandoned,    \* the same for calls orphaned in a replica
  aborts

rows    == <<kind, stored, roomOf>>
flow    == <<rows, subject, index, request, eventsUsed, hasCalendar, reaction,
             abandoned, aborts>>
allVars == <<vars, flow>>

Idle == [at |-> "idle", publishes |-> NoName, id |-> 0]

FlowInit ==
  /\ Init
  /\ kind = [x \in Ids |-> "none"]
  /\ stored = {}
  /\ roomOf = [x \in Ids |-> 0]
  /\ subject = [e \in Events |-> 0]
  /\ index = {}
  /\ request = [q \in Requests |-> Idle]
  /\ eventsUsed = 0
  /\ hasCalendar \in BOOLEAN
  /\ reaction = [r \in Relays |-> 0]
  /\ abandoned = {}
  /\ aborts = 0

Fresh(x) == kind[x] = "none" /\ \A y \in Ids : y < x => kind[y] # "none"

GoPublish(q, n, x) == request' = [request EXCEPT ![q] = [at |-> "publish", publishes |-> n, id |-> x]]

-----------------------------------------------------------------------------
(* Requests.                                                                *)

Insert(k, x) ==
  /\ Fresh(x)
  /\ kind' = [kind EXCEPT ![x] = k]
  /\ stored' = stored \cup {x}

(* scheduleRoom of Meet and requestUpload of Drive: insert, then publish.   *)
(* The file object requestUpload inserts first is read by nobody.           *)
InsertRow(q, k, x) ==
  /\ request[q].at = "idle"
  /\ Insert(k, x)
  /\ GoPublish(q, IF k = "room" THEN "meet.room.scheduled" ELSE "drive.node.created", x)
  /\ UNCHANGED <<vars, roomOf, subject, index, eventsUsed, hasCalendar, reaction,
                 abandoned, aborts>>

(* create of Notes stores nothing: its model does not exist yet.            *)
NameNote(q, x) ==
  /\ request[q].at = "idle"
  /\ Fresh(x)
  /\ kind' = [kind EXCEPT ![x] = "note"]
  /\ GoPublish(q, "notes.item.created", x)
  /\ UNCHANGED <<vars, stored, roomOf, subject, index, eventsUsed, hasCalendar,
                 reaction, abandoned, aborts>>

(* createFolder of Drive: an insert and no event.                           *)
CreateFolder(q, x) ==
  /\ request[q].at = "idle"
  /\ Insert("folder", x)
  /\ UNCHANGED <<vars, roomOf, subject, index, request, eventsUsed, hasCalendar,
                 reaction, abandoned, aborts>>

(* Mutant: the count is compared as it was before the INCRBY.               *)
ConsumeLate(q) ==
  /\ request[q].at = "idle"
  /\ eventsUsed' = eventsUsed + 1
  /\ request' = [request EXCEPT ![q].at = IF eventsUsed > EventsPerMonth THEN "refuse" ELSE "insert"]
  /\ UNCHANGED <<vars, rows, subject, index, hasCalendar, reaction, abandoned, aborts>>

(* createEvent of Calendar: the quota first.  consume() increments and then *)
(* compares; the unit is not given back when a later statement fails.       *)
ConsumeQuota(q) ==
  /\ request[q].at = "idle"
  /\ eventsUsed' = eventsUsed + 1
  /\ request' = [request EXCEPT ![q].at = IF eventsUsed' > EventsPerMonth THEN "refuse" ELSE "insert"]
  /\ UNCHANGED <<vars, rows, subject, index, hasCalendar, reaction, abandoned, aborts>>

(* Mutant: a refused unit stays counted.                                    *)
RefuseAtOnce(q) ==
  /\ request[q].at = "refuse"
  /\ request' = [request EXCEPT ![q] = Idle]
  /\ UNCHANGED <<vars, rows, subject, index, eventsUsed, hasCalendar, reaction, abandoned, aborts>>

(* Over the limit: DECRBY, and the request is answered quota_exceeded.      *)
RefuseQuota(q) ==
  /\ request[q].at = "refuse"
  /\ eventsUsed' = eventsUsed - 1
  /\ request' = [request EXCEPT ![q] = Idle]
  /\ UNCHANGED <<vars, rows, subject, index, hasCalendar, reaction, abandoned, aborts>>

InsertEvent(q, x) ==
  /\ request[q].at = "insert"
  /\ Insert("event", x)
  /\ GoPublish(q, "calendar.event.created", x)
  /\ UNCHANGED <<vars, roomOf, subject, index, eventsUsed, hasCalendar, reaction,
                 abandoned, aborts>>

(* Mutant: deleteEvent does not look at the number of rows it deleted.      *)
DeleteUnchecked(q, x) ==
  /\ request[q].at = "idle"
  /\ kind[x] # "none"
  /\ stored' = IF kind[x] = "event" THEN stored \ {x} ELSE stored
  /\ GoPublish(q, "calendar.event.cancelled", x)
  /\ UNCHANGED <<vars, kind, roomOf, subject, index, eventsUsed, hasCalendar,
                 reaction, abandoned, aborts>>

(* deleteEvent of Calendar; a second delete of the row finds nothing.       *)
DeleteEvent(q, x) ==
  /\ request[q].at = "idle"
  /\ kind[x] = "event"
  /\ x \in stored
  /\ stored' = stored \ {x}
  /\ GoPublish(q, "calendar.event.cancelled", x)
  /\ UNCHANGED <<vars, kind, roomOf, subject, index, eventsUsed, hasCalendar,
                 reaction, abandoned, aborts>>

(* Mutant: the payload lacks the id of the row.                             *)
PublishesWithoutId(q, e) ==
  /\ request[q].at = "publish"
  /\ Publish(e, request[q].publishes)
  /\ request' = [request EXCEPT ![q] = Idle]
  /\ UNCHANGED <<rows, subject, index, eventsUsed, hasCalendar, reaction, abandoned, aborts>>

RequestPublishes(q, e) ==
  /\ request[q].at = "publish"
  /\ Publish(e, request[q].publishes)
  /\ subject' = [subject EXCEPT ![e] = request[q].id]
  /\ request' = [request EXCEPT ![q] = Idle]
  /\ UNCHANGED <<rows, index, eventsUsed, hasCalendar, reaction, abandoned, aborts>>

(* A statement throws, or the process exits, between two statements.        *)
RequestAborts(q) ==
  /\ request[q].at # "idle"
  /\ aborts < MaxAborts
  /\ aborts' = aborts + 1
  /\ request' = [request EXCEPT ![q] = Idle]
  /\ UNCHANGED <<vars, rows, subject, index, eventsUsed, hasCalendar, reaction, abandoned>>

-----------------------------------------------------------------------------
(* Handlers.                                                                *)

(* Mutant: the where clause of remove names another type than index wrote.  *)
NeverRemoved(h, x) ==
  IF h = "calendar.react" \/ h = "calendar.remove" THEN index ELSE index \cup {x}

(* SearchService.index upserts, SearchService.remove deletes.               *)
Indexed(h, x) ==
  CASE h = "calendar.react"  -> index
    [] h = "calendar.remove" -> index \ {x}
    [] OTHER                 -> index \cup {x}

(* A handler returns: an index update, or onMeetRoomScheduled for a host    *)
(* without a default calendar.                                              *)
FlowHandlerResolves(r, h) ==
  /\ HandlerResolves(r, h)
  /\ h = "calendar.react" => ~hasCalendar
  /\ index' = Indexed(h, subject[event[r]])
  /\ UNCHANGED <<rows, subject, request, eventsUsed, hasCalendar, reaction,
                 abandoned, aborts>>

(* onMeetRoomScheduled inserts the matching event, whether or not an        *)
(* earlier call for the same room already has ...                           *)
ReactInserts(r, x) ==
  /\ pc[r] = "dispatch"
  /\ "calendar.react" \in running[r]
  /\ hasCalendar
  /\ reaction[r] = 0
  /\ Insert("event", x)
  /\ roomOf' = [roomOf EXCEPT ![x] = subject[event[r]]]
  /\ reaction' = [reaction EXCEPT ![r] = x]
  /\ UNCHANGED <<vars, subject, index, request, eventsUsed, hasCalendar, abandoned, aborts>>

(* Mutant: the reaction creates its event and forgets to publish it.        *)
ReactForgetsToPublish(r, e) ==
  /\ HandlerResolves(r, "calendar.react")
  /\ reaction[r] # 0
  /\ reaction' = [reaction EXCEPT ![r] = 0]
  /\ UNCHANGED <<rows, subject, index, request, eventsUsed, hasCalendar, abandoned, aborts>>

(* ... and publishes it, the last thing it does before it returns.          *)
ReactPublishes(r, e) ==
  /\ pc[r] = "dispatch"
  /\ "calendar.react" \in running[r]
  /\ reaction[r] # 0
  /\ status[e] = "absent"
  /\ \A d \in Events : d < e => status[d] # "absent"
  /\ status' = [status EXCEPT ![e] = "pending"]
  /\ due' = [due EXCEPT ![e] = TRUE]
  /\ name' = [name EXCEPT ![e] = "calendar.event.created"]
  /\ subject' = [subject EXCEPT ![e] = reaction[r]]
  /\ reaction' = [reaction EXCEPT ![r] = 0]
  /\ running' = [running EXCEPT ![r] = @ \ {"calendar.react"}]
  /\ delivered' = delivered \cup {<<event[r], "calendar.react">>}
  /\ UNCHANGED <<attempts, pc, batch, event, seen, orphans, failures, queue, crashes,
                 rows, index, request, eventsUsed, hasCalendar, abandoned, aborts>>

(* A handler throws; an onMeetRoomScheduled call still running is left to   *)
(* itself with the row it may have created.                                 *)
FlowHandlerRejects(r, h) ==
  /\ HandlerRejects(r, h)
  /\ reaction' = [reaction EXCEPT ![r] = 0]
  /\ abandoned' = IF "calendar.react" \in running[r] \ {h}
                    THEN abandoned \cup {<<HostOf[r], event[r], reaction[r]>>}
                    ELSE abandoned
  /\ UNCHANGED <<rows, subject, index, request, eventsUsed, hasCalendar, aborts>>

FlowOrphanSettles(o, resolves) ==
  /\ OrphanSettles(o, resolves)
  /\ o[3] = "calendar.react" => ~(resolves /\ hasCalendar)
  /\ index' = IF resolves THEN Indexed(o[3], subject[o[2]]) ELSE index
  /\ abandoned' = IF o[3] = "calendar.react"
                    THEN {a \in abandoned : <<a[1], a[2]>> # <<o[1], o[2]>>}
                    ELSE abandoned
  /\ UNCHANGED <<rows, subject, request, eventsUsed, hasCalendar, reaction, aborts>>

(* An abandoned onMeetRoomScheduled that had not inserted its event does.   *)
OrphanInserts(a, x) ==
  /\ a \in abandoned
  /\ a[3] = 0
  /\ hasCalendar
  /\ Insert("event", x)
  /\ roomOf' = [roomOf EXCEPT ![x] = subject[a[2]]]
  /\ abandoned' = (abandoned \ {a}) \cup {<<a[1], a[2], x>>}
  /\ UNCHANGED <<vars, subject, index, request, eventsUsed, hasCalendar, reaction, aborts>>

(* It publishes the event it inserted, and returns to nobody.               *)
OrphanPublishes(a, e) ==
  /\ a \in abandoned
  /\ a[3] # 0
  /\ status[e] = "absent"
  /\ \A d \in Events : d < e => status[d] # "absent"
  /\ status' = [status EXCEPT ![e] = "pending"]
  /\ due' = [due EXCEPT ![e] = TRUE]
  /\ name' = [name EXCEPT ![e] = "calendar.event.created"]
  /\ subject' = [subject EXCEPT ![e] = a[3]]
  /\ abandoned' = abandoned \ {a}
  /\ orphans' = orphans \ {<<a[1], a[2], "calendar.react">>}
  /\ delivered' = delivered \cup {<<a[2], "calendar.react">>}
  /\ UNCHANGED <<attempts, pc, batch, event, seen, running, failures, queue, crashes,
                 rows, index, request, eventsUsed, hasCalendar, reaction, aborts>>

(* The steps of the bus that touch no product.                              *)
BusStep ==
  /\ \/ \E e \in Events : BackoffElapses(e)
     \/ \E r \in Relays :
          RelayPoll(r) \/ (\E e \in Events : RelayRead(r, e)) \/ OutcomeStep(r)
  /\ UNCHANGED flow

FlowCrash(p) ==
  /\ Crash(p)
  /\ reaction' = [r \in Relays |-> IF HostOf[r] = p THEN 0 ELSE reaction[r]]
  /\ abandoned' = {a \in abandoned : a[1] # p}
  /\ UNCHANGED <<rows, subject, index, request, eventsUsed, hasCalendar, aborts>>

RequestStep(q) ==
  \/ \E x \in Ids :
       \/ \E k \in {"room", "file"} : InsertRow(q, k, x)
       \/ NameNote(q, x)
       \/ CreateFolder(q, x)
       \/ InsertEvent(q, x)
       \/ DeleteEvent(q, x)
  \/ ConsumeQuota(q) \/ RefuseQuota(q)
  \/ \E e \in Events : RequestPublishes(q, e)
  \/ RequestAborts(q)

FlowNext ==
  \/ \E q \in Requests : RequestStep(q)
  \/ BusStep
  \/ \E r \in Relays :
       \/ \E h \in Handlers : FlowHandlerResolves(r, h) \/ FlowHandlerRejects(r, h)
       \/ \E x \in Ids : ReactInserts(r, x)
       \/ \E e \in Events : ReactPublishes(r, e)
  \/ \E o \in orphans, resolves \in BOOLEAN : FlowOrphanSettles(o, resolves)
  \/ \E a \in abandoned :
       (\E x \in Ids : OrphanInserts(a, x)) \/ (\E e \in Events : OrphanPublishes(a, e))
  \/ \E p \in Replicas : FlowCrash(p)

FlowSpec == FlowInit /\ [][FlowNext]_allVars

-----------------------------------------------------------------------------
(* Properties.                                                              *)

FlowTypeOK ==
  /\ TypeOK
  /\ kind \in [Ids -> {"none", "room", "event", "file", "folder", "note"}]
  /\ stored \subseteq {x \in Ids : kind[x] # "none"}
  /\ roomOf \in [Ids -> Ids \cup {0}]
  /\ subject \in [Events -> Ids \cup {0}]
  /\ index \subseteq {x \in Ids : kind[x] # "none"}
  /\ \A q \in Requests : request[q].at \in {"idle", "insert", "refuse", "publish"}
  /\ eventsUsed \in Nat
  /\ reaction \in [Relays -> Ids \cup {0}]
  /\ abandoned \subseteq Replicas \X Events \X (Ids \cup {0})
  /\ aborts \in 0..MaxAborts

Published(n) == {subject[e] : e \in {d \in Events : status[d] # "absent" /\ name[d] = n}}

(* Nothing is on its way: no request, dispatch, orphan or row to drain.     *)
Quiet ==
  /\ \A q \in Requests : request[q].at = "idle"
  /\ \A e \in Events : status[e] \in {"absent", "published"}
  /\ \A r \in Relays : pc[r] = "idle"
  /\ orphans = {}

NothingFailed == aborts = 0 /\ crashes = 0 /\ \A e \in Events : failures[e] = 0

(* "No phantom events": an event about a row says what happened to it; the  *)
(* row was inserted before its created event, through a request or a        *)
(* reaction, and is gone before its cancelled event.                        *)
NoPhantomEvents ==
  /\ \A x \in Published("meet.room.scheduled") \cup Published("drive.node.created") :
       x \in stored
  /\ \A x \in Published("calendar.event.created") : kind[x] = "event"
  /\ \A x \in Published("calendar.event.cancelled") : kind[x] = "event" /\ x \notin stored

(* Calendar reacts to every room, however often the bus retries: once the   *)
(* room's event counts as published, an event of that room exists and its   *)
(* own created event is in the outbox.                                      *)
RoomsReachTheCalendar ==
  hasCalendar =>
    \A e \in Events : status[e] = "published" /\ name[e] = "meet.room.scheduled" =>
      \E x \in Published("calendar.event.created") : roomOf[x] = subject[e]

(* What exists can be found: from the moment its event counts as published, *)
(* a row that is still there has its document, however often the event was  *)
(* retried and whatever was cancelled meanwhile.                            *)
PublishedIsFound ==
  \A e \in Events :
    /\ status[e] = "published"
    /\ name[e] \in {"meet.room.scheduled", "calendar.event.created", "drive.node.created"}
    /\ subject[e] \in stored
    => subject[e] \in index

(* A row's cancelled event follows its created event in the outbox.         *)
InOrder ==
  \A d, e \in Events :
    /\ name[d] = "calendar.event.created"
    /\ name[e] = "calendar.event.cancelled"
    /\ subject[d] = subject[e]
    => d < e

(* "Keep the unified index current": when one relay drains the outbox,      *)
(* nothing failed and events were published in order, the index ends up     *)
(* with exactly the searchable rows that exist.                             *)
IndexIsCurrent ==
  Quiet /\ NothingFailed /\ InOrder =>
    index = {x \in stored : kind[x] # "folder"} \cup Published("notes.item.created")

(* The events that cost a unit: those of requests, not those of rooms.      *)
Paid == {x \in Ids : kind[x] = "event" /\ roomOf[x] = 0}

In(at) == {q \in Requests : request[q].at = at}

(* "Two concurrent requests cannot both pass a check at the limit".         *)
QuotaHolds == Cardinality(Paid) + Cardinality(In("insert")) <= EventsPerMonth

(* What a workspace is told it used, and billed for, is what it stored and  *)
(* is being asked for, and too much only by one unit for each request cut   *)
(* short; it is refused only when nothing was left.                         *)
QuotaIsHonest ==
  LET granted == Cardinality(Paid) + Cardinality(In("insert"))
      refused == Cardinality(In("refuse"))
  IN /\ eventsUsed - (granted + refused) \in 0..aborts
     /\ refused > 0 => granted + aborts >= EventsPerMonth


(* "No committed change without an event".                                  *)
CommittedChangeHasEvent ==
  Quiet => \A x \in stored : kind[x] = "event" => x \in Published("calendar.event.created")
=============================================================================
