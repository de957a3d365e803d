----------------------------- MODULE Manifests ------------------------------
(***************************************************************************)
(* What the products declare: their manifests, the routes of their         *)
(* controllers, the manifest the product generator writes, and the demo    *)
(* seed's own idea of who may do what.                                     *)
(*                                                                         *)
(* A permission or event key `product.resource.action` is the triple of    *)
(* its parts.  An apiPrefix is the part after /v1/.                        *)
(***************************************************************************)
EXTENDS Naturals, Sequences

Roles   == {"owner", "admin", "member", "guest"}
Members == Roles \ {"guest"}
Admins  == {"owner", "admin"}
Tiers   == {"free", "pro", "business", "enterprise"}

Key(p, r, a)      == <<p, r, a>>
IsKey(key)        == key = Key(key[1], key[2], key[3]) /\ key[3] # "*"
Grant(key, roles) == [key |-> key, defaultRoles |-> roles]

calendarManifest ==
  [key |-> "calendar", dbSchema |-> "calendar", apiPrefix |-> "calendar",
   permissions |->
     <<Grant(Key("calendar", "event", "read"), Roles),
       Grant(Key("calendar", "event", "create"), Members),
       Grant(Key("calendar", "event", "update"), Members),
       Grant(Key("calendar", "event", "delete"), Admins),
       Grant(Key("calendar", "calendar", "manage"), Admins)>>,
   publishes |-> {Key("calendar", "event", a) : a \in {"created", "updated", "cancelled"}},
   subscribes |-> {Key("meet", "room", "scheduled"), Key("platform", "user", "joined")},
   availableIn |-> Tiers, softDependencies |-> {"meet"}]

driveManifest ==
  [key |-> "drive", dbSchema |-> "drive", apiPrefix |-> "drive",
   permissions |->
     <<Grant(Key("drive", "node", "read"), Roles),
       Grant(Key("drive", "node", "create"), Members),
       Grant(Key("drive", "node", "delete"), Members),
       Grant(Key("drive", "node", "share"), Admins)>>,
   publishes |-> {Key("drive", "node", a) : a \in {"created", "shared", "deleted"}},
   subscribes |-> {Key("platform", "tenant", "suspended")},
   availableIn |-> Tiers, softDependencies |-> {}]

meetManifest ==
  [key |-> "meet", dbSchema |-> "meet", apiPrefix |-> "meet",
   permissions |->
     <<Grant(Key("meet", "room", "read"), Roles),
       Grant(Key("meet", "room", "create"), Members),
       Grant(Key("meet", "room", "manage"), Admins)>>,
   publishes |-> {Key("meet", "room", a) : a \in {"scheduled", "started", "ended"}},
   subscribes |-> {Key("platform", "tenant", "suspended")},
   availableIn |-> Tiers \ {"free"}, softDependencies |-> {}]

notesManifest ==
  [key |-> "notes", dbSchema |-> "notes", apiPrefix |-> "notes",
   permissions |->
     <<Grant(Key("notes", "item", "read"), Roles),
       Grant(Key("notes", "item", "create"), Members),
       Grant(Key("notes", "item", "delete"), Admins)>>,
   publishes |-> {Key("notes", "item", a) : a \in {"created", "deleted"}},
   subscribes |-> {}, availableIn |-> Tiers, softDependencies |-> {}]

(* The manifest of a generated product (its key contains no hyphen here).   *)
Scaffold(k) ==
  [key |-> k, dbSchema |-> k, apiPrefix |-> k,
   permissions |->
     <<Grant(Key(k, "item", "read"), Roles),
       Grant(Key(k, "item", "create"), Members),
       Grant(Key(k, "item", "delete"), Admins)>>,
   publishes |-> {Key(k, "item", a) : a \in {"created", "deleted"}},
   subscribes |-> {}, availableIn |-> Tiers, softDependencies |-> {}]

(* Notes is what the generator wrote.                                       *)
ASSUME NotesIsGenerated == notesManifest = Scaffold("notes")

-----------------------------------------------------------------------------
(* The permissions the controllers' routes require.                         *)

calendarRoutes == {Key("calendar", "event", a) : a \in {"read", "create", "delete"}}
driveRoutes    == {Key("drive", "node", a) : a \in {"read", "create"}}
meetRoutes     == {Key("meet", "room", a) : a \in {"read", "create"}}
ScaffoldRoutes(k) == {Key(k, "item", a) : a \in {"read", "create"}}

RoutesOf(k) ==
  CASE k = "calendar" -> calendarRoutes
    [] k = "drive"    -> driveRoutes
    [] k = "meet"     -> meetRoutes
    [] OTHER          -> ScaffoldRoutes(k)

-----------------------------------------------------------------------------
(* The demo seed's list of permissions, and the roles it grants each to.    *)

SeedPermissions ==
  <<Key("calendar", "event", "read"), Key("calendar", "event", "create"),
    Key("calendar", "event", "update"), Key("calendar", "event", "delete"),
    Key("calendar", "calendar", "manage"),
    Key("meet", "room", "read"), Key("meet", "room", "create"), Key("meet", "room", "manage"),
    Key("drive", "node", "read"), Key("drive", "node", "create"),
    Key("drive", "node", "delete"), Key("drive", "node", "share")>>

isRead(key)        == key[3] = "read"
isDestructive(key) == key[3] \in {"delete", "share", "manage"}

SeedGrants(key) ==
  Admins \cup (IF isDestructive(key) THEN {} ELSE {"member"})
         \cup (IF isRead(key) THEN {"guest"} ELSE {})
=============================================================================
