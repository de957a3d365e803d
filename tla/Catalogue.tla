----------------------------- MODULE Catalogue ------------------------------
(***************************************************************************)
(* From source tree to permissions: releases are cut from a tree that the  *)
(* product generator and developers extend, replicas boot them in any      *)
(* order (rolling deploys, rollbacks, restarts), validate their manifests, *)
(* sync the permission catalogue into the shared database and then serve;  *)
(* workspaces are registered through them, and the demo seed writes beside *)
(* them.                                                                   *)
(*                                                                         *)
(* A transaction is one step, and so are the upserts of one product and    *)
(* each loop of the seed, which can be cut short after any statement:      *)
(* whoever upserts a row writes the same values.                           *)
(***************************************************************************)
EXTENDS Registry, FiniteSets, SequencesExt

CONSTANTS
  Replicas,     \* API processes
  Tenants,      \* workspaces, known by their slug
  Seeded,       \* the one the seed writes
  Generated,    \* product keys given to the generator
  Drafts,       \* name -> manifest a developer adds to the list by hand
  MaxReleases,  \* bound: releases ever cut
  MaxBoots,     \* bound: process starts
  MaxFailures   \* bound: database errors and interrupted seeds

(* What defineProduct lets pass of a manifest: three-part permission keys   *)
(* without wildcards, and known roles.                                      *)
WellFormed(m) ==
  /\ m.permissions \in Seq(ToSet(m.permissions))
  /\ \A def \in ToSet(m.permissions) :
       IsKey(def.key) /\ def.defaultRoles \subseteq Roles

ASSUME CatalogueAssumption ==
  /\ Seeded \in Tenants
  /\ "notes" \in Generated
  /\ Generated \cap {"calendar", "meet", "drive"} = {}
  /\ \A n \in DOMAIN Drafts : WellFormed(Drafts[n])
  /\ DOMAIN Drafts \cap (Generated \cup {"calendar", "meet", "drive"}) = {}
  /\ MaxReleases \in Nat /\ MaxBoots \in Nat /\ MaxFailures \in Nat

(* The registry's list before Notes was generated.                          *)
First == <<"calendar", "meet", "drive">>

Names == ToSet(First) \cup Generated \cup DOMAIN Drafts

Manifest ==
  [n \in Names |-> CASE n = "calendar"   -> calendarManifest
                    [] n = "meet"       -> meetManifest
                    [] n = "drive"      -> driveManifest
                    [] n \in Generated  -> Scaffold(n)
                    [] OTHER            -> Drafts[n]]

ListOf(names) == [i \in DOMAIN names |-> Manifest[names[i]]]

VARIABLES
  releases,    \* what each release registers, and which modules it imports
  replica,     \* where each replica stands, and the release it runs
  permission,  \* table Permission: key -> product
  grants,      \* table RolePermission of each workspace: <<role, key>>
  exists,      \* workspaces in table Tenant
  seeding,     \* how many of its three parts the seed has run
  boots,
  failures

vars == <<releases, replica, permission, grants, exists, seeding, boots, failures>>

Init ==
  /\ \E list \in {First, Append(First, "notes")} :
       releases = <<[registered |-> list, wired |-> ToSet(list)]>>
  /\ replica = [p \in Replicas |-> [at |-> "down", release |-> 1, todo |-> <<>>]]
  /\ permission = <<>>
  /\ grants = [t \in Tenants |-> {}]
  /\ exists = {}
  /\ seeding = 0
  /\ boots = 0
  /\ failures = 0

manifests(r) == ListOf(releases[r].registered)

(* The catalogue rows of a product's first n permissions: key -> product.   *)
permissionCatalogue(m, n) == [key \in {m.permissions[i].key : i \in 1..n} |-> m.key]

(* Mutant: what a release no longer declares is tidied away.                *)
Replaced(table, rows) == rows

(* A table in which rows override, or are added.                            *)
Upserted(table, rows) ==
  [key \in DOMAIN rows \cup DOMAIN table |->
     IF key \in DOMAIN rows THEN rows[key] ELSE table[key]]

(* What manifests grant the roles by default, as <<role, key>>.             *)
Defaults(ms) ==
  UNION {{<<role, Declared(ms, d).key>> : role \in Declared(ms, d).defaultRoles} :
           d \in Declarations(ms)}

Running(p)   == manifests(replica[p].release)
Move(p, new) == replica' = [replica EXCEPT ![p] = new]

-----------------------------------------------------------------------------
(* The source tree.  Releases are cut before the first boot (a bound): any  *)
(* replica may run any of them in any order.                                *)

Cut(registered, wired) ==
  /\ boots = 0 /\ seeding = 0 /\ Len(releases) < MaxReleases
  /\ releases' = Append(releases, [registered |-> registered, wired |-> wired])
  /\ UNCHANGED <<replica, permission, grants, exists, seeding, boots, failures>>

(* `gen:product k`: the import always lands in app.module.ts; the manifest  *)
(* lands in the registry's list only while that list is the literal it      *)
(* searches for.                                                            *)
Generate(k) ==
  LET tree == Last(releases)
  IN /\ k \in Generated \ tree.wired
     /\ Cut(IF tree.registered = First THEN Append(First, k) ELSE tree.registered,
            tree.wired \cup {k})

(* A developer adds a manifest to the list, and its module.                 *)
AddByHand(n) ==
  LET tree == Last(releases)
  IN /\ n \in DOMAIN Drafts
     /\ Cut(Append(tree.registered, n), tree.wired \cup {Drafts[n].key})

-----------------------------------------------------------------------------
(* Boot.                                                                    *)

(* A process starts, on any release, whatever the one before it was doing.  *)
Boot(p, r) ==
  /\ boots < MaxBoots
  /\ boots' = boots + 1
  /\ Move(p, [at |-> "boot", release |-> r, todo |-> <<>>])
  /\ UNCHANGED <<releases, permission, grants, exists, seeding, failures>>

(* The constructor registers, onApplicationBootstrap validates.             *)
Validate(p) ==
  /\ replica[p].at = "boot"
  /\ Move(p, IF Registers(Running(p)) /\ Errors(Running(p)) = {}
                THEN [replica[p] EXCEPT !.at = "sync", !.todo = releases[replica[p].release].registered]
                ELSE [replica[p] EXCEPT !.at = "refused"])
  /\ UNCHANGED <<releases, permission, grants, exists, seeding, boots, failures>>

(* syncCatalogue, the upserts of one product after the other's ...          *)
SyncProduct(p) ==
  /\ replica[p].at = "sync"
  /\ replica[p].todo # <<>>
  /\ LET m == Manifest[Head(replica[p].todo)]
     IN permission' = Upserted(permission, permissionCatalogue(m, Len(m.permissions)))
  /\ Move(p, [replica[p] EXCEPT !.todo = Tail(@)])
  /\ UNCHANGED <<releases, grants, exists, seeding, boots, failures>>

(* Mutant: the failure is not caught, and takes the process down.           *)
SyncFailsUncaught(p) ==
  /\ replica[p].at = "sync"
  /\ replica[p].todo # <<>>
  /\ failures < MaxFailures
  /\ failures' = failures + 1
  /\ Move(p, [replica[p] EXCEPT !.at = "down"])
  /\ UNCHANGED <<releases, permission, grants, exists, seeding, boots>>

(* ... until one fails: a warning, and the process goes on without the rest. *)
SyncFails(p) ==
  /\ replica[p].at = "sync"
  /\ replica[p].todo # <<>>
  /\ failures < MaxFailures
  /\ failures' = failures + 1
  /\ LET m == Manifest[Head(replica[p].todo)]
     IN \E n \in 0..(Len(m.permissions) - 1) :
          permission' = Upserted(permission, permissionCatalogue(m, n))
  /\ Move(p, [replica[p] EXCEPT !.at = "up"])
  /\ UNCHANGED <<releases, grants, exists, seeding, boots>>

(* Mutant: the hook is not awaited, and the process listens at once.        *)
ListenAtOnce(p) ==
  /\ replica[p].at = "sync"
  /\ Move(p, [replica[p] EXCEPT !.at = "up", !.todo = <<>>])
  /\ UNCHANGED <<releases, permission, grants, exists, seeding, boots, failures>>

(* The module's hook has returned, and the process listens.                 *)
Listen(p) ==
  /\ replica[p].at = "sync"
  /\ replica[p].todo = <<>>
  /\ Move(p, [replica[p] EXCEPT !.at = "up"])
  /\ UNCHANGED <<releases, permission, grants, exists, seeding, boots, failures>>

-----------------------------------------------------------------------------
(* Workspaces.                                                              *)

(* Mutant: the roles are created without regard to the catalogue.           *)
RegisterUnchecked(p, t) ==
  /\ replica[p].at = "up"
  /\ t \notin exists
  /\ exists' = exists \cup {t}
  /\ grants' = [grants EXCEPT ![t] = Defaults(Running(p))]
  /\ UNCHANGED <<releases, replica, permission, seeding, boots, failures>>

(* register and provisionSystemRoles, one transaction: a default permission *)
(* without its row in the catalogue violates a foreign key and undoes it    *)
(* all; the slug is unique.                                                 *)
Register(p, t) ==
  /\ replica[p].at = "up"
  /\ t \notin exists
  /\ \A g \in Defaults(Running(p)) : g[2] \in DOMAIN permission
  /\ exists' = exists \cup {t}
  /\ grants' = [grants EXCEPT ![t] = Defaults(Running(p))]
  /\ UNCHANGED <<releases, replica, permission, seeding, boots, failures>>

(* The seed, which upserts and changes no existing row: the permissions,    *)
(* then the workspace with its roles, then the grants.  A loop runs to its  *)
(* end or is interrupted, and the script started again later.               *)
SeedRuns(from, n, whole) ==
  /\ seeding = from
  /\ n <= whole
  /\ n < whole => failures < MaxFailures
  /\ failures' = IF n < whole THEN failures + 1 ELSE failures
  /\ seeding' = IF n < whole THEN 0 ELSE from + 1

SeedPermission(n) ==
  /\ SeedRuns(0, n, Len(SeedPermissions))
  /\ LET keys == {SeedPermissions[i] : i \in 1..n}
     IN permission' = Upserted([key \in keys |-> key[1]], permission)
  /\ UNCHANGED <<releases, replica, grants, exists, boots>>

SeedWorkspace ==
  /\ SeedRuns(1, 1, 1)
  /\ exists' = exists \cup {Seeded}
  /\ UNCHANGED <<releases, replica, permission, grants, boots>>

SeedGrant(n) ==
  /\ SeedRuns(2, n, Len(SeedPermissions))
  /\ LET granted(i) == SeedGrants(SeedPermissions[i]) \X {SeedPermissions[i]}
     IN grants' = [grants EXCEPT ![Seeded] = @ \cup UNION {granted(i) : i \in 1..n}]
  /\ UNCHANGED <<releases, replica, permission, exists, boots>>

TreeStep == (\E k \in Generated : Generate(k)) \/ (\E n \in DOMAIN Drafts : AddByHand(n))

BootStep(p) == Validate(p) \/ SyncProduct(p) \/ SyncFails(p) \/ Listen(p)

SeedStep ==
  SeedWorkspace \/ \E n \in 0..Len(SeedPermissions) : SeedPermission(n) \/ SeedGrant(n)

Next ==
  \/ TreeStep
  \/ SeedStep
  \/ \E p \in Replicas :
       \/ \E r \in DOMAIN releases : Boot(p, r)
       \/ BootStep(p)
       \/ \E t \in Tenants : Register(p, t)

Spec == Init /\ [][Next]_vars

(* Nest runs the hooks of a starting process to the end.                    *)
FairSpec == Spec /\ \A p \in Replicas : WF_vars(BootStep(p))

-----------------------------------------------------------------------------
(* Properties.                                                              *)

(* permissionsFor a member with one role: an owner holds everything, other  *)
(* roles what their workspace grants them.                                  *)
Holds(t, role) ==
  IF role = "owner" THEN {Everything} ELSE {g[2] : g \in {h \in grants[t] : h[1] = role}}

Routes(r) == UNION {RoutesOf(k) : k \in releases[r].wired}

(* Types of the tables and of what replicas and seed are doing.             *)
TypeOK ==
  /\ \A r \in DOMAIN releases : \A i \in DOMAIN releases[r].registered :
       Manifest[releases[r].registered[i]].key \in releases[r].wired
  /\ \A p \in Replicas :
       /\ replica[p].at \in {"down", "boot", "sync", "up", "refused"}
       /\ replica[p].release \in DOMAIN releases
       /\ ToSet(replica[p].todo) \subseteq ToSet(releases[replica[p].release].registered)
  /\ \A t \in Tenants : grants[t] \subseteq Roles \X DOMAIN permission
  /\ exists \subseteq Tenants
  /\ seeding \in 0..3
  /\ boots \in 0..MaxBoots
  /\ failures \in 0..MaxFailures

(* "Boot fails loudly if the manifest graph is inconsistent": whatever      *)
(* developers and the generator put in the tree, a process that answers     *)
(* requests has one owner per schema, prefix and permission, and no         *)
(* dangling subscription.                                                   *)
RunningReleasesAreSound ==
  \A p \in Replicas : replica[p].at = "up" => Sound(Running(p))

(* A process whose own sync completed finds every permission it declares in *)
(* the catalogue, under its own product: other releases, booting before or  *)
(* after it, and the seed never take one away or to another product.  Such  *)
(* a process can register a workspace.                                      *)
ServedIsCatalogued ==
  \A p \in Replicas : replica[p].at = "up" /\ replica[p].todo = <<>> =>
    \A m \in ToSet(Running(p)) : \A i \in DOMAIN m.permissions :
      /\ m.permissions[i].key \in DOMAIN permission
      /\ permission[m.permissions[i].key] = m.key

(* Least privilege: a role other than owner reaches a route of any running  *)
(* process only if the manifests of a release fit to run gave that role     *)
(* that very permission; so a product the generator wired without           *)
(* registering it is closed to everybody but owners, and the seed is no     *)
(* wider than the manifests.                                                *)
OnlyDeclaredIsReached ==
  LET fit == {r \in DOMAIN releases : Errors(manifests(r)) = {}}
      declared == UNION {Defaults(manifests(r)) : r \in fit}
  IN \A p \in Replicas, t \in Tenants, role \in Roles \ {"owner"} :
       replica[p].at = "up" =>
         \A route \in Routes(replica[p].release) :
           allows(Holds(t, role), route) => <<role, route>> \in declared

(* A permission keeps its row and its product, and a role what it was       *)
(* granted.                                                                 *)
Kept ==
  /\ \A key \in DOMAIN permission :
       key \in DOMAIN permission' /\ permission'[key] = permission[key]
  /\ \A t \in Tenants : grants[t] \subseteq grants'[t]

(* No boot, upgrade, rollback, failed sync, registration or repetition of   *)
(* the seed removes a permission, moves it to another product or takes it   *)
(* from a role: upserts by one release leave another's rows as they were.   *)
NothingIsTakenBack == [][Kept]_vars

(* Every process that starts ends up serving or refusing to, whatever the   *)
(* catalogue sync runs into.                                                *)
BootSettles ==
  \A p \in Replicas :
    replica[p].at \in {"boot", "sync"} ~> replica[p].at \in {"up", "refused"}
=============================================================================
