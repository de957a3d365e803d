-------------------------- MODULE CatalogueProofs ---------------------------
(***************************************************************************)
(* Proofs about Catalogue, for any number of replicas, workspaces,         *)
(* releases, boots and failures, any product keys given to the generator   *)
(* and any manifests added by hand.                                        *)
(***************************************************************************)
EXTENDS Catalogue, RegistryProofs, SequenceTheorems

WellDeclared(def) == IsKey(def.key) /\ def.defaultRoles \subseteq Roles

(* The four products of the repository are known under their own names.     *)
LEMMA KnownManifests ==
  /\ Manifest["calendar"] = calendarManifest
  /\ Manifest["meet"] = meetManifest
  /\ Manifest["drive"] = driveManifest
  /\ Manifest["notes"] = notesManifest
  BY CatalogueAssumption, NotesIsGenerated DEF Names, Manifest, First, ToSet

(* A permission as the repository's manifests declare one.                  *)
LEMMA GrantShape ==
  ASSUME NEW p, NEW r, NEW a, a # "*",
         NEW roles \in {Roles, Members, Admins}
  PROVE  WellDeclared(Grant(Key(p, r, a), roles))
  BY DEF WellDeclared, IsKey, Grant, Key, Members, Admins, Roles

(* Every manifest a release can register is well-formed.                    *)
LEMMA ManifestShape == \A n \in Names : WellFormed(Manifest[n])
  <1>1. WellFormed(calendarManifest)
    <2>1. \A i \in 1..5 : WellDeclared(calendarManifest.permissions[i])
      BY GrantShape DEF calendarManifest
    <2>2. DOMAIN calendarManifest.permissions = 1..5
      BY DEF calendarManifest
    <2>3. calendarManifest.permissions \in Seq(ToSet(calendarManifest.permissions))
      BY DEF calendarManifest, ToSet
    <2> QED BY <2>1, <2>2, <2>3 DEF WellFormed, WellDeclared, ToSet
  <1>2. WellFormed(meetManifest)
    <2>1. \A i \in 1..3 : WellDeclared(meetManifest.permissions[i])
      BY GrantShape DEF meetManifest
    <2>2. DOMAIN meetManifest.permissions = 1..3
      BY DEF meetManifest
    <2>3. meetManifest.permissions \in Seq(ToSet(meetManifest.permissions))
      BY DEF meetManifest, ToSet
    <2> QED BY <2>1, <2>2, <2>3 DEF WellFormed, WellDeclared, ToSet
  <1>3. WellFormed(driveManifest)
    <2>1. \A i \in 1..4 : WellDeclared(driveManifest.permissions[i])
      BY GrantShape DEF driveManifest
    <2>2. DOMAIN driveManifest.permissions = 1..4
      BY DEF driveManifest
    <2>3. driveManifest.permissions \in Seq(ToSet(driveManifest.permissions))
      BY DEF driveManifest, ToSet
    <2> QED BY <2>1, <2>2, <2>3 DEF WellFormed, WellDeclared, ToSet
  <1>4. ASSUME NEW k PROVE WellFormed(Scaffold(k))
    <2>1. \A i \in 1..3 : WellDeclared(Scaffold(k).permissions[i])
      BY GrantShape DEF Scaffold
    <2>2. DOMAIN Scaffold(k).permissions = 1..3
      BY DEF Scaffold
    <2>3. Scaffold(k).permissions \in Seq(ToSet(Scaffold(k).permissions))
      BY DEF Scaffold, ToSet
    <2> QED BY <2>1, <2>2, <2>3 DEF WellFormed, WellDeclared, ToSet
  <1>5. \A n \in DOMAIN Drafts : WellFormed(Drafts[n])
    BY CatalogueAssumption
  <1>6. \A n \in Names :
          \/ Manifest[n] = calendarManifest \/ Manifest[n] = meetManifest
          \/ Manifest[n] = driveManifest
          \/ n \in Generated /\ Manifest[n] = Scaffold(n)
          \/ n \in DOMAIN Drafts /\ Manifest[n] = Drafts[n]
    BY DEF Names, Manifest, First, ToSet
  <1> QED BY <1>1, <1>2, <1>3, <1>4, <1>5, <1>6

-----------------------------------------------------------------------------
(* Type correctness.                                                        *)

(* What app.module.ts may import.                                           *)
Products == Names \cup {Drafts[n].key : n \in DOMAIN Drafts}

Releases      == [registered : Seq(Names), wired : SUBSET Products]
Positions     == {"down", "boot", "sync", "up", "refused"}
ReplicaStates == [at : Positions, release : Nat, todo : Seq(Names)]

Shape ==
  /\ releases \in Seq(Releases) /\ releases # <<>>
  /\ replica \in [Replicas -> ReplicaStates]
  /\ grants = [t \in Tenants |-> grants[t]]

Wired ==
  \A r \in DOMAIN releases : \A i \in DOMAIN releases[r].registered :
    Manifest[releases[r].registered[i]].key \in releases[r].wired

Placed ==
  \A p \in Replicas :
    /\ replica[p].release \in DOMAIN releases
    /\ ToSet(replica[p].todo) \subseteq ToSet(releases[replica[p].release].registered)

Granted ==
  /\ \A t \in Tenants : grants[t] \subseteq Roles \X DOMAIN permission
  /\ seeding > 0 => ToSet(SeedPermissions) \subseteq DOMAIN permission

Counted ==
  /\ exists \subseteq Tenants
  /\ seeding \in 0..3
  /\ boots \in 0..MaxBoots
  /\ failures \in 0..MaxFailures

TypeInv == Shape /\ Wired /\ Placed /\ Granted /\ Counted

(* The inductive invariant gives the types the runs check.                  *)
LEMMA TypeInvMeansTypeOK == TypeInv => TypeOK
  BY DEF TypeInv, Shape, Wired, Placed, Granted, Counted, TypeOK, ReplicaStates, Positions

(* Nothing is registered, granted or counted at the start.                  *)
LEMMA InitTypeInv == Init => TypeInv
  <1> SUFFICES ASSUME Init PROVE TypeInv
    OBVIOUS
  <1>1. PICK list \in {First, Append(First, "notes")} :
          releases = <<[registered |-> list, wired |-> ToSet(list)]>>
    BY DEF Init
  <1>2. list \in Seq(Names) /\ DOMAIN list \in {1..3, 1..4}
        /\ \A i \in DOMAIN list : list[i] \in {"calendar", "meet", "drive", "notes"}
    <2>1. {"calendar", "meet", "drive", "notes"} \subseteq Names
      BY CatalogueAssumption DEF First, Names, ToSet
    <2>2. First \in Seq(Names) /\ DOMAIN First = 1..3
          /\ \A i \in 1..3 : First[i] \in {"calendar", "meet", "drive"}
      BY <2>1 DEF First
    <2>3. Len(First) = 3
      BY <2>2, LenProperties
    <2> DEFINE one == "notes"
    <2> DEFINE more == Append(First, one)
    <2> HIDE DEF one, more
    <2>4. /\ more \in Seq(Names) /\ Len(more) = Len(First) + 1
          /\ \A i \in 1..Len(First) : more[i] = First[i]
          /\ more[Len(First) + 1] = one
      <3>1. one \in Names
        BY <2>1 DEF one
      <3> QED BY <2>2, <3>1 DEF more
    <2>5. DOMAIN more = 1..4 /\ (\A i \in 1..3 : more[i] = First[i]) /\ more[4] = one
      BY <2>3, <2>4, LenProperties
    <2>8. one = "notes"
      BY DEF one
    <2>6. CASE list = First
      BY <2>2, <2>6
    <2>7. CASE list = more
      <3>1. \A i \in 1..4 : i \in 1..3 \/ i = 4
        OBVIOUS
      <3> QED BY <2>2, <2>4, <2>5, <2>7, <2>8, <3>1
    <2> QED BY <2>6, <2>7 DEF more, one
  <1>3. \A n \in {"calendar", "meet", "drive", "notes"} : n \in Names /\ Manifest[n].key = n
    BY CatalogueAssumption
    DEF Names, Manifest, First, ToSet, calendarManifest, meetManifest, driveManifest, Scaffold
  <1>4. ToSet(list) \in SUBSET Products
    BY <1>2, <1>3 DEF ToSet, Products
  <1>5. [registered |-> list, wired |-> ToSet(list)] \in Releases
    BY <1>2, <1>4 DEF Releases
  <1>6. releases \in Seq(Releases) /\ releases # <<>> /\ DOMAIN releases = {1}
    BY <1>1, <1>5
  <1>7. Shape
    BY <1>6 DEF Init, Shape, ReplicaStates, Positions
  <1>8. Wired
    BY <1>1, <1>2, <1>3, <1>6 DEF Wired, ToSet
  <1>9. Placed
    BY <1>6 DEF Init, Placed, ToSet
  <1>10. Granted /\ Counted
    BY CatalogueAssumption DEF Init, Granted, Counted
  <1> QED BY <1>7, <1>8, <1>9, <1>10 DEF TypeInv

(* A release cut from the tree leaves those before it alone.                *)
LEMMA CutGrows ==
  ASSUME Shape, NEW reg \in Seq(Names), NEW wired \in SUBSET Products, Cut(reg, wired)
  PROVE  /\ releases' \in Seq(Releases) /\ releases' # <<>>
         /\ DOMAIN releases \subseteq DOMAIN releases'
         /\ \A r \in DOMAIN releases : releases'[r] = releases[r]
         /\ \A r \in DOMAIN releases' \ DOMAIN releases :
              releases'[r] = [registered |-> reg, wired |-> wired]
  <1>1. [registered |-> reg, wired |-> wired] \in Releases
    BY DEF Releases
  <1> QED BY <1>1 DEF Shape, Cut

(* The tree has a last release, and it is one of Releases.                  *)
LEMMA TreeShape ==
  ASSUME Shape
  PROVE  /\ Last(releases) \in Releases
         /\ \E r \in DOMAIN releases : Last(releases) = releases[r]
  <1>1. Len(releases) \in DOMAIN releases
    BY DEF Shape
  <1> QED BY <1>1 DEF Shape, Last

(* Cutting a release keeps the invariant if it imports what it registers.   *)
LEMMA CutTypeInv ==
  ASSUME TypeInv, NEW reg \in Seq(Names), NEW wired \in SUBSET Products, Cut(reg, wired),
         \A i \in DOMAIN reg : Manifest[reg[i]].key \in wired
  PROVE  TypeInv'
  <1>1. /\ releases' \in Seq(Releases) /\ releases' # <<>>
        /\ DOMAIN releases \subseteq DOMAIN releases'
        /\ \A r \in DOMAIN releases : releases'[r] = releases[r]
        /\ \A r \in DOMAIN releases' \ DOMAIN releases :
             releases'[r] = [registered |-> reg, wired |-> wired]
    BY CutGrows DEF TypeInv
  <1>2. UNCHANGED <<replica, permission, grants, exists, seeding, boots, failures>>
    BY DEF Cut
  <1>3. Shape'
    BY <1>1, <1>2 DEF TypeInv, Shape
  <1>4. Wired'
    <2>1. ASSUME NEW r \in DOMAIN releases', NEW i \in DOMAIN releases'[r].registered
          PROVE  Manifest[releases'[r].registered[i]].key \in releases'[r].wired
      <3>1. CASE r \in DOMAIN releases
        BY <1>1, <2>1, <3>1 DEF TypeInv, Wired
      <3>2. CASE r \notin DOMAIN releases
        <4>1. releases'[r] = [registered |-> reg, wired |-> wired]
          BY <1>1, <3>2
        <4> QED BY <2>1, <4>1
      <3> QED BY <3>1, <3>2
    <2> QED BY <2>1 DEF Wired
  <1>5. Placed'
    BY <1>1, <1>2 DEF TypeInv, Placed
  <1>6. Granted' /\ Counted'
    BY <1>2 DEF TypeInv, Granted, Counted
  <1> QED BY <1>3, <1>4, <1>5, <1>6 DEF TypeInv

(* What the generator and the developers cut imports what it registers.     *)
LEMMA TreeCuts ==
  ASSUME TypeInv, TreeStep
  PROVE  \E reg \in Seq(Names), wired \in SUBSET Products :
           /\ Cut(reg, wired)
           /\ \A i \in DOMAIN reg : Manifest[reg[i]].key \in wired
  <1> DEFINE Cuts(reg, wired) ==
        Cut(reg, wired) /\ \A i \in DOMAIN reg : Manifest[reg[i]].key \in wired
  <1> SUFFICES \E reg \in Seq(Names), wired \in SUBSET Products : Cuts(reg, wired)
    OBVIOUS
  <1> DEFINE tree == Last(releases)
  <1>1. /\ tree \in Releases
        /\ \A i \in DOMAIN tree.registered : Manifest[tree.registered[i]].key \in tree.wired
    <2>1. PICK r \in DOMAIN releases : tree = releases[r]
      BY TreeShape DEF TypeInv
    <2> QED BY <2>1, TreeShape DEF TypeInv, Wired
  <1> HIDE DEF tree
  <1>2. tree.registered \in Seq(Names) /\ tree.wired \in SUBSET Products
    BY <1>1 DEF Releases
  <1>3. ASSUME NEW n \in Names
        PROVE  /\ Append(tree.registered, n) \in Seq(Names)
               /\ \A i \in DOMAIN Append(tree.registered, n) :
                    \/ i \in DOMAIN tree.registered /\ Append(tree.registered, n)[i] = tree.registered[i]
                    \/ Append(tree.registered, n)[i] = n
    BY <1>2
  <1>4. ASSUME NEW k \in Generated, Generate(k)
        PROVE  \E reg \in Seq(Names), wired \in SUBSET Products : Cuts(reg, wired)
    <2>1. k \in Names /\ Manifest[k].key = k
      BY CatalogueAssumption
      DEF Names, Manifest, First, ToSet, calendarManifest, meetManifest, driveManifest, Scaffold
    <2>2. tree.wired \cup {k} \in SUBSET Products
      BY <1>2, <2>1 DEF Products
    <2>3. CASE tree.registered = First
      <3>1. Cut(Append(tree.registered, k), tree.wired \cup {k})
        BY <1>4, <2>3 DEF Generate, tree
      <3>2. \A i \in DOMAIN Append(tree.registered, k) :
              Manifest[Append(tree.registered, k)[i]].key \in tree.wired \cup {k}
        BY <1>1, <1>3, <2>1
      <3> QED BY <1>3, <2>1, <2>2, <3>1, <3>2
    <2>4. CASE tree.registered # First
      <3>1. Cut(tree.registered, tree.wired \cup {k})
        BY <1>4, <2>4 DEF Generate, tree
      <3> QED BY <1>1, <1>2, <2>2, <3>1
    <2> QED BY <2>3, <2>4
  <1>5. ASSUME NEW n \in DOMAIN Drafts, AddByHand(n)
        PROVE  \E reg \in Seq(Names), wired \in SUBSET Products : Cuts(reg, wired)
    <2>1. n \in Names /\ Manifest[n] = Drafts[n]
      BY CatalogueAssumption DEF Names, Manifest, First, ToSet
    <2>2. tree.wired \cup {Drafts[n].key} \in SUBSET Products
      BY <1>2 DEF Products
    <2>3. Cut(Append(tree.registered, n), tree.wired \cup {Drafts[n].key})
      BY <1>5 DEF AddByHand, tree
    <2>4. \A i \in DOMAIN Append(tree.registered, n) :
            Manifest[Append(tree.registered, n)[i]].key \in tree.wired \cup {Drafts[n].key}
      BY <1>1, <1>3, <2>1
    <2> QED BY <1>3, <2>1, <2>2, <2>3, <2>4
  <1> QED BY <1>4, <1>5 DEF TreeStep

(* A replica that moves within what its release registers stays well-placed. *)
LEMMA MoveShape ==
  ASSUME Shape, Placed, NEW p \in Replicas, NEW new \in ReplicaStates, Move(p, new),
         new.release \in DOMAIN releases,
         ToSet(new.todo) \subseteq ToSet(releases[new.release].registered),
         UNCHANGED releases
  PROVE  Placed' /\ replica' \in [Replicas -> ReplicaStates]
  <1>1. replica' \in [Replicas -> ReplicaStates]
    BY DEF Shape, Move
  <1>2. \A q \in Replicas : replica'[q] = IF q = p THEN new ELSE replica[q]
    BY DEF Shape, Move
  <1> QED BY <1>1, <1>2 DEF Placed

(* A catalogue that only grows, with nothing granted, keeps the rest.       *)
LEMMA GrownTypeInv ==
  ASSUME TypeInv, replica' \in [Replicas -> ReplicaStates], Placed',
         DOMAIN permission \subseteq DOMAIN permission',
         UNCHANGED <<releases, grants, exists, seeding>>,
         boots' \in 0..MaxBoots, failures' \in 0..MaxFailures
  PROVE  TypeInv'
  BY DEF TypeInv, Shape, Wired, Granted, Counted

(* What a replica's todo holds is among the names.                          *)
LEMMA TodoShape ==
  ASSUME TypeInv, NEW p \in Replicas
  PROVE  /\ replica[p] \in ReplicaStates
         /\ releases[replica[p].release] \in Releases
         /\ replica[p].todo # <<>> =>
              /\ Head(replica[p].todo) \in ToSet(replica[p].todo)
              /\ ToSet(replica[p].todo) \subseteq {Head(replica[p].todo)} \cup ToSet(Tail(replica[p].todo))
              /\ ToSet(Tail(replica[p].todo)) \subseteq ToSet(replica[p].todo)
              /\ Tail(replica[p].todo) \in Seq(Names)
              /\ Head(replica[p].todo) \in Names
  <1>1. replica[p] \in ReplicaStates /\ releases[replica[p].release] \in Releases
    BY DEF TypeInv, Shape, Placed
  <1>2. ASSUME NEW s \in Seq(Names), s # <<>>
        PROVE  /\ Head(s) \in ToSet(s) /\ Head(s) \in Names /\ Tail(s) \in Seq(Names)
               /\ ToSet(s) \subseteq {Head(s)} \cup ToSet(Tail(s))
               /\ ToSet(Tail(s)) \subseteq ToSet(s)
    <2>1. /\ Head(s) = s[1] /\ 1 \in DOMAIN s /\ Head(s) \in Names
          /\ Tail(s) \in Seq(Names) /\ DOMAIN Tail(s) = 1..(Len(s) - 1)
          /\ DOMAIN s = 1..Len(s) /\ Len(s) \in Nat
          /\ \A i \in 1..(Len(s) - 1) : Tail(s)[i] = s[i + 1]
      BY <1>2
    <2>2. ASSUME NEW i \in DOMAIN s, i # 1
          PROVE  s[i] \in ToSet(Tail(s))
      <3>1. i - 1 \in DOMAIN Tail(s) /\ Tail(s)[i - 1] = s[i]
        BY <2>1, <2>2
      <3> QED BY <3>1 DEF ToSet
    <2>3. ASSUME NEW i \in DOMAIN Tail(s)
          PROVE  Tail(s)[i] \in ToSet(s)
      <3>1. i + 1 \in DOMAIN s /\ Tail(s)[i] = s[i + 1]
        BY <2>1
      <3> QED BY <3>1 DEF ToSet
    <2> QED BY <2>1, <2>2, <2>3 DEF ToSet
  <1> QED BY <1>1, <1>2 DEF ReplicaStates

(* A process starts, validates, or begins to listen.                        *)
LEMMA BootTypeInv ==
  ASSUME TypeInv, NEW p \in Replicas,
         (\E r \in DOMAIN releases : Boot(p, r)) \/ Validate(p) \/ Listen(p)
  PROVE  TypeInv'
  <1>1. replica[p] \in ReplicaStates /\ releases[replica[p].release] \in Releases
    BY TodoShape
  <1>2. boots' \in 0..MaxBoots
    <2>1. boots' = boots \/ (boots < MaxBoots /\ boots' = boots + 1)
      BY DEF Boot, Validate, Listen
    <2> QED BY <2>1, CatalogueAssumption DEF TypeInv, Counted
  <1>3. UNCHANGED <<releases, permission, grants, exists, seeding, failures>>
    BY DEF Boot, Validate, Listen
  <1> DEFINE MovesWell ==
        \E new \in ReplicaStates :
          /\ Move(p, new)
          /\ new.release \in DOMAIN releases
          /\ ToSet(new.todo) \subseteq ToSet(releases[new.release].registered)
  <1>4. MovesWell
    <2>1. ASSUME NEW r \in DOMAIN releases, Boot(p, r)
          PROVE  MovesWell
      <3> DEFINE new == [at |-> "boot", release |-> r, todo |-> <<>>]
      <3>1. new \in ReplicaStates /\ ToSet(new.todo) = {}
        BY DEF ReplicaStates, Positions, ToSet, TypeInv, Shape
      <3>2. Move(p, new) /\ new.release = r
        BY <2>1 DEF Boot
      <3> HIDE DEF new
      <3> QED BY <3>1, <3>2
    <2>2. CASE Validate(p)
      <3> DEFINE r == replica[p].release
      <3> DEFINE passed == [replica[p] EXCEPT !.at = "sync", !.todo = releases[r].registered]
      <3> DEFINE stopped == [replica[p] EXCEPT !.at = "refused"]
      <3>1. passed \in ReplicaStates /\ passed.release = r /\ passed.todo = releases[r].registered
        BY <1>1 DEF ReplicaStates, Positions, Releases
      <3>2. stopped \in ReplicaStates /\ stopped.release = r /\ stopped.todo = replica[p].todo
        BY <1>1 DEF ReplicaStates, Positions
      <3>3. Move(p, passed) \/ Move(p, stopped)
        BY <2>2 DEF Validate
      <3>4. r \in DOMAIN releases /\ ToSet(replica[p].todo) \subseteq ToSet(releases[r].registered)
        BY DEF TypeInv, Placed
      <3> HIDE DEF passed, stopped
      <3> QED BY <3>1, <3>2, <3>3, <3>4
    <2>3. CASE Listen(p)
      <3> DEFINE new == [replica[p] EXCEPT !.at = "up"]
      <3>1. new \in ReplicaStates /\ new.release = replica[p].release /\ new.todo = replica[p].todo
        BY <1>1 DEF ReplicaStates, Positions
      <3>2. Move(p, new)
        BY <2>3 DEF Listen
      <3> HIDE DEF new
      <3> QED BY <3>1, <3>2 DEF TypeInv, Placed
    <2> QED BY <2>1, <2>2, <2>3
  <1>5. Placed' /\ replica' \in [Replicas -> ReplicaStates]
    BY <1>3, <1>4, MoveShape DEF TypeInv
  <1> QED BY <1>2, <1>3, <1>5, GrownTypeInv DEF TypeInv, Counted

(* A process upserts the rows of the next product, or fails to.             *)
LEMMA SyncTypeInv ==
  ASSUME TypeInv, NEW p \in Replicas, SyncProduct(p) \/ SyncFails(p)
  PROVE  TypeInv'
  <1> DEFINE todo == replica[p].todo
  <1>1. /\ replica[p] \in ReplicaStates
        /\ ToSet(Tail(todo)) \subseteq ToSet(todo) /\ Tail(todo) \in Seq(Names)
    BY TodoShape DEF SyncProduct, SyncFails
  <1>2. UNCHANGED <<releases, grants, exists, seeding, boots>>
    BY DEF SyncProduct, SyncFails
  <1>3. failures' \in 0..MaxFailures
    <2>1. failures' = failures \/ (failures < MaxFailures /\ failures' = failures + 1)
      BY DEF SyncProduct, SyncFails
    <2> QED BY <2>1, CatalogueAssumption DEF TypeInv, Counted
  <1>4. DOMAIN permission \subseteq DOMAIN permission'
    <2>1. PICK rows : permission' = Upserted(permission, rows)
      <3>1. CASE SyncProduct(p)
        BY <3>1 DEF SyncProduct
      <3>2. CASE SyncFails(p)
        BY <3>2 DEF SyncFails
      <3> QED BY <3>1, <3>2
    <2> QED BY <2>1 DEF Upserted
  <1>5. \E new \in ReplicaStates :
          /\ Move(p, new)
          /\ new.release = replica[p].release
          /\ ToSet(new.todo) \subseteq ToSet(todo)
    <2>1. CASE SyncProduct(p)
      <3> DEFINE new == [replica[p] EXCEPT !.todo = Tail(@)]
      <3>1. new \in ReplicaStates /\ new.release = replica[p].release /\ new.todo = Tail(todo)
        BY <1>1 DEF ReplicaStates
      <3>2. Move(p, new)
        BY <2>1 DEF SyncProduct
      <3> HIDE DEF new
      <3> QED BY <1>1, <3>1, <3>2
    <2>2. CASE SyncFails(p)
      <3> DEFINE new == [replica[p] EXCEPT !.at = "up"]
      <3>1. new \in ReplicaStates /\ new.release = replica[p].release /\ new.todo = todo
        BY <1>1 DEF ReplicaStates, Positions
      <3>2. Move(p, new)
        BY <2>2 DEF SyncFails
      <3> HIDE DEF new
      <3> QED BY <3>1, <3>2
    <2> QED BY <2>1, <2>2
  <1>6. Placed' /\ replica' \in [Replicas -> ReplicaStates]
    BY <1>2, <1>5, MoveShape DEF TypeInv, Placed
  <1> QED BY <1>2, <1>3, <1>4, <1>6, GrownTypeInv DEF TypeInv, Counted

(* The defaults of what a release registers are granted to system roles.    *)
LEMMA DefaultsShape ==
  ASSUME NEW names \in Seq(Names), NEW g \in Defaults(ListOf(names))
  PROVE  g \in Roles \X {g[2]}
  <1>1. PICK d \in Declarations(ListOf(names)) :
          g \in {<<role, Declared(ListOf(names), d).key>> : role \in Declared(ListOf(names), d).defaultRoles}
    BY DEF Defaults
  <1>2. d[1] \in DOMAIN names /\ d[2] \in DOMAIN Manifest[names[d[1]]].permissions
    BY DeclarationParts DEF ListOf
  <1>3. Declared(ListOf(names), d) \in ToSet(Manifest[names[d[1]]].permissions)
    BY <1>2 DEF Declared, ListOf, ToSet
  <1>4. names[d[1]] \in Names
    BY <1>2
  <1>5. Declared(ListOf(names), d).defaultRoles \subseteq Roles
    BY <1>3, <1>4, ManifestShape DEF WellFormed
  <1> QED BY <1>1, <1>5

(* Registering a workspace grants only what the catalogue holds.            *)
LEMMA RegisterTypeInv ==
  ASSUME TypeInv, NEW p \in Replicas, NEW t \in Tenants, Register(p, t)
  PROVE  TypeInv'
  <1>1. releases[replica[p].release].registered \in Seq(Names)
    BY TodoShape DEF Releases
  <1>2. Defaults(Running(p)) \subseteq Roles \X DOMAIN permission
    BY <1>1, DefaultsShape DEF Register, Running, manifests
  <1>3. UNCHANGED <<releases, replica, permission, seeding, boots, failures>>
    BY DEF Register
  <1>4. grants' = [grants EXCEPT ![t] = Defaults(Running(p))] /\ exists' = exists \cup {t}
    BY DEF Register
  <1>5. grants' = [u \in Tenants |-> grants'[u]]
        /\ \A u \in Tenants : grants'[u] = grants[u] \/ grants'[u] = Defaults(Running(p))
    BY <1>4 DEF TypeInv, Shape
  <1>6. Shape' /\ Wired' /\ Placed'
    BY <1>3, <1>5 DEF TypeInv, Shape, Wired, Placed
  <1>7. Granted'
    BY <1>2, <1>3, <1>5 DEF TypeInv, Granted
  <1>8. Counted'
    BY <1>3, <1>4 DEF TypeInv, Counted
  <1> QED BY <1>6, <1>7, <1>8 DEF TypeInv

(* The seed adds the permissions it knows before it grants any of them.     *)
LEMMA SeedTypeInv ==
  ASSUME TypeInv, SeedStep
  PROVE  TypeInv'
  <1>1. PICK n \in 0..Len(SeedPermissions) :
          SeedWorkspace \/ SeedPermission(n) \/ SeedGrant(n)
    <2>1. 0 \in 0..Len(SeedPermissions)
      BY DEF SeedPermissions
    <2> QED BY <2>1 DEF SeedStep
  <1> DEFINE seeds == {SeedPermissions[i] : i \in 1..n}
  <1>2. /\ n \in Nat /\ n <= Len(SeedPermissions) /\ seeds \subseteq ToSet(SeedPermissions)
        /\ n = Len(SeedPermissions) => seeds = ToSet(SeedPermissions)
    <2>1. Len(SeedPermissions) = 12 /\ DOMAIN SeedPermissions = 1..12
      BY DEF SeedPermissions
    <2> QED BY <2>1 DEF ToSet
  <1>3. UNCHANGED <<releases, replica, boots>>
    BY <1>1 DEF SeedWorkspace, SeedPermission, SeedGrant
  <1>4. seeding' \in 0..3 /\ failures' \in 0..MaxFailures
    <2>1. \E from \in 0..2, whole \in {1, Len(SeedPermissions)} : SeedRuns(from, n, whole) \/ SeedRuns(from, 1, whole)
      BY <1>1 DEF SeedWorkspace, SeedPermission, SeedGrant
    <2>2. /\ failures' = failures \/ (failures < MaxFailures /\ failures' = failures + 1)
          /\ \E from \in 0..2 : seeding' = 0 \/ seeding' = from + 1
      BY <2>1 DEF SeedRuns
    <2> QED BY <2>2, CatalogueAssumption DEF TypeInv, Counted
  <1>5. Shape' /\ Wired' /\ Placed'
    <2>1. grants' = [t \in Tenants |-> grants'[t]]
      BY <1>1 DEF SeedWorkspace, SeedPermission, SeedGrant, TypeInv, Shape
    <2> QED BY <1>3, <2>1 DEF TypeInv, Shape, Wired, Placed
  <1>6. exists' \subseteq Tenants
    BY <1>1, CatalogueAssumption DEF SeedWorkspace, SeedPermission, SeedGrant, TypeInv, Counted
  <1>7. Granted'
    <2>1. CASE SeedPermission(n)
      <3>1. DOMAIN permission' = seeds \cup DOMAIN permission /\ UNCHANGED grants
        BY <2>1 DEF SeedPermission, Upserted
      <3>2. seeding' > 0 => n = Len(SeedPermissions)
        BY <1>2, <2>1 DEF SeedPermission, SeedRuns
      <3>3. seeding' > 0 => ToSet(SeedPermissions) \subseteq DOMAIN permission'
        BY <1>2, <3>1, <3>2
      <3> QED BY <3>1, <3>3 DEF TypeInv, Granted
    <2>2. CASE SeedWorkspace
      BY <2>2 DEF SeedWorkspace, SeedRuns, TypeInv, Granted
    <2>3. CASE SeedGrant(n)
      <3>1. UNCHANGED permission /\ seeding = 2
        BY <2>3 DEF SeedGrant, SeedRuns
      <3>2. ToSet(SeedPermissions) \subseteq DOMAIN permission
        BY <3>1 DEF TypeInv, Granted
      <3> DEFINE granted(i) == SeedGrants(SeedPermissions[i]) \X {SeedPermissions[i]}
      <3>3. \A i \in 1..n : granted(i) \subseteq Roles \X DOMAIN permission
        BY <1>2, <3>2 DEF SeedGrants, Admins, Roles
      <3>4. grants' = [grants EXCEPT ![Seeded] = @ \cup UNION {granted(i) : i \in 1..n}]
        BY <2>3 DEF SeedGrant
      <3> HIDE DEF granted
      <3>5. \A t \in Tenants : grants'[t] \subseteq Roles \X DOMAIN permission
        BY <3>3, <3>4 DEF TypeInv, Shape, Granted
      <3> QED BY <3>1, <3>2, <3>5 DEF Granted
    <2> QED BY <1>1, <2>1, <2>2, <2>3
  <1> QED BY <1>4, <1>5, <1>6, <1>7, <1>3 DEF TypeInv, Counted

(* Every step keeps the types.                                              *)
LEMMA NextTypeInv == TypeInv /\ [Next]_vars => TypeInv'
  <1> SUFFICES ASSUME TypeInv, [Next]_vars PROVE TypeInv'
    OBVIOUS
  <1>1. CASE TreeStep
    BY <1>1, TreeCuts, CutTypeInv
  <1>2. CASE SeedStep
    BY <1>2, SeedTypeInv
  <1>3. ASSUME NEW p \in Replicas, (\E r \in DOMAIN releases : Boot(p, r)) \/ BootStep(p)
        PROVE  TypeInv'
    BY <1>3, BootTypeInv, SyncTypeInv DEF BootStep
  <1>4. ASSUME NEW p \in Replicas, NEW t \in Tenants, Register(p, t)
        PROVE  TypeInv'
    BY <1>4, RegisterTypeInv
  <1>5. CASE UNCHANGED vars
    BY <1>5 DEF vars, TypeInv, Shape, Wired, Placed, Granted, Counted
  <1> QED BY <1>1, <1>2, <1>3, <1>4, <1>5 DEF Next

(* TypeInv is an invariant.                                                 *)
LEMMA TypeInvHolds == Spec => []TypeInv
  BY InitTypeInv, NextTypeInv, PTL DEF Spec

(* Types of the tables and of what replicas and seed do; and every release  *)
(* imports the modules of the products it registers, and a workspace holds  *)
(* only permissions the catalogue has, whoever registered or seeded it.     *)
THEOREM TypeCorrect == Spec => []TypeOK
  BY TypeInvHolds, TypeInvMeansTypeOK, PTL

-----------------------------------------------------------------------------
(* What serves is sound, and catalogued.                                    *)

Owned == \A key \in DOMAIN permission : permission[key] = key[1]

Validated ==
  \A p \in Replicas : replica[p].at \in {"sync", "up"} => Errors(Running(p)) = {}

Catalogued(m) == \A i \in DOMAIN m.permissions : m.permissions[i].key \in DOMAIN permission

Registered(p) == releases[replica[p].release].registered

Synced ==
  \A p \in Replicas :
    replica[p].at = "sync" \/ (replica[p].at = "up" /\ replica[p].todo = <<>>) =>
      \A n \in ToSet(Registered(p)) : n \in ToSet(replica[p].todo) \/ Catalogued(Manifest[n])

CatInv == Owned /\ Validated /\ Synced

(* The manifests a replica runs are those its release registers.            *)
LEMMA RunningShape ==
  ASSUME TypeInv, NEW p \in Replicas
  PROVE  /\ Running(p) = ListOf(Registered(p))
         /\ DOMAIN Running(p) \subseteq Nat
         /\ ToSet(Running(p)) = {Manifest[n] : n \in ToSet(Registered(p))}
         /\ ToSet(Registered(p)) \subseteq Names
  <1>1. Registered(p) \in Seq(Names)
    BY TodoShape DEF Registered, Releases
  <1>2. Running(p) = ListOf(Registered(p))
    BY DEF Running, manifests, Registered
  <1>3. /\ DOMAIN Running(p) = DOMAIN Registered(p)
        /\ \A i \in DOMAIN Registered(p) : Running(p)[i] = Manifest[Registered(p)[i]]
    BY <1>2 DEF ListOf
  <1>4. DOMAIN Running(p) \subseteq Nat /\ ToSet(Registered(p)) \subseteq Names
    BY <1>1, <1>3 DEF ToSet
  <1>5. ToSet(Running(p)) = {Manifest[n] : n \in ToSet(Registered(p))}
    BY <1>3 DEF ToSet
  <1> QED BY <1>2, <1>4, <1>5

(* In a validated release, permissions carry their product's name.          *)
LEMMA RunningNamespaces ==
  ASSUME TypeInv, NEW p \in Replicas, Errors(Running(p)) = {},
         NEW m \in ToSet(Running(p)), NEW i \in DOMAIN m.permissions
  PROVE  m.permissions[i].key[1] = m.key
  <1>1. PICK j \in DOMAIN Running(p) : Running(p)[j] = m
    BY DEF ToSet
  <1>2. <<j, i>> \in Declarations(Running(p)) /\ Declared(Running(p), <<j, i>>) = m.permissions[i]
    BY <1>1, DeclarationShape
  <1> QED BY <1>1, <1>2, Namespaces DEF Errors

(* At the end of its sync, a validated release has its rows under its own   *)
(* products, and nothing else is missing from the invariant's promise.      *)
LEMMA CatInvMeansSafe ==
  ASSUME TypeInv, CatInv
  PROVE  RunningReleasesAreSound /\ ServedIsCatalogued
  <1>1. ASSUME NEW p \in Replicas, replica[p].at = "up"
        PROVE  Sound(Running(p))
    BY <1>1, RunningShape, ValidMeansSound DEF CatInv, Validated
  <1>2. ASSUME NEW p \in Replicas, replica[p].at = "up", replica[p].todo = <<>>,
               NEW m \in ToSet(Running(p)), NEW i \in DOMAIN m.permissions
        PROVE  /\ m.permissions[i].key \in DOMAIN permission
               /\ permission[m.permissions[i].key] = m.key
    <2>1. PICK n \in ToSet(Registered(p)) : m = Manifest[n]
      BY RunningShape
    <2>2. ToSet(replica[p].todo) = {}
      BY <1>2 DEF ToSet
    <2>3. Catalogued(m)
      BY <1>2, <2>1, <2>2 DEF CatInv, Synced
    <2>4. m.permissions[i].key[1] = m.key
      BY <1>2, RunningNamespaces DEF CatInv, Validated
    <2> QED BY <2>3, <2>4 DEF Catalogued, CatInv, Owned
  <1> QED BY <1>1, <1>2 DEF RunningReleasesAreSound, ServedIsCatalogued

(* Nothing is up and the catalogue is empty at the start.                   *)
LEMMA InitCatInv == Init => CatInv
  BY DEF Init, CatInv, Owned, Validated, Synced

(* Steps that leave releases and replicas alone, and only add rows that     *)
(* carry their product's name, keep the invariant.                          *)
LEMMA GrownCatInv ==
  ASSUME CatInv, UNCHANGED <<releases, replica>>,
         DOMAIN permission \subseteq DOMAIN permission', Owned'
  PROVE  CatInv'
  <1>1. \A p \in Replicas : Running(p)' = Running(p) /\ Registered(p)' = Registered(p)
    BY DEF Running, manifests, Registered
  <1>2. \A m : Catalogued(m) => Catalogued(m)'
    BY DEF Catalogued
  <1>3. Validated'
    BY <1>1 DEF CatInv, Validated
  <1>4. Synced'
    BY <1>1, <1>2 DEF CatInv, Synced
  <1> QED BY <1>3, <1>4 DEF CatInv

(* A release a replica runs is not changed by later ones.                   *)
LEMMA TreeCatInv ==
  ASSUME TypeInv, CatInv, TreeStep
  PROVE  CatInv'
  <1>1. PICK reg \in Seq(Names), wired \in SUBSET Products : Cut(reg, wired)
    BY TreeCuts
  <1>2. \A r \in DOMAIN releases : releases'[r] = releases[r]
    BY <1>1, CutGrows DEF TypeInv
  <1>3. UNCHANGED <<replica, permission>>
    BY <1>1 DEF Cut
  <1>4. \A p \in Replicas : Running(p)' = Running(p) /\ Registered(p)' = Registered(p)
    BY <1>2, <1>3 DEF TypeInv, Placed, Running, manifests, Registered
  <1>5. Owned'
    BY <1>3 DEF CatInv, Owned
  <1>6. Validated'
    BY <1>3, <1>4 DEF CatInv, Validated
  <1>7. Synced'
    BY <1>3, <1>4 DEF CatInv, Synced, Catalogued
  <1> QED BY <1>5, <1>6, <1>7 DEF CatInv

(* A process starts with nothing validated, synchronises only what it has   *)
(* validated, and listens once nothing is left to do.                       *)
LEMMA BootCatInv ==
  ASSUME TypeInv, CatInv, NEW p \in Replicas,
         (\E r \in DOMAIN releases : Boot(p, r)) \/ Validate(p) \/ Listen(p)
  PROVE  CatInv'
  <1>1. UNCHANGED <<releases, permission>>
    BY DEF Boot, Validate, Listen
  <1>2. Owned' /\ \A m : Catalogued(m)' <=> Catalogued(m)
    BY <1>1 DEF CatInv, Owned, Catalogued
  <1>3. PICK new : Move(p, new)
    BY DEF Boot, Validate, Listen
  <1>4. \A q \in Replicas : replica'[q] = IF q = p THEN new ELSE replica[q]
    BY <1>3 DEF TypeInv, Shape, Move
  <1>5. \A q \in Replicas \ {p} :
          replica'[q] = replica[q] /\ Running(q)' = Running(q) /\ Registered(q)' = Registered(q)
    BY <1>1, <1>4 DEF Running, manifests, Registered
  <1> DEFINE Good(st) ==
        /\ st.at \in {"sync", "up"} => Errors(ListOf(releases[st.release].registered)) = {}
        /\ st.at = "sync" \/ (st.at = "up" /\ st.todo = <<>>) =>
             \A n \in ToSet(releases[st.release].registered) :
               n \in ToSet(st.todo) \/ Catalogued(Manifest[n])
  <1>6. Good(replica'[p])
    <2>1. CASE \E r \in DOMAIN releases : Boot(p, r)
      <3>1. replica'[p].at = "boot"
        BY <2>1 DEF Boot, Move, TypeInv, Shape
      <3> QED BY <3>1
    <2>2. CASE Validate(p)
      <3>1. replica[p] \in ReplicaStates
        BY TodoShape
      <3>2. CASE Errors(Running(p)) = {} /\ Registers(Running(p))
        <4>1. /\ replica'[p].at = "sync" /\ replica'[p].release = replica[p].release
              /\ replica'[p].todo = releases[replica[p].release].registered
          BY <2>2, <3>1, <3>2 DEF Validate, Move, TypeInv, Shape, ReplicaStates
        <4> QED BY <3>2, <4>1 DEF Running, manifests
      <3>3. CASE ~(Errors(Running(p)) = {} /\ Registers(Running(p)))
        <4>1. replica'[p].at = "refused"
          BY <2>2, <3>1, <3>3 DEF Validate, Move, TypeInv, Shape, ReplicaStates
        <4> QED BY <4>1
      <3> QED BY <3>2, <3>3
    <2>3. CASE Listen(p)
      <3>1. replica[p] \in ReplicaStates
        BY TodoShape
      <3>2. /\ replica'[p].at = "up" /\ replica[p].at = "sync"
            /\ replica'[p].release = replica[p].release /\ replica'[p].todo = replica[p].todo
        BY <2>3, <3>1 DEF Listen, Move, TypeInv, Shape, ReplicaStates
      <3> QED BY <3>2 DEF CatInv, Validated, Synced, Running, manifests, Registered
    <2> QED BY <2>1, <2>2, <2>3
  <1>7. Validated'
    <2>1. replica'[p].at \in {"sync", "up"} => Errors(Running(p)') = {}
      BY <1>1, <1>6 DEF Running, manifests
    <2> QED BY <1>5, <2>1 DEF CatInv, Validated
  <1>8. Synced'
    <2>1. \A q \in Replicas \ {p} :
            replica'[q].at = "sync" \/ (replica'[q].at = "up" /\ replica'[q].todo = <<>>) =>
              \A n \in ToSet(Registered(q)') : n \in ToSet(replica'[q].todo) \/ Catalogued(Manifest[n])
      BY <1>5 DEF CatInv, Synced
    <2>2. replica'[p].at = "sync" \/ (replica'[p].at = "up" /\ replica'[p].todo = <<>>) =>
            \A n \in ToSet(Registered(p)') : n \in ToSet(replica'[p].todo) \/ Catalogued(Manifest[n])
      BY <1>1, <1>6 DEF Registered
    <2> QED BY <1>2, <2>1, <2>2 DEF Synced
  <1> QED BY <1>2, <1>7, <1>8 DEF CatInv

(* The rows of a product's first n permissions.                             *)
LEMMA RowShape ==
  ASSUME NEW m, NEW n
  PROVE  \A key \in DOMAIN permissionCatalogue(m, n) :
           /\ permissionCatalogue(m, n)[key] = m.key
           /\ \E i \in 1..n : key = m.permissions[i].key
  BY DEF permissionCatalogue

(* A well-formed product's permissions are numbered.                        *)
LEMMA Numbered ==
  ASSUME NEW k \in Names
  PROVE  /\ DOMAIN Manifest[k].permissions = 1..Len(Manifest[k].permissions)
         /\ Len(Manifest[k].permissions) \in Nat
  <1> DEFINE ps == Manifest[k].permissions
  <1>1. ps \in Seq(ToSet(ps))
    BY ManifestShape DEF WellFormed
  <1> HIDE DEF ps
  <1>2. DOMAIN ps = 1..Len(ps) /\ Len(ps) \in Nat
    BY <1>1
  <1> QED BY <1>2 DEF ps

(* The rows of n permissions of a validated product carry its name.         *)
LEMMA CatalogueRows ==
  ASSUME TypeInv, CatInv, NEW p \in Replicas, replica[p].at = "sync", replica[p].todo # <<>>,
         NEW n \in 0..Len(Manifest[Head(replica[p].todo)].permissions),
         permission' = Upserted(permission, permissionCatalogue(Manifest[Head(replica[p].todo)], n))
  PROVE  Owned' /\ DOMAIN permission \subseteq DOMAIN permission'
  <1> DEFINE m == Manifest[Head(replica[p].todo)]
  <1> DEFINE rows == permissionCatalogue(m, n)
  <1>1. /\ Head(replica[p].todo) \in ToSet(replica[p].todo)
        /\ Head(replica[p].todo) \in Names
    BY TodoShape
  <1>2. m \in ToSet(Running(p))
    BY <1>1, RunningShape DEF TypeInv, Placed, Registered
  <1>3. \A i \in DOMAIN m.permissions : m.permissions[i].key[1] = m.key
    BY <1>2, RunningNamespaces DEF CatInv, Validated
  <1>4. DOMAIN m.permissions = 1..Len(m.permissions) /\ Len(m.permissions) \in Nat
    BY <1>1, Numbered
  <1> HIDE DEF m
  <1>5. \A key \in DOMAIN rows : rows[key] = m.key /\ \E i \in 1..n : key = m.permissions[i].key
    BY RowShape
  <1> HIDE DEF rows
  <1>6. \A key \in DOMAIN rows : rows[key] = key[1]
    <2>1. \A i \in 1..n : i \in DOMAIN m.permissions
      BY <1>4 DEF m
    <2> QED BY <1>3, <1>5, <2>1
  <1>7. permission' = Upserted(permission, rows)
    BY DEF rows, m
  <1> QED BY <1>6, <1>7 DEF Upserted, CatInv, Owned

(* A product leaves the list once all of its rows are there; a failure      *)
(* ends the list early.                                                     *)
LEMMA SyncCatInv ==
  ASSUME TypeInv, CatInv, NEW p \in Replicas, SyncProduct(p) \/ SyncFails(p)
  PROVE  CatInv'
  <1> DEFINE todo == replica[p].todo
  <1>0. PICK h : h = Head(todo)
    OBVIOUS
  <1> DEFINE m == Manifest[h]
  <1>1. /\ replica[p] \in ReplicaStates /\ h \in Names
        /\ ToSet(todo) \subseteq {h} \cup ToSet(Tail(todo))
        /\ replica[p].at = "sync" /\ todo # <<>>
    BY <1>0, TodoShape DEF SyncProduct, SyncFails
  <1>2. DOMAIN m.permissions = 1..Len(m.permissions) /\ Len(m.permissions) \in Nat
    BY <1>1, Numbered
  <1>3. UNCHANGED releases
    BY DEF SyncProduct, SyncFails
  <1>4. Owned' /\ DOMAIN permission \subseteq DOMAIN permission'
    <2>1. PICK n \in 0..Len(m.permissions) :
            permission' = Upserted(permission, permissionCatalogue(m, n))
      <3>1. SyncProduct(p) => permission' =
              Upserted(permission, permissionCatalogue(m, Len(m.permissions)))
        BY <1>0 DEF SyncProduct
      <3>2. SyncFails(p) => \E n \in 0..(Len(m.permissions) - 1) :
              permission' = Upserted(permission, permissionCatalogue(m, n))
        BY <1>0 DEF SyncFails
      <3> HIDE DEF m
      <3>3. /\ Len(m.permissions) \in 0..Len(m.permissions)
            /\ 0..(Len(m.permissions) - 1) \subseteq 0..Len(m.permissions)
        BY <1>2
      <3> QED BY <3>1, <3>2, <3>3
    <2> QED BY <1>0, <1>1, <2>1, CatalogueRows
  <1>5. \A x : Catalogued(x) => Catalogued(x)'
    BY <1>4 DEF Catalogued
  <1>6. /\ replica'[p].release = replica[p].release
        /\ \A q \in Replicas \ {p} : replica'[q] = replica[q]
    BY <1>1 DEF SyncProduct, SyncFails, Move, TypeInv, Shape, ReplicaStates
  <1>7. \A q \in Replicas : Running(q)' = Running(q) /\ Registered(q)' = Registered(q)
    BY <1>3, <1>6 DEF Running, manifests, Registered
  <1>8. Validated'
    <2>1. Errors(Running(p)) = {}
      BY <1>1 DEF CatInv, Validated
    <2> QED BY <1>6, <1>7, <2>1 DEF CatInv, Validated
  <1>9. Synced'
    <2>1. CASE SyncProduct(p)
      <3>1. replica'[p].todo = Tail(todo)
        BY <1>1, <2>1 DEF SyncProduct, Move, TypeInv, Shape, ReplicaStates
      <3>2. permission' = Upserted(permission, permissionCatalogue(m, Len(m.permissions)))
        BY <1>0, <2>1 DEF SyncProduct
      <3>3. Catalogued(m)'
        BY <1>2, <3>2 DEF Catalogued, Upserted, permissionCatalogue
      <3>4. \A n \in ToSet(Registered(p)) : n \in ToSet(todo) \/ Catalogued(Manifest[n])
        BY <1>1 DEF CatInv, Synced
      <3>5. \A n \in ToSet(Registered(p)) : n \in ToSet(Tail(todo)) \/ Catalogued(Manifest[n])'
        BY <1>1, <1>5, <3>3, <3>4
      <3>6. \A n \in ToSet(Registered(p)') : n \in ToSet(replica'[p].todo) \/ Catalogued(Manifest[n])'
        BY <1>7, <3>1, <3>5
      <3> QED BY <1>5, <1>6, <1>7, <3>6 DEF CatInv, Synced
    <2>2. CASE SyncFails(p)
      <3>1. replica'[p].at = "up" /\ replica'[p].todo # <<>>
        BY <1>1, <2>2 DEF SyncFails, Move, TypeInv, Shape, ReplicaStates
      <3> QED BY <1>5, <1>6, <1>7, <3>1 DEF CatInv, Synced
    <2> QED BY <2>1, <2>2
  <1> QED BY <1>4, <1>8, <1>9 DEF CatInv

(* The seed names each permission's product as the manifests do.            *)
LEMMA SeedCatInv ==
  ASSUME CatInv, SeedStep
  PROVE  CatInv'
  <1>1. UNCHANGED <<releases, replica>>
    BY DEF SeedStep, SeedWorkspace, SeedPermission, SeedGrant
  <1>2. Owned' /\ DOMAIN permission \subseteq DOMAIN permission'
    <2>1. UNCHANGED permission
          \/ \E keys : permission' = Upserted([key \in keys |-> key[1]], permission)
      BY DEF SeedStep, SeedWorkspace, SeedPermission, SeedGrant
    <2>2. ASSUME NEW keys, permission' = Upserted([key \in keys |-> key[1]], permission)
          PROVE  Owned' /\ DOMAIN permission \subseteq DOMAIN permission'
      BY <2>2 DEF CatInv, Owned, Upserted
    <2>3. CASE UNCHANGED permission
      BY <2>3 DEF CatInv, Owned
    <2> QED BY <2>1, <2>2, <2>3
  <1> QED BY <1>1, <1>2, GrownCatInv

(* Every step keeps the invariant.                                          *)
LEMMA NextCatInv == TypeInv /\ CatInv /\ [Next]_vars => CatInv'
  <1> SUFFICES ASSUME TypeInv, CatInv, [Next]_vars PROVE CatInv'
    OBVIOUS
  <1>1. ASSUME NEW p \in Replicas, (\E r \in DOMAIN releases : Boot(p, r)) \/ BootStep(p)
        PROVE  CatInv'
    BY <1>1, BootCatInv, SyncCatInv DEF BootStep
  <1>2. ASSUME NEW p \in Replicas, NEW t \in Tenants, Register(p, t)
        PROVE  CatInv'
    <2>1. UNCHANGED <<releases, replica, permission>>
      BY <1>2 DEF Register
    <2> QED BY <2>1, GrownCatInv DEF CatInv, Owned
  <1>3. CASE UNCHANGED vars
    BY <1>3, GrownCatInv DEF vars, CatInv, Owned
  <1> QED BY <1>1, <1>2, <1>3, TreeCatInv, SeedCatInv DEF Next

(* Both invariants hold in every state.                                     *)
LEMMA CatInvHolds == Spec => [](TypeInv /\ CatInv)
  BY InitTypeInv, NextTypeInv, InitCatInv, NextCatInv, PTL DEF Spec

(* Whatever developers and the generator put in the tree, and in whatever   *)
(* order replicas boot its releases, a process that serves has a sound set  *)
(* of manifests.                                                            *)
THEOREM OnlySoundServes == Spec => []RunningReleasesAreSound
  BY CatInvHolds, CatInvMeansSafe, PTL

(* A process whose sync completed finds all its permissions in the          *)
(* catalogue under its own products, whatever other releases and the seed   *)
(* write before or after.                                                   *)
THEOREM CatalogueIsComplete == Spec => []ServedIsCatalogued
  BY CatInvHolds, CatInvMeansSafe, PTL
-----------------------------------------------------------------------------
(* What roles hold: nothing but what the manifests of some release fit to   *)
(* run grant them.  The repository's own release is fit, and the seed       *)
(* grants nothing that it does not.                                         *)

Shipped == <<calendarManifest, meetManifest, driveManifest, notesManifest>>

Shipping(ms) ==
  /\ DOMAIN ms \in {1..3, 1..4}
  /\ \A i \in DOMAIN ms : i \in 1..4 /\ ms[i] = Shipped[i]

(* The first release registers these manifests, with or without Notes.      *)
LEMMA FirstRelease ==
  \A names \in {First, Append(First, "notes")} : Shipping(ListOf(names))
  <1> DEFINE one == "notes"
  <1> HIDE DEF one
  <1>1. PICK S : First \in Seq(S) /\ one \in S
    <2>1. First \in Seq({"calendar", "meet", "drive", one})
      BY DEF First
    <2> QED BY <2>1
  <1>2. /\ Append(First, one)[4] = one
        /\ DOMAIN Append(First, one) = 1..4
        /\ \A i \in 1..3 : Append(First, one)[i] = First[i]
    <2>1. Len(First) = 3
      BY DEF First
    <2>2. /\ Append(First, one) \in Seq(S)
          /\ Len(Append(First, one)) = 4
          /\ Append(First, one)[4] = one
          /\ \A i \in 1..3 : Append(First, one)[i] = First[i]
      <3>1. \A s \in Seq(S) : \A e \in S :
              /\ Append(s, e) \in Seq(S)
              /\ Len(Append(s, e)) = Len(s) + 1
              /\ Append(s, e)[Len(s) + 1] = e
              /\ \A i \in 1..Len(s) : Append(s, e)[i] = s[i]
        BY AppendProperties
      <3>2. PICK more : more = Append(First, one)
        OBVIOUS
      <3>3. /\ more \in Seq(S) /\ Len(more) = Len(First) + 1
            /\ more[Len(First) + 1] = one
            /\ \A i \in 1..Len(First) : more[i] = First[i]
        BY <1>1, <3>1, <3>2, Zenon
      <3>4. Len(more) = 4 /\ more[4] = one /\ \A i \in 1..3 : more[i] = First[i]
        BY <2>1, <3>3
      <3> QED BY <3>2, <3>3, <3>4
    <2> QED BY <2>2, LenProperties
  <1>3. DOMAIN First = 1..3 /\ First[1] = "calendar" /\ First[2] = "meet" /\ First[3] = "drive"
    BY DEF First
  <1>4. /\ Shipped[1] = Manifest["calendar"] /\ Shipped[2] = Manifest["meet"]
        /\ Shipped[3] = Manifest["drive"] /\ Shipped[4] = Manifest[one]
    BY KnownManifests DEF Shipped, one
  <1>5. \A i \in 1..4 : i \in 1..3 \/ i = 4
    OBVIOUS
  <1>6. \A i \in 1..3 : i = 1 \/ i = 2 \/ i = 3
    OBVIOUS
  <1> HIDE DEF First, Shipped
  <1>7. Shipping(ListOf(First))
    BY <1>3, <1>4, <1>5, <1>6 DEF Shipping, ListOf
  <1>8. Shipping(ListOf(Append(First, one)))
    BY <1>2, <1>3, <1>4, <1>5, <1>6 DEF Shipping, ListOf
  <1> QED BY <1>7, <1>8 DEF one

(* The shipped manifests have names, schemas and prefixes of their own.     *)
LEMMA ShippedNames ==
  /\ \A i \in 1..4 :
       /\ Shipped[i].key = <<"calendar", "meet", "drive", "notes">>[i]
       /\ Shipped[i].dbSchema = Shipped[i].key /\ Shipped[i].apiPrefix = Shipped[i].key
  /\ \A i, j \in 1..4 : Shipped[i].key = Shipped[j].key => i = j
  <1>1. /\ calendarManifest.key = "calendar" /\ meetManifest.key = "meet"
        /\ driveManifest.key = "drive" /\ notesManifest.key = "notes"
    BY DEF calendarManifest, meetManifest, driveManifest, notesManifest
  <1>2. \A m \in {calendarManifest, meetManifest, driveManifest, notesManifest} :
          m.dbSchema = m.key /\ m.apiPrefix = m.key
    BY DEF calendarManifest, meetManifest, driveManifest, notesManifest
  <1> QED BY <1>1, <1>2 DEF Shipped

Orderly(m, n) ==
  /\ DOMAIN m.permissions = 1..n
  /\ \A i \in 1..n : m.permissions[i].key[1] = m.key
  /\ \A i, j \in 1..n : m.permissions[i].key = m.permissions[j].key => i = j

(* Their permissions carry their names, each once.                          *)
LEMMA ShippedPermissions ==
  \A i \in 1..4 : Orderly(Shipped[i], <<5, 3, 4, 3>>[i])
  <1> USE DEF Orderly, Grant, Key
  <1>1. Orderly(calendarManifest, 5)
    BY DEF calendarManifest
  <1>2. Orderly(meetManifest, 3)
    BY DEF meetManifest
  <1>3. Orderly(driveManifest, 4)
    BY DEF driveManifest
  <1>4. Orderly(notesManifest, 3)
    BY DEF notesManifest
  <1> HIDE DEF Orderly
  <1> QED BY <1>1, <1>2, <1>3, <1>4 DEF Shipped

(* What they subscribe to is published by Meet or by the kernel.            *)
LEMMA ShippedEvents ==
  \A i \in 1..4 : Shipped[i].subscribes \subseteq KernelEvents \cup Shipped[2].publishes
  <1>1. /\ calendarManifest.subscribes =
             {Key("meet", "room", "scheduled"), Key("platform", "user", "joined")}
        /\ meetManifest.subscribes = {Key("platform", "tenant", "suspended")}
        /\ driveManifest.subscribes = {Key("platform", "tenant", "suspended")}
        /\ notesManifest.subscribes = {}
    BY DEF calendarManifest, meetManifest, driveManifest, notesManifest
  <1>2. Key("meet", "room", "scheduled") \in meetManifest.publishes
    BY DEF meetManifest
  <1>3. Key("platform", "user", "joined") \in KernelEvents
        /\ Key("platform", "tenant", "suspended") \in KernelEvents
    BY DEF KernelEvents
  <1> QED BY <1>1, <1>2, <1>3 DEF Shipped

(* validate() passes the repository's own release.                          *)
LEMMA FirstIsFit ==
  ASSUME NEW ms, Shipping(ms)
  PROVE  Errors(ms) = {}
  <1>1. /\ DOMAIN ms \subseteq Nat /\ 2 \in DOMAIN ms
        /\ \A i \in DOMAIN ms : i \in 1..4 /\ ms[i] = Shipped[i]
    BY DEF Shipping
  <1>2. \A i \in DOMAIN ms : Orderly(ms[i], <<5, 3, 4, 3>>[i]) /\ <<5, 3, 4, 3>>[i] \in Nat
    BY <1>1, ShippedPermissions
  <1>3. \A i, j \in DOMAIN ms :
          ms[i].dbSchema = ms[j].dbSchema \/ ms[i].apiPrefix = ms[j].apiPrefix
            \/ ms[i].key = ms[j].key => i = j
    BY <1>1, ShippedNames
  <1>4. ASSUME NEW key \in Keys(ms)
        PROVE  \E i \in DOMAIN ms :
                 /\ ms[i].key = key[1]
                 /\ \A j \in DOMAIN ms : Owns(ms[j], key) <=> j = i
    <2>1. PICK d \in Declarations(ms) : Declared(ms, d).key = key
      BY DEF Keys
    <2>2. d[1] \in DOMAIN ms /\ d[2] \in DOMAIN ms[d[1]].permissions
      BY DeclarationParts
    <2>3. \A j \in DOMAIN ms : Owns(ms[j], key) => ms[j].key = key[1]
      BY <1>2 DEF Owns, Orderly
    <2>4. Owns(ms[d[1]], key)
      BY <2>1, <2>2 DEF Owns, Declared
    <2> QED BY <1>3, <2>2, <2>3, <2>4
  <1>5. \A i \in DOMAIN ms : ms[i].subscribes \subseteq Published(ms)
    BY <1>1, ShippedEvents DEF Published
  <1>6. Sound(ms)
    BY <1>3, <1>4, <1>5 DEF Sound
  <1>7. \A i \in DOMAIN ms :
          /\ DOMAIN ms[i].permissions \subseteq Nat
          /\ \A k, l \in DOMAIN ms[i].permissions :
               ms[i].permissions[k].key = ms[i].permissions[l].key => k = l
    <2>1. \A m, n : Orderly(m, n) /\ n \in Nat =>
            /\ DOMAIN m.permissions \subseteq Nat
            /\ \A k, l \in DOMAIN m.permissions :
                 m.permissions[k].key = m.permissions[l].key => k = l
      BY DEF Orderly
    <2> QED BY <1>2, <2>1
  <1> QED BY <1>1, <1>6, <1>7, SoundMeansValid

Covered(m, n) ==
  \A i \in 1..n : SeedGrants(m.permissions[i].key) \subseteq m.permissions[i].defaultRoles

(* What Drive declares, one by one.                                         *)
LEMMA DrivePermissions ==
  /\ driveManifest.permissions[1] = Grant(Key("drive", "node", "read"), Roles)
  /\ driveManifest.permissions[2] = Grant(Key("drive", "node", "create"), Members)
  /\ driveManifest.permissions[3] = Grant(Key("drive", "node", "delete"), Members)
  /\ driveManifest.permissions[4] = Grant(Key("drive", "node", "share"), Admins)
  BY DEF driveManifest

LEMMA OneToFour == \A i \in 1..4 : i = 1 \/ i = 2 \/ i = 3 \/ i = 4
  OBVIOUS

(* The seed gives no role more than Calendar, Meet and Drive declare.       *)
LEMMA SeedIsNarrow ==
  \A i \in 1..3 : Covered(Shipped[i], <<5, 3, 4>>[i])
  <1> USE DEF Covered, Grant, Key, SeedGrants, isRead, isDestructive, Roles, Members, Admins
  <1>1. Covered(calendarManifest, 5)
    BY DEF calendarManifest
  <1>2. Covered(meetManifest, 3)
    BY DEF meetManifest
  <1>3. Covered(driveManifest, 4)
    <2> DEFINE Narrow(p) == SeedGrants(p.key) \subseteq p.defaultRoles
    <2>1. Narrow(Grant(Key("drive", "node", "read"), Roles))
      OBVIOUS
    <2>2. Narrow(Grant(Key("drive", "node", "create"), Members))
      OBVIOUS
    <2>3. Narrow(Grant(Key("drive", "node", "delete"), Members))
      OBVIOUS
    <2>4. Narrow(Grant(Key("drive", "node", "share"), Admins))
      OBVIOUS
    <2>5. Narrow(driveManifest.permissions[1]) /\ Narrow(driveManifest.permissions[2])
          /\ Narrow(driveManifest.permissions[3]) /\ Narrow(driveManifest.permissions[4])
      <3> HIDE DEF Narrow, Grant, Key
      <3> QED BY <2>1, <2>2, <2>3, <2>4, DrivePermissions
    <2> HIDE DEF Narrow, Covered, Grant, Key, SeedGrants, isRead, isDestructive, Roles, Members, Admins
    <2>6. ASSUME NEW i \in 1..4 PROVE Narrow(driveManifest.permissions[i])
      <3>1. i = 1 \/ i = 2 \/ i = 3 \/ i = 4
        OBVIOUS
      <3> QED BY <2>5, <3>1
    <2> QED BY <2>6 DEF Narrow, Covered
  <1> HIDE DEF Covered
  <1> QED BY <1>1, <1>2, <1>3 DEF Shipped

(* The seed knows no other permissions.                                     *)
LEMMA SeedIsKnown ==
  \A n \in 1..Len(SeedPermissions) : \E i \in 1..3 : \E k \in 1..<<5, 3, 4>>[i] :
    SeedPermissions[n] = Shipped[i].permissions[k].key
  <1>1. \A k \in 1..5 : SeedPermissions[k] = calendarManifest.permissions[k].key
    BY DEF SeedPermissions, calendarManifest, Grant
  <1>2. \A k \in 1..3 : SeedPermissions[5 + k] = meetManifest.permissions[k].key
    BY DEF SeedPermissions, meetManifest, Grant
  <1>3. \A k \in 1..4 : SeedPermissions[8 + k] = driveManifest.permissions[k].key
    BY DEF SeedPermissions, driveManifest, Grant
  <1>4. Len(SeedPermissions) = 12
    BY DEF SeedPermissions
  <1>5. Shipped[1] = calendarManifest /\ Shipped[2] = meetManifest /\ Shipped[3] = driveManifest
    BY DEF Shipped
  <1> DEFINE Known(n) == \E i \in 1..3 : \E k \in 1..<<5, 3, 4>>[i] :
                           SeedPermissions[n] = Shipped[i].permissions[k].key
  <1>6. ASSUME NEW n \in 1..12 PROVE Known(n)
    <2>1. CASE n \in 1..5
      BY <1>1, <1>5, <2>1
    <2>2. CASE n \in 6..8
      <3>1. n - 5 \in 1..3 /\ 5 + (n - 5) = n
        BY <2>2
      <3> QED BY <1>2, <1>5, <3>1
    <2>3. CASE n \in 9..12
      <3>1. n - 8 \in 1..4 /\ 8 + (n - 8) = n
        BY <2>3
      <3> QED BY <1>3, <1>5, <3>1
    <2> QED BY <2>1, <2>2, <2>3
  <1> HIDE DEF Known
  <1>7. \A n \in 1..Len(SeedPermissions) : Known(n)
    BY <1>4, <1>6
  <1> QED BY <1>7 DEF Known

Fit == {r \in DOMAIN releases : Errors(manifests(r)) = {}}

Permitted == UNION {Defaults(manifests(r)) : r \in Fit}

Ruled ==
  /\ releases[1].registered \in {First, Append(First, "notes")}
  /\ \A t \in Tenants : grants[t] \subseteq Permitted

(* A declared default is permitted where its release is fit.                *)
LEMMA FitPermits ==
  ASSUME NEW r \in DOMAIN releases, Errors(manifests(r)) = {}
  PROVE  Defaults(manifests(r)) \subseteq Permitted
  BY DEF Permitted, Fit

(* Permitted are grants of permission keys.                                 *)
LEMMA PermittedShape ==
  ASSUME TypeInv, NEW g \in Permitted
  PROVE  IsKey(g[2])
  <1>1. PICK r \in DOMAIN releases : g \in Defaults(manifests(r))
    BY DEF Permitted, Fit
  <1>2. PICK d \in Declarations(manifests(r)) :
          g \in {<<role, Declared(manifests(r), d).key>> :
                   role \in Declared(manifests(r), d).defaultRoles}
    BY <1>1 DEF Defaults
  <1>3. g[2] = Declared(manifests(r), d).key
    BY <1>2
  <1>4. d[1] \in DOMAIN manifests(r) /\ d[2] \in DOMAIN manifests(r)[d[1]].permissions
    BY DeclarationParts
  <1>5. releases[r].registered \in Seq(Names)
    <2>1. releases \in Seq(Releases) /\ r \in DOMAIN releases
      BY DEF TypeInv, Shape
    <2>2. releases[r] \in Releases
      BY <2>1
    <2> QED BY <2>2 DEF Releases
  <1>6. manifests(r)[d[1]] = Manifest[releases[r].registered[d[1]]]
        /\ releases[r].registered[d[1]] \in Names
    BY <1>4, <1>5 DEF manifests, ListOf
  <1>7. Declared(manifests(r), d) \in ToSet(Manifest[releases[r].registered[d[1]]].permissions)
    BY <1>4, <1>6 DEF Declared, ToSet
  <1> QED BY <1>3, <1>6, <1>7, ManifestShape DEF WellFormed

(* The seed grants what the first release permits.                          *)
LEMMA SeedIsPermitted ==
  ASSUME TypeInv, Ruled, NEW n \in 1..Len(SeedPermissions),
         NEW role \in SeedGrants(SeedPermissions[n])
  PROVE  <<role, SeedPermissions[n]>> \in Permitted
  <1>1. 1 \in DOMAIN releases
    BY DEF TypeInv, Shape
  <1>2. Shipping(manifests(1))
    BY FirstRelease DEF Ruled, manifests
  <1>3. PICK i \in 1..3 : \E k \in 1..<<5, 3, 4>>[i] :
          SeedPermissions[n] = Shipped[i].permissions[k].key
    BY SeedIsKnown
  <1>4. PICK k \in 1..<<5, 3, 4>>[i] : SeedPermissions[n] = Shipped[i].permissions[k].key
    BY <1>3
  <1>5. i \in DOMAIN manifests(1) /\ manifests(1)[i] = Shipped[i] /\ i \in 1..4
    BY <1>2, <1>3 DEF Shipping
  <1>6. /\ k \in DOMAIN Shipped[i].permissions
        /\ role \in Shipped[i].permissions[k].defaultRoles
    <2>1. <<5, 3, 4>>[i] = <<5, 3, 4, 3>>[i]
      OBVIOUS
    <2>2. Orderly(Shipped[i], <<5, 3, 4>>[i]) /\ Covered(Shipped[i], <<5, 3, 4>>[i])
      BY <1>5, <2>1, ShippedPermissions, SeedIsNarrow
    <2> QED BY <1>4, <2>2 DEF Orderly, Covered
  <1>7. /\ <<i, k>> \in Declarations(manifests(1))
        /\ Declared(manifests(1), <<i, k>>) = Shipped[i].permissions[k]
    BY <1>5, <1>6, DeclarationShape
  <1>8. <<role, SeedPermissions[n]>> \in Defaults(manifests(1))
    BY <1>4, <1>6, <1>7 DEF Defaults
  <1> QED BY <1>1, <1>2, <1>8, FirstIsFit, FitPermits

(* Nothing is granted at the start.                                         *)
LEMMA InitRuled == Init => Ruled
  BY DEF Init, Ruled

(* A release stays fit, or not, whatever is cut after it.                   *)
LEMMA TreeRuled ==
  ASSUME TypeInv, Ruled, TreeStep
  PROVE  Ruled'
  <1>1. PICK reg \in Seq(Names), wired \in SUBSET Products : Cut(reg, wired)
    BY TreeCuts
  <1>2. /\ DOMAIN releases \subseteq DOMAIN releases'
        /\ \A r \in DOMAIN releases : releases'[r] = releases[r]
    BY <1>1, CutGrows DEF TypeInv
  <1>3. \A r \in DOMAIN releases : manifests(r)' = manifests(r)
    BY <1>2 DEF manifests
  <1>4. Permitted \subseteq Permitted'
    BY <1>2, <1>3 DEF Permitted, Fit
  <1>5. 1 \in DOMAIN releases /\ UNCHANGED grants
    BY <1>1 DEF TypeInv, Shape, Cut
  <1> QED BY <1>2, <1>4, <1>5 DEF Ruled

(* A process registers workspaces with what its own, validated release      *)
(* declares.                                                                *)
LEMMA RegisterRuled ==
  ASSUME TypeInv, CatInv, Ruled, NEW p \in Replicas, NEW t \in Tenants, Register(p, t)
  PROVE  Ruled'
  <1>1. Errors(Running(p)) = {} /\ replica[p].release \in DOMAIN releases
    BY DEF Register, CatInv, Validated, TypeInv, Placed
  <1>2. Defaults(Running(p)) \subseteq Permitted
    BY <1>1, FitPermits DEF Running
  <1>3. \A u \in Tenants : grants'[u] = IF u = t THEN Defaults(Running(p)) ELSE grants[u]
    BY DEF Register, TypeInv, Shape
  <1>4. Permitted' = Permitted /\ UNCHANGED releases
    BY DEF Register, Permitted, Fit, manifests
  <1> QED BY <1>2, <1>3, <1>4 DEF Ruled

(* The seed adds what the first release declares.                           *)
LEMMA SeedRuled ==
  ASSUME TypeInv, Ruled, SeedStep
  PROVE  Ruled'
  <1>1. Permitted' = Permitted /\ UNCHANGED releases
    BY DEF SeedStep, SeedWorkspace, SeedPermission, SeedGrant, Permitted, Fit, manifests
  <1>2. ASSUME NEW n \in 0..Len(SeedPermissions), SeedGrant(n),
               NEW t \in Tenants, NEW g \in grants'[t]
        PROVE  g \in Permitted
    <2> DEFINE granted(i) == SeedGrants(SeedPermissions[i]) \X {SeedPermissions[i]}
    <2>1. g \in grants[t] \/ \E i \in 1..n : g \in granted(i)
      BY <1>2 DEF SeedGrant, TypeInv, Shape
    <2>2. ASSUME NEW i \in 1..n, g \in granted(i)
          PROVE  g \in Permitted
      <3>1. i \in 1..Len(SeedPermissions)
        BY DEF SeedPermissions
      <3>2. PICK role \in SeedGrants(SeedPermissions[i]) : g = <<role, SeedPermissions[i]>>
        BY <2>2
      <3> QED BY <3>1, <3>2, SeedIsPermitted
    <2> QED BY <2>1, <2>2 DEF Ruled
  <1>3. (\E n \in 0..Len(SeedPermissions) : SeedGrant(n)) \/ UNCHANGED grants
    BY DEF SeedStep, SeedWorkspace, SeedPermission
  <1> QED BY <1>1, <1>2, <1>3 DEF Ruled

(* Every step keeps the rule.                                               *)
LEMMA NextRuled == TypeInv /\ CatInv /\ Ruled /\ [Next]_vars => Ruled'
  <1> SUFFICES ASSUME TypeInv, CatInv, Ruled, [Next]_vars PROVE Ruled'
    OBVIOUS
  <1>1. CASE UNCHANGED <<releases, grants>>
    BY <1>1 DEF Ruled, Permitted, Fit, manifests
  <1>2. UNCHANGED <<releases, grants>> \/ TreeStep \/ SeedStep
          \/ \E p \in Replicas, t \in Tenants : Register(p, t)
    <2>1. \A p \in Replicas : (\E r \in DOMAIN releases : Boot(p, r)) \/ BootStep(p)
            => UNCHANGED <<releases, grants>>
      BY DEF BootStep, Boot, Validate, SyncProduct, SyncFails, Listen
    <2> QED BY <2>1 DEF Next, vars
  <1> QED BY <1>1, <1>2, TreeRuled, SeedRuled, RegisterRuled

(* Routes require full permission keys.                                     *)
LEMMA RouteShape ==
  ASSUME NEW r, NEW route \in Routes(r)
  PROVE  IsKey(route)
  <1>1. PICK k : route \in RoutesOf(k)
    BY DEF Routes
  <1>2. PICK p, s, a : route = Key(p, s, a) /\ a \in {"read", "create", "delete"}
    BY <1>1 DEF RoutesOf, calendarRoutes, driveRoutes, meetRoutes, ScaffoldRoutes
  <1> QED BY <1>2 DEF IsKey, Key

(* Roles other than owner hold full keys, so they are allowed what they     *)
(* hold, and they hold what is permitted.                                   *)
LEMMA RuledMeansDeclared ==
  ASSUME TypeInv, Ruled
  PROVE  OnlyDeclaredIsReached
  <1>1. ASSUME NEW p \in Replicas, NEW t \in Tenants, NEW role \in Roles \ {"owner"},
               NEW route \in Routes(replica[p].release), allows(Holds(t, role), route)
        PROVE  <<role, route>> \in Permitted
    <2>1. Holds(t, role) = {g[2] : g \in {h \in grants[t] : h[1] = role}}
      BY DEF Holds
    <2>2. \A key \in Holds(t, role) : IsKey(key)
      BY <2>1, PermittedShape DEF Ruled
    <2>3. route \in Holds(t, role)
      BY <1>1, <2>2, RouteShape, PlainGrantsAreExact
    <2>4. PICK g \in grants[t] : g[1] = role /\ g[2] = route
      BY <2>1, <2>3
    <2>5. g = <<g[1], g[2]>>
      BY DEF TypeInv, Granted
    <2> QED BY <2>4, <2>5 DEF Ruled
  <1> QED BY <1>1 DEF OnlyDeclaredIsReached, Permitted, Fit

(* Least privilege, for all manifests added by hand, all generated products *)
(* and all orders of boots and registrations: no role but owner reaches a   *)
(* route that no fit release's manifests opened to it.                      *)
THEOREM OnlyDeclared == Spec => []OnlyDeclaredIsReached
  BY CatInvHolds, InitRuled, NextRuled, RuledMeansDeclared, PTL DEF Spec
-----------------------------------------------------------------------------
(* What is never taken back.                                                *)

(* Grants are made to workspaces that exist.                                *)
Enrolled ==
  /\ \A t \in Tenants \ exists : grants[t] = {}
  /\ seeding > 1 => Seeded \in exists

(* Rows are only added, and what a row says follows from its key.           *)
LEMMA RowsStay ==
  ASSUME CatInv, CatInv', DOMAIN permission \subseteq DOMAIN permission'
  PROVE  \A key \in DOMAIN permission :
           key \in DOMAIN permission' /\ permission'[key] = permission[key]
  BY DEF CatInv, Owned

(* No step shrinks the catalogue.                                           *)
LEMMA CatalogueGrows == [Next]_vars => DOMAIN permission \subseteq DOMAIN permission'
  <1> SUFFICES ASSUME [Next]_vars PROVE DOMAIN permission \subseteq DOMAIN permission'
    OBVIOUS
  <1>1. UNCHANGED permission
        \/ \E a : permission' = Upserted(permission, a) \/ permission' = Upserted(a, permission)
    <2>1. ASSUME NEW p \in Replicas, BootStep(p)
          PROVE  UNCHANGED permission \/ \E a : permission' = Upserted(permission, a)
      BY <2>1 DEF BootStep, Validate, SyncProduct, SyncFails, Listen
    <2>2. SeedStep => UNCHANGED permission \/ \E a : permission' = Upserted(a, permission)
      BY DEF SeedStep, SeedWorkspace, SeedPermission, SeedGrant
    <2>3. TreeStep => UNCHANGED permission
      BY DEF TreeStep, Generate, AddByHand, Cut
    <2>4. \A p, r : Boot(p, r) => UNCHANGED permission
      BY DEF Boot
    <2>5. \A p, t : Register(p, t) => UNCHANGED permission
      BY DEF Register
    <2> QED BY <2>1, <2>2, <2>3, <2>4, <2>5 DEF Next, vars
  <1> QED BY <1>1 DEF Upserted

(* No step shrinks what a workspace grants: a slug is registered once, and  *)
(* the seed grants to the workspace it created.                             *)
LEMMA GrantsStay ==
  ASSUME TypeInv, Enrolled, [Next]_vars
  PROVE  Enrolled' /\ \A t \in Tenants : grants[t] \subseteq grants'[t]
  <1> USE CatalogueAssumption DEF TypeInv, Shape, Counted, Enrolled
  <1>1. CASE UNCHANGED <<grants, exists, seeding>>
    BY <1>1
  <1>2. ASSUME NEW p \in Replicas, NEW t \in Tenants, Register(p, t)
        PROVE  Enrolled' /\ \A u \in Tenants : grants[u] \subseteq grants'[u]
    <2> HIDE DEF TypeInv, Shape, Counted
    <2>1. PICK given : grants' = [grants EXCEPT ![t] = given]
      BY <1>2 DEF Register
    <2>2. t \notin exists /\ exists' = exists \cup {t} /\ UNCHANGED seeding
      BY <1>2 DEF Register
    <2>3. DOMAIN grants = Tenants
      BY DEF TypeInv, Shape
    <2>4. \A u \in Tenants : grants'[u] = IF u = t THEN given ELSE grants[u]
      BY <2>1, <2>3
    <2> QED BY <2>2, <2>4
  <1>3. ASSUME SeedStep PROVE Enrolled' /\ \A u \in Tenants : grants[u] \subseteq grants'[u]
    <2>1. CASE SeedWorkspace
      BY <2>1 DEF SeedWorkspace, SeedRuns
    <2>2. ASSUME NEW n \in 0..Len(SeedPermissions), SeedPermission(n)
          PROVE  Enrolled' /\ \A u \in Tenants : grants[u] \subseteq grants'[u]
      BY <2>2 DEF SeedPermission, SeedRuns
    <2>3. ASSUME NEW n \in 0..Len(SeedPermissions), SeedGrant(n)
          PROVE  Enrolled' /\ \A u \in Tenants : grants[u] \subseteq grants'[u]
      <3>1. PICK more : grants' = [grants EXCEPT ![Seeded] = @ \cup more]
        BY <2>3 DEF SeedGrant
      <3>2. UNCHANGED exists /\ seeding = 2 /\ seeding' \in {0, 3}
        BY <2>3 DEF SeedGrant, SeedRuns
      <3>3. \A u \in Tenants :
              grants'[u] = IF u = Seeded THEN grants[u] \cup more ELSE grants[u]
        BY <3>1
      <3>4. Seeded \in exists
        BY <3>2
      <3>5. \A u \in Tenants \ exists' : grants'[u] = {}
        <4> HIDE DEF TypeInv, Shape, Counted
        <4> QED BY <3>2, <3>3, <3>4
      <3>6. \A u \in Tenants : grants[u] \subseteq grants'[u]
        <4> HIDE DEF TypeInv, Shape, Counted, Enrolled
        <4> QED BY <3>3
      <3> HIDE DEF TypeInv, Shape, Counted
      <3> QED BY <3>2, <3>4, <3>5, <3>6
    <2> QED BY <1>3, <2>1, <2>2, <2>3 DEF SeedStep
  <1>4. \A p \in Replicas :
          BootStep(p) \/ (\E r \in DOMAIN releases : Boot(p, r)) => UNCHANGED <<grants, exists, seeding>>
    BY DEF BootStep, Validate, SyncProduct, SyncFails, Listen, Boot
  <1>5. TreeStep \/ UNCHANGED vars => UNCHANGED <<grants, exists, seeding>>
    BY DEF TreeStep, Generate, AddByHand, Cut, vars
  <1> QED BY <1>1, <1>2, <1>3, <1>4, <1>5 DEF Next

(* In whatever order releases boot, fail and roll back, and however often   *)
(* the seed runs, catalogue and roles only grow.                            *)
THEOREM CatalogueAndRolesGrow == Spec => NothingIsTakenBack
  <1>1. Init => Enrolled
    BY DEF Init, Enrolled
  <1>2. TypeInv /\ CatInv /\ Enrolled /\ [Next]_vars => Enrolled'
    BY GrantsStay
  <1>3. TypeInv /\ CatInv /\ CatInv' /\ Enrolled /\ [Next]_vars => [Kept]_vars
    BY CatalogueGrows, RowsStay, GrantsStay DEF Kept
  <1> QED BY <1>1, <1>2, <1>3, CatInvHolds, PTL DEF Spec, NothingIsTakenBack
=============================================================================
