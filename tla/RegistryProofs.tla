-------------------------- MODULE RegistryProofs ----------------------------
(***************************************************************************)
(* What validate() and allows() decide, for every list of manifests and    *)
(* every set of granted permissions.                                       *)
(***************************************************************************)
EXTENDS Registry, TLAPS

(* Two owners of one schema or one prefix are reported.                     *)
LEMMA SchemasAndPrefixes ==
  ASSUME NEW ms, DOMAIN ms \subseteq Nat, Errors(ms) = {},
         NEW i \in DOMAIN ms, NEW j \in DOMAIN ms,
         ms[i].dbSchema = ms[j].dbSchema \/ ms[i].apiPrefix = ms[j].apiPrefix
  PROVE  i = j
  <1>1. SchemaErrors(ms) = {} /\ PrefixErrors(ms) = {}
    BY DEF Errors
  <1>2. ASSUME NEW m \in DOMAIN ms, NEW n \in DOMAIN ms, m < n
        PROVE  ms[m].dbSchema # ms[n].dbSchema /\ ms[m].apiPrefix # ms[n].apiPrefix
    <2>1. ms[m].dbSchema # ms[n].dbSchema
      BY <1>1, <1>2 DEF SchemaErrors
    <2>2. ms[m].apiPrefix # ms[n].apiPrefix
      BY <1>1, <1>2 DEF PrefixErrors
    <2> QED BY <2>1, <2>2
  <1>3. i \in Nat /\ j \in Nat
    OBVIOUS
  <1>4. i < j \/ j < i \/ i = j
    BY <1>3
  <1> QED BY <1>2, <1>4

(* A permission outside its product's namespace is reported.                *)
LEMMA Namespaces ==
  ASSUME NEW ms, NamespaceErrors(ms) = {}, NEW d \in Declarations(ms)
  PROVE  Declared(ms, d).key[1] = ms[d[1]].key
  BY DEF NamespaceErrors

(* A declaration is a product's position and a permission's.                *)
LEMMA DeclarationShape ==
  ASSUME NEW ms, NEW i \in DOMAIN ms, NEW k \in DOMAIN ms[i].permissions
  PROVE  /\ <<i, k>> \in Declarations(ms)
         /\ Declared(ms, <<i, k>>) = ms[i].permissions[k]
  BY DEF Declarations, Declared

(* What a declaration's two parts are.                                      *)
LEMMA DeclarationParts ==
  ASSUME NEW ms, NEW d \in Declarations(ms)
  PROVE  d[1] \in DOMAIN ms /\ d[2] \in DOMAIN ms[d[1]].permissions
         /\ d = <<d[1], d[2]>>
  BY DEF Declarations

(* A permission declared twice, by one product or by two, is reported.      *)
LEMMA Duplicates ==
  ASSUME NEW ms, DuplicateErrors(ms) = {},
         NEW b \in Declarations(ms), NEW c \in Declarations(ms),
         Declared(ms, b).key = Declared(ms, c).key
  PROVE  ~Before(b, c)
  BY DEF DuplicateErrors

(* validate() is sound: a list of manifests without an error has one owner  *)
(* per schema, prefix and permission, the owner a permission names, and no  *)
(* subscription to an event nobody publishes.                               *)
THEOREM ValidMeansSound ==
  ASSUME NEW ms, DOMAIN ms \subseteq Nat, Errors(ms) = {}
  PROVE  Sound(ms)
  <1>1. \A i, j \in DOMAIN ms :
          ms[i].dbSchema = ms[j].dbSchema \/ ms[i].apiPrefix = ms[j].apiPrefix => i = j
    BY SchemasAndPrefixes
  <1>2. NamespaceErrors(ms) = {} /\ DuplicateErrors(ms) = {} /\ DanglingErrors(ms) = {}
    BY DEF Errors
  <1>3. ASSUME NEW key \in Keys(ms)
        PROVE  \E i \in DOMAIN ms :
                 /\ ms[i].key = key[1]
                 /\ \A j \in DOMAIN ms : Owns(ms[j], key) <=> j = i
    <2>1. PICK d \in Declarations(ms) : Declared(ms, d).key = key
      BY DEF Keys
    <2>2. d[1] \in DOMAIN ms /\ d[2] \in DOMAIN ms[d[1]].permissions /\ d = <<d[1], d[2]>>
      BY DeclarationParts
    <2>3. ms[d[1]].key = key[1]
      BY <1>2, <2>1, Namespaces
    <2>4. ASSUME NEW j \in DOMAIN ms, Owns(ms[j], key)
          PROVE  j = d[1]
      <3>1. PICK k \in DOMAIN ms[j].permissions : ms[j].permissions[k].key = key
        BY <2>4 DEF Owns
      <3>2. <<j, k>> \in Declarations(ms) /\ Declared(ms, <<j, k>>).key = key
        BY <3>1, DeclarationShape
      <3>3. ~Before(<<j, k>>, d) /\ ~Before(d, <<j, k>>)
        BY <1>2, <2>1, <3>2, Duplicates
      <3>4. j \in Nat /\ d[1] \in Nat
        BY <2>2
      <3>5. ~(j < d[1]) /\ ~(d[1] < j)
        BY <3>3 DEF Before
      <3> QED BY <3>4, <3>5
    <2>5. Owns(ms[d[1]], key)
      BY <2>1, <2>2 DEF Owns, Declared
    <2> QED BY <2>2, <2>3, <2>4, <2>5
  <1>4. ASSUME NEW i \in DOMAIN ms, NEW ev \in ms[i].subscribes
        PROVE  ev \in Published(ms)
    <2>1. <<i, ev>> \in Subscriptions(ms)
      BY DEF Subscriptions
    <2> QED BY <1>2, <2>1 DEF DanglingErrors
  <1> QED BY <1>1, <1>3, <1>4 DEF Sound

(* validate() is complete: it refuses a list only for a reason.  Where each *)
(* product names each of its permissions once, a sound list has no error.   *)
THEOREM SoundMeansValid ==
  ASSUME NEW ms, DOMAIN ms \subseteq Nat, Sound(ms),
         \A i \in DOMAIN ms : /\ DOMAIN ms[i].permissions \subseteq Nat
                              /\ \A k, l \in DOMAIN ms[i].permissions :
                                   ms[i].permissions[k].key = ms[i].permissions[l].key => k = l
  PROVE  Errors(ms) = {}
  <1>1. SchemaErrors(ms) = {}
    <2>1. \A i, j \in DOMAIN ms : ms[i].dbSchema = ms[j].dbSchema => ~(i < j)
      BY DEF Sound
    <2> QED BY <2>1 DEF SchemaErrors
  <1>2. PrefixErrors(ms) = {}
    <2>1. \A i, j \in DOMAIN ms : ms[i].apiPrefix = ms[j].apiPrefix => ~(i < j)
      BY DEF Sound
    <2> QED BY <2>1 DEF PrefixErrors
  <1>3. ASSUME NEW d \in Declarations(ms)
        PROVE  /\ Declared(ms, d).key[1] = ms[d[1]].key
               /\ \A j \in DOMAIN ms : Owns(ms[j], Declared(ms, d).key) => j = d[1]
    <2>1. d[1] \in DOMAIN ms /\ d[2] \in DOMAIN ms[d[1]].permissions
      BY DeclarationParts
    <2>2. Declared(ms, d).key \in Keys(ms)
      BY DEF Keys
    <2>3. PICK i \in DOMAIN ms :
            /\ ms[i].key = Declared(ms, d).key[1]
            /\ \A j \in DOMAIN ms : Owns(ms[j], Declared(ms, d).key) <=> j = i
      BY <2>2 DEF Sound
    <2>4. Owns(ms[d[1]], Declared(ms, d).key)
      BY <2>1 DEF Owns, Declared
    <2> QED BY <2>1, <2>3, <2>4
  <1>4. NamespaceErrors(ms) = {}
    BY <1>3 DEF NamespaceErrors
  <1>5. ASSUME NEW b \in Declarations(ms), NEW c \in Declarations(ms), Before(b, c),
               Declared(ms, b).key = Declared(ms, c).key
        PROVE  FALSE
    <2>1. b[1] \in DOMAIN ms /\ b[2] \in DOMAIN ms[b[1]].permissions
          /\ c[1] \in DOMAIN ms /\ c[2] \in DOMAIN ms[c[1]].permissions
      BY DeclarationParts
    <2>2. Owns(ms[c[1]], Declared(ms, b).key)
      BY <1>5, <2>1 DEF Owns, Declared
    <2>3. c[1] = b[1]
      BY <1>3, <2>1, <2>2
    <2>4. b[2] = c[2]
      BY <1>5, <2>1, <2>3 DEF Declared
    <2>5. b[1] \in Nat /\ b[2] \in Nat
      BY <2>1
    <2> QED BY <1>5, <2>3, <2>4, <2>5 DEF Before
  <1>6. DuplicateErrors(ms) = {}
    BY <1>5 DEF DuplicateErrors
  <1>7. DanglingErrors(ms) = {}
    <2>1. ASSUME NEW s \in Subscriptions(ms)
          PROVE  s[2] \in Published(ms)
      <3>1. PICK i \in DOMAIN ms : s \in {i} \X ms[i].subscribes
        BY DEF Subscriptions
      <3> QED BY <3>1 DEF Sound
    <2> QED BY <2>1 DEF DanglingErrors
  <1> QED BY <1>1, <1>2, <1>4, <1>6, <1>7 DEF Errors

(* allows() keeps to what was granted: who holds only full permission keys, *)
(* as every token but an owner's does, is allowed those and no other.       *)
THEOREM PlainGrantsAreExact ==
  ASSUME NEW granted, NEW required, IsKey(required), \A g \in granted : IsKey(g)
  PROVE  allows(granted, required) <=> required \in granted
  <1>1. \A key : IsKey(key) => Len(key) = 3 /\ key[3] # "*"
    BY DEF IsKey, Key
  <1>2. Everything \notin granted
    <2>1. Len(Everything) = 1
      BY DEF Everything
    <2> QED BY <1>1, <2>1
  <1>3. ASSUME NEW i \in 1..(Len(required) - 1),
               Append(SubSeq(required, 1, i), "*") \in granted
        PROVE  FALSE
    <2> DEFINE g == Append(SubSeq(required, 1, i), "*")
    <2>0. PICK a, b, c : required = <<a, b, c>>
      BY DEF IsKey, Key
    <2> DEFINE Parts == {a, b, c, "*"}
    <2>1. required \in Seq(Parts) /\ Len(required) = 3
      BY <2>0
    <2>2. "*" \in Parts
      OBVIOUS
    <2> HIDE DEF Parts
    <2>3. SubSeq(required, 1, i) \in Seq(Parts) /\ Len(SubSeq(required, 1, i)) = i
      <3>1. \A s \in Seq(Parts) : \A n \in 1..(Len(s) - 1) :
              SubSeq(s, 1, n) \in Seq(Parts) /\ Len(SubSeq(s, 1, n)) = n
        OBVIOUS
      <3> QED BY <2>1, <3>1
    <2>4. Len(g) = i + 1 /\ g[i + 1] = "*"
      BY <2>1, <2>2, <2>3
    <2>5. Len(g) = 3 /\ g[3] # "*"
      BY <1>1, <1>3
    <2> HIDE DEF g
    <2> QED BY <2>4, <2>5
  <1> QED BY <1>2, <1>3 DEF allows

(* A wildcard of one product never reaches another: short of "*", a caller  *)
(* is allowed only what shares its first part with something granted.       *)
THEOREM WildcardsStayHome ==
  ASSUME NEW granted, NEW required \in Seq(STRING), Len(required) > 0,
         Everything \notin granted, allows(granted, required)
  PROVE  \E g \in granted : g[1] = required[1]
  <1>1. CASE required \in granted
    BY <1>1
  <1>2. ASSUME NEW i \in 1..(Len(required) - 1),
               Append(SubSeq(required, 1, i), "*") \in granted
        PROVE  \E g \in granted : g[1] = required[1]
    <2>1. SubSeq(required, 1, i) \in Seq(STRING) /\ Len(SubSeq(required, 1, i)) = i
          /\ SubSeq(required, 1, i)[1] = required[1]
      OBVIOUS
    <2>2. Append(SubSeq(required, 1, i), "*")[1] = required[1]
      BY <2>1
    <2> QED BY <1>2, <2>2
  <1> QED BY <1>1, <1>2 DEF allows
=============================================================================
