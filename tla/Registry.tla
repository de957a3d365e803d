------------------------------ MODULE Registry ------------------------------
(***************************************************************************)
(* ProductRegistry of packages/core and RbacService.allows: the pure       *)
(* functions the kernel decides by.  A registry is the sequence of the     *)
(* manifests registered, in order.                                         *)
(***************************************************************************)
EXTENDS Manifests

KernelEvents ==
  {Key("platform", "tenant", "created"), Key("platform", "tenant", "suspended"),
   Key("platform", "user", "invited"), Key("platform", "user", "joined"),
   Key("platform", "product", "enabled"), Key("platform", "product", "disabled"),
   Key("platform", "subscription", "changed")}

(* register() throws on a key it already has.                               *)
Registers(ms) == \A i, j \in DOMAIN ms : ms[i].key = ms[j].key => i = j

(* The declarations <<manifest, position>>, and which of two comes first.   *)
Declarations(ms) == UNION {{i} \X DOMAIN ms[i].permissions : i \in DOMAIN ms}
Declared(ms, d)  == ms[d[1]].permissions[d[2]]
Before(c, d)     == c[1] < d[1] \/ (c[1] = d[1] /\ c[2] < d[2])

Issue(m, kind, what) == [product |-> m.key, kind |-> kind, what |-> what]

-----------------------------------------------------------------------------
(* validate(): the issues of level error, one operator per check.           *)

SchemaErrors(ms) ==
  {Issue(ms[j], "schema", ms[j].dbSchema) :
     j \in {n \in DOMAIN ms : \E i \in DOMAIN ms : i < n /\ ms[i].dbSchema = ms[n].dbSchema}}

PrefixErrors(ms) ==
  {Issue(ms[j], "prefix", ms[j].apiPrefix) :
     j \in {n \in DOMAIN ms : \E i \in DOMAIN ms : i < n /\ ms[i].apiPrefix = ms[n].apiPrefix}}

NamespaceErrors(ms) ==
  {Issue(ms[d[1]], "namespace", Declared(ms, d).key) :
     d \in {c \in Declarations(ms) : Declared(ms, c).key[1] # ms[c[1]].key}}

DuplicateErrors(ms) ==
  {Issue(ms[d[1]], "duplicate", Declared(ms, d).key) :
     d \in {c \in Declarations(ms) :
              \E b \in Declarations(ms) :
                Before(b, c) /\ Declared(ms, b).key = Declared(ms, c).key}}

Published(ms) == KernelEvents \cup UNION {ms[i].publishes : i \in DOMAIN ms}

Subscriptions(ms) == UNION {{i} \X ms[i].subscribes : i \in DOMAIN ms}

DanglingErrors(ms) ==
  {Issue(ms[s[1]], "dangling", s[2]) :
     s \in {t \in Subscriptions(ms) : t[2] \notin Published(ms)}}

(* Mutant: a permission need not carry the name of its product.             *)
ErrorsButNamespace(ms) ==
  SchemaErrors(ms) \cup PrefixErrors(ms) \cup DuplicateErrors(ms) \cup DanglingErrors(ms)

Errors(ms) ==
  SchemaErrors(ms) \cup PrefixErrors(ms) \cup NamespaceErrors(ms)
    \cup DuplicateErrors(ms) \cup DanglingErrors(ms)

-----------------------------------------------------------------------------
(* What a registry that starts promises, said without its algorithm: every  *)
(* schema, prefix and permission has one owner, who can be read off the     *)
(* permission, and nobody listens to what nobody says.                      *)

Owns(m, key) == \E k \in DOMAIN m.permissions : m.permissions[k].key = key

Keys(ms) == {Declared(ms, d).key : d \in Declarations(ms)}

Sound(ms) ==
  /\ \A i, j \in DOMAIN ms :
       ms[i].dbSchema = ms[j].dbSchema \/ ms[i].apiPrefix = ms[j].apiPrefix => i = j
  /\ \A key \in Keys(ms) : \E i \in DOMAIN ms :
       /\ ms[i].key = key[1]
       /\ \A j \in DOMAIN ms : Owns(ms[j], key) <=> j = i
  /\ \A i \in DOMAIN ms : ms[i].subscribes \subseteq Published(ms)

-----------------------------------------------------------------------------
(* RbacService.allows; "*" and `calendar.*` are <<"*">> and                 *)
(* <<"calendar", "*">>.                                                     *)

Everything == <<"*">>

(* Mutant: a permission of a product stands for all of them.                *)
allowsByProduct(granted, required) ==
  Everything \in granted \/ \E g \in granted : g[1] = required[1]

allows(granted, required) ==
  \/ Everything \in granted
  \/ required \in granted
  \/ \E i \in 1..(Len(required) - 1) : Append(SubSeq(required, 1, i), "*") \in granted
=============================================================================
