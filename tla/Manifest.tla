------------------------------- MODULE Manifest -------------------------------
(***************************************************************************)
(* The declarative manifest (management/manifest/): apply() validates the  *)
(* manifest, reads the tenant page by page, computes the steps from what   *)
(* it read, and runs them one at a time, stopping at the first that fails. *)
(* Nothing spans the requests: a step may fail before or after the server  *)
(* has done it, an administrator works on the same tenant, and apply() is  *)
(* run again.  The server is external.                                     *)
(*                                                                         *)
(* Of an object's members one stands for those the manifest states         *)
(* ("stated" or "drifted") and one for those it leaves out: of a role, for *)
(* isGlobal.  A grant has the effect and scopes it is stated with or       *)
(* others; a role binding keeps its resource, inherit and tenant_scope.    *)
(* Natural keys are the manifest's own keys: no two subjects', and no two  *)
(* objects' of a kind and parent, are alike.  The four lists read of a     *)
(* role are read in one step.                                              *)
(***************************************************************************)
EXTENDS Integers, FiniteSets, SequencesExt

CONSTANTS None,        \* undefined, for a key
          Manifests,   \* the manifests apply() is called with
          Tenants,     \* the tenants it is called on
          PLAN_PAGE,   \* items of a page
          MaxRuns,     \* bound: calls of apply()
          MaxEdits     \* bound: changes an administrator makes

ASSUME PageAssumption == PLAN_PAGE \in Nat \ {0} /\ {MaxRuns, MaxEdits} \subseteq Nat

VARIABLES manifest,  \* the manifest of this run
          tenant,    \* the server's objects, grants, members and bindings, and
                     \* the grants with another effect or scopes than is stated
          phase,     \* "idle", "reading", "executing", "done" or "threw"
          todo,      \* reads left
          snapshot,  \* what was read
          steps,     \* steps left, in order
          resolved,  \* ids known, and versions of the segments
          stage,     \* of a rebind: "unassign", "assign" or "restore"
          report,    \* the outcomes, in order
          runs,      \* calls of apply()
          edits,     \* changes made by the administrator
          \* history, read by properties only:
          before,    \* the tenant when the run began
          meddled    \* the administrator changed something since

vars == <<manifest, tenant, phase, todo, snapshot, steps, resolved, stage, report, runs,
          edits, before, meddled>>

Shape     == {"resource", "scope", "permission", "role", "group", "user",
              "service-account"}
Network   == {"policy", "segment", "profile"}

\* The id of no object: what has no parent is under it.
Root == 0

-------------------------------------------------------------------------------
(* The manifest, and validate() *)

Keys(section) == {section[i].key : i \in DOMAIN section}

Distinct(section) == Cardinality(Keys(section)) = Len(section)

\* The declared parent of each resource.
Parent(m) ==
    [k \in Keys(m.resources) \cup {None} |->
        IF k = None THEN None
        ELSE m.resources[CHOOSE i \in DOMAIN m.resources : m.resources[i].key = k].parent]

\* The ancestors of a resource, itself first.
Ancestors(m, key) ==
    LET up[n \in 0 .. Len(m.resources)] == IF n = 0 THEN key ELSE Parent(m)[up[n - 1]]
    IN  up

Acyclic(m) ==
    \A k \in Keys(m.resources) : Ancestors(m, k)[Len(m.resources)] = None

\* A resource after the ancestors that are not placed yet.
Place(m, order, key) ==
    LET up      == Ancestors(m, key)
        placed  == ToSet(order) \cup {None}
        missing == CHOOSE n \in DOMAIN up :
                      up[n] \in placed /\ \A k \in 0 .. n - 1 : up[k] \notin placed
    IN  order \o [i \in 1 .. missing |-> up[missing - i]]

\* Fault: resources are created in the order they are declared in.
topologicalOrder_Declared(m) == [i \in DOMAIN m.resources |-> m.resources[i].key]

\* Each resource in its turn, in declared order.
topologicalOrder(m) ==
    LET upTo[n \in 0 .. Len(m.resources)] ==
          IF n = 0 THEN <<>> ELSE Place(m, upTo[n - 1], m.resources[n].key)
    IN  upTo[Len(m.resources)]

\* A binding [subject, role, resource, inherit] of the manifest, or its refusal.
BindingRefused(m, b) ==
    \/ b.role \notin Keys(m.roles)
    \/ b.resource # None /\ b.resource \notin Keys(m.resources)
    \/ ~b.inherit /\ (b.resource = None \/ b.role \in m.globals)

validate(m) ==
    /\ \A s \in {m.resources, m.scopes, m.permissions, m.roles, m.groups, m.users,
                 m.accounts, m.segments} : Distinct(s)
    /\ \A i \in DOMAIN m.resources : m.resources[i].parent \in Keys(m.resources) \cup {None}
    /\ \A i \in DOMAIN m.grants :
         /\ m.grants[i].permission \in Keys(m.permissions)
         /\ m.grants[i].scopes \subseteq Keys(m.scopes)
    /\ \A i \in DOMAIN m.bindings :
         /\ ~BindingRefused(m, m.bindings[i])
         /\ \A j \in DOMAIN m.bindings :
              m.bindings[i].subject = m.bindings[j].subject
              /\ m.bindings[i].role = m.bindings[j].role => i = j
    /\ \A i \in DOMAIN m.members : m.members[i].group \in Keys(m.groups)
    /\ m.profiles \subseteq Keys(m.segments)
    /\ Acyclic(m)

\* What the types give (spec.ts): the sections are arrays; scopes, grants, memberships
\* and bindings are declared within the resource, role, user and subject they are of.
IsManifest(m) ==
    /\ \A s \in {m.resources, m.scopes, m.permissions, m.roles, m.groups, m.users,
                 m.accounts, m.segments} : s \in Seq(ToSet(s)) /\ None \notin Keys(s)
    /\ \A s \in {m.grants, m.bindings, m.members} : s \in Seq(ToSet(s))
    /\ \A i \in DOMAIN m.scopes : m.scopes[i].on \in Keys(m.resources)
    /\ \A i \in DOMAIN m.grants : m.grants[i].role \in Keys(m.roles)
    /\ \A i \in DOMAIN m.members : m.members[i].user \in Keys(m.users)
    /\ \A i \in DOMAIN m.bindings :
         /\ m.bindings[i].subject \in Keys(m.groups) \cup Keys(m.users) \cup Keys(m.accounts)
         /\ m.bindings[i].inherit \in BOOLEAN
    /\ Keys(m.users) \cap Keys(m.groups) = {}
    /\ Keys(m.accounts) \cap (Keys(m.groups) \cup Keys(m.users)) = {}
    /\ m.policy \in BOOLEAN

ASSUME ManifestsAssumption == \A m \in Manifests : IsManifest(m)

-------------------------------------------------------------------------------
(* What the manifest asks for, in the order apply() works in *)

\* An object, under another one or none; a grant, a membership or a binding.
Item(is, key, on) ==
    [is |-> is, key |-> key, on |-> on, at |-> None, inherit |-> TRUE, scopes |-> {}]

ObjectItems(is, section) == [i \in DOMAIN section |-> Item(is, section[i].key, None)]

When(b, x) == IF b THEN <<x>> ELSE <<>>

ResourceItems(m) ==
    LET order == topologicalOrder(m)
    IN  [i \in DOMAIN order |-> Item("resource", order[i], Parent(m)[order[i]])]

ScopesOf(m, k) ==
    FlattenSeq([i \in DOMAIN m.scopes |->
                    When(m.scopes[i].on = k, Item("scope", m.scopes[i].key, k))])

ScopeItems(m) ==
    LET order == topologicalOrder(m)
    IN  FlattenSeq([i \in DOMAIN order |-> ScopesOf(m, order[i])])

GrantItems(m) ==
    [i \in DOMAIN m.grants |->
        [Item("grant", m.grants[i].role, m.grants[i].permission)
            EXCEPT !.scopes = m.grants[i].scopes]]

BindingItem(b) == [Item("binding", b.subject, b.role) EXCEPT !.at = b.resource, !.inherit = b.inherit]

\* The bindings of a subject, then its groups.
SubjectItems(m, k) ==
    FlattenSeq([i \in DOMAIN m.bindings |-> When(m.bindings[i].subject = k, BindingItem(m.bindings[i]))])
    \o FlattenSeq([i \in DOMAIN m.members |->
                      When(m.members[i].user = k, Item("member", k, m.members[i].group))])

\* One subject after the other.
BindingItems(m, section) ==
    FlattenSeq([i \in DOMAIN section |-> SubjectItems(m, section[i].key)])

ProfileItems(m) ==
    FlattenSeq([i \in DOMAIN m.segments |->
                    When(m.segments[i].key \in m.profiles,
                         Item("profile", m.segments[i].key, m.segments[i].key))])

Items(m) ==
    FlattenSeq(<<ResourceItems(m), ScopeItems(m), ObjectItems("permission", m.permissions),
                 ObjectItems("role", m.roles), GrantItems(m),
                 ObjectItems("group", m.groups), BindingItems(m, m.groups),
                 ObjectItems("user", m.users), BindingItems(m, m.users),
                 ObjectItems("service-account", m.accounts), BindingItems(m, m.accounts),
                 When(m.policy, Item("policy", None, None)),
                 ObjectItems("segment", m.segments), ProfileItems(m)>>)

-------------------------------------------------------------------------------
(* What was read, and #compute() *)

\* The ids a run knows, by kind and key, and the versions of the segments.
Nobody == [ids |-> [k \in {} |-> Root], versions |-> [k \in {} |-> 0]]

Knows(res, is, key) == <<is, key>> \in DOMAIN res.ids

IdOf(res, is, key) == IF key = None THEN Root ELSE res.ids[<<is, key>>]

Learn(res, is, key, o) ==
    [ids |-> [k \in DOMAIN res.ids \cup {<<is, key>>} |->
                IF k = <<is, key>> THEN o.id ELSE res.ids[k]],
     versions |-> IF is # "segment" THEN res.versions
                  ELSE [k \in DOMAIN res.versions \cup {key} |->
                          IF k = key THEN o.version ELSE res.versions[k]]]

\* The kind of what an item is under.
OnKind(is) == CASE is = "scope" -> "resource" [] is = "profile" -> "segment" [] OTHER -> is

\* Under what is still to be created, nothing is found.
Found(res, sn, it) ==
    IF it.on # None /\ ~Knows(res, OnKind(it.is), it.on) THEN {}
    ELSE {o \in sn.objects : o.is = it.is /\ o.name = it.key
                             /\ o.under = IdOf(res, OnKind(it.is), it.on)}

\* The subject's kind is the one section its key is declared in.
SubjectKind(m, key) ==
    CASE key \in Keys(m.users)  -> "user"
      [] key \in Keys(m.groups) -> "group"
      [] OTHER                  -> "service-account"

\* Every key an item's ids are looked up under, before it is sent.
Needs(m, it) ==
    CASE it.is \in {"resource", "scope", "profile"} ->
           IF it.on = None THEN {} ELSE {<<OnKind(it.is), it.on>>}
      [] it.is = "grant"   -> {<<"role", it.key>>, <<"permission", it.on>>}
                              \cup {<<"scope", s>> : s \in it.scopes}
      [] it.is = "member"  -> {<<"user", it.key>>, <<"group", it.on>>}
      [] it.is = "binding" -> {<<"role", it.on>>, <<SubjectKind(m, it.key), it.key>>}
                              \cup (IF it.at = None THEN {} ELSE {<<"resource", it.at>>})
      [] OTHER             -> {}

Resolves(res, needs) == needs \subseteq DOMAIN res.ids

Pair(res, m, it) ==
    IF it.is = "grant" THEN <<res.ids[<<"role", it.key>>], res.ids[<<"permission", it.on>>]>>
    ELSE <<res.ids[<<"group", it.on>>], res.ids[<<"user", it.key>>]>>

Held(res, sn, m, it) ==
    LET sk == <<SubjectKind(m, it.key), it.key>> IN
    IF Resolves(res, {<<"role", it.on>>, sk})
    THEN {b \in sn.bindings : b.role = res.ids[<<"role", it.on>>]
                              /\ b.subject = res.ids[sk]}
    ELSE {}

\* Fault: where the binding applies is not compared.
bindingDrifted_InheritOnly(res, it, b) == it.inherit # b.inherit

\* tenant_scope is not the manifest's to state.  A resource still to be created is
\* no resource yet.
bindingDrifted(res, it, b) ==
    \/ it.inherit # b.inherit
    \/ b.resource # (IF it.at # None /\ Knows(res, "resource", it.at)
                     THEN res.ids[<<"resource", it.at>>] ELSE Root)

\* A scope is never updated.  The isGlobal that a role's spec leaves out is compared
\* too, as the default.
drifted(o) ==
    o.is # "scope" /\ (o.value # "stated" \/ (o.is = "role" /\ o.rest # "own"))

\* A step, with the object or the binding that was read.
Step(it, change, read) == [item |-> it, change |-> change, read |-> read]

Absent == [id |-> Root, under |-> Root, name |-> None, value |-> "stated", rest |-> "own",
           version |-> 0, is |-> "none"]

\* An object is created, updated when a member that the manifest states differs, or
\* left; or the whole plan is refused: a user to be created without a password, a
\* service account's name held twice, a member read with a value this SDK does not
\* know that a replace would have to carry.
PlannedObject(m, it, found) ==
    IF found = {}
    THEN Step(it, IF it.is = "user" /\ it.key \notin m.passworded
                  THEN "refused" ELSE "create", Absent)
    ELSE LET o == CHOOSE o \in found : TRUE
         IN  Step(it, IF \/ it.is = "service-account" /\ Cardinality(found) > 1
                         \/ it.is = "profile" /\ drifted(o) /\ o.rest = "unknown"
                      THEN "refused"
                      ELSE IF drifted(o) THEN "update" ELSE "no-change", o)

PlannedBinding(res, it, held) ==
    IF held = {} THEN Step(it, "create", Absent)
    ELSE LET b == CHOOSE b \in held : TRUE
         IN  Step(it, IF bindingDrifted(res, it, b) THEN "update" ELSE "no-change", b)

\* Present or absent: a grant's effect and scopes are not compared.
PlannedLink(it, there) == Step(it, IF there THEN "no-change" ELSE "create", Absent)

\* What is planned for one item.
Planned(res, sn, m, it) ==
    CASE it.is = "grant" ->
           PlannedLink(it, /\ Resolves(res, {<<"role", it.key>>, <<"permission", it.on>>})
                           /\ Pair(res, m, it) \in sn.grants)
      [] it.is = "member" ->
           PlannedLink(it, Resolves(res, Needs(m, it)) /\ Pair(res, m, it) \in sn.members)
      [] it.is = "binding" -> PlannedBinding(res, it, Held(res, sn, m, it))
      [] OTHER             -> PlannedObject(m, it, Found(res, sn, it))

\* The plan so far with one item more; an object that is there is resolved by it.
Pass(m, sn, acc, it) ==
    LET step == Planned(acc.res, sn, m, it) IN
    [steps |-> Append(acc.steps, step),
     res   |-> IF step.read = Absent \/ it.is = "binding" THEN acc.res
               ELSE Learn(acc.res, it.is, it.key, step.read)]

\* One pass over the items.
Computed(m, sn) ==
    LET items == Items(m)
        upTo[n \in 0 .. Len(items)] ==
            IF n = 0 THEN [steps |-> <<>>, res |-> Nobody]
            ELSE Pass(m, sn, upTo[n - 1], items[n])
    IN  upTo

Compute(m, sn) == Computed(m, sn)[Len(Items(m))]

Refused(plan) == \E i \in DOMAIN plan.steps : plan.steps[i].change = "refused"

isConverged(plan) == \A i \in DOMAIN plan.steps : plan.steps[i].change = "no-change"

-------------------------------------------------------------------------------
(* #read() *)

Nothing == [objects |-> {}, grants |-> {}, members |-> {}, bindings |-> {}]

Read(what, of, offset) == [what |-> what, of |-> of, offset |-> offset]

hasShapeSections(m) ==
    \E s \in {m.resources, m.permissions, m.roles, m.groups, m.users, m.accounts} : s # <<>>

Lists(m) ==
    LET kinds == IF ~hasShapeSections(m) THEN <<>>
                 ELSE <<"resource", "permission", "role", "group", "user">>
                      \o (IF m.accounts = <<>> THEN <<>> ELSE <<"service-account">>)
    IN  [i \in DOMAIN kinds |-> Read(kinds[i], Root, 0)] \o <<Read("details", Root, 0)>>

\* What is read of each object that the manifest names, and of the network.
Details(m, sn) ==
    LET named(is, section) ==
          SetToSeq({o.id : o \in {p \in sn.objects : p.is = is /\ p.name \in Keys(section)}})
        each(what, ids) == [i \in DOMAIN ids |-> Read(what, ids[i], 0)]
    IN  each("scope", named("resource", m.resources))
        \o each("role_details", named("role", m.roles))
        \o each("members", named("group", m.groups))
        \o When(m.policy, Read("policy", Root, 0))
        \o When(m.segments # <<>>, Read("segment", Root, 0))
        \o When(m.profiles # {}, Read("profile", Root, 0))

\* The server lists a kind by id.
Listed(what) == {o \in tenant.objects : o.is = what}

Rank(o) == Cardinality({p \in Listed(o.is) : p.id <= o.id})

Exists(id) == id = Root \/ \E o \in tenant.objects : o.id = id

\* Fault: the walk stops after the first page.
hasMore_First(what, r) == FALSE

\* collectPages(): on to the next page, unless this one is empty or the last.
hasMore(what, r) == r.offset + PLAN_PAGE < Cardinality(Listed(what))

Page(what, r) == {o \in Listed(what) : Rank(o) \in r.offset + 1 .. r.offset + PLAN_PAGE}

\* What one read adds to the snapshot.
Gathered(r) ==
    CASE r.what = "scope" ->
           [snapshot EXCEPT !.objects = @ \cup {o \in tenant.objects : o.is = "scope"
                                                                      /\ o.under = r.of}]
      [] r.what = "role_details" ->
           [snapshot EXCEPT !.grants = @ \cup {g \in tenant.grants : g[1] = r.of},
                            !.bindings = @ \cup {b \in tenant.bindings : b.role = r.of}]
      [] r.what = "members" ->
           [snapshot EXCEPT !.members = @ \cup {g \in tenant.members : g[1] = r.of}]
      [] OTHER -> [snapshot EXCEPT !.objects = @ \cup Page(r.what, r)]

Paged(what) == what \notin {"scope", "role_details", "members"}

\* apply(): an invalid manifest is refused before any request.
Apply(m) ==
    /\ phase \in {"idle", "done", "threw"} /\ runs < MaxRuns
    /\ manifest' = m
    /\ runs' = runs + 1
    /\ IF validate(m) THEN phase' = "reading" /\ todo' = Lists(m)
                      ELSE phase' = "threw" /\ todo' = <<>>
    /\ snapshot' = Nothing /\ steps' = <<>> /\ resolved' = Nobody /\ stage' = "unassign"
    /\ report' = <<>>
    /\ before' = tenant /\ meddled' = FALSE
    /\ UNCHANGED <<tenant, edits>>

\* Reads are retried; one that fails for good, or asks for what is gone, throws.
ReadNext ==
    LET r == Head(todo) IN
    /\ phase = "reading" /\ todo # <<>>
    /\ IF r.what = "details"
       THEN /\ todo' = Details(manifest, snapshot)
            /\ UNCHANGED snapshot
       ELSE /\ Exists(r.of)
            /\ snapshot' = Gathered(r)
            /\ todo' = IF Paged(r.what) /\ hasMore(r.what, r)
                       THEN <<Read(r.what, Root, r.offset + PLAN_PAGE)>> \o Tail(todo)
                       ELSE Tail(todo)
    /\ UNCHANGED <<manifest, tenant, phase, steps, resolved, stage, report, runs, edits,
                   before, meddled>>

ReadFails ==
    /\ phase = "reading" /\ todo # <<>> /\ Head(todo).what # "details"
    /\ phase' = "threw" /\ todo' = <<>>
    /\ UNCHANGED <<manifest, tenant, snapshot, steps, resolved, stage, report, runs, edits,
                   before, meddled>>

\* All steps are computed before the first is sent.
Plan ==
    /\ phase = "reading" /\ todo = <<>>
    /\ LET plan == Compute(manifest, snapshot) IN
       \/ /\ Refused(plan)
          /\ phase' = "threw"
          /\ UNCHANGED <<steps, resolved>>
       \/ /\ ~Refused(plan)
          /\ phase' = IF plan.steps = <<>> THEN "done" ELSE "executing"
          /\ steps' = plan.steps /\ resolved' = plan.res
    /\ snapshot' = Nothing
    /\ UNCHANGED <<manifest, tenant, todo, stage, report, runs, edits, before, meddled>>

-------------------------------------------------------------------------------
(* The server (external) *)

\* An object with everything below it, and what refers to them.
Below(t, id) ==
    LET with(ids)  == ids \cup {o.id : o \in {p \in t.objects : p.under \in ids}}
        upTo[n \in Nat] == IF n = 0 THEN {id} ELSE with(upTo[n - 1])
    IN  upTo[Cardinality(t.objects)]

\* What the server keeps to: ids are given once, a name is of one object of its kind
\* and parent, but for service accounts, and a subject holds a role once.
Consistent(t) ==
    /\ t = [objects |-> t.objects, grants |-> t.grants, altered |-> t.altered,
            members |-> t.members, bindings |-> t.bindings, next |-> t.next]
    /\ t.next \in Nat \ {0} /\ IsFiniteSet(t.objects)
    /\ \A o \in t.objects :
         /\ o \in [is : Shape \cup Network, name : {o.name}, under : 0 .. t.next - 1,
                   id : 1 .. t.next - 1, value : {"stated", "drifted"},
                   rest : {"own", "edited", "unknown"}, version : Nat]
         /\ \A p \in t.objects :
              /\ o.id = p.id => o = p
              /\ o.is = p.is /\ o.name = p.name /\ o.under = p.under =>
                     o = p \/ o.is = "service-account"
    /\ \A b \in t.bindings :
         /\ b = [role |-> b.role, subject |-> b.subject, resource |-> b.resource,
                 inherit |-> b.inherit, reach |-> b.reach]
         /\ \A c \in t.bindings : b.role = c.role /\ b.subject = c.subject => b = c

ASSUME TenantsAssumption == \A t \in Tenants : Consistent(t)

Delete(t, id) ==
    LET gone == Below(t, id) IN
    [t EXCEPT !.objects  = {o \in @ : o.id \notin gone},
              !.grants   = {g \in @ : g[1] \notin gone /\ g[2] \notin gone},
              !.altered  = {g \in @ : g[1] \notin gone /\ g[2] \notin gone},
              !.members  = {g \in @ : g[1] \notin gone /\ g[2] \notin gone},
              !.bindings = {b \in @ : {b.role, b.subject, b.resource} \cap gone = {}}]

Replace(t, o, new) == [t EXCEPT !.objects = (@ \ {o}) \cup {new}]

\* A name is taken within its kind and parent; a service account's never is.  A
\* subject holds a role once.
Taken(is, name, under) ==
    is # "service-account"
    /\ \E o \in tenant.objects : o.is = is /\ o.name = name /\ o.under = under

Bound(role, subject) == \E b \in tenant.bindings : b.role = role /\ b.subject = subject

VersionOf(id) == (CHOOSE o \in tenant.objects : o.id = id).version

-------------------------------------------------------------------------------
(* #execute() and #run() *)

Now  == Head(steps)
This == Now.item

\* Fault: what the manifest leaves out is sent as the default.
carried_Default(o) == "own"

\* What a replace sends of the members the manifest leaves out: what was read.
carried(o) == o.rest

\* What an update makes of them, on the server: a role's is_global is sent whether the
\* manifest states it or not; the other updates are sparse.
RestOf(o, r) ==
    CASE o.is \in Network -> carried(r) [] o.is = "role" -> "own" [] OTHER -> o.rest

\* Fault: a replace is sent with the version in force.
SentVersion_InForce(o) == VersionOf(o.id)

\* A replace is sent with the version that was read.
SentVersion(o) == o.version

UnderId == IdOf(resolved, OnKind(This.is), This.on)

\* A profile is written with the version of its segment, and refused with another.
SegmentIsAt ==
    This.is = "profile" => Exists(UnderId) /\ VersionOf(UnderId) = resolved.versions[This.on]

CreatesObject ==
    LET o == [is |-> This.is, name |-> This.key, under |-> UnderId, id |-> tenant.next,
              value |-> "stated", rest |-> "own", version |-> 1]
    IN  /\ Exists(UnderId) /\ SegmentIsAt /\ ~Taken(This.is, This.key, UnderId)
        /\ tenant' = [tenant EXCEPT !.objects = @ \cup {o}, !.next = @ + 1]

UpdatesObject ==
    LET r == Now.read IN
    \E o \in tenant.objects :
        /\ o.id = r.id /\ SegmentIsAt
        /\ o.is \in Network => SentVersion(r) = o.version
        /\ tenant' = Replace(tenant, o,
                        [o EXCEPT !.value = "stated", !.version = @ + 1,
                                  !.rest = RestOf(o, r)])

Links ==
    LET p == Pair(resolved, manifest, This) IN
    /\ Exists(p[1]) /\ Exists(p[2])
    /\ tenant' = IF This.is = "grant"
                 THEN [tenant EXCEPT !.grants = @ \cup {p}, !.altered = @ \ {p}]
                 ELSE [tenant EXCEPT !.members = @ \cup {p}]

\* The binding as the manifest has it; one made without a tenant_scope reaches
\* wherever the role does.
Wanted(reach) ==
    [role |-> resolved.ids[<<"role", This.on>>],
     subject |-> resolved.ids[<<SubjectKind(manifest, This.key), This.key>>],
     resource |-> IdOf(resolved, "resource", This.at),
     inherit |-> This.inherit, reach |-> reach]

Assigns(b) ==
    /\ \A id \in {b.role, b.subject, b.resource} : Exists(id)
    /\ ~Bound(b.role, b.subject)
    /\ tenant' = [tenant EXCEPT !.bindings = @ \cup {b}]

\* The server does what the one request of a step asks, when it is no rebind.
Does ==
    \/ Now.change = "create" /\ This.is \in Shape \cup Network /\ CreatesObject
    \/ Now.change = "update" /\ This.is \in Shape \cup Network /\ UpdatesObject
    \/ Now.change = "create" /\ This.is \in {"grant", "member"} /\ Links
    \/ Now.change = "create" /\ This.is = "binding" /\ Assigns(Wanted("all"))

\* Its answer gives the id of what was created, and a segment's version.
Learns ==
    LET id  == IF Now.change = "create" THEN tenant.next ELSE Now.read.id
        now == CHOOSE o \in tenant'.objects : o.id = id
    IN  resolved' = IF (Now.change = "create" /\ This.is \in Shape) \/ This.is = "segment"
                    THEN Learn(resolved, This.is, This.key, now)
                    ELSE resolved

Rebinds == This.is = "binding" /\ Now.change = "update"

Executing == phase = "executing" /\ steps # <<>>

Changes == Executing /\ Now.change # "no-change"

\* lookup(): a key whose id is not known fails the step before it is sent.
Sendable == Resolves(resolved, Needs(manifest, This))

Failed == IF Sendable THEN "failed" ELSE "unresolved"

Outcome(item, status) == [item |-> item, status |-> status]

Done == {"created", "updated", "unchanged"}

\* The step is over: on to the next one, or the rest is not attempted.
Over(status) ==
    /\ stage' = "unassign"
    /\ \/ /\ status \in Done
          /\ report' = Append(report, Outcome(This, status))
          /\ steps' = Tail(steps)
          /\ phase' = IF Len(steps) = 1 THEN "done" ELSE phase
       \/ /\ status \notin Done
          /\ report' = Append(report, Outcome(This, status))
                       \o [i \in 1 .. Len(steps) - 1 |->
                             Outcome(steps[i + 1].item, "not-attempted")]
          /\ steps' = <<>>
          /\ phase' = "done"

Same == UNCHANGED <<manifest, todo, snapshot, runs, edits, before, meddled>>

\* A step that changes nothing sends nothing.
Unchanged ==
    /\ Executing /\ Now.change = "no-change"
    /\ Over("unchanged")
    /\ Same /\ UNCHANGED <<tenant, resolved>>

Runs ==
    /\ Changes /\ ~Rebinds /\ Sendable
    /\ Does /\ Learns
    /\ Over(IF Now.change = "create" THEN "created" ELSE "updated")
    /\ Same

\* A write is sent once: refused, or lost before or after it is done, it failed.
Fails ==
    /\ Changes /\ ~Rebinds
    /\ UNCHANGED tenant \/ (Sendable /\ Does)
    /\ Over(Failed)
    /\ Same /\ UNCHANGED resolved

\* #rebind(): unassign the previous binding.  A failure here is the step's.
Unassigns ==
    LET previous == {b \in tenant.bindings :
                        b.role = Now.read.role /\ b.subject = Now.read.subject
                        /\ b.resource = Now.read.resource}
        without  == [tenant EXCEPT !.bindings = @ \ previous]
    IN  /\ Changes /\ Rebinds /\ stage = "unassign"
        /\ \/ /\ Sendable /\ previous # {} /\ tenant' = without
              /\ stage' = "assign"
              /\ UNCHANGED <<phase, steps, report>>
           \/ /\ UNCHANGED tenant \/ (Sendable /\ tenant' = without)
              /\ Over(Failed)
        /\ Same /\ UNCHANGED resolved

\* Fault: the new binding is assigned like any other.
tenantScope_Dropped(b) == "all"

\* The previous binding's tenant_scope is carried over.
tenantScope(b) == b.reach

\* Then assign the new one, with the previous one's tenant_scope.
Reassigns ==
    LET new == Wanted(tenantScope(Now.read)) IN
    /\ Changes /\ Rebinds /\ stage = "assign"
    /\ \/ Assigns(new) /\ Over("updated")
       \/ /\ UNCHANGED tenant \/ Assigns(new)
          /\ stage' = "restore"
          /\ UNCHANGED <<phase, steps, report>>
    /\ Same /\ UNCHANGED resolved

\* Fault: the binding restored is the one that could not be assigned.
Restored_Wanted(b) == Wanted(b.reach)

Restored(b) == b

\* When that fails, assign the previous one again.
Restores ==
    /\ Changes /\ Rebinds /\ stage = "restore"
    /\ \/ Assigns(Restored(Now.read)) /\ Over("restored")
       \/ /\ UNCHANGED tenant \/ Assigns(Restored(Now.read))
          /\ Over("rebind-failed")
    /\ Same /\ UNCHANGED resolved

-------------------------------------------------------------------------------
(* The administrator, on the same tenant (external) *)

Edited(t) ==
    LET replaced(o, new) == Replace(t, o, new) IN
    {replaced(o, [o EXCEPT !.value = "drifted", !.version = @ + 1]) :
        o \in {p \in t.objects : p.is # "scope" /\ p.value = "stated"}}
    \cup {replaced(o, [o EXCEPT !.rest = "edited", !.version = @ + 1]) :
        o \in {p \in t.objects : p.is \in {"segment", "profile", "role"}
                                  /\ p.rest # "edited"}}
    \cup {[t EXCEPT !.altered = @ \cup {g}] : g \in t.grants \ t.altered}
    \cup {Delete(t, o.id) : o \in {p \in t.objects : p.is # "policy"}}
    \cup {[t EXCEPT !.bindings = @ \ {b}] : b \in t.bindings}
    \cup {[t EXCEPT !.bindings = (@ \ {b}) \cup {[b EXCEPT !.reach = "narrow"]}] :
        b \in {c \in t.bindings : c.reach = "all"}}

Administrates ==
    /\ edits < MaxEdits
    /\ edits' = edits + 1
    /\ tenant' \in Edited(tenant)
    /\ meddled' = TRUE
    /\ UNCHANGED <<manifest, phase, todo, snapshot, steps, resolved, stage, report, runs,
                   before>>

-------------------------------------------------------------------------------
Init ==
    /\ manifest \in Manifests
    /\ tenant \in Tenants
    /\ phase = "idle" /\ todo = <<>> /\ snapshot = Nothing
    /\ steps = <<>> /\ resolved = Nobody /\ stage = "unassign" /\ report = <<>>
    /\ runs = 0 /\ edits = 0
    /\ before = tenant /\ meddled = FALSE

Next ==
    \/ \E m \in Manifests : Apply(m)
    \/ ReadNext \/ ReadFails \/ Plan
    \/ Unchanged \/ Runs \/ Fails
    \/ Unassigns \/ Reassigns \/ Restores
    \/ Administrates

Spec == Init /\ [][Next]_vars

-------------------------------------------------------------------------------
(* Properties *)

Phases   == {"idle", "reading", "executing", "done", "threw"}
Statuses == Done \cup {"failed", "unresolved", "restored", "rebind-failed", "not-attempted"}

\* The state has the shape the comments at the variables give it.
TypeOK ==
    /\ manifest \in Manifests /\ phase \in Phases
    /\ stage \in {"unassign", "assign", "restore"}
    /\ \A i \in DOMAIN report : report[i].status \in Statuses
    /\ Consistent(tenant) /\ Consistent(before)
    /\ runs \in 0 .. MaxRuns /\ edits \in 0 .. MaxEdits /\ meddled \in BOOLEAN

\* No failure (isComplete()), and nobody else worked on the tenant meanwhile.
Complete ==
    /\ phase = "done" /\ ~meddled
    /\ \A i \in DOMAIN report : report[i].status \in Done

\* The id of the one object of this kind and name under another, in tenant t.
Nowhere == -1

One(t, is, name, under) ==
    LET found == {o \in t.objects : o.is = is /\ o.name = name /\ o.under = under}
    IN  IF Cardinality(found) = 1 THEN (CHOOSE o \in found : TRUE).id ELSE Nowhere

\* Where the declared resources are, below as many parents as the level says.
Levels(t, m) ==
    LET at[n \in 0 .. Len(m.resources)] ==
            [k \in Keys(m.resources) \cup {None} |->
                IF k = None THEN Root
                ELSE IF n = 0 THEN Nowhere
                ELSE One(t, "resource", k, at[n - 1][Parent(m)[k]])]
    IN  at

\* Where a declared object is to be found: below its parents, which may be deep.
Declared(t, m, is, key) ==
    LET resource(k) == Levels(t, m)[Len(m.resources)][k]
    IN  CASE is = "resource" -> resource(key)
          [] is = "scope"    ->
               One(t, is, key, resource(m.scopes[CHOOSE i \in DOMAIN m.scopes :
                                                    m.scopes[i].key = key].on))
          [] is = "profile"  -> One(t, is, key, One(t, "segment", key, Root))
          [] OTHER           -> One(t, is, key, Root)

\* A binding of tenant t is the one this item declares.
IsBindingOf(t, m, it, b) ==
    /\ b.role = Declared(t, m, "role", it.on)
    /\ b.subject = Declared(t, m, SubjectKind(m, it.key), it.key)

\* A binding that applied everywhere and is declared on a resource that this run
\* creates is found unchanged (see SecondPlanIsEmpty).
LeftEverywhere(it, b) ==
    /\ b \in before.bindings /\ b.resource = Root
    /\ Declared(before, manifest, "resource", it.at) = Nowhere

Stands(it) ==
    LET Id(is, key) == Declared(tenant, manifest, is, key) IN
    CASE it.is = "grant"   ->
           LET g == <<Id("role", it.key), Id("permission", it.on)>>
           IN  g \in tenant.grants /\ (g \notin tenant.altered \/ g \in before.altered)
      [] it.is = "member"  -> <<Id("group", it.on), Id("user", it.key)>> \in tenant.members
      [] it.is = "binding" ->
           \E b \in tenant.bindings :
               /\ IsBindingOf(tenant, manifest, it, b) /\ b.inherit = it.inherit
               /\ \/ b.resource = IF it.at = None THEN Root ELSE Id("resource", it.at)
                  \/ LeftEverywhere(it, b)
      [] OTHER ->
           \E o \in tenant.objects :
               /\ o.id = Id(it.is, it.key)
               /\ o.value = "stated" \/ (it.is = "scope" /\ o \in before.objects)

\* When apply() reports no failure, and nobody else worked on the tenant, everything
\* the manifest declares is there exactly once, below what it was declared below,
\* with the stated members, whichever page it was read from and whatever an earlier
\* run that failed had left half done.  Three things are left as they were before
\* the run and are none the less reported unchanged: the effect and scopes of a grant
\* that was held (engine.ts:470), the description of a scope that was there
\* (engine.ts:398), and a binding that LeftEverywhere describes.
Reconciled ==
    Complete => LET items == Items(manifest) IN \A i \in DOMAIN items : Stands(items[i])

\* A subject never loses a role, nor its tenant_scope, without a word: when apply()
\* returns or throws, each binding of before is still one of the same reach, or the
\* report says that this very binding failed; and "restored" is the previous binding.
BindingAccounted ==
    phase \in {"done", "threw"} /\ ~meddled =>
        /\ \A b \in before.bindings :
             \/ \E c \in tenant.bindings : <<c.role, c.subject, c.reach>>
                                           = <<b.role, b.subject, b.reach>>
             \/ \E i \in DOMAIN report : /\ report[i].status \in {"failed", "rebind-failed"}
                                         /\ IsBindingOf(before, manifest, report[i].item, b)
        /\ \A i \in DOMAIN report :
             report[i].status = "restored" =>
                 \E b \in before.bindings \cap tenant.bindings :
                     IsBindingOf(before, manifest, report[i].item, b)

\* Every step is sent with ids that an earlier step or the read has given, in
\* whatever order the manifest declares its resources.
NothingUnresolved == \A i \in DOMAIN report : report[i].status # "unresolved"

\* apply() deletes nothing, and what the manifest leaves out of an object keeps the
\* value the administrator last gave it, also when that happens after the read; but a
\* role's isGlobal, left out, is set to its default (engine.ts:439, against
\* README.md:2783 and rule 3 of CONTRACT.md 27.6).
UnstatedKept ==
    [][edits' = edits => \A o \in tenant.objects :
            \E p \in tenant'.objects :
                /\ p.id = o.id
                /\ p.rest = o.rest \/ (o.is = "role" /\ p.rest = "own")]_vars

\* Applying twice converges: the plan after an apply() that reports no failure is all
\* no-change.  (README.md:2785; refuted, see the README.)
SecondPlanIsEmpty ==
    Complete => isConverged(Compute(manifest, [k \in DOMAIN Nothing |-> tenant[k]]))

-------------------------------------------------------------------------------
(* Why they hold *)

Asked == Items(manifest)

\* The steps that are over, and what is planned for the others.
Worked == Len(Asked) - Len(steps)

Change(j) == IF j <= Worked THEN "over" ELSE steps[j - Worked].change

IsObject(it) == it.is \in Shape \cup Network

\* Only a valid manifest is worked on.
ValidWorked == phase \in {"reading", "executing", "done"} => validate(manifest)

\* The steps left are those of the last items, and no step before them failed.
StepsFollow ==
    /\ phase = "executing" =>
         /\ Len(steps) \in 1 .. Len(Asked)
         /\ \A i \in DOMAIN steps :
              /\ steps[i].item = Asked[Worked + i]
              /\ steps[i].change \in {"create", "update", "no-change"}
    /\ phase \in {"reading", "executing"} =>
         \A i \in DOMAIN report : report[i].status \in Done

\* An id is known of whatever is not still to be created.
KeysKnown ==
    phase = "executing" =>
        \A j \in 1 .. Len(Asked) : Asked[j].is \in Shape \cup {"segment"} =>
            (Knows(resolved, Asked[j].is, Asked[j].key) <=> Change(j) # "create")

\* An object that was read has not been given back an older version in tenant t.
Precedes(t, r) ==
    /\ r.id < t.next
    /\ \A o \in t.objects : o.id = r.id =>
         r.version <= o.version /\ (r.version = o.version => r.rest = o.rest)

ReadsPrecede ==
    /\ \A r \in snapshot.objects : Precedes(tenant, r)
    /\ \A i \in DOMAIN steps : IsObject(steps[i].item) => Precedes(tenant, steps[i].read)

\* Nobody else worked on the tenant, and no step failed.
Underway ==
    /\ phase \in {"executing", "done"} /\ ~meddled
    /\ \A i \in DOMAIN report : report[i].status \in Done

\* Whatever is not as stated was so before, when nobody else works on the tenant.
OddBefore ==
    ~meddled =>
        /\ tenant.altered \subseteq before.altered
        /\ \A o \in tenant.objects : o.value = "stated" \/ o \in before.objects

\* What is read of a tenant that nobody else works on is in it; and of the kinds that
\* are listed, all of it was read, or is on a page that is to be read.
ReadsHold ==
    phase = "reading" /\ ~meddled =>
        /\ tenant = before
        /\ snapshot.objects \subseteq tenant.objects
        /\ snapshot.grants \subseteq tenant.grants
        /\ snapshot.members \subseteq tenant.members
        /\ snapshot.bindings \subseteq tenant.bindings

ListedKinds ==
    {Lists(manifest)[i].what : i \in DOMAIN Lists(manifest)}

AllRead == \A o \in tenant.objects : o.is \in ListedKinds => o \in snapshot.objects

PagesLeft ==
    phase = "reading" /\ ~meddled =>
        \/ AllRead
        \/ /\ todo \in Seq([what : ListedKinds, of : {Root}, offset : Nat])
           /\ \A i \in DOMAIN todo : todo[i].what = "details" <=> i = Len(todo)
           /\ \A o \in tenant.objects : o.is \in ListedKinds =>
                \/ o \in snapshot.objects
                \/ \E i \in DOMAIN todo : todo[i].what = o.is /\ todo[i].offset < Rank(o)

\* What is read of the tenant for step j.
ReadFor(j) == steps[j - Worked].read

Sole(res, t, it, o) == Found(res, t, it) = {o}

ObjectAt(res, t, it, change, read, o) ==
    /\ Sole(res, t, it, o)
    /\ it.is \in Shape \cup {"segment"} =>
         Knows(res, it.is, it.key) /\ res.ids[<<it.is, it.key>>] = o.id
    /\ IF change = "update" THEN read.id = o.id ELSE ~drifted(o)

\* An object asked for that is not still to be created is there once.
ObjectIs(res, t, it, change, read) ==
    IF change = "create" THEN it.is = "service-account" => Found(res, t, it) = {}
    ELSE \E o \in t.objects : ObjectAt(res, t, it, change, read, o)

ObjectsStand ==
    Underway => \A j \in 1 .. Len(Asked) : IsObject(Asked[j]) =>
        ObjectIs(resolved, tenant, Asked[j], Change(j), ReadFor(j))

\* A grant or a membership is there.
LinkThere(res, t, m, it) ==
    IF it.is = "grant"
    THEN /\ Resolves(res, {<<"role", it.key>>, <<"permission", it.on>>})
         /\ Pair(res, m, it) \in t.grants
    ELSE Resolves(res, Needs(m, it)) /\ Pair(res, m, it) \in t.members

LinksStand ==
    Underway => \A j \in 1 .. Len(Asked) :
        Asked[j].is \in {"grant", "member"} /\ Change(j) # "create" =>
            LinkThere(resolved, tenant, manifest, Asked[j])

\* The binding b is of the subject and the role of item it, by what is resolved.
HeldBy(it, b) ==
    LET sk == <<SubjectKind(manifest, it.key), it.key>> IN
    /\ Resolves(resolved, {<<"role", it.on>>, sk})
    /\ b.role = resolved.ids[<<"role", it.on>>] /\ b.subject = resolved.ids[sk]

Applies(it, b) ==
    /\ b.inherit = it.inherit
    /\ \/ /\ it.at # None => Knows(resolved, "resource", it.at)
          /\ b.resource = IdOf(resolved, "resource", it.at)
       \/ LeftEverywhere(it, b)

\* A binding asked for is there once its step is over; until then the one read is.
BindingIs(it, change, b, replacing) ==
    /\ change = "over" => \E c \in tenant.bindings : HeldBy(it, c) /\ Applies(it, c)
    /\ change \in {"update", "no-change"} =>
         /\ b \in before.bindings /\ HeldBy(it, b) /\ IsBindingOf(before, manifest, it, b)
         /\ replacing \/ b \in tenant.bindings
         /\ change = "no-change" => Applies(it, b)

Replacing(j) == stage # "unassign" /\ j = Worked + 1

BindingsStand ==
    Underway => \A j \in 1 .. Len(Asked) : Asked[j].is = "binding" =>
        BindingIs(Asked[j], Change(j), ReadFor(j), Replacing(j))

\* A binding of before is there, or is the one being replaced.
BindingsKept ==
    phase = "executing" /\ ~meddled => \A b \in before.bindings :
        \/ \E c \in tenant.bindings : <<c.role, c.subject, c.reach>>
                                      = <<b.role, b.subject, b.reach>>
        \/ stage # "unassign" /\ Rebinds /\ b = Now.read

StageFits == stage # "unassign" => Executing /\ Rebinds

=============================================================================
