---------------------------- MODULE Organizations ----------------------------
(***************************************************************************)
(* Organizations, the plans they subscribe to, and their lists of           *)
(* departments and of reasons of visit:                                     *)
(* src/src/organization/organization.service.ts, src/src/plan/              *)
(* plan.service.ts, src/src/department/department.service.ts and            *)
(* src/src/reason/reason.service.ts.                                        *)
(*                                                                         *)
(* Handlers are modelled as in Visits.  The transaction of updatePlan runs  *)
(* statement by statement: a row it wrote is locked, and what it wrote read *)
(* by others, until and once it commits.  A list that is imported makes the *)
(* requests of its entries one after another.  Left out: prices, dates,     *)
(* limits of features, and all names of a list but one.                     *)
(***************************************************************************)
EXTENDS Integers, FiniteSets

CONSTANTS
  Handlers,    \* requests the server may be serving at once
  Orgs,        \* the uuids organizations may get
  Plans,       \* the uuids plans may get
  Features,    \* FeatureCode
  MaxRows,     \* bound on the rows of one name
  Null

ASSUME HandlerAssumption == IsFiniteSet(Handlers)
ASSUME RowAssumption     == MaxRows \in Nat
\* The enumeration has two codes; FeaturesAreAsked is about that.
ASSUME FeatureAssumption == \A f, g, k \in Features : f = g \/ g = k \/ k = f
ASSUME NullAssumption    == Null \notin Orgs \cup Plans

VARIABLES
  org,            \* table Organization
  subscription,   \* table Subscription, by the organization: the plan
  active,         \* table Plan: those with isActive
  plan,           \* table Plan: all that are stored
  features,       \* table PlanFeature, by the plan
  asked,          \* history: the features last asked for and answered, by the plan
  rows,           \* tables Department and ReasonOfVisit: rows of one name
  req,            \* requests in flight
  calm            \* history: requests came one at a time

vars == <<org, subscription, active, plan, features, asked, rows, req, calm>>
-----------------------------------------------------------------------------
(* Rows and requests *)

Lists == {"departments", "reasons"}

Labels == {"idle", "disable", "subscribe",
           "readFeatures", "writeFeatures", "deleteFeatures", "createRow"}

Request == [pc      : Labels,
            org     : Orgs \cup {Null},
            plan    : Plans \cup {Null},
            list    : Lists \cup {"none"},
            locks   : BOOLEAN,            \* the row of the plan is updated, and locked
            asked   : SUBSET Features,
            had     : SUBSET Features,    \* the features read
            written : SUBSET Features,    \* those updated or created, and locked
            old     : SUBSET Features]    \* those the final delete found

Idle == [pc |-> "idle", org |-> Null, plan |-> Null, list |-> "none", locks |-> FALSE,
         asked |-> {}, had |-> {}, written |-> {}, old |-> {}]

RequestOK(r) ==
  /\ r.pc \in {"subscribe", "createRow"} => r.org \in Orgs
  /\ r.pc \in {"disable", "subscribe", "readFeatures", "writeFeatures", "deleteFeatures"}
       => r.plan \in Plans
  /\ r.pc = "createRow" => r.list \in Lists
  /\ r.pc \in {"readFeatures", "writeFeatures", "deleteFeatures"}
       => r.asked # {} /\ r.written \subseteq r.asked
  /\ r.pc = "deleteFeatures" => r.written = r.asked

Stored         == {o \in Orgs : org[o] = "stored"}
Subscribers(p) == {o \in Orgs : subscription[o] = p}
At(h, label)   == req[h].pc = label
Quiet          == \A h \in Handlers : At(h, "idle")
Arrives        == calm' = (calm /\ Quiet)
Take(h, r)     == At(h, "idle") /\ req' = [req EXCEPT ![h] = r] /\ Arrives
Reply(h)       == req' = [req EXCEPT ![h] = Idle] /\ UNCHANGED calm

\* Whether no other transaction holds the row of the plan, or of its feature.
PlanFree(p, h)       == \A g \in Handlers \ {h} : ~(req[g].locks /\ req[g].plan = p)
FeatureFree(p, f, h) == \A g \in Handlers \ {h} : ~(req[g].plan = p /\ f \in req[g].written)

Init ==
  /\ org          = [o \in Orgs |-> "unused"]
  /\ subscription = [o \in Orgs |-> Null]
  /\ active       = {}
  /\ plan         = {}
  /\ features     = [p \in Plans |-> {}]
  /\ asked        = [p \in Plans |-> {}]
  /\ rows         = [o \in Orgs |-> [l \in Lists |-> 0]]
  /\ req          = [h \in Handlers |-> Idle]
  /\ calm         = TRUE
-----------------------------------------------------------------------------
(* createOrganization, updateSubscription and deleteOrganization *)

\* That the plan is active is not asked.
CreateOrganization ==
  /\ \E o \in Orgs, p \in plan :
       /\ org[o] = "unused"
       /\ org' = [org EXCEPT ![o] = "stored"]
       /\ subscription' = [subscription EXCEPT ![o] = p]
  /\ Arrives
  /\ UNCHANGED <<active, plan, features, asked, rows, req>>

SubscribeRead(h) ==
  /\ \E o \in Stored, p \in active :
       Take(h, [Idle EXCEPT !.pc = "subscribe", !.org = o, !.plan = p])
  /\ UNCHANGED <<org, subscription, active, plan, features, asked, rows>>

Created(o) == org[o] # "unused"         \* mutant: the relation is not enforced
Exists(o)  == o \in Stored

\* The upsert needs the organization to be there still.
Subscribe(h) ==
  /\ At(h, "subscribe")
  /\ Exists(req[h].org)
  /\ subscription' = [subscription EXCEPT ![req[h].org] = req[h].plan]
  /\ Reply(h)
  /\ UNCHANGED <<org, active, plan, features, asked, rows>>

DeleteOrganization ==
  /\ \E o \in Stored :
       /\ org' = [org EXCEPT ![o] = "deleted"]
       /\ subscription' = [subscription EXCEPT ![o] = Null]
       /\ rows' = [rows EXCEPT ![o] = [l \in Lists |-> 0]]
  /\ Arrives
  /\ UNCHANGED <<active, plan, features, asked, req>>
-----------------------------------------------------------------------------
(* createPlan and softDeletePlan *)

CreatePlan ==
  /\ \E p \in Plans \ plan, fs \in (SUBSET Features) \ {{}} :
       /\ plan' = plan \cup {p}
       /\ active' = active \cup {p}
       /\ features' = [features EXCEPT ![p] = fs]
       /\ asked' = [asked EXCEPT ![p] = fs]
  /\ Arrives
  /\ UNCHANGED <<org, subscription, rows, req>>

FewSubscribers(p) == Cardinality(Subscribers(p)) <= 1   \* mutant: one is let pass
NoSubscribers(p)  == Subscribers(p) = {}

DisableRead(h) ==
  /\ \E p \in active : /\ NoSubscribers(p)
                       /\ Take(h, [Idle EXCEPT !.pc = "disable", !.plan = p])
  /\ UNCHANGED <<org, subscription, active, plan, features, asked, rows>>

Disable(h) ==
  /\ At(h, "disable")
  /\ PlanFree(req[h].plan, h)
  /\ active' = active \ {req[h].plan}
  /\ Reply(h)
  /\ UNCHANGED <<org, subscription, plan, features, asked, rows>>
-----------------------------------------------------------------------------
(* updatePlan, with its features.  The row of the plan is locked when other  *)
(* data of it change too; an update that sets nothing locks nothing          *)

UpdatePlan(h) ==
  /\ \E p \in plan, fs \in (SUBSET Features) \ {{}}, locks \in BOOLEAN :
       /\ locks => PlanFree(p, h)
       /\ Take(h, [Idle EXCEPT !.pc = "readFeatures", !.plan = p, !.asked = fs,
                               !.locks = locks])
  /\ UNCHANGED <<org, subscription, active, plan, features, asked, rows>>

UpdateReadFeatures(h) ==
  /\ At(h, "readFeatures")
  /\ req' = [req EXCEPT ![h] = [@ EXCEPT !.pc = "writeFeatures",
                                         !.had = features[req[h].plan]]]
  /\ UNCHANGED <<org, subscription, active, plan, features, asked, rows, calm>>

\* Updates a feature it read, and fails when that is gone; creates another one,
\* and fails when that is there.
UpdateFeature(h) ==
  /\ At(h, "writeFeatures")
  /\ \E f \in req[h].asked \ req[h].written :
       /\ FeatureFree(req[h].plan, f, h)
       /\ f \in req[h].had <=> f \in features[req[h].plan]
       /\ req' = [req EXCEPT ![h].written = @ \cup {f}]
  /\ UNCHANGED <<org, subscription, active, plan, features, asked, rows, calm>>

ReadBefore(r) == r.had \ r.asked                \* mutant: of those read at the start
NotAsked(r)   == features[r.plan] \ r.asked

SomeWritten(r) == r.written # {}                \* mutant: the writes are not awaited
AllWritten(r)  == r.written = r.asked

\* The delete finds what is committed when it starts, waits for locked rows, and
\* deletes what is still there.
UpdateFindOld(h) ==
  /\ At(h, "writeFeatures")
  /\ AllWritten(req[h])
  /\ req' = [req EXCEPT ![h] = [@ EXCEPT !.pc = "deleteFeatures", !.old = NotAsked(req[h])]]
  /\ UNCHANGED <<org, subscription, active, plan, features, asked, rows, calm>>

UpdateCommit(h) ==
  LET r == req[h] IN
  /\ At(h, "deleteFeatures")
  /\ \A f \in r.old : FeatureFree(r.plan, f, h)
  /\ features' = [features EXCEPT ![r.plan] = (@ \ r.old) \cup r.written]
  /\ asked' = [asked EXCEPT ![r.plan] = r.asked]
  /\ Reply(h)
  /\ UNCHANGED <<org, subscription, active, plan, rows>>
-----------------------------------------------------------------------------
(* createDepartment and addReason: a look for the name, then the insert *)

NotChecked(o, l) == TRUE                        \* mutant: the name is not looked for
NotThere(o, l)   == rows[o][l] = 0

ReadName(h, l) ==
  /\ \E o \in Stored :
       /\ NotThere(o, l)
       /\ Take(h, [Idle EXCEPT !.pc = "createRow", !.org = o, !.list = l])
  /\ UNCHANGED <<org, subscription, active, plan, features, asked, rows>>

AddDepartment(h) == ReadName(h, "departments")
AddReason(h)     == ReadName(h, "reasons")

CreateRow(h) ==
  LET o == req[h].org
      l == req[h].list IN
  /\ At(h, "createRow")
  /\ o \in Stored
  /\ rows[o][l] < MaxRows
  /\ rows' = [rows EXCEPT ![o][l] = @ + 1]
  /\ Reply(h)
  /\ UNCHANGED <<org, subscription, active, plan, features, asked>>

DeleteRow(l) ==
  /\ \E o \in Stored : rows[o][l] > 0 /\ rows' = [rows EXCEPT ![o][l] = @ - 1]
  /\ Arrives
  /\ UNCHANGED <<org, subscription, active, plan, features, asked, req>>

DeleteDepartment == DeleteRow("departments")
DeleteReason     == DeleteRow("reasons")

\* A call fails, on a row or a constraint that is not met, a deadlock or for any
\* other reason, or the server stops: a transaction is undone.
Abort(h) ==
  /\ ~At(h, "idle")
  /\ Reply(h)
  /\ UNCHANGED <<org, subscription, active, plan, features, asked, rows>>

Step(h) == \/ SubscribeRead(h) \/ Subscribe(h)
           \/ DisableRead(h) \/ Disable(h)
           \/ UpdatePlan(h) \/ UpdateReadFeatures(h) \/ UpdateFeature(h)
           \/ UpdateFindOld(h) \/ UpdateCommit(h)
           \/ AddDepartment(h) \/ AddReason(h) \/ CreateRow(h)
           \/ Abort(h)

Next == \/ \E h \in Handlers : Step(h)
        \/ DeleteDepartment \/ DeleteReason
        \/ CreateOrganization \/ DeleteOrganization \/ CreatePlan

Spec == Init /\ [][Next]_vars
-----------------------------------------------------------------------------
(* Properties *)

\* Rows and requests have their types, and no handler reaches a statement
\* without the ids it passes.
TypeOK ==
  /\ org \in [Orgs -> {"unused", "stored", "deleted"}]
  /\ subscription \in [Orgs -> Plans \cup {Null}]
  /\ active \subseteq plan /\ plan \subseteq Plans
  /\ features \in [Plans -> SUBSET Features]
  /\ asked \in [Plans -> SUBSET Features]
  /\ rows \in [Orgs -> [Lists -> 0..MaxRows]]
  /\ req \in [Handlers -> Request]
  /\ \A h \in Handlers : RequestOK(req[h])
  /\ calm \in BOOLEAN

\* An organization has a subscription, to a plan that is stored, from its
\* creation to its deletion, and no subscription outlives it: the upsert of a new
\* subscription may race with the deletion.
SubscribedWhileStored ==
  \A o \in Orgs : IF o \in Stored THEN subscription[o] \in plan ELSE subscription[o] = Null

\* The features of a plan are those of the update that was answered last, however
\* updates interleave and whether or not they lock the row of the plan: with the
\* two codes there are, no mixture of two updates is ever left.
FeaturesAreAsked == \A p \in Plans : features[p] = asked[p]

\* "Cannot disable a plan with active subscriptions.": true of requests served one
\* at a time.
DisabledUnused ==
  [][calm => \A p \in active \ active' : Subscribers(p) = {}]_vars

\* "Department already exists.", "Reason already exists.": requests that look for a
\* name at the same time store no more rows of it than there were requests served.
NamesBounded == \A o \in Orgs, l \in Lists : rows[o][l] <= Cardinality(Handlers)

\* The inductive strengthening of these invariants.  Whoever found no row of a name
\* is counted with the rows stored since;
Creating(o, l) == {h \in Handlers : At(h, "createRow") /\ req[h].org = o /\ req[h].list = l}

NamesCounted ==
  \A o \in Orgs, l \in Lists :
    rows[o][l] > 0 => rows[o][l] + Cardinality(Creating(o, l)) <= Cardinality(Handlers)

\* plans are never deleted, nor left without features;
PlansStay ==
  /\ \A p \in plan : features[p] # {}
  /\ \A h \in Handlers : req[h].plan \in plan \cup {Null}

\* no feature is written by two transactions, and what a delete did not find is
\* not there when it commits: whoever could have added it meanwhile would delete
\* what this one has locked;
LocksDisjoint ==
  \A h, g \in Handlers : h # g /\ req[h].plan = req[g].plan
                            => req[h].written \cap req[g].written = {}

OldFound == \A h \in Handlers : At(h, "deleteFeatures") => NotAsked(req[h]) \subseteq req[h].old

\* and while requests come one at a time, nobody subscribes to a plan that is
\* about to be disabled.
CalmDisables ==
  calm => /\ \A h, g \in Handlers : ~At(h, "idle") /\ ~At(g, "idle") => h = g
          /\ \A h \in Handlers : At(h, "disable") => NoSubscribers(req[h].plan)

IInv == /\ TypeOK
        /\ SubscribedWhileStored
        /\ FeaturesAreAsked
        /\ NamesCounted
        /\ PlansStay
        /\ LocksDisjoint
        /\ OldFound
        /\ CalmDisables
=============================================================================
