------------------------- MODULE OrganizationsProofs -------------------------
(* Theorems about Organizations, for every value of its constants. *)
EXTENDS Organizations, FiniteSetTheorems, TLAPS

LEMMA IdleTyped ==
  /\ Idle \in Request /\ RequestOK(Idle) /\ Idle.pc = "idle"
  /\ Idle.plan = Null /\ Idle.written = {}
BY DEF Idle, Request, Labels, RequestOK
-----------------------------------------------------------------------------
(* What a step may do to a request *)

\* One request changes; each kind of request begins, and writes, in one way.
Becomes(h, r) ==
  /\ req' = [req EXCEPT ![h] = r]
  /\ r \in Request
  /\ RequestOK(r)
  /\ r.plan \in plan \cup {Null}
  /\ \/ r.written = {}
     \/ UpdateFeature(h)
     \/ r.written = req[h].written /\ r.plan = req[h].plan
  /\ r.pc = "createRow" => \E l \in Lists : ReadName(h, l) /\ r.list = l
  /\ r.pc = "disable" => DisableRead(h)
  /\ r.pc = "deleteFeatures" => UpdateFindOld(h)

LEMMA StepBecomes ==
  ASSUME TypeOK, PlansStay, NEW h \in Handlers, Step(h)
  PROVE  \E r : Becomes(h, r)
<1>0. req[h] \in Request /\ RequestOK(req[h]) /\ req[h].plan \in plan \cup {Null}
  BY DEF TypeOK, PlansStay
<1>t. ASSUME NEW r \in Request, RequestOK(r), Take(h, r), r.written = {},
             r.plan \in plan \cup {Null},
             r.pc = "createRow" => \E l \in Lists : ReadName(h, l) /\ r.list = l,
             r.pc = "disable" => DisableRead(h), r.pc # "deleteFeatures"
      PROVE  \E x : Becomes(h, x)
  BY <1>t DEF Take, Becomes
<1>1. CASE SubscribeRead(h)
  <2>1. PICK o \in Stored, p \in active :
          Take(h, [Idle EXCEPT !.pc = "subscribe", !.org = o, !.plan = p])
    BY <1>1 DEF SubscribeRead
  <2> DEFINE r == [Idle EXCEPT !.pc = "subscribe", !.org = o, !.plan = p]
  <2>2. r \in Request /\ RequestOK(r) /\ r.pc = "subscribe" /\ r.written = {} /\ r.plan \in plan
    BY DEF Idle, Request, Labels, RequestOK, Stored, TypeOK
  <2> QED BY <1>t, <2>1, <2>2
<1>2. CASE DisableRead(h)
  <2>1. PICK p \in active : Take(h, [Idle EXCEPT !.pc = "disable", !.plan = p])
    BY <1>2 DEF DisableRead
  <2> DEFINE r == [Idle EXCEPT !.pc = "disable", !.plan = p]
  <2>2. r \in Request /\ RequestOK(r) /\ r.pc = "disable" /\ r.written = {} /\ r.plan \in plan
    BY DEF Idle, Request, Labels, RequestOK, TypeOK
  <2> QED BY <1>t, <1>2, <2>1, <2>2
<1>3. CASE UpdatePlan(h)
  <2>1. PICK p \in plan, fs \in (SUBSET Features) \ {{}}, locks \in BOOLEAN :
          Take(h, [Idle EXCEPT !.pc = "readFeatures", !.plan = p, !.asked = fs, !.locks = locks])
    BY <1>3 DEF UpdatePlan
  <2> DEFINE r == [Idle EXCEPT !.pc = "readFeatures", !.plan = p, !.asked = fs, !.locks = locks]
  <2>2. r \in Request /\ RequestOK(r) /\ r.pc = "readFeatures" /\ r.written = {} /\ r.plan \in plan
    BY DEF Idle, Request, Labels, RequestOK, TypeOK
  <2> QED BY <1>t, <2>1, <2>2
<1>4. CASE UpdateReadFeatures(h)
  <2> DEFINE r == [req[h] EXCEPT !.pc = "writeFeatures", !.had = features[req[h].plan]]
  <2>1. At(h, "readFeatures") /\ req' = [req EXCEPT ![h] = r]
    BY <1>4 DEF UpdateReadFeatures, TypeOK
  <2>2. features[req[h].plan] \in SUBSET Features
    BY <1>0, <2>1 DEF TypeOK, RequestOK, At
  <2>3. r \in Request /\ RequestOK(r) /\ r.pc = "writeFeatures"
        /\ r.written = req[h].written /\ r.plan = req[h].plan
    BY <1>0, <2>1, <2>2 DEF Request, Labels, RequestOK, At
  <2> QED BY <1>0, <2>1, <2>3 DEF Becomes
<1>5. CASE UpdateFeature(h)
  <2>1. PICK f \in req[h].asked \ req[h].written : req' = [req EXCEPT ![h].written = @ \cup {f}]
    BY <1>5 DEF UpdateFeature
  <2> DEFINE r == [req[h] EXCEPT !.written = req[h].written \cup {f}]
  <2>2. req[h].pc = "writeFeatures" /\ req' = [req EXCEPT ![h] = r]
    BY <1>5, <2>1 DEF UpdateFeature, At, TypeOK
  <2>3. req[h].written \cup {f} \in SUBSET Features /\ req[h].written \cup {f} \subseteq req[h].asked
    BY <1>0, <2>2 DEF Request, RequestOK
  <2>4. r \in Request /\ RequestOK(r) /\ r.pc = "writeFeatures" /\ r.plan = req[h].plan
    BY <1>0, <2>2, <2>3 DEF Request, Labels, RequestOK
  <2> QED BY <1>0, <1>5, <2>2, <2>4 DEF Becomes
<1>6. CASE UpdateFindOld(h)
  <2> DEFINE r == [req[h] EXCEPT !.pc = "deleteFeatures", !.old = NotAsked(req[h])]
  <2>1. req[h].pc = "writeFeatures" /\ req[h].written = req[h].asked /\ req' = [req EXCEPT ![h] = r]
    BY <1>6 DEF UpdateFindOld, AllWritten, At, TypeOK
  <2>2. NotAsked(req[h]) \in SUBSET Features
    BY <1>0, <2>1 DEF NotAsked, TypeOK, RequestOK
  <2>3. r \in Request /\ RequestOK(r) /\ r.pc = "deleteFeatures"
        /\ r.written = req[h].written /\ r.plan = req[h].plan
    BY <1>0, <2>1, <2>2 DEF Request, Labels, RequestOK
  <2> QED BY <1>0, <1>6, <2>1, <2>3 DEF Becomes
<1>7. CASE AddDepartment(h) \/ AddReason(h)
  <2>1. PICK l \in Lists : ReadName(h, l)
    BY <1>7 DEF AddDepartment, AddReason, Lists
  <2>2. PICK o \in Stored : Take(h, [Idle EXCEPT !.pc = "createRow", !.org = o, !.list = l])
    BY <2>1 DEF ReadName
  <2> DEFINE r == [Idle EXCEPT !.pc = "createRow", !.org = o, !.list = l]
  <2>3. r \in Request /\ RequestOK(r) /\ r.pc = "createRow" /\ r.written = {} /\ r.plan = Null
        /\ r.list = l
    BY DEF Idle, Request, Labels, RequestOK, Stored
  <2> QED BY <1>t, <2>1, <2>2, <2>3
<1>8. CASE Subscribe(h) \/ Disable(h) \/ UpdateCommit(h) \/ CreateRow(h) \/ Abort(h)
  <2>1. Reply(h)
    BY <1>8 DEF Subscribe, Disable, UpdateCommit, CreateRow, Abort
  <2> QED BY <2>1, IdleTyped DEF Reply, Becomes
<1> QED BY <1>1, <1>2, <1>3, <1>4, <1>5, <1>6, <1>7, <1>8 DEF Step

\* The operations that are one step; none of them is a request that waits.
AtOnce == DeleteDepartment \/ DeleteReason \/ CreateOrganization \/ DeleteOrganization \/ CreatePlan

LEMMA AtOnceArrives == AtOnce => req' = req /\ Arrives
BY DEF AtOnce, DeleteDepartment, DeleteReason, DeleteRow, CreateOrganization, DeleteOrganization,
       CreatePlan

\* Who is where after a step: whoever was there, or the handler that made it.
LEMMA ArrivesBy ==
  ASSUME TypeOK, PlansStay, [Next]_vars, NEW g \in Handlers
  PROVE  \/ req'[g] = req[g]
         \/ Step(g) /\ Becomes(g, req'[g])
<1>1. ASSUME NEW h \in Handlers, Step(h) PROVE req'[g] = req[g] \/ (Step(g) /\ Becomes(g, req'[g]))
  <2>1. PICK r : Becomes(h, r)
    BY <1>1, StepBecomes
  <2>2. IF g = h THEN req'[g] = r ELSE req'[g] = req[g]
    BY <2>1 DEF Becomes, TypeOK
  <2> QED BY <1>1, <2>1, <2>2
<1>2. CASE AtOnce \/ UNCHANGED vars
  BY <1>2, AtOnceArrives DEF vars
<1> QED BY <1>1, <1>2 DEF Next, AtOnce

\* Steps of a request that leave all tables alone.
Reads(h) == SubscribeRead(h) \/ DisableRead(h) \/ UpdatePlan(h) \/ UpdateReadFeatures(h)
            \/ UpdateFeature(h) \/ UpdateFindOld(h) \/ AddDepartment(h) \/ AddReason(h) \/ Abort(h)

LEMMA ReadsKeepTables ==
  ASSUME NEW h \in Handlers, Reads(h)
  PROVE  UNCHANGED <<org, subscription, active, plan, features, asked, rows>>
BY DEF Reads, SubscribeRead, DisableRead, UpdatePlan, UpdateReadFeatures, UpdateFeature,
       UpdateFindOld, AddDepartment, AddReason, ReadName, Abort

\* Every step reads only, is one of four writes, or is over at once.
LEMMA StepKinds ==
  ASSUME [Next]_vars
  PROVE  \/ \E h \in Handlers : Subscribe(h) \/ Disable(h) \/ UpdateCommit(h) \/ CreateRow(h)
         \/ DeleteDepartment \/ DeleteReason \/ CreateOrganization \/ DeleteOrganization \/ CreatePlan
         \/ UNCHANGED <<org, subscription, active, plan, features, asked, rows>>
<1>1. ASSUME NEW h \in Handlers, Step(h)
      PROVE  Reads(h) \/ Subscribe(h) \/ Disable(h) \/ UpdateCommit(h) \/ CreateRow(h)
  BY <1>1 DEF Step, Reads
<1> QED BY <1>1, ReadsKeepTables DEF Next, vars
-----------------------------------------------------------------------------
(* Plans and their features *)

LEMMA PlansStep == IInv /\ [Next]_vars => PlansStay' /\ plan \subseteq plan'
<1> SUFFICES ASSUME IInv, [Next]_vars PROVE PlansStay' /\ plan \subseteq plan'
  OBVIOUS
<1>0. TypeOK /\ PlansStay
  BY DEF IInv
<1>1. plan \subseteq plan' /\ \A p \in plan' : features'[p] # {}
  <2>1. ASSUME NEW h \in Handlers, UpdateCommit(h)
        PROVE  plan \subseteq plan' /\ \A p \in plan' : features'[p] # {}
    <3>1. req[h].written = req[h].asked /\ req[h].asked # {} /\ req[h].plan \in Plans
      BY <1>0, <2>1 DEF UpdateCommit, TypeOK, RequestOK, At
    <3> QED BY <1>0, <2>1, <3>1 DEF UpdateCommit, PlansStay, TypeOK
  <2>2. CASE CreatePlan
    <3>1. PICK p \in Plans \ plan, fs \in (SUBSET Features) \ {{}} :
            plan' = plan \cup {p} /\ features' = [features EXCEPT ![p] = fs]
      BY <2>2 DEF CreatePlan
    <3>2. \A q \in plan' : features'[q] = IF q = p THEN fs ELSE features[q]
      BY <1>0, <3>1 DEF TypeOK
    <3> QED BY <1>0, <3>1, <3>2 DEF PlansStay
  <2>3. CASE UNCHANGED <<plan, features>>
    BY <1>0, <2>3 DEF PlansStay
  <2> QED BY <2>1, <2>2, <2>3, StepKinds DEF Subscribe, Disable, CreateRow, DeleteDepartment,
            DeleteReason, DeleteRow, CreateOrganization, DeleteOrganization
<1>2. \A h \in Handlers : req'[h].plan \in plan' \cup {Null}
  BY <1>0, <1>1, ArrivesBy DEF PlansStay, Becomes
<1> QED BY <1>1, <1>2 DEF PlansStay

LEMMA LocksStep == IInv /\ [Next]_vars => LocksDisjoint'
<1> SUFFICES ASSUME IInv, [Next]_vars PROVE LocksDisjoint'
  OBVIOUS
<1>0. TypeOK /\ PlansStay /\ LocksDisjoint
  BY DEF IInv
<1>1. CASE \E h \in Handlers : UpdateFeature(h)
  <2>1. PICK h \in Handlers : UpdateFeature(h)
    BY <1>1
  <2>2. PICK f \in req[h].asked \ req[h].written :
          /\ FeatureFree(req[h].plan, f, h)
          /\ req' = [req EXCEPT ![h].written = @ \cup {f}]
    BY <2>1 DEF UpdateFeature
  <2>3. /\ req'[h].written = req[h].written \cup {f} /\ req'[h].plan = req[h].plan
        /\ \A g \in Handlers \ {h} : req'[g] = req[g]
    BY <1>0, <2>2 DEF TypeOK, Request
  <2>4. \A g \in Handlers \ {h} : req[g].plan = req[h].plan => f \notin req[g].written
    BY <2>2 DEF FeatureFree
  <2> QED BY <1>0, <2>3, <2>4 DEF LocksDisjoint
<1>2. CASE \A h \in Handlers : ~UpdateFeature(h)
  <2>1. \A g \in Handlers : \/ req'[g].written = {}
                            \/ req'[g].written = req[g].written /\ req'[g].plan = req[g].plan
    BY <1>0, <1>2, ArrivesBy DEF Becomes
  <2> QED BY <1>0, <2>1 DEF LocksDisjoint
<1> QED BY <1>1, <1>2

\* A commit leaves what was asked for: the delete found all the rest.
LEMMA CommitIsAsked ==
  ASSUME IInv, NEW h \in Handlers, UpdateCommit(h)
  PROVE  /\ req[h].plan \in plan /\ req[h].plan \in Plans
         /\ features' = [features EXCEPT ![req[h].plan] = req[h].asked]
         /\ asked' = [asked EXCEPT ![req[h].plan] = req[h].asked]
<1> DEFINE r == req[h]
<1>0. TypeOK /\ PlansStay /\ OldFound
  BY DEF IInv
<1>1. At(h, "deleteFeatures") /\ r \in Request /\ RequestOK(r)
  BY <1>0 DEF UpdateCommit, TypeOK
<1>2. r.written = r.asked /\ r.plan \in Plans /\ r.plan \in plan
  BY <1>0, <1>1, NullAssumption DEF RequestOK, At, PlansStay
<1>3. features[r.plan] \ r.asked \subseteq r.old
  BY <1>0, <1>1 DEF OldFound, NotAsked
<1>4. features' = [features EXCEPT ![r.plan] = (features[r.plan] \ r.old) \cup r.written]
      /\ asked' = [asked EXCEPT ![r.plan] = r.asked]
  BY DEF UpdateCommit
<1>5. r.old \cap r.asked = {} => (features[r.plan] \ r.old) \cup r.written = r.asked
  BY <1>2, <1>3
<1>6. (features[r.plan] \ r.old) \cup r.written = r.asked
  BY <1>2, <1>3
<1> QED BY <1>2, <1>4, <1>6

LEMMA FeaturesStep == IInv /\ [Next]_vars => FeaturesAreAsked'
<1> SUFFICES ASSUME IInv, [Next]_vars PROVE FeaturesAreAsked'
  OBVIOUS
<1>0. TypeOK /\ FeaturesAreAsked
  BY DEF IInv
<1>1. ASSUME NEW h \in Handlers, UpdateCommit(h) PROVE FeaturesAreAsked'
  BY <1>0, <1>1, CommitIsAsked DEF FeaturesAreAsked, TypeOK
<1>2. CASE CreatePlan
  BY <1>0, <1>2 DEF CreatePlan, FeaturesAreAsked, TypeOK
<1>3. CASE UNCHANGED <<features, asked>>
  BY <1>0, <1>3 DEF FeaturesAreAsked
<1> QED BY <1>1, <1>2, <1>3, StepKinds DEF Subscribe, Disable, CreateRow, DeleteDepartment,
          DeleteReason, DeleteRow, CreateOrganization, DeleteOrganization

\* Two transactions that are about to commit have locked one feature each, of the
\* two there are.  The one whose delete found the other's feature waits; had it not
\* found it, the feature was not there, and its own was.
LEMMA OldStep == IInv /\ [Next]_vars => OldFound'
<1> SUFFICES ASSUME IInv, [Next]_vars, NEW h \in Handlers, At(h, "deleteFeatures")'
             PROVE  (features'[req'[h].plan] \ req'[h].asked) \subseteq req'[h].old
  BY DEF OldFound, NotAsked
<1>0. TypeOK /\ PlansStay /\ LocksDisjoint /\ OldFound
  BY DEF IInv
<1>1. CASE UpdateFindOld(h)
  <2>1. req'[h].plan = req[h].plan /\ req'[h].asked = req[h].asked
        /\ req'[h].old = features[req[h].plan] \ req[h].asked /\ features' = features
    BY <1>0, <1>1 DEF UpdateFindOld, NotAsked, TypeOK, Request
  <2> QED BY <2>1
<1>2. CASE req'[h] = req[h]
  <2> DEFINE r == req[h]
  <2>1. At(h, "deleteFeatures") /\ features[r.plan] \ r.asked \subseteq r.old
    BY <1>0, <1>2 DEF OldFound, NotAsked, At
  <2>2. r.plan \in plan /\ r.plan \in Plans /\ r.asked \in SUBSET Features
        /\ r.asked # {} /\ r.written = r.asked
    BY <1>0, <2>1, NullAssumption DEF TypeOK, RequestOK, At, Request, PlansStay
  <2>3. ASSUME NEW g \in Handlers, UpdateCommit(g), req[g].plan = r.plan
        PROVE  features'[r.plan] \ r.asked \subseteq r.old
    <3> DEFINE s == req[g]
    <3>1. g # h
      <4>1. req' = [req EXCEPT ![g] = Idle]
        BY <2>3 DEF UpdateCommit, Reply
      <4>2. req'[g].pc = "idle"
        BY <1>0, <4>1, IdleTyped DEF TypeOK
      <4> QED BY <1>2, <2>1, <4>2 DEF At
    <3>2. s.written = s.asked /\ s.asked # {} /\ s.asked \in SUBSET Features
          /\ features[s.plan] \ s.asked \subseteq s.old
      BY <1>0, <2>3 DEF UpdateCommit, TypeOK, RequestOK, Request, At, OldFound, NotAsked
    <3>3. s.asked \cap r.asked = {}
      BY <1>0, <2>2, <2>3, <3>1, <3>2 DEF LocksDisjoint
    <3>4. features[r.plan] \cap r.asked = {}
      <4> SUFFICES ASSUME NEW f \in features[r.plan], f \in r.asked PROVE FALSE
        OBVIOUS
      <4>1. f \in s.old
        BY <2>3, <3>2, <3>3
      <4>2. FeatureFree(s.plan, f, g)
        BY <2>3, <4>1 DEF UpdateCommit
      <4> QED BY <2>2, <2>3, <3>1, <4>2 DEF FeatureFree
    <3>5. PICK f \in features[r.plan] : f \in Features /\ f \notin r.asked
      BY <1>0, <2>2, <3>4 DEF PlansStay, TypeOK
    <3>6. f \in r.old
      BY <2>1, <3>5
    <3>7. \A k \in s.asked : k = f
      BY <2>2, <3>2, <3>3, <3>5, FeatureAssumption
    <3>8. features'[r.plan] = s.asked
      BY <1>0, <2>2, <2>3, CommitIsAsked DEF TypeOK
    <3> QED BY <3>6, <3>7, <3>8
  <2>4. CASE features'[r.plan] = features[r.plan]
    BY <1>2, <2>1, <2>4
  <2>5. ASSUME NEW g \in Handlers, UpdateCommit(g), req[g].plan # r.plan
        PROVE  features'[r.plan] = features[r.plan]
    BY <1>0, <2>2, <2>5 DEF UpdateCommit, TypeOK
  <2>6. ASSUME CreatePlan PROVE features'[r.plan] = features[r.plan]
    BY <1>0, <2>2, <2>6 DEF CreatePlan, TypeOK
  <2> QED BY <1>2, <2>3, <2>4, <2>5, <2>6, StepKinds DEF Subscribe, Disable, CreateRow,
            DeleteDepartment, DeleteReason, DeleteRow, CreateOrganization, DeleteOrganization
<1> QED BY <1>0, <1>1, <1>2, ArrivesBy DEF Becomes, At
-----------------------------------------------------------------------------
(* Subscriptions *)

LEMMA SubscriptionStep == IInv /\ [Next]_vars => SubscribedWhileStored'
<1> SUFFICES ASSUME IInv, [Next]_vars PROVE SubscribedWhileStored'
  OBVIOUS
<1>0. TypeOK /\ PlansStay /\ SubscribedWhileStored /\ plan \subseteq plan'
  BY PlansStep DEF IInv
<1>1. ASSUME NEW h \in Handlers, Subscribe(h) PROVE SubscribedWhileStored'
  <2>1. req[h].org \in Stored /\ req[h].plan \in plan
    BY <1>0, <1>1, NullAssumption DEF Subscribe, Exists, TypeOK, RequestOK, At, PlansStay
  <2> QED BY <1>0, <1>1, <2>1 DEF Subscribe, SubscribedWhileStored, Stored, TypeOK
<1>2. CASE CreateOrganization
  BY <1>0, <1>2 DEF CreateOrganization, SubscribedWhileStored, Stored, TypeOK
<1>3. CASE DeleteOrganization
  BY <1>0, <1>3 DEF DeleteOrganization, SubscribedWhileStored, Stored, TypeOK
<1>4. CASE UNCHANGED <<org, subscription>>
  BY <1>0, <1>4 DEF SubscribedWhileStored, Stored
<1> QED BY <1>1, <1>2, <1>3, <1>4, StepKinds DEF Disable, UpdateCommit, CreateRow,
          DeleteDepartment, DeleteReason, DeleteRow, CreatePlan

LEMMA CalmStep == IInv /\ [Next]_vars => CalmDisables'
<1> SUFFICES ASSUME IInv, [Next]_vars, calm'
             PROVE  /\ \A h, g \in Handlers : ~At(h, "idle")' /\ ~At(g, "idle")' => h = g
                    /\ \A h \in Handlers : At(h, "disable")' => Subscribers(req[h].plan)' = {}
  BY DEF CalmDisables, NoSubscribers
<1>0. TypeOK /\ PlansStay /\ CalmDisables
  BY DEF IInv
<1>1. CASE AtOnce
  <2>1. req' = req /\ \A h \in Handlers : At(h, "idle")
    BY <1>1, AtOnceArrives DEF Arrives, Quiet
  <2> QED BY <2>1 DEF At
<1>2. CASE UNCHANGED vars
  BY <1>0, <1>2 DEF vars, CalmDisables, At, NoSubscribers, Subscribers
<1>3. ASSUME NEW h \in Handlers, Step(h), ~At(h, "idle")
      PROVE  /\ \A g, k \in Handlers : ~At(g, "idle")' /\ ~At(k, "idle")' => g = k
             /\ \A g \in Handlers : At(g, "disable")' => Subscribers(req[g].plan)' = {}
  <2>1. calm
    BY <1>3 DEF Step, SubscribeRead, Subscribe, DisableRead, Disable, UpdatePlan,
                UpdateReadFeatures, UpdateFeature, UpdateFindOld, UpdateCommit, AddDepartment,
                AddReason, ReadName, CreateRow, Abort, Take, Arrives, Reply
  <2>2. \A g \in Handlers : g # h => req'[g] = req[g] /\ At(g, "idle")
    <3>1. PICK r : Becomes(h, r)
      BY <1>0, <1>3, StepBecomes
    <3> QED BY <1>0, <1>3, <2>1, <3>1 DEF Becomes, CalmDisables, TypeOK
  <2>3. ASSUME At(h, "disable")' PROVE FALSE
    <3>1. PICK r : Becomes(h, r)
      BY <1>0, <1>3, StepBecomes
    <3>2. req'[h] = r
      BY <1>0, <3>1 DEF Becomes, TypeOK
    <3> QED BY <1>3, <2>3, <3>1, <3>2 DEF Becomes, At, DisableRead, Take
  <2> QED BY <2>2, <2>3 DEF At
<1>4. ASSUME NEW h \in Handlers, Step(h), At(h, "idle")
      PROVE  /\ \A g, k \in Handlers : ~At(g, "idle")' /\ ~At(k, "idle")' => g = k
             /\ \A g \in Handlers : At(g, "disable")' => Subscribers(req[g].plan)' = {}
  <2>1. Arrives /\ UNCHANGED subscription
    BY <1>4 DEF Step, SubscribeRead, Subscribe, DisableRead, Disable, UpdatePlan,
                UpdateReadFeatures, UpdateFeature, UpdateFindOld, UpdateCommit, AddDepartment,
                AddReason, ReadName, CreateRow, Abort, Take, Reply, At
  <2>2. \A g \in Handlers : At(g, "idle")
    BY <2>1 DEF Arrives, Quiet
  <2>3. PICK r : Becomes(h, r)
    BY <1>0, <1>4, StepBecomes
  <2>4. req'[h] = r /\ \A g \in Handlers : g # h => req'[g] = req[g]
    BY <1>0, <2>3 DEF Becomes, TypeOK
  <2>5. ASSUME At(h, "disable")' PROVE Subscribers(req[h].plan)' = {}
    <3>1. DisableRead(h)
      BY <2>3, <2>4, <2>5 DEF Becomes, At
    <3>2. PICK p \in active : /\ NoSubscribers(p)
                              /\ req' = [req EXCEPT ![h] = [Idle EXCEPT !.pc = "disable", !.plan = p]]
      BY <3>1 DEF DisableRead, Take
    <3>3. req'[h].plan = p
      BY <1>0, <3>2 DEF TypeOK, Idle
    <3> QED BY <2>1, <3>2, <3>3 DEF NoSubscribers, Subscribers
  <2> QED BY <2>2, <2>4, <2>5 DEF At
<1> QED BY <1>1, <1>2, <1>3, <1>4 DEF Next, AtOnce

\* What a step that disables a plan knows of it.
LEMMA DisableStep ==
  IInv /\ [Next]_vars => (calm => \A p \in active \ active' : Subscribers(p) = {})
<1> SUFFICES ASSUME IInv, [Next]_vars, calm, NEW p \in active \ active'
             PROVE  Subscribers(p) = {}
  OBVIOUS
<1>1. PICK h \in Handlers : Disable(h)
  BY StepKinds DEF Subscribe, UpdateCommit, CreateRow, DeleteDepartment, DeleteReason, DeleteRow,
                   CreateOrganization, DeleteOrganization, CreatePlan
<1>2. At(h, "disable") /\ p = req[h].plan
  BY <1>1 DEF Disable
<1> QED BY <1>2 DEF IInv, CalmDisables, NoSubscribers
-----------------------------------------------------------------------------
(* Names *)

LEMMA Counted ==
  ASSUME NEW o, NEW l
  PROVE  /\ IsFiniteSet(Creating(o, l)) /\ Cardinality(Creating(o, l)) \in Nat
         /\ Cardinality(Creating(o, l)) <= Cardinality(Handlers) /\ Cardinality(Handlers) \in Nat
<1>1. Creating(o, l) \in SUBSET Handlers
  BY DEF Creating
<1> QED BY <1>1, FS_Subset, FS_CardinalityType, HandlerAssumption

\* Who looks for a name finds none; only he is counted anew.
LEMMA CreatingShrinks ==
  ASSUME IInv, [Next]_vars, NEW o \in Orgs, NEW l \in Lists, rows[o][l] > 0
  PROVE  Creating(o, l)' \subseteq Creating(o, l)
<1> SUFFICES ASSUME NEW g \in Handlers, req'[g].pc = "createRow",
                    req'[g].org = o, req'[g].list = l, req'[g] # req[g]
             PROVE  FALSE
  BY DEF Creating, At
<1>0. TypeOK /\ PlansStay
  BY DEF IInv
<1>1. ReadName(g, l)
  BY <1>0, ArrivesBy DEF Becomes
<1>2. PICK x \in Stored :
        /\ NotThere(x, l)
        /\ req' = [req EXCEPT ![g] = [Idle EXCEPT !.pc = "createRow", !.org = x, !.list = l]]
  BY <1>1 DEF ReadName, Take
<1>3. x = o
  BY <1>0, <1>2 DEF TypeOK, Idle
<1> QED BY <1>2, <1>3 DEF NotThere

LEMMA NamesStep == IInv /\ [Next]_vars => NamesCounted'
<1> SUFFICES ASSUME IInv, [Next]_vars, NEW o \in Orgs, NEW l \in Lists, rows'[o][l] > 0
             PROVE  rows'[o][l] + Cardinality(Creating(o, l)') <= Cardinality(Handlers)
  BY DEF NamesCounted
<1>0. TypeOK /\ NamesCounted /\ rows[o][l] \in Nat
  BY RowAssumption DEF IInv, TypeOK
<1>c. /\ IsFiniteSet(Creating(o, l)') /\ Cardinality(Creating(o, l)') \in Nat
      /\ Cardinality(Creating(o, l)') <= Cardinality(Handlers)
  <2>1. Creating(o, l)' \in SUBSET Handlers
    BY DEF Creating
  <2> QED BY <2>1, FS_Subset, FS_CardinalityType, HandlerAssumption
<1>k. ASSUME rows'[o][l] \in Nat, rows'[o][l] <= rows[o][l]
      PROVE  rows'[o][l] + Cardinality(Creating(o, l)') <= Cardinality(Handlers)
  <2>1. rows[o][l] > 0
    BY <1>0, <1>k
  <2>2. Cardinality(Creating(o, l)') <= Cardinality(Creating(o, l))
    BY <2>1, CreatingShrinks, Counted, FS_Subset
  <2> QED BY <1>0, <1>c, <1>k, <2>1, <2>2, Counted DEF NamesCounted
<1>1. ASSUME NEW h \in Handlers, CreateRow(h)
      PROVE  rows'[o][l] + Cardinality(Creating(o, l)') <= Cardinality(Handlers)
  <2>1. /\ At(h, "createRow") /\ req[h].org \in Orgs /\ req[h].list \in Lists
        /\ rows' = [rows EXCEPT ![req[h].org][req[h].list] = @ + 1]
        /\ req' = [req EXCEPT ![h] = Idle]
    BY <1>0, <1>1 DEF CreateRow, Reply, TypeOK, RequestOK, At
  <2>2. CASE req[h].org = o /\ req[h].list = l
    <3>1. rows'[o][l] = rows[o][l] + 1
      BY <1>0, <2>1, <2>2 DEF TypeOK
    <3>2. h \in Creating(o, l) /\ Creating(o, l)' \subseteq Creating(o, l) \ {h}
      BY <1>0, <2>1, <2>2, IdleTyped DEF Creating, At, TypeOK
    <3>3. IsFiniteSet(Creating(o, l) \ {h})
          /\ Cardinality(Creating(o, l) \ {h}) = Cardinality(Creating(o, l)) - 1
      BY <3>2, Counted, FS_RemoveElement
    <3>4. Cardinality(Creating(o, l)') <= Cardinality(Creating(o, l)) - 1
      BY <3>2, <3>3, FS_Subset
    <3>5. CASE rows[o][l] = 0
      BY <1>c, <3>1, <3>4, <3>5, Counted
    <3>6. CASE rows[o][l] > 0
      BY <1>0, <1>c, <3>1, <3>4, <3>6, Counted DEF NamesCounted
    <3> QED BY <1>0, <3>5, <3>6
  <2>3. CASE ~(req[h].org = o /\ req[h].list = l)
    <3>1. rows'[o][l] = rows[o][l]
      BY <1>0, <2>1, <2>3 DEF TypeOK
    <3> QED BY <1>0, <1>k, <3>1
  <2> QED BY <2>2, <2>3
<1>2. CASE DeleteDepartment \/ DeleteReason
  <2>1. PICK m \in Lists : DeleteRow(m)
    BY <1>2 DEF DeleteDepartment, DeleteReason, Lists
  <2>2. PICK x \in Orgs : rows[x][m] > 0 /\ rows' = [rows EXCEPT ![x][m] = @ - 1]
    BY <2>1 DEF DeleteRow, Stored
  <2>3. rows'[o][l] = IF x = o /\ m = l THEN rows[o][l] - 1 ELSE rows[o][l]
    BY <1>0, <2>2 DEF TypeOK
  <2> QED BY <1>0, <1>k, <2>2, <2>3
<1>3. CASE DeleteOrganization
  <2>1. PICK x \in Orgs : rows' = [rows EXCEPT ![x] = [m \in Lists |-> 0]]
    BY <1>3 DEF DeleteOrganization, Stored
  <2>2. rows'[o][l] = IF x = o THEN 0 ELSE rows[o][l]
    BY <1>0, <2>1 DEF TypeOK
  <2> QED BY <1>0, <1>k, <2>2
<1>4. CASE rows' = rows
  BY <1>0, <1>k, <1>4
<1> QED BY <1>1, <1>2, <1>3, <1>4, StepKinds DEF Subscribe, Disable, UpdateCommit,
          CreateOrganization, CreatePlan
-----------------------------------------------------------------------------
(* The invariant *)

LEMMA TypeStep == IInv /\ [Next]_vars => TypeOK'
<1> SUFFICES ASSUME IInv, [Next]_vars PROVE TypeOK'
  OBVIOUS
<1>0. TypeOK /\ PlansStay
  BY DEF IInv
<1>1. req' \in [Handlers -> Request] /\ \A g \in Handlers : RequestOK(req'[g])
  <2>1. ASSUME NEW h \in Handlers, Step(h)
        PROVE  req' \in [Handlers -> Request] /\ \A g \in Handlers : RequestOK(req'[g])
    BY <1>0, <2>1, StepBecomes DEF Becomes, TypeOK
  <2>2. CASE AtOnce \/ UNCHANGED vars
    BY <1>0, <2>2, AtOnceArrives DEF vars, TypeOK
  <2> QED BY <2>1, <2>2 DEF Next, AtOnce
<1>2. calm' \in BOOLEAN
  <2>1. ASSUME NEW h \in Handlers, Step(h) PROVE Arrives \/ calm' = calm
    BY <2>1 DEF Step, SubscribeRead, Subscribe, DisableRead, Disable, UpdatePlan,
                UpdateReadFeatures, UpdateFeature, UpdateFindOld, UpdateCommit, AddDepartment,
                AddReason, ReadName, CreateRow, Abort, Take, Reply
  <2> QED BY <1>0, <2>1, AtOnceArrives DEF Next, AtOnce, Arrives, Quiet, TypeOK, vars
<1>3. active' \subseteq plan' /\ plan' \subseteq Plans
  <2>1. CASE CreatePlan
    BY <1>0, <2>1 DEF CreatePlan, TypeOK
  <2>2. CASE plan' = plan /\ active' \subseteq active
    BY <1>0, <2>2 DEF TypeOK
  <2> QED BY <2>1, <2>2, StepKinds DEF Subscribe, Disable, UpdateCommit, CreateRow,
            DeleteDepartment, DeleteReason, DeleteRow, CreateOrganization, DeleteOrganization
<1>4. features' \in [Plans -> SUBSET Features] /\ asked' \in [Plans -> SUBSET Features]
  <2>1. CASE CreatePlan
    BY <1>0, <2>1 DEF CreatePlan, TypeOK
  <2>2. ASSUME NEW h \in Handlers, UpdateCommit(h)
        PROVE  features' \in [Plans -> SUBSET Features] /\ asked' \in [Plans -> SUBSET Features]
    <3>1. req[h].asked \in SUBSET Features
      BY <1>0 DEF TypeOK, Request
    <3> QED BY <1>0, <2>2, <3>1, CommitIsAsked DEF TypeOK
  <2>3. CASE UNCHANGED <<features, asked>>
    BY <1>0, <2>3 DEF TypeOK
  <2> QED BY <2>1, <2>2, <2>3, StepKinds DEF Subscribe, Disable, CreateRow,
            DeleteDepartment, DeleteReason, DeleteRow, CreateOrganization, DeleteOrganization
<1>5. org' \in [Orgs -> {"unused", "stored", "deleted"}]
      /\ subscription' \in [Orgs -> Plans \cup {Null}]
  <2>1. CASE CreateOrganization
    BY <1>0, <2>1 DEF CreateOrganization, TypeOK
  <2>2. CASE DeleteOrganization
    BY <1>0, <2>2 DEF DeleteOrganization, TypeOK
  <2>3. ASSUME NEW h \in Handlers, Subscribe(h)
        PROVE  org' = org /\ subscription' \in [Orgs -> Plans \cup {Null}]
    <3>1. req[h].plan \in Plans
      BY <1>0, <2>3 DEF Subscribe, TypeOK, RequestOK, At
    <3> QED BY <1>0, <2>3, <3>1 DEF Subscribe, TypeOK
  <2>4. CASE UNCHANGED <<org, subscription>>
    BY <1>0, <2>4 DEF TypeOK
  <2> QED BY <1>0, <2>1, <2>2, <2>3, <2>4, StepKinds DEF Disable, UpdateCommit, CreateRow,
            DeleteDepartment, DeleteReason, DeleteRow, CreatePlan, TypeOK
<1>6. rows' \in [Orgs -> [Lists -> 0..MaxRows]]
  <2>1. ASSUME NEW h \in Handlers, CreateRow(h) PROVE rows' \in [Orgs -> [Lists -> 0..MaxRows]]
    <3> DEFINE o == req[h].org
               l == req[h].list
    <3>1. o \in Orgs /\ l \in Lists /\ rows[o][l] < MaxRows
          /\ rows' = [rows EXCEPT ![o][l] = @ + 1]
      BY <1>0, <2>1 DEF CreateRow, TypeOK, RequestOK, At
    <3>2. rows[o][l] + 1 \in 0..MaxRows
      BY <1>0, <3>1, RowAssumption DEF TypeOK
    <3> QED BY <1>0, <3>1, <3>2 DEF TypeOK
  <2>2. CASE DeleteDepartment \/ DeleteReason
    <3>1. PICK m \in Lists : DeleteRow(m)
      BY <2>2 DEF DeleteDepartment, DeleteReason, Lists
    <3>2. PICK x \in Orgs : rows[x][m] > 0 /\ rows' = [rows EXCEPT ![x][m] = @ - 1]
      BY <3>1 DEF DeleteRow, Stored
    <3>3. rows[x][m] - 1 \in 0..MaxRows
      BY <1>0, <3>2, RowAssumption DEF TypeOK
    <3> QED BY <1>0, <3>2, <3>3 DEF TypeOK
  <2>3. CASE DeleteOrganization
    <3>1. PICK x \in Orgs : rows' = [rows EXCEPT ![x] = [m \in Lists |-> 0]]
      BY <2>3 DEF DeleteOrganization, Stored
    <3>2. [m \in Lists |-> 0] \in [Lists -> 0..MaxRows]
      BY RowAssumption
    <3> QED BY <1>0, <3>1, <3>2 DEF TypeOK
  <2>4. CASE rows' = rows
    BY <1>0, <2>4 DEF TypeOK
  <2> QED BY <2>1, <2>2, <2>3, <2>4, StepKinds DEF Subscribe, Disable, UpdateCommit,
            CreateOrganization, CreatePlan
<1> QED BY <1>1, <1>2, <1>3, <1>4, <1>5, <1>6 DEF TypeOK

LEMMA InvInit == Init => IInv
<1> SUFFICES ASSUME Init PROVE IInv
  OBVIOUS
<1>1. TypeOK
  BY IdleTyped, RowAssumption DEF Init, TypeOK
<1>2. SubscribedWhileStored /\ FeaturesAreAsked /\ PlansStay
  BY IdleTyped DEF Init, SubscribedWhileStored, FeaturesAreAsked, PlansStay, Stored
<1>3. NamesCounted
  BY DEF Init, NamesCounted
<1>4. LocksDisjoint /\ OldFound /\ CalmDisables
  BY IdleTyped DEF Init, LocksDisjoint, OldFound, CalmDisables, At
<1> QED BY <1>1, <1>2, <1>3, <1>4 DEF IInv

LEMMA InvStep == IInv /\ [Next]_vars => IInv'
BY TypeStep, SubscriptionStep, FeaturesStep, NamesStep, PlansStep, LocksStep, OldStep, CalmStep
   DEF IInv

LEMMA InvBounds == IInv => NamesBounded
<1> SUFFICES ASSUME IInv, NEW o \in Orgs, NEW l \in Lists
             PROVE  rows[o][l] <= Cardinality(Handlers)
  BY DEF NamesBounded
<1>1. rows[o][l] \in Nat
      /\ (rows[o][l] > 0 => rows[o][l] + Cardinality(Creating(o, l)) <= Cardinality(Handlers))
  BY RowAssumption DEF IInv, TypeOK, NamesCounted
<1> QED BY <1>1, Counted

LEMMA Inductive == Spec => []IInv
BY InvInit, InvStep, PTL DEF Spec

\* Rows and requests have their types, however many requests are served at once.
THEOREM OrganizationsTyped == Spec => []TypeOK
<1>1. IInv => TypeOK
  BY DEF IInv
<1> QED BY <1>1, Inductive, PTL

\* An organization is subscribed to a stored plan while it is there and no longer.
THEOREM OrganizationsSafe == Spec => []SubscribedWhileStored
<1>1. IInv => SubscribedWhileStored
  BY DEF IInv
<1> QED BY <1>1, Inductive, PTL

\* The rows of one name are no more than the requests that may look for it
\* together.
THEOREM NamesStayBounded == Spec => []NamesBounded
<1>1. IInv => NamesBounded
  BY InvBounds DEF IInv
<1> QED BY <1>1, Inductive, PTL

\* With two feature codes no interleaving of transactions leaves a plan with other
\* features than those of the update that was answered last.
THEOREM UpdatesAreWhole == Spec => []FeaturesAreAsked
<1>1. IInv => FeaturesAreAsked
  BY DEF IInv
<1> QED BY <1>1, InvInit, InvStep, PTL DEF Spec

\* While requests come one at a time no plan is disabled that has subscribers.
THEOREM DisablingIsSafe == Spec => DisabledUnused
<1>1. IInv /\ [Next]_vars => [calm => \A p \in active \ active' : Subscribers(p) = {}]_vars
  BY DisableStep
<1> QED BY <1>1, InvInit, InvStep, PTL DEF Spec, DisabledUnused
=============================================================================
