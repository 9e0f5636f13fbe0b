-------------------------- MODULE DisaggregatedCluster --------------------------
(***************************************************************************)
(* The reconciler of a DorisDisaggregatedCluster                           *)
(* (pkg/controller/disaggregated_cluster_controller.go): its three sub     *)
(* controllers (metaservice, disaggregated_fe, computegroups) are synced,  *)
(* resources of compute groups that the custom resource does not list any  *)
(* more are cleared, and status and health are written back.  Rollout and  *)
(* scale-down inside one group are the subject of ComputeGroup, the FE's   *)
(* scaling that of Frontend: here a group is its StatefulSet, services,    *)
(* claims, running pods and entry in the FE's metadata.  Reads are current: *)
(* a cache that lags behind what the operator has just written is not      *)
(* modelled here.                                                          *)
(***************************************************************************)
EXTENDS Integers, FiniteSets

CONSTANTS Groups,        \* unique ids of compute groups
          MaxReplicas,   \* bound: replicas of a group
          MaxTmpl,       \* bound: templates of the meta service
          MaxEdits,      \* bound: edits of the custom resource
          MaxFaults,     \* bound: failed calls and FE outages
          Provisioner    \* who creates claims: "StatefulSet" or "Operator"

ASSUME ConstantsAssumption ==
    /\ IsFiniteSet(Groups)
    /\ MaxReplicas \in Nat \ {0} /\ MaxTmpl \in Nat \ {0}
    /\ MaxEdits \in Nat /\ MaxFaults \in Nat
    /\ Provisioner \in {"StatefulSet", "Operator"}

VARIABLES
    spec,     \* the custom resource: replicas per group (0: not listed), whether their ids
              \* are unique and well formed, MS template
    ms,       \* meta service: template of the StatefulSet (0: none), revision that runs (0: none)
    fe,       \* FE: StatefulSet exists, how many of its pods are Ready
    sts,      \* group -> replicas of its StatefulSet (0: none)
    svc,      \* group -> its internal and external service
    claims,   \* group -> number of its claims; their ordinals start at 0
    up,       \* group -> Ready pods
    listed,   \* group -> the FE lists backends of it
    status,   \* the status of the custom resource
    queued,   \* the work queue holds the cluster
    pc,       \* next step of the reconcile
    todo,     \* sub controllers not yet synced
    read,     \* the custom resource as read
    mem,      \* the same with the operator's corrections
    st,       \* status in memory
    upd,      \* StatefulSets this reconcile has changed
    errs,     \* an error was collected
    edits, faults

k8sVars == <<ms, fe, sts, svc, claims, up, listed>>
opVars  == <<pc, todo, read, mem, st, upd, errs>>
vars    == <<spec, k8sVars, status, queued, opVars, edits, faults>>

-----------------------------------------------------------------------------
(* State. *)

Nil   == -1       \* spec.computeGroups[i].replicas is not set
Subs  == {"ms", "fe", "cg"}
Specs == [want : [Groups -> -1..MaxReplicas], valid : BOOLEAN, ms : 1..MaxTmpl]

NoEntry == [has |-> FALSE, id |-> FALSE, phase |-> "Reconciling", replicas |-> 0, avail |-> 0]
Entries == [has : BOOLEAN, id : BOOLEAN, phase : {"Reconciling", "Ready"},
            replicas : 0..MaxReplicas, avail : 0..MaxReplicas]
Component == [phase : {"Reconciling", "Ready"}, avail : BOOLEAN]

\* dv1.DorisDisaggregatedClusterStatus.
Statuses == [ms : Component, fe : Component, cgs : [Groups -> Entries],
             cgCount : Nat, cgAvailable : Nat, health : {"Green", "Yellow", "Red"}]

NoSvc == [internal |-> "none", external |-> FALSE]

PCs == {"idle", "sync", "drop", "svcs", "stss", "claims", "status", "write"}

\* The custom resource, what the operator made of it and the operator's memory.
TypeOK ==
    /\ spec \in Specs /\ read \in Specs /\ mem \in Specs
    /\ ms \in [tmpl : 0..MaxTmpl, pod : 0..MaxTmpl]
    /\ fe \in [sts : BOOLEAN, ready : {"none", "some", "all"}]
    /\ sts \in [Groups -> 0..MaxReplicas] /\ claims \in [Groups -> 0..MaxReplicas]
    /\ svc \in [Groups -> [internal : {"none", "clusterIP", "headless"}, external : BOOLEAN]]
    /\ up \in [Groups -> 0..MaxReplicas] /\ listed \in [Groups -> BOOLEAN]
    /\ status \in Statuses /\ st \in Statuses
    /\ pc \in PCs /\ todo \subseteq Subs /\ upd \subseteq Groups \cup {"ms"}
    /\ queued \in BOOLEAN /\ errs \in BOOLEAN
    /\ edits \in 0..MaxEdits /\ faults \in 0..MaxFaults

Wanted(s) == {g \in Groups : s.want[g] # 0}

\* A call fails.
Fault == faults < MaxFaults /\ faults' = faults + 1

-----------------------------------------------------------------------------
(* Reconcile: the sub controllers' Sync, in the order of a Go map. *)

\* A request is taken from the queue and the custom resource read.
BeginReconcile ==
    /\ pc = "idle" /\ queued
    /\ queued' = FALSE
    /\ pc' = "sync" /\ todo' = Subs
    /\ read' = spec /\ mem' = spec /\ st' = status
    /\ upd' = {} /\ errs' = FALSE
    /\ UNCHANGED <<spec, k8sVars, status, edits, faults>>

\* Sub controller c is done; after the last one the clearing starts.
SyncDone(c) ==
    /\ pc = "sync" /\ c \in todo
    /\ todo' = todo \ {c}
    /\ pc' = IF todo' = {} THEN "drop" ELSE "sync"
    /\ UNCHANGED <<spec, status, read, edits>>

\* initMSStatus.
InitMSStatus == [st EXCEPT !.ms.avail = FALSE]

\* metaservice Sync: the StatefulSet is created or applied.
SyncMS ==
    /\ SyncDone("ms")
    /\ st' = InitMSStatus
    /\ ms' = [ms EXCEPT !.tmpl = mem.ms]
    /\ upd' = IF ms.tmpl \notin {0, mem.ms} THEN upd \cup {"ms"} ELSE upd
    /\ queued' = (queued \/ ms' # ms)
    /\ UNCHANGED <<fe, sts, svc, claims, up, listed, mem, errs, faults>>

\* Service or StatefulSet of the meta service cannot be applied.
SyncMSFails ==
    /\ SyncDone("ms") /\ Fault
    /\ st' = InitMSStatus /\ errs' = TRUE
    /\ UNCHANGED <<k8sVars, mem, upd, queued>>

\* initialFEStatus.
InitialFEStatus ==
    IF st.fe.phase = "Reconciling" THEN st ELSE [st EXCEPT !.fe = [phase |-> "Reconciling", avail |-> FALSE]]

\* Service or StatefulSet of the FE cannot be applied.
SyncFEFails ==
    /\ SyncDone("fe") /\ ms.pod # 0 /\ Fault
    /\ st' = InitialFEStatus /\ errs' = TRUE
    /\ UNCHANGED <<k8sVars, mem, upd, queued>>

\* disaggregated_fe Sync, once the service of the meta service has an address.
SyncFE ==
    /\ SyncDone("fe")
    /\ IF ms.pod = 0
       THEN UNCHANGED <<st, fe, queued>>
       ELSE /\ st' = InitialFEStatus
            /\ fe' = [fe EXCEPT !.sts = TRUE]
            /\ queued' = (queued \/ ~ fe.sts)
    /\ UNCHANGED <<ms, sts, svc, claims, up, listed, mem, upd, errs, faults>>

-----------------------------------------------------------------------------
(* computegroups Sync. *)

\* How far computeGroupSync gets for a group: everything, or up to the call that fails.
Progress == {"done", "internal", "recreate", "external", "sts", "pvc"}
After(p, steps) == p = "done" \/ p \in steps

\* feAvailable: the service of the FE has an address.
FeAvailable == fe.ready # "none"

\* Mutant of Defaulted: replicas that are not set stay as they are.
NotDefaulted(s) == s

\* The groups with their default replicas.
Defaulted(s) == [s EXCEPT !.want = [g \in Groups |-> IF s.want[g] = Nil THEN 1 ELSE s.want[g]]]

\* initialCGStatus.
InitialCGStatus(g, n) ==
    IF st.cgs[g].has THEN [st.cgs[g] EXCEPT !.replicas = n]
    ELSE [NoEntry EXCEPT !.has = TRUE, !.replicas = n]

\* reconcileInternalService: a service that is not headless is deleted and created again.
ReconcileInternalService(s, p) ==
    IF p = "internal" THEN s
    ELSE IF p = "recreate" THEN "none"
    ELSE "headless"

\* reconcileStatefulset: created or grown at once; a scale-down may be held
\* back by a decommission or by the graceful action for as long as they take.
ReconcileStatefulset(old, n, hold) == IF hold /\ n < old THEN old ELSE n

\* ReconcilePVC: every claim up to the replicas exists; none is deleted or shrunk.
ReconcilePVC(m, n) == IF m < n THEN n ELSE m

\* computeGroupSync for every group; at most one group meets the failure p.
SyncGroups(bad, p) ==
    LET n(g) == Defaulted(mem).want[g]
        at(g) == IF g \in bad THEN p ELSE "done"
        on   == Wanted(mem)
    IN
    \E hold \in BOOLEAN :
      /\ mem' = Defaulted(mem)
      /\ st' = [st EXCEPT !.cgs = [g \in Groups |-> IF g \in on THEN InitialCGStatus(g, n(g)) ELSE @[g]]]
      /\ svc' = [g \in Groups |->
                  IF g \notin on THEN svc[g]
                  ELSE [internal |-> ReconcileInternalService(svc[g].internal, at(g)),
                        external |-> svc[g].external \/ After(at(g), {"sts", "pvc"})]]
      /\ sts' = [g \in Groups |->
                  IF g \in on /\ After(at(g), {"pvc"})
                  THEN ReconcileStatefulset(sts[g], n(g), hold) ELSE sts[g]]
      /\ claims' = [g \in Groups |->
                  IF g \in on /\ at(g) = "done" /\ Provisioner = "Operator"
                  THEN ReconcilePVC(claims[g], n(g)) ELSE claims[g]]
      /\ upd' = upd \cup {g \in on : sts[g] # 0 /\ sts'[g] # sts[g]}
      /\ queued' = (queued \/ <<svc', sts'>> # <<svc, sts>>)

\* Sync has nothing to do without groups or before the FE's service has an
\* address, and does nothing for groups that validateComputeGroup rejects.
SyncCGReturns ==
    /\ SyncDone("cg")
    /\ Wanted(mem) = {} \/ ~ FeAvailable \/ ~ mem.valid
    /\ errs' = (errs \/ (Wanted(mem) # {} /\ FeAvailable))
    /\ UNCHANGED <<k8sVars, upd, st, queued, mem, faults>>

\* Sync of all the groups, of which one may fail.
SyncCG ==
    /\ SyncDone("cg") /\ Wanted(mem) # {} /\ FeAvailable /\ mem.valid
    /\ \/ SyncGroups({}, "done") /\ UNCHANGED <<errs, faults>>
       \/ \E g \in Wanted(mem), p \in Progress \ {"done"} :
            /\ p = "recreate" => svc[g].internal = "clusterIP"
            /\ Fault /\ SyncGroups({g}, p) /\ errs' = TRUE
    /\ UNCHANGED <<ms, fe, up, listed>>

-----------------------------------------------------------------------------
(* computegroups ClearResources. *)

\* findUnusedSvcs, findUnusedStssAndUniqueIds: what belongs to groups not in the spec.
Removed == {g \in Groups : mem.want[g] = 0}

\* An error of ClearResources; clearUnusedResources does not pass it on.
ClearFails == pc' = "status" /\ Fault /\ UNCHANGED <<claims, st>>

\* clearCGInDorisMeta: DROP the backends of every group that is only in the status,
\* found by the id that the status holds.  Before it the services and StatefulSets
\* are listed; an error may come after some of the groups were dropped.
ClearCGInDorisMeta ==
    LET gone == {g \in Removed : st.cgs[g].has}
        drop(D) == [g \in Groups |-> listed[g] /\ ~ (g \in D /\ st.cgs[g].id)]
    IN
    /\ pc = "drop"
    /\ \/ /\ gone = {} \/ FeAvailable
          /\ pc' = "svcs" /\ listed' = drop(gone)
          /\ UNCHANGED <<claims, st, faults>>
       \/ /\ gone # {} /\ ~ FeAvailable
          /\ pc' = "status" /\ UNCHANGED <<listed, claims, st, faults>>
       \/ /\ ClearFails
          /\ \E D \in SUBSET gone : (FeAvailable \/ D = {}) /\ listed' = drop(D)
    /\ UNCHANGED <<spec, ms, fe, sts, svc, up, status, queued, todo, read, mem, upd, errs, edits>>

\* Mutant of ClearSvcs: a failed deletion does not end the clearing.
ClearSvcsGoesOn ==
    /\ pc = "svcs" /\ pc' = "stss"
    /\ \/ /\ svc' = [g \in Groups |-> IF g \in Removed THEN NoSvc ELSE svc[g]]
          /\ UNCHANGED <<claims, st, faults>>
       \/ Fault /\ UNCHANGED <<svc, claims, st>>
    /\ queued' = (queued \/ svc' # svc)
    /\ UNCHANGED <<spec, ms, fe, sts, up, listed, status, todo, read, mem, upd, errs, edits>>

\* clearSvcs: services of this cluster whose group is not in the spec.
ClearSvcs ==
    /\ pc = "svcs"
    /\ \/ /\ svc' = [g \in Groups |-> IF g \in Removed THEN NoSvc ELSE svc[g]]
          /\ pc' = "stss" /\ UNCHANGED <<claims, st, faults>>
       \/ \E g \in Removed :
            /\ svc[g] # NoSvc /\ ClearFails
            /\ svc' \in {svc, [svc EXCEPT ![g].external = FALSE]}
    /\ queued' = (queued \/ svc' # svc)
    /\ UNCHANGED <<spec, ms, fe, sts, up, listed, status, todo, read, mem, upd, errs, edits>>

\* clearStatefulsets.
ClearStatefulsets ==
    /\ pc = "stss"
    /\ \/ /\ sts' = [g \in Groups |-> IF g \in Removed THEN 0 ELSE sts[g]]
          /\ pc' = "claims" /\ UNCHANGED <<claims, st, faults>>
       \/ /\ \E g \in Removed : sts[g] # 0
          /\ ClearFails /\ sts' = sts
    /\ queued' = (queued \/ sts' # sts)
    /\ UNCHANGED <<spec, ms, fe, svc, up, listed, status, todo, read, mem, upd, errs, edits>>

\* ClearStatefulsetUnusedPVCs for the groups of the spec (claims from the
\* StatefulSet's replicas on; those of a removed group stay), then the entries of
\* removed groups leave the status.  Errors are only logged.
ClearStatefulsetUnusedPVCs ==
    /\ pc = "claims" /\ pc' = "status"
    /\ \/ /\ claims' = [g \in Groups |-> IF g \notin Removed /\ st.cgs[g].has /\ 0 < sts[g] /\ sts[g] < claims[g]
                                         THEN sts[g] ELSE claims[g]]
          /\ faults' = faults
       \/ Fault /\ claims' = claims
    /\ st' = [st EXCEPT !.cgs = [g \in Groups |-> IF g \in Removed THEN NoEntry ELSE @[g]]]
    /\ UNCHANGED <<spec, ms, fe, sts, svc, up, listed, status, queued, todo, read, mem, upd, errs, edits>>

-----------------------------------------------------------------------------
(* Status and health. *)

\* metaservice UpdateComponentStatus; a reconcile that changed the StatefulSet
\* leaves it as it is ("waiting statefulset updated").
MSStatus(s) ==
    IF ms.tmpl = 0 \/ "ms" \in upd THEN s
    ELSE [phase |-> IF ms.pod = ms.tmpl THEN "Ready" ELSE "Reconciling", avail |-> s.avail \/ ms.pod # 0]

\* disaggregated_fe UpdateComponentStatus.
FEStatus(s) ==
    IF ~ fe.sts THEN s
    ELSE [phase |-> IF fe.ready = "all" THEN "Ready" ELSE s.phase, avail |-> s.avail \/ fe.ready # "none"]

\* updateCGStatus of one group.
CGStatus(g, e) ==
    IF ~ e.has \/ sts[g] = 0 \/ g \in upd THEN e
    ELSE [e EXCEPT !.avail = up[g], !.phase = IF up[g] = e.replicas THEN "Ready" ELSE @]

\* recordComputeGroupIds: if one id is missing, all are taken anew from SHOW BACKENDS.
RecordComputeGroupIds(cgs, sql) ==
    IF sql /\ \E g \in Groups : cgs[g].has /\ ~ cgs[g].id
    THEN [g \in Groups |-> [cgs[g] EXCEPT !.id = cgs[g].has /\ listed[g]]]
    ELSE cgs

\* Mutant of Health: half of the groups is rounded up.
HealthRoundsUp(s) ==
    IF ~ s.ms.avail \/ ~ s.fe.avail \/ s.cgAvailable <= (s.cgCount + 1) \div 2 THEN "Red"
    ELSE IF s.ms.phase # "Ready" \/ s.fe.phase # "Ready" \/ s.cgAvailable < s.cgCount THEN "Yellow"
    ELSE "Green"

\* reorganizeStatus: the health from the components' status.
Health(s) ==
    IF ~ s.ms.avail \/ ~ s.fe.avail \/ s.cgAvailable <= s.cgCount \div 2 THEN "Red"
    ELSE IF s.ms.phase # "Ready" \/ s.fe.phase # "Ready" \/ s.cgAvailable < s.cgCount THEN "Yellow"
    ELSE "Green"

\* UpdateComponentStatus of every sub controller.  Without an entry the counts of
\* the groups keep their values.
Reorganized(sql) ==
    LET cgs == RecordComputeGroupIds([g \in Groups |-> CGStatus(g, st.cgs[g])], sql)
        has == {g \in Groups : cgs[g].has}
        new == [st EXCEPT !.ms = MSStatus(@), !.fe = FEStatus(@), !.cgs = cgs,
                          !.cgCount = IF has = {} THEN @ ELSE Cardinality(has),
                          !.cgAvailable = IF has = {} THEN @
                                          ELSE Cardinality({g \in has : cgs[g].avail > 0})]
    IN  [new EXCEPT !.health = Health(new)]

ReorganizeStatus ==
    /\ pc = "status" /\ pc' = "write"
    /\ \/ st' = Reorganized(FeAvailable) /\ faults' = faults
       \/ Fault /\ st' = Reorganized(FALSE)
    /\ UNCHANGED <<spec, k8sVars, status, queued, todo, read, mem, upd, errs, edits>>

\* shouldRequeueComputeGroupPhase, and every health but Green.
ShouldRequeue(s) ==
    (\E g \in Groups : s.cgs[g].has /\ s.cgs[g].phase = "Reconciling") \/ s.health # "Green"

\* The result of Reconcile: collected errors and the status in memory decide.
Requeue(s) == errs \/ ShouldRequeue(s)

\* The reconcile is over, its memory gone.
Over ==
    /\ pc' = "idle"
    /\ read' = spec' /\ mem' = spec' /\ st' = status' /\ upd' = {} /\ errs' = FALSE /\ todo' = {}
    /\ UNCHANGED <<k8sVars, edits>>

\* updateObjectORStatus: a spec the operator has completed is written over the
\* custom resource (with its newest version); then the status.
UpdateObjectORStatus ==
    /\ pc = "write"
    /\ spec' = IF mem = read THEN spec ELSE mem
    /\ status' = st
    /\ queued' = (queued \/ Requeue(st) \/ status' # status \/ spec' # spec)
    /\ Over /\ faults' = faults

\* One of the two writes is refused, which is only logged.
UpdateFails ==
    /\ pc = "write" /\ Fault
    /\ \/ spec' = spec /\ status' = st
       \/ spec' = (IF mem = read THEN spec ELSE mem) /\ status' = status
    /\ queued' = (queued \/ Requeue(st) \/ status' # status \/ spec' # spec)
    /\ Over

-----------------------------------------------------------------------------
(* Around the operator. *)

Event == queued' = TRUE /\ UNCHANGED <<status, opVars>>

\* The user edits the custom resource; a group is resized, removed or added,
\* its id well chosen or not.
EditSpec ==
    /\ edits < MaxEdits /\ edits' = edits + 1
    /\ \/ \E g \in Groups, n \in -1..MaxReplicas, v \in BOOLEAN :
            spec' = [spec EXCEPT !.want[g] = n, !.valid = v]
       \/ \E t \in 1..MaxTmpl : spec' = [spec EXCEPT !.ms = t]
    /\ spec' # spec
    /\ Event /\ UNCHANGED <<k8sVars, faults>>

\* The StatefulSet controller brings the meta service to its template.
RollMS ==
    /\ ms.pod # ms.tmpl
    /\ ms' \in {[ms EXCEPT !.pod = ms.tmpl], [ms EXCEPT !.pod = 0]} /\ ms' # ms
    /\ Event /\ UNCHANGED <<spec, fe, sts, svc, claims, up, listed, edits, faults>>

\* Pods of the FE become Ready.
FEUp ==
    /\ fe.sts /\ fe.ready # "all"
    /\ fe' = [fe EXCEPT !.ready = IF @ = "none" THEN "some" ELSE "all"]
    /\ Event /\ UNCHANGED <<spec, ms, sts, svc, claims, up, listed, edits, faults>>

\* Pods of the FE fail.
FEDown ==
    /\ fe.ready # "none" /\ Fault
    /\ fe' \in [sts : {TRUE}, ready : {"none", "some"}] /\ fe' # fe
    /\ Event /\ UNCHANGED <<spec, ms, sts, svc, claims, up, listed, edits>>

\* The StatefulSet controller starts a pod with its claim; its BE registers.
PodUp(g) ==
    /\ up[g] < sts[g] /\ FeAvailable
    /\ up' = [up EXCEPT ![g] = @ + 1]
    /\ claims' = [claims EXCEPT ![g] = ReconcilePVC(@, up'[g])]
    /\ listed' = [listed EXCEPT ![g] = TRUE]
    /\ Event /\ UNCHANGED <<spec, ms, fe, sts, svc, edits, faults>>

\* A pod above the replicas, or of a deleted StatefulSet, goes away.
PodDown(g) ==
    /\ up[g] > sts[g] /\ up' = [up EXCEPT ![g] = @ - 1]
    /\ Event /\ UNCHANGED <<spec, ms, fe, sts, svc, claims, listed, edits, faults>>

\* The informers deliver every object again.
Resync ==
    /\ ~ queued /\ Event
    /\ UNCHANGED <<spec, k8sVars, edits, faults>>

\* A cluster of one group that an older operator left with an internal service
\* that is not headless, or one that has just been created.
Init ==
    /\ \E old \in BOOLEAN, v \in BOOLEAN :
         LET g == CHOOSE h \in Groups : TRUE
             n == IF old THEN 1 ELSE 0
             f(x) == [h \in Groups |-> IF h = g THEN x ELSE 0] IN
         /\ old => v
         /\ spec = [want |-> f(1), valid |-> v, ms |-> 1]
         /\ ms = [tmpl |-> n, pod |-> n]
         /\ fe = [sts |-> old, ready |-> IF old THEN "all" ELSE "none"]
         /\ sts = f(n) /\ claims = f(n) /\ up = f(n)
         /\ svc = [h \in Groups |-> IF old /\ h = g
                                    THEN [internal |-> "clusterIP", external |-> FALSE] ELSE NoSvc]
         /\ listed = [h \in Groups |-> old /\ h = g]
         /\ status = [ms |-> [phase |-> IF old THEN "Ready" ELSE "Reconciling", avail |-> old],
                      fe |-> [phase |-> IF old THEN "Ready" ELSE "Reconciling", avail |-> old],
                      cgs |-> [h \in Groups |->
                                 IF old /\ h = g
                                 THEN [has |-> TRUE, id |-> TRUE, phase |-> "Ready", replicas |-> 1, avail |-> 1]
                                 ELSE NoEntry],
                      cgCount |-> n, cgAvailable |-> n, health |-> IF old THEN "Green" ELSE "Red"]
    /\ queued = TRUE /\ pc = "idle" /\ todo = {} /\ read = spec /\ mem = spec
    /\ st = status /\ upd = {} /\ errs = FALSE /\ edits = 0 /\ faults = 0

Operator ==
    \/ BeginReconcile \/ SyncMS \/ SyncMSFails \/ SyncFE \/ SyncFEFails \/ SyncCGReturns \/ SyncCG
    \/ ClearCGInDorisMeta \/ ClearSvcs \/ ClearStatefulsets \/ ClearStatefulsetUnusedPVCs
    \/ ReorganizeStatus \/ UpdateObjectORStatus \/ UpdateFails

Next ==
    \/ Operator \/ EditSpec \/ RollMS \/ FEUp \/ FEDown \/ Resync
    \/ \E g \in Groups : PodUp(g) \/ PodDown(g)

Spec == Init /\ [][Next]_vars

\* The work queue is served, StatefulSets roll, pods start and the FE recovers.
\* Nothing is assumed of a scale-down that is held back.
Fairness ==
    /\ WF_vars(Operator) /\ WF_vars(Resync) /\ WF_vars(FEUp)
    /\ SF_vars(RollMS /\ ms'.pod = ms.tmpl)
    /\ \A g \in Groups : WF_vars(PodUp(g)) /\ WF_vars(PodDown(g))

FairSpec == Spec /\ Fairness

-----------------------------------------------------------------------------
(* Properties. *)

\* A group leaves the status only when nothing of it is left in Kubernetes: the
\* status is what a failed or interrupted clearing is resumed from
\* (ClearResources returns before it sets ComputeGroupStatuses).
ForgetOnlyCleared ==
    [][\A g \in Groups : status.cgs[g].has /\ ~ status'.cgs[g].has => svc[g] = NoSvc /\ sts[g] = 0]_vars

\* Of a group that the custom resource does not list nothing is left but its
\* claims.
Cleared(g) == sts[g] = 0 /\ up[g] = 0 /\ svc[g] = NoSvc /\ ~ status.cgs[g].has

\* A group of the custom resource runs in the size asked for, or in a larger one
\* while a scale-down is held back, has its services and an entry in the status.
Runs(g) ==
    /\ up[g] = sts[g] /\ sts[g] >= spec.want[g] /\ spec.want[g] # Nil /\ status.cgs[g].has
    /\ svc[g] = [internal |-> "headless", external |-> TRUE]

\* Whatever is edited, fails or goes down meanwhile, groups that were removed are
\* cleared and the meta service runs its template; and if the ids of the groups
\* are accepted, the groups run and the cluster is reported healthy (Reconcile
\* and its requeue decisions).  How far a scale-down that is held back gets is
\* the subject of ComputeGroup.
ClusterConverges ==
    <>[](/\ \A g \in Groups : spec.want[g] = 0 => Cleared(g)
         /\ ms.pod = spec.ms
         /\ spec.valid => /\ \A g \in Wanted(spec) : Runs(g)
                           /\ Wanted(spec) # {} => status.health = "Green")
=============================================================================
