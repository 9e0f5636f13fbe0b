---------------------------- MODULE CoupledCluster ----------------------------
(***************************************************************************)
(* A DorisCluster: frontends (fe), backends (be), compute nodes (cn) and   *)
(* brokers, as reconciled by pkg/controller/doriscluster_controller.go and *)
(* its four sub controllers.  A reconcile reads the custom resource, lets  *)
(* the sub controllers Sync in any order (they live in a Go map), clears   *)
(* what is no longer asked for, and writes the spec (a refused scale-down  *)
(* of followers) and the status back.  The frontends use claims that the   *)
(* operator provisions; the other components have one replica, the compute *)
(* nodes may be autoscaled.  Reads are current: the operator's informer    *)
(* cache has caught up with its own writes and with the user's when a      *)
(* reconcile reads the custom resource and the StatefulSets.               *)
(***************************************************************************)
EXTENDS Integers, FiniteSets

CONSTANTS MaxFE,       \* bound: frontend ordinals are 0 .. MaxFE - 1
          Election,    \* feSpec.electionNumber at the start: ordinals below it are followers
          Others,      \* the components besides the frontends
          MaxCN,       \* bound: replicas the autoscaler may choose
          Clusters,    \* the clusters of a run: FE replicas, sections, autoscaling
                       \* policy, the number and the kinds of edits its user makes
          EditFE,      \* replica counts the user may ask for
          EditElections,  \* election numbers the user may ask for
          MaxEdits,    \* bound: edits by the user of any cluster
          MaxFaults    \* bound: faults in a behaviour

\* What a user may change: the FE replicas and the election number, a section of
\* the spec, the CN's autoscaling policy, the size of the FE's volumes, a restart
\* annotation, and the core ConfigMap of the frontends or backends.
Kinds == Others \cup {"scale", "auto", "volume", "restart", "config"}

ASSUME CoupledAssumption ==
    /\ MaxFE \in Nat \ {0} /\ Election \in 1..MaxFE /\ MaxCN \in 1..MaxFE
    /\ Others \subseteq {"be", "cn", "broker"}
    /\ Clusters \subseteq [fe : 1..MaxFE, on : SUBSET Others, auto : BOOLEAN,
                           edits : 0..MaxEdits, may : SUBSET Kinds]
    /\ EditFE \subseteq 1..MaxFE /\ EditElections \subseteq 1..MaxFE
    /\ MaxEdits \in Nat /\ MaxFaults \in Nat

VARIABLES
    cr,       \* the spec and the restart annotations of the custom resource
    status,   \* its status: component -> what the operator last wrote
    conf,     \* component -> version of its core ConfigMap
    may,      \* the kinds of edits the user makes
    ask,      \* the FE replicas the user asked for last
    sts,      \* component -> its StatefulSet
    svcs,     \* component -> its services
    hpa,      \* the CN's HorizontalPodAutoscaler exists
    claims,   \* FE ordinal -> its persistent volume claim
    pods,     \* component -> ordinal -> its pod
    role,     \* FE ordinal -> its role in the FE's own metadata
    pc,       \* operator: "idle", or the stage of the running reconcile
    todo,     \* operator: components the stage has still to visit
    dcr,      \* operator: the custom resource in memory
    edits,    \* number of edits; it starts so that the cluster's own end at MaxEdits
    faults,   \* number of faults so far
    leaked    \* history: components removed before they had a status, or
              \* whose deletion failed

env  == <<sts, svcs, hpa, claims, pods, role>>
user == <<cr, conf, may, ask, edits, leaked>>
op   == <<pc, todo, dcr>>
vars == <<cr, status, conf, may, ask, sts, svcs, hpa, claims, pods, role, pc, todo, dcr, edits,
          faults, leaked>>

Components  == {"fe"} \cup Others
Restartable == {"fe", "be"} \cap Components
Ordinals    == 0..(MaxFE - 1)
Roles       == {"none", "FOLLOWER", "OBSERVER"}

\* Restart annotations are times; later ones are larger, 0 is none or one that
\* is older than ten minutes.
Stamps == Nat

\* The custom resource: FE replicas, the election number, the sections present, an
\* autoscaling policy for the CN, the size of the FE's volumes, the restart
\* annotations, and the ones among the annotations of a section (BaseSpec).
Spec0 == [fe : 1..MaxFE, ele : 1..MaxFE, on : SUBSET Others, auto : BOOLEAN,
          size : 1..(MaxEdits + 1), anno : [Restartable -> Stamps], base : [Restartable -> Stamps]]

\* ComponentStatus: the phase, CoreConfigMapHashValue (0: empty) and, for the
\* CN, whether an autoscaler is recorded.
NoStatus == [phase |-> "none", hash |-> 0, scaler |-> FALSE]
Statuses == [phase : {"none", "Initializing", "Restarting", "Reconciling", "Available"},
             hash : 0..(MaxEdits + 1), scaler : BOOLEAN]

\* What a Sync builds, the hash annotation that records it, and the StatefulSet.
\* The election number is an environment variable of the frontends' template.
Builds == [replicas : 0..MaxFE, ele : 0..MaxFE, rest : Stamps]
NoHash == [replicas |-> 0, ele |-> 0, rest |-> 0]
NoSts  == [replicas |-> 0, ele |-> 0, rest |-> 0, hash |-> NoHash, exists |-> FALSE]
Sets   == [replicas : 0..MaxFE, ele : 0..MaxFE, rest : Stamps, hash : Builds, exists : BOOLEAN]

NoPod  == [phase |-> "none", ele |-> 0, rest |-> 0, conf |-> 0]
Pod    == [phase : {"none", "starting", "ready"}, ele : 0..MaxFE, rest : Stamps,
           conf : 0..(MaxEdits + 1)]
NoClaim == [size |-> 0, going |-> FALSE]

\* The state of a DorisCluster and of the operator at work on it.
TypeOK ==
    /\ cr \in Spec0 /\ status \in [Components -> Statuses]
    /\ conf \in [Restartable -> 1..(MaxEdits + 1)] /\ may \subseteq Kinds /\ ask \in 1..MaxFE
    /\ sts \in [Components -> Sets]
    /\ svcs \in [Components -> SUBSET {"internal", "external"}]
    /\ hpa \in BOOLEAN
    /\ claims \in [Ordinals -> [size : 0..(MaxEdits + 1), going : BOOLEAN]]
    /\ pods \in [Components -> [Ordinals -> Pod]]
    /\ role \in [Ordinals -> Roles]
    /\ pc \in {"idle", "sync", "feDrop", "feApply", "clear", "finish", "status"}
    /\ todo \subseteq Components
    /\ dcr \in [spec : Spec0, status : [Components -> Statuses],
                read : 1..MaxFE, seen : 0..MaxEdits]
    /\ edits \in 0..MaxEdits /\ faults \in 0..MaxFaults /\ leaked \subseteq Others

Fault   == faults < MaxFaults /\ faults' = faults + 1
NoFault == faults' = faults

On(c, s)   == c = "fe" \/ c \in s.on
Exists(c, o) == pods[c][o].phase # "none"
Ready(c, o)  == pods[c][o].phase = "ready"

\* FeAvailable: the endpoints of the FE's external service have an address.
FeAvailable == "external" \in svcs["fe"] /\ \E o \in Ordinals : Ready("fe", o)

\* SHOW FRONTENDS.
Registered == {o \in Ordinals : role[o] # "none"}

\* NewDorisMasterSqlDB reaches a master: a majority of the registered
\* followers is up.
HasMaster ==
    LET followers == {o \in Ordinals : role[o] = "FOLLOWER"}
    IN  2 * Cardinality({o \in followers : Ready("fe", o)}) > Cardinality(followers)

-----------------------------------------------------------------------------
(* Reconcile: the stages and their ends. *)

\* The custom resource as it is read at the start of a reconcile.
Read(c, s, n) == [spec |-> c, status |-> s, read |-> c.fe, seen |-> n]

\* The sub controllers whose Sync does anything: those of the sections there are,
\* and the CN's while there is a status of it.
Reconcile ==
    /\ pc = "idle" /\ pc' = "sync"
    /\ todo' = {c \in Components : On(c, cr) \/ (c = "cn" /\ status[c] # NoStatus)}
    /\ dcr' = Read(cr, status, edits)
    /\ UNCHANGED <<user, status, env, faults>>

\* Reconcile returns, with an error or without; memory is lost.
Done(st) == pc' = "idle" /\ todo' = {} /\ dcr' = Read(cr, st, edits)

\* The operator process ends in the middle of a reconcile and is started again.
Crash ==
    /\ pc # "idle" /\ Fault /\ Done(status)
    /\ UNCHANGED <<user, status, env>>

\* Sync(c) returned without an error: go on with the others, then clear.
Synced(c) ==
    /\ pc' = (IF todo = {c} THEN "clear" ELSE "sync")
    /\ todo' = (IF todo = {c} THEN Components ELSE todo \ {c})

-----------------------------------------------------------------------------
(* What the sub controllers share. *)

Later(a, b) == IF a < b THEN b + 1 ELSE a + 1

\* InitStatus: a phase of reconciling is kept, any other starts anew.
InitStatus(old) ==
    [NoStatus EXCEPT !.phase = IF old.phase \in {"Restarting", "Reconciling"} THEN old.phase
                               ELSE "Initializing"]

\* CompareConfigmapAndTriggerRestart: the ConfigMap differs from the recorded
\* hash of a component that was Available.
ConfigChanged(c) ==
    LET old == dcr.status[c]
    IN  old.hash # 0 /\ old.hash # conf[c] /\ old.phase = "Available"

\* The restart annotation in memory; it is not written to the custom resource.
Annotation(c) == IF ConfigChanged(c) THEN Later(sts[c].rest, dcr.spec.anno[c])
                 ELSE dcr.spec.anno[c]

\* CheckRestartTimeAndInject, for a component that was Available.
Injects(c) == dcr.status[c].phase = "Available" /\ Annotation(c) # 0

\* The custom resource in memory after InitStatus and the comparison, and
\* whether the restart annotation is injected into the section.
Restarted(c, inject) ==
    [dcr EXCEPT
       !.spec.anno[c] = Annotation(c),
       !.spec.base[c] = IF inject THEN Annotation(c) ELSE @,
       !.status[c] = IF inject \/ ConfigChanged(c)
                     THEN [InitStatus(@) EXCEPT !.phase = "Restarting"] ELSE InitStatus(@)]

\* BuildInternalService and BuildExternalService; brokers have no external one.
Services(c) == IF c = "broker" THEN {"internal"} ELSE {"internal", "external"}

ApplyServices(c) == svcs' = [svcs EXCEPT ![c] = Services(c)]

\* A service that is missing cannot be created: Sync returns the error.
ApplyServicesFails(c) ==
    /\ svcs[c] # Services(c) /\ Fault /\ Done(status)
    /\ \/ svcs' = svcs
       \/ svcs' = [svcs EXCEPT ![c] = @ \cup {"internal"}] /\ "external" \in Services(c)
    /\ UNCHANGED <<user, status, sts, hpa, claims, pods, role>>

\* build...StatefulSet, as far as it varies.
Build(c, spec) == [replicas |-> IF c = "fe" THEN spec.fe ELSE 1,
                   ele |-> IF c = "fe" THEN spec.ele ELSE 0,
                   rest |-> IF c \in Restartable THEN spec.base[c] ELSE 0]

\* Mutant of Patched: only the replicas are compared.
PatchedForReplicas(c, old, b) ==
    IF old.exists /\ old.replicas = b.replicas THEN old
    ELSE [replicas |-> b.replicas, ele |-> b.ele, rest |-> b.rest, exists |-> TRUE,
          hash |-> IF c = "cn" THEN NoHash ELSE b]

\* The StatefulSet in place of old: compared by the hash annotation only, and
\* patched by merging, which keeps an annotation the new one does not have.
\* The CN's is created without the hash.
Patched(c, old, b) ==
    IF ~ old.exists THEN [replicas |-> b.replicas, ele |-> b.ele, rest |-> b.rest, exists |-> TRUE,
                          hash |-> IF c = "cn" THEN NoHash ELSE b]
    ELSE IF old.hash = b THEN old
    ELSE [old EXCEPT !.replicas = b.replicas, !.ele = b.ele, !.hash = b,
                     !.rest = IF b.rest = 0 THEN @ ELSE b.rest]

\* ApplyStatefulSet: applied, or a conflict that counts as applied.
ApplyStatefulSet(c, b) ==
    \/ sts' = [sts EXCEPT ![c] = Patched(c, @, b)] /\ NoFault
    \/ sts[c].exists /\ sts[c].hash # b /\ sts' = sts /\ c # "cn" /\ Fault

\* It is refused: Sync returns the error.
ApplyStatefulSetFails(c, b) ==
    /\ Patched(c, sts[c], b) # sts[c] /\ Fault /\ Done(status)
    /\ UNCHANGED <<user, status, sts, hpa, claims, pods, role>>

-----------------------------------------------------------------------------
(* The frontends: claims, scale-down, apply. *)

Bound == {o \in Ordinals : claims[o].size # 0}

\* patchPVCs: claims of another size, and ordinals to add, counted from the
\* number of claims there are.
Misfits(spec) == {o \in Bound : claims[o].size # spec.size}

\* Mutant of Missing: the count is taken for the last ordinal there is.
MissingAfterCount(spec) == {o \in Ordinals : Cardinality(Bound) < o /\ o < spec.fe}

Missing(spec) == {o \in Ordinals : Cardinality(Bound) <= o /\ o < spec.fe}

\* prepareFEReconcileResources: everything is patched or created, a failed call
\* is only reported as an event, and Sync returns to come back later.
PrepareClaims ==
    /\ pc = "sync" /\ "fe" \in todo
    /\ LET writes == Misfits(dcr.spec) \cup Missing(dcr.spec)
       IN  /\ writes # {}
           /\ \E done \in SUBSET writes :
                /\ IF done = writes THEN NoFault ELSE Fault
                /\ claims' = [o \in Ordinals |->
                     IF o \notin done THEN claims[o]
                     ELSE [size |-> IF o \in Bound /\ o \notin Misfits(dcr.spec) THEN claims[o].size
                                    ELSE dcr.spec.size,
                           going |-> claims[o].going]]
    /\ ApplyServices("fe") /\ Synced("fe")
    /\ dcr' = Restarted("fe", FALSE)
    /\ UNCHANGED <<user, status, sts, hpa, pods, role>>

\* Mutants of SafeScaleDown: the amount to remove is taken for the replicas; a
\* scale-down is always let through.
ScaleDownToAmount(nr, ele, or) == IF nr >= or \/ nr >= ele THEN nr ELSE nr - or
UnsafeScaleDown(nr, ele, or) == nr

\* safeScaleDown, from or to nr replicas: ordinals from the election number up
\* may go, those below may not.
SafeScaleDown(nr, ele, or) ==
    IF nr >= or \/ nr >= ele THEN nr
    ELSE IF or >= ele THEN ele ELSE or

\* The replicas a Sync of the frontends works towards, and whether it scales down.
Wanted(spec) == IF sts["fe"].exists THEN SafeScaleDown(spec.fe, spec.ele, sts["fe"].replicas)
                ELSE spec.fe
Shrinks(spec) == sts["fe"].exists /\ Wanted(spec) < sts["fe"].replicas

\* Sync with the claims prepared, up to dropObserverBySqlClient or the apply.  A
\* scale-down returns before a restart is injected.
SyncFE ==
    /\ pc = "sync" /\ "fe" \in todo
    /\ Misfits(dcr.spec) \cup Missing(dcr.spec) = {}
    /\ ApplyServices("fe")
    /\ dcr' = [Restarted("fe", Injects("fe") /\ sts["fe"].exists /\ ~ Shrinks(dcr.spec))
                  EXCEPT !.spec.fe = Wanted(dcr.spec)]
    /\ pc' = IF Shrinks(dcr.spec) THEN "feDrop" ELSE "feApply"
    /\ UNCHANGED <<user, status, sts, hpa, claims, pods, role, todo, faults>>

SyncFEFails == pc = "sync" /\ "fe" \in todo /\ ApplyServicesFails("fe")

\* GetObservers, and needRemovedAmount = observers - (replicas - election).
Observers == {o \in Ordinals : role[o] = "OBSERVER"}
NeedRemovedAmount == Cardinality(Observers) - dcr.spec.fe + dcr.spec.ele

\* FindNeedDeletedObservers: the n observers with the highest pod numbers.
FindNeedDeletedObservers(n) == {o \in Observers : Cardinality({p \in Observers : p > o}) < n}

DropObserver(S) == role' = [o \in Ordinals |-> IF o \in S THEN "none" ELSE role[o]]

\* dropObserverBySqlClient; an error in the mapping of observers to pods is
\* swallowed: nothing is dropped and Sync goes on.
DropObservers ==
    /\ pc = "feDrop" /\ HasMaster /\ pc' = "feApply"
    /\ \/ DropObserver(FindNeedDeletedObservers(NeedRemovedAmount)) /\ NoFault
       \/ NeedRemovedAmount > 0 /\ role' = role /\ Fault
    /\ UNCHANGED <<user, status, sts, svcs, hpa, claims, pods, todo, dcr>>

\* The FE cannot be reached, or an error between the statements: Sync returns it.
DropObserversFails ==
    /\ pc = "feDrop"
    /\ \/ ~ HasMaster /\ role' = role /\ NoFault
       \/ \E n \in 0..MaxFE : /\ n = 0 \/ n <= NeedRemovedAmount
                              /\ DropObserver(FindNeedDeletedObservers(n))
                              /\ Fault
    /\ Done(status)
    /\ UNCHANGED <<user, status, sts, svcs, hpa, claims, pods>>

ApplyFE ==
    /\ pc = "feApply" /\ ApplyStatefulSet("fe", Build("fe", dcr.spec)) /\ Synced("fe")
    /\ UNCHANGED <<user, status, svcs, hpa, claims, pods, role, dcr>>

ApplyFEFails ==
    /\ pc = "feApply" /\ ApplyStatefulSetFails("fe", Build("fe", dcr.spec))
    /\ UNCHANGED svcs

-----------------------------------------------------------------------------
(* Backends, compute nodes, brokers. *)

Current(c) == pc = "sync" /\ c \in todo \cap Others

\* No frontend is available yet.
SyncWaits(c) ==
    /\ Current(c) /\ On(c, dcr.spec) /\ ~ FeAvailable
    /\ dcr' = IF c = "be" THEN [dcr EXCEPT !.status[c] = InitStatus(@)] ELSE dcr
    /\ Synced(c)
    /\ UNCHANGED <<user, status, env, faults>>

\* The CN's Sync and ClearResources look for the policy of a section that was
\* removed: the panic is recovered and the request is queued again.
SyncPanics ==
    /\ Current("cn") /\ ~ On("cn", dcr.spec)
    /\ Done(status)
    /\ UNCHANGED <<user, status, env, faults>>

\* Sync of a section, up to its StatefulSet and the CN's autoscaler; an error of
\* deployAutoScaler is dropped.
SyncApplies(c) ==
    /\ Current(c) /\ On(c, dcr.spec) /\ FeAvailable
    /\ ApplyServices(c) /\ Synced(c)
    /\ dcr' = IF c = "be" THEN Restarted(c, Injects(c)) ELSE dcr
    /\ LET scales == c = "cn" /\ dcr.spec.auto
           b == Build(c, dcr'.spec)
       IN  \/ ApplyStatefulSet(c, b) /\ hpa' = (hpa \/ scales)
           \/ scales /\ sts' = [sts EXCEPT ![c] = Patched(c, @, b)] /\ hpa' = hpa /\ Fault
    /\ UNCHANGED <<user, status, claims, pods, role>>

SyncFails(c) ==
    /\ Current(c) /\ On(c, dcr.spec) /\ FeAvailable
    /\ \/ ApplyServicesFails(c)
       \/ /\ ApplyServices(c)
          /\ ApplyStatefulSetFails(c, Build(c, IF c = "be" THEN Restarted(c, Injects(c)).spec
                                               ELSE dcr.spec))

-----------------------------------------------------------------------------
(* clearNoEffectResources, UpdateComponentStatus, and writing back. *)

\* listAndDeletePersistentVolumeClaim: counted, like patchPVCs.
Surplus == {o \in Ordinals : dcr.spec.fe <= o /\ o < Cardinality(Bound)}

Gone(c) == ~ On(c, dcr.spec) /\ dcr.status[c] # NoStatus

\* DeleteAutoscaler: the policy was taken away and an autoscaler is recorded.
Unscaled == On("cn", dcr.spec) /\ ~ dcr.spec.auto /\ dcr.status["cn"].scaler

\* ClearResources of the frontends; a claim in use goes when its pod has gone.
ClearClaims ==
    /\ \E done \in SUBSET Surplus :
         /\ IF done = Surplus THEN NoFault ELSE Fault
         /\ claims' = [o \in Ordinals |-> IF o \notin done THEN claims[o]
                                          ELSE IF Exists("fe", o)
                                          THEN [claims[o] EXCEPT !.going = @ \/ claims[o].size # 0]
                                          ELSE NoClaim]
    /\ UNCHANGED <<sts, svcs, hpa, dcr, leaked>>

\* ClearCommonResources: the StatefulSet, then the services; the reconciler
\* ignores an error.
ClearCommon(c) ==
    /\ \/ /\ sts' = [sts EXCEPT ![c] = NoSts]
          /\ \/ svcs' = [svcs EXCEPT ![c] = {}] /\ NoFault /\ leaked' = leaked \ {c}
             \/ \E left \in {svcs[c], svcs[c] \ {"internal"}} \ {{}} :
                  svcs' = [svcs EXCEPT ![c] = left] /\ Fault /\ leaked' = leaked \cup {c}
       \/ sts[c].exists /\ UNCHANGED <<sts, svcs>> /\ Fault /\ leaked' = leaked \cup {c}
    /\ UNCHANGED <<claims, hpa, dcr>>

ClearScaler ==
    /\ \/ /\ hpa' = FALSE /\ NoFault /\ dcr' = [dcr EXCEPT !.status["cn"].scaler = FALSE]
          /\ leaked' = leaked \ {"cn"}
       \/ hpa /\ hpa' = hpa /\ Fault /\ dcr' = dcr /\ leaked' = leaked \cup {"cn"}
    /\ UNCHANGED <<sts, svcs, claims>>

\* Whether ClearResources of c has anything to do.
HasToClear(c) == CASE c = "fe" -> Surplus # {}
                   [] c = "cn" -> Unscaled
                   [] OTHER    -> Gone(c)

ClearResources(c) ==
    /\ pc = "clear" /\ c \in todo /\ HasToClear(c)
    /\ CASE c = "fe" -> ClearClaims
         [] c = "cn" -> ClearScaler
         [] OTHER    -> ClearCommon(c)
    /\ todo' = todo \ {c}
    /\ UNCHANGED <<cr, conf, may, ask, edits, status, pods, role, pc>>

Cleared ==
    /\ pc = "clear" /\ \A c \in todo : ~ HasToClear(c)
    /\ pc' = "finish" /\ todo' = {}
    /\ UNCHANGED <<user, status, env, dcr, faults>>

\* ClassifyPodsByStatus.
Classified(c, n, phase) ==
    IF /\ \E o \in Ordinals : Exists(c, o)
       /\ Cardinality({o \in Ordinals : Ready(c, o)}) = n
       /\ \A o, p \in Ordinals : Exists(c, o) /\ Exists(c, p) => pods[c][o].rest = pods[c][p].rest
    THEN "Available" ELSE phase

\* UpdateComponentStatus of each component.  The core ConfigMap's hash is
\* recorded whether or not the pods were restarted for it.
UpdatedFE == [dcr.status["fe"] EXCEPT !.hash = conf["fe"], !.phase = Classified("fe", dcr.spec.fe, @)]

UpdatedBE == [dcr.status["be"] EXCEPT !.hash = conf["be"], !.phase = Classified("be", 1, @)]

UpdatedBroker == [dcr.status["broker"] EXCEPT
                    !.phase = Classified("broker", 1, IF @ = "none" THEN "Reconciling" ELSE @)]

UpdatedCN ==
    [phase |-> IF sts["cn"].exists THEN Classified("cn", sts["cn"].replicas, "Reconciling")
               ELSE "Reconciling",
     hash |-> 0, scaler |-> dcr.spec.auto]

UpdatedStatus(c) ==
    IF ~ On(c, dcr.spec) THEN NoStatus
    ELSE CASE c = "fe"     -> UpdatedFE
           [] c = "be"     -> UpdatedBE
           [] c = "broker" -> UpdatedBroker
           [] OTHER        -> UpdatedCN

\* revertDorisClusterSomeFields patches with the resource version that was read.
Overwrites == edits = dcr.seen

\* UpdateComponentStatus, and the revert of the FE replicas: a conflict is
\* swallowed; a patch that succeeds reads the stored status back into memory.
Finish ==
    /\ pc = "finish" /\ pc' = "status" /\ NoFault
    /\ LET new == [c \in Components |-> UpdatedStatus(c)]
           reverts == dcr.spec.fe # dcr.read /\ Overwrites
       IN  /\ cr' = IF reverts THEN [cr EXCEPT !.fe = dcr.spec.fe, !.anno = dcr.spec.anno,
                                              !.base = dcr.spec.base] ELSE cr
           /\ dcr' = [dcr EXCEPT !.status =
                        [c \in Components |-> IF reverts /\ status[c] # NoStatus THEN status[c]
                                              ELSE new[c]]]
    /\ UNCHANGED <<status, conf, may, ask, edits, leaked, env, todo>>

RevertFails ==
    /\ pc = "finish" /\ dcr.spec.fe # dcr.read /\ Fault /\ Done(status)
    /\ UNCHANGED <<user, status, env>>

\* updateDorisClusterStatus: the time stamps differ, so the status is written.
UpdateStatus ==
    /\ pc = "status"
    /\ \/ status' = dcr.status /\ NoFault
       \/ status' = status /\ Fault
    /\ Done(status')
    /\ UNCHANGED <<user, env>>

-----------------------------------------------------------------------------
(* Around the operator. *)

\* The user edits the custom resource or a ConfigMap.
EditCR(kind) ==
    CASE kind = "scale"   -> \E n \in EditFE, e \in EditElections :
                               cr' = [cr EXCEPT !.fe = n, !.ele = e] /\ cr' # cr
      [] kind \in Others  -> cr' = [cr EXCEPT !.on = IF kind \in @ THEN @ \ {kind}
                                                     ELSE @ \cup {kind},
                                              !.auto = @ /\ kind # "cn"]
      [] kind = "auto"    -> "cn" \in cr.on /\ cr' = [cr EXCEPT !.auto = ~ @]
      [] kind = "volume"  -> cr' = [cr EXCEPT !.size = @ + 1]
      [] kind = "restart" -> \E c \in Restartable : On(c, cr) /\
                               cr' = [cr EXCEPT !.anno[c] = Later(sts[c].rest, @)]
      [] OTHER            -> FALSE

Edit ==
    /\ edits < MaxEdits /\ edits' = edits + 1
    /\ \/ \E kind \in may : EditCR(kind) /\ conf' = conf
       \/ /\ "config" \in may /\ cr' = cr
          /\ \E c \in Restartable : On(c, cr) /\ conf' = [conf EXCEPT ![c] = @ + 1]
    /\ ask' = IF cr'.fe = cr.fe /\ cr'.ele = cr.ele THEN ask ELSE cr'.fe
    /\ leaked' = leaked \cup {c \in cr.on : c \notin cr'.on /\ status[c] = NoStatus}
                        \cup {c \in cr.on : cr.auto /\ ~ cr'.auto /\ c = "cn" /\ ~ status[c].scaler}
    /\ UNCHANGED <<status, may, env, op, faults>>

\* Ten minutes later a restart annotation has no effect any more.
Expire(c) ==
    /\ cr.anno[c] # 0 /\ cr' = [cr EXCEPT !.anno[c] = 0]
    /\ UNCHANGED <<status, conf, may, ask, edits, leaked, env, op, faults>>

\* The autoscaler sets the replicas of the compute nodes.
Autoscale ==
    /\ hpa /\ "cn" \in Components /\ sts["cn"].exists
    /\ \E n \in 1..MaxCN : n # sts["cn"].replicas /\ sts' = [sts EXCEPT !["cn"].replicas = n]
    /\ UNCHANGED <<user, status, svcs, hpa, claims, pods, role, op, faults>>

ConfigOf(c) == IF c \in Restartable THEN conf[c] ELSE 0

\* StatefulSet controller: a missing pod is created once its claim is there.
StsCreatePod(c, o) ==
    /\ sts[c].exists /\ o < sts[c].replicas /\ ~ Exists(c, o)
    /\ c = "fe" => claims[o].size # 0 /\ ~ claims[o].going
    /\ pods' = [pods EXCEPT ![c][o] = [phase |-> "starting", ele |-> sts[c].ele,
                                       rest |-> sts[c].rest, conf |-> ConfigOf(c)]]
    /\ UNCHANGED <<user, status, sts, svcs, hpa, claims, role, op, faults>>

\* The pod is one of the StatefulSet's template.
Updated(c, o) == pods[c][o].rest = sts[c].rest /\ pods[c][o].ele = sts[c].ele

\* StatefulSet controller: a pod above the replicas goes, or, from the highest
\* down and with all the others ready, one of another template.
StsDeletePod(c, o) ==
    /\ Exists(c, o)
    /\ \/ ~ sts[c].exists \/ o >= sts[c].replicas
       \/ /\ ~ Updated(c, o)
          /\ \A p \in Ordinals : p < sts[c].replicas => Ready(c, p) /\ (p > o => Updated(c, p))
    /\ pods' = [pods EXCEPT ![c][o] = NoPod]
    /\ claims' = IF c = "fe" /\ claims[o].going THEN [claims EXCEPT ![o] = NoClaim] ELSE claims
    /\ UNCHANGED <<user, status, sts, svcs, hpa, role, op, faults>>

\* A pod becomes ready.  A frontend registers in the metadata, below its election
\* number as a follower: the first one by itself, another with the master; a
\* known one only rejoins, in the role it has.
PodReady(c, o) ==
    /\ pods[c][o].phase = "starting"
    /\ IF c = "fe" THEN o \in Registered \/ HasMaster \/ (Registered = {} /\ o = 0)
       ELSE FeAvailable
    /\ pods' = [pods EXCEPT ![c][o].phase = "ready"]
    /\ role' = IF c = "fe" /\ o \notin Registered
               THEN [role EXCEPT ![o] = IF o < pods[c][o].ele THEN "FOLLOWER" ELSE "OBSERVER"]
               ELSE role
    /\ UNCHANGED <<user, status, sts, svcs, hpa, claims, op, faults>>

\* A process ends and its container is started again, with the present ConfigMap.
PodRestarts(c, o) ==
    /\ Ready(c, o) /\ Fault
    /\ pods' = [pods EXCEPT ![c][o].phase = "starting", ![c][o].conf = ConfigOf(c)]
    /\ UNCHANGED <<user, status, sts, svcs, hpa, claims, role, op>>

-----------------------------------------------------------------------------
(* Specification. *)

\* A cluster that was just created, or one that runs as asked.
InitNew ==
    /\ status = [c \in Components |-> NoStatus]
    /\ sts = [c \in Components |-> NoSts] /\ svcs = [c \in Components |-> {}] /\ hpa = FALSE
    /\ claims = [o \in Ordinals |-> NoClaim]
    /\ pods = [c \in Components |-> [o \in Ordinals |-> NoPod]]
    /\ role = [o \in Ordinals |-> "none"]

InitRunning ==
    LET n(c) == IF c = "fe" THEN cr.fe ELSE IF c \in cr.on THEN 1 ELSE 0
        e(c) == IF c = "fe" THEN Election ELSE 0
        built(c) == [replicas |-> n(c), ele |-> e(c), rest |-> 0]
    IN  /\ status = [c \in Components |->
                       IF n(c) = 0 THEN NoStatus
                       ELSE [phase |-> "Available", hash |-> IF c \in Restartable THEN 1 ELSE 0,
                             scaler |-> c = "cn" /\ cr.auto]]
        /\ sts = [c \in Components |-> IF n(c) = 0 THEN NoSts
                    ELSE [replicas |-> n(c), ele |-> e(c), rest |-> 0, hash |-> built(c),
                          exists |-> TRUE]]
        /\ svcs = [c \in Components |-> IF n(c) = 0 THEN {} ELSE Services(c)]
        /\ hpa = ("cn" \in cr.on /\ cr.auto)
        /\ claims = [o \in Ordinals |-> IF o < cr.fe THEN [size |-> 1, going |-> FALSE]
                                        ELSE NoClaim]
        /\ pods = [c \in Components |-> [o \in Ordinals |->
                     IF o < n(c) THEN [phase |-> "ready", ele |-> e(c), rest |-> 0,
                                       conf |-> ConfigOf(c)]
                     ELSE NoPod]]
        /\ role = [o \in Ordinals |-> IF o >= cr.fe THEN "none"
                                      ELSE IF o < Election THEN "FOLLOWER" ELSE "OBSERVER"]

Init ==
    /\ \E k \in Clusters :
         /\ may = k.may /\ edits = MaxEdits - k.edits
         /\ cr = [fe |-> k.fe, ele |-> Election, on |-> k.on, auto |-> k.auto, size |-> 1,
                  anno |-> [c \in Restartable |-> 0], base |-> [c \in Restartable |-> 0]]
    /\ conf = [c \in Restartable |-> 1] /\ ask = cr.fe
    /\ InitNew \/ InitRunning
    /\ pc = "idle" /\ todo = {} /\ dcr = Read(cr, status, edits)
    /\ faults = 0 /\ leaked = {}

Operator ==
    \/ Reconcile \/ Crash
    \/ PrepareClaims \/ SyncFE \/ SyncFEFails \/ DropObservers \/ DropObserversFails
    \/ ApplyFE \/ ApplyFEFails
    \/ \E c \in Others : SyncWaits(c) \/ SyncApplies(c) \/ SyncFails(c)
    \/ SyncPanics
    \/ \E c \in Components : ClearResources(c)
    \/ Cleared \/ Finish \/ RevertFails \/ UpdateStatus

Environment ==
    \/ Edit \/ Autoscale \/ \E c \in Restartable : Expire(c)
    \/ \E c \in Components, o \in Ordinals :
          StsCreatePod(c, o) \/ StsDeletePod(c, o) \/ PodReady(c, o) \/ PodRestarts(c, o)

Next == Operator \/ Environment

Spec == Init /\ [][Next]_vars

\* The work queue delivers the cluster again after events, errors and, at the
\* latest, the resync; the controllers and the kubelet go on.
Fairness ==
    /\ WF_vars(Operator)
    /\ \A c \in Components, o \in Ordinals :
         WF_vars(StsCreatePod(c, o) \/ StsDeletePod(c, o) \/ PodReady(c, o))

FairSpec == Spec /\ Fairness

-----------------------------------------------------------------------------
(* Properties. *)

\* The frontends as a membership: the target in memory, the StatefulSet, and the
\* FE's metadata.
ScalesFrontends == INSTANCE Membership WITH
    Voters <- Election, target <- dcr.spec.fe, size <- sts["fe"].replicas,
    members <- {o \in Ordinals : role[o] # "none"}

\* While the election number is not edited and the StatefulSet is read as it is,
\* scaling the frontends implements Membership, whatever else is edited, fails
\* or is retried: observers leave from the top and above the target only, no
\* follower leaves, and the StatefulSet never shrinks into the followers
\* (safeScaleDown, dropObserverBySqlClient).
FrontendsKeepVoters == ScalesFrontends!MembershipSpec

\* Nothing of the component is left.
Removed(c) == /\ ~ sts[c].exists /\ svcs[c] = {} /\ \A o \in Ordinals : ~ Exists(c, o)
              /\ c = "cn" => ~ hpa

\* A deletion that failed is not tried again: the error is ignored and the status
\* that asks for it is dropped.  The same holds for what a reconcile created
\* that a fault kept from writing the first status of the component.
Orphaned(c) == c \in leaked /\ faults > 0

\* The cluster runs what was asked for, and what was taken out of the spec has
\* gone (be/controller.go:127, doriscluster_controller.go:191) unless Orphaned.
Converged ==
    /\ sts["fe"].exists /\ sts["fe"].replicas = cr.fe
    /\ ask >= cr.ele => cr.fe = ask
    /\ \A o \in Ordinals : IF o < cr.fe
                           THEN Ready("fe", o) /\ o \in Registered /\ claims[o].size = cr.size
                           ELSE ~ Exists("fe", o) /\ claims[o] = NoClaim
    /\ \A c \in cr.on : sts[c].exists /\ svcs[c] = Services(c) /\ Ready(c, 0)
    /\ \A c \in Components \ {"cn"} :
         status[c].phase = IF On(c, cr) THEN "Available" ELSE "none"
    /\ \A c \in Others \ cr.on : Removed(c) \/ Orphaned(c)
    /\ "cn" \in cr.on => hpa = cr.auto \/ (~ cr.auto /\ Orphaned("cn"))

\* A compute node section that is removed makes every later Sync panic.
CNStuck == "cn" \in Others \ cr.on /\ status["cn"] # NoStatus

\* A claim is missing below another one: a single call failed.  patchPVCs and
\* deletePVCs count claims and never come back to it, or to the one above.
ClaimsGap == \E o \in Ordinals \ Bound : \E p \in Bound : o < p

\* A scale-down was taken back after its SQL and before its StatefulSet: the
\* frontend that was dropped runs on, and registers only when it starts.
RunsDropped == \E o \in Ordinals \ Registered : o < cr.fe /\ Ready("fe", o)

\* Once edits and faults are over, the cluster converges to what was asked for
\* last, objects of removed sections gone, and stays so, with three exceptions:
\* compute nodes that were removed, a gap in the claims and a dropped frontend
\* that runs on stop it for good.
CoupledConverges == <>[](Converged \/ CNStuck \/ ClaimsGap \/ RunsDropped)

\* A new core ConfigMap of an Available component ("changing the doris core
\* configmap will cause a rolling restart of the corresponding node") is run by
\* all its pods, once nothing else interferes: no claims to prepare and, for the
\* frontends, no scale-down, before which Sync would return.
ConfigRolledOut ==
    \A c \in Restartable :
        (/\ pc = "idle" /\ edits = MaxEdits /\ faults = MaxFaults /\ FeAvailable /\ ~ CNStuck
         /\ On(c, cr) /\ status[c].phase = "Available" /\ status[c].hash \notin {0, conf[c]}
         /\ Misfits(cr) \cup Missing(cr) = {} /\ (c = "fe" => ~ Shrinks(cr)))
        ~> (\A o \in Ordinals : Exists(c, o) => pods[c][o].conf = conf[c])
=============================================================================
