-------------------------------- MODULE Frontend --------------------------------
(***************************************************************************)
(* The frontends (FE) of a DorisDisaggregatedCluster, as reconciled by     *)
(* pkg/controller/sub_controller/disaggregated_cluster/disaggregated_fe:   *)
(* the StatefulSet of the FE pods, the observers that a scale-down drops   *)
(* from the FE's own metadata through SQL, the persistent volume claims    *)
(* that are cleared afterwards, and the FE part of the cluster's status.   *)
(* Pods below the election number join as followers, the others as         *)
(* observers.  Persistent volumes are configured and provisioned by the    *)
(* StatefulSet, and frontends register by host name (FQDN).  The           *)
(* StatefulSet exists and feSpec.replicas is set: its creation             *)
(* (PodTemplates, DisaggregatedCluster) and the default for a missing      *)
(* count are left out.                                                     *)
(***************************************************************************)
EXTENDS Integers, FiniteSets

CONSTANTS MaxReplicas,     \* bound: ordinals are 0 .. MaxReplicas - 1
          MaxEdits,        \* bound: edits of the custom resource by the user
          MaxFaults,       \* bound: faults in a behaviour
          InitReplicas,    \* feSpec.replicas at the start
          InitElection,    \* feSpec.electionNumber at the start
          EditReplicas,    \* replica counts the user may ask for
          EditElections,   \* election numbers the user may ask for
          Faults           \* the faults that may happen in a run

\* What can go wrong around the operator:
\*   ms        the meta service loses its last endpoint
\*   sql       the FE cannot be queried, or a statement fails
\*   api       a write to the API server is refused
\*   conflict  another writer changes the StatefulSet before it is patched
\*   pod       an FE process ends and is started again in its pod
\*   stale     a reconcile starts from a StatefulSet that the cache has not caught up with
\*   overlap   the user edits the custom resource before the last edit has been reached
FrontendFaults == {"ms", "sql", "api", "conflict", "pod", "stale", "overlap"}

ASSUME FrontendAssumption ==
    /\ MaxReplicas \in Nat \ {0} /\ MaxEdits \in Nat /\ MaxFaults \in Nat
    /\ InitElection \in 1..MaxReplicas /\ InitReplicas \in InitElection..MaxReplicas
    /\ EditReplicas \subseteq 0..MaxReplicas /\ EditElections \subseteq 1..MaxReplicas
    /\ Faults \subseteq FrontendFaults

VARIABLES
    spec,     \* feSpec in the custom resource: replicas and election number
    edits,    \* number of user edits so far
    faults,   \* number of faults so far
    ms,       \* the meta service has an endpoint
    sts,      \* the StatefulSet in the API server
    cache,    \* the operator's informer copy of sts
    pods,     \* ordinal -> the pod of that name
    role,     \* ordinal -> its role in SHOW FRONTENDS
    pvcs,     \* ordinal -> its persistent volume claim
    status,   \* the FE part of the custom resource's status
    pc,       \* operator: next step of the running reconcile
    rd,       \* operator: feSpec as it was read
    mem,      \* operator: feSpec in memory, corrected by Sync
    cur,      \* operator: the status in memory
    updated   \* operator: this reconcile found the StatefulSet different

envVars == <<spec, edits, faults, ms, sts, cache, pods, role, pvcs, status>>
opVars  == <<pc, rd, mem, cur, updated>>
vars    == <<spec, edits, faults, ms, sts, cache, pods, role, pvcs, status, pc, rd, mem, cur, updated>>

Ordinals  == 0..(MaxReplicas - 1)
Elections == 1..MaxReplicas

\* feSpec, and what of the StatefulSet follows from it: the election number is
\* an environment variable of the pod template, hence also the pod's revision.
FESpec == [replicas : 0..MaxReplicas, election : Elections]

Pod   == [phase : {"none", "starting", "ready"}, election : 0..MaxReplicas, deleting : BOOLEAN]
NoPod == [phase |-> "none", election |-> 0, deleting |-> FALSE]
Roles == {"none", "FOLLOWER", "OBSERVER"}

\* FEStatus and ClusterHealth.FeAvailable.
FEStatus == [phase : {"Reconciling", "Ready", "Scaling", "ScaleDownFailed"},
             available : BOOLEAN, feAvailable : BOOLEAN]

PCs == {"idle", "drop", "apply", "clear", "status"}

\* The state of the system: the frontends of one cluster and their operator.
TypeOK ==
    /\ spec \in FESpec /\ rd \in FESpec /\ mem \in FESpec
    /\ sts \in FESpec /\ cache \in FESpec
    /\ edits \in 0..MaxEdits /\ faults \in 0..MaxFaults
    /\ ms \in BOOLEAN /\ updated \in BOOLEAN
    /\ pods \in [Ordinals -> Pod] /\ role \in [Ordinals -> Roles]
    /\ pvcs \in [Ordinals -> {"none", "bound", "deleting"}]
    /\ status \in FEStatus /\ cur \in FEStatus
    /\ pc \in PCs
    /\ pc \in {"drop", "apply"} => mem.election <= mem.replicas

\* A fault happens, or none does, in a step.
Fault(kind) == kind \in Faults /\ faults < MaxFaults /\ faults' = faults + 1
NoFault == faults' = faults

Exists(o) == pods[o].phase # "none"
Ready(o)  == pods[o].phase = "ready"

-----------------------------------------------------------------------------
(* The operator: Sync. *)

\* Mutant of Corrected: the replicas are not raised to the election number.
NotCorrected(s) == s

\* Sync: fewer replicas than the election number are corrected.
Corrected(s) == IF s.replicas < s.election THEN [s EXCEPT !.replicas = s.election] ELSE s

\* initialFEStatus: a status that is being worked on is kept, another starts anew.
InitialFEStatus(s) ==
    IF s.phase \in {"Reconciling", "ScaleDownFailed", "Scaling"} THEN s
    ELSE [s EXCEPT !.phase = "Reconciling", !.available = FALSE]

\* reconcileStatefulset: observers have to be dropped first.
MustDrop(want, st) == want.replicas < cache.replicas \/ st.phase = "ScaleDownFailed"

\* Sync up to the StatefulSet; an error of the service step ends it early.
Sync ==
    /\ pc = "idle" /\ ms
    /\ cache = sts \/ "stale" \in Faults
    /\ rd' = spec /\ mem' = Corrected(spec)
    /\ cur' = InitialFEStatus(status)
    /\ updated' = FALSE
    /\ \/ pc' = (IF MustDrop(mem', cur') THEN "drop" ELSE "apply") /\ NoFault
       \/ pc' = "clear" /\ Fault("api")
    /\ UNCHANGED <<spec, edits, ms, sts, cache, pods, role, pvcs, status>>

\* Sync without a meta service returns at once: nothing is corrected.
SyncWaitsForMS ==
    /\ pc = "idle" /\ ~ ms
    /\ rd' = spec /\ mem' = spec /\ cur' = status /\ updated' = FALSE
    /\ pc' = "clear"
    /\ UNCHANGED envVars

-----------------------------------------------------------------------------
(* The operator: dropFEBySQLClient. *)

\* GetObservers.
Observers == {o \in Ordinals : role[o] = "OBSERVER"}

\* needRemovedAmount = allobservers - (replicas - election).
NeedRemovedAmount == Cardinality(Observers) - mem.replicas + mem.election

\* Mutant of FindNeedDeletedObservers: the lowest pod numbers are taken.
FindLowestObservers(n) == {o \in Observers : Cardinality({p \in Observers : p < o}) < n}

\* FindNeedDeletedObservers: the n observers with the highest pod numbers, none
\* if there are fewer.
FindNeedDeletedObservers(n) ==
    {o \in Observers : /\ n <= Cardinality(Observers)
                       /\ Cardinality({p \in Observers : p > o}) < n}

DropObserver(S) == role' = [o \in Ordinals |-> IF o \in S THEN "none" ELSE role[o]]

\* The observers are dropped, or there are not too many of them: Scaling.  An
\* error in listing the pods or in mapping observers to them counts as dropped.
DropFE ==
    /\ pc = "drop" /\ pc' = "apply"
    /\ \/ DropObserver(FindNeedDeletedObservers(NeedRemovedAmount)) /\ NoFault
       \/ NeedRemovedAmount > 0 /\ role' = role /\ Fault("api")
    /\ cur' = [cur EXCEPT !.phase = "Scaling"]
    /\ UNCHANGED <<spec, edits, ms, sts, cache, pods, pvcs, status, rd, mem, updated>>

\* Mutant of DropFEFails: the observers are dropped from the lowest up.
DropFEFailsAscending ==
    /\ pc = "drop" /\ pc' = "clear" /\ Fault("sql")
    /\ LET all == FindNeedDeletedObservers(NeedRemovedAmount)
       IN  \E n \in 0..MaxReplicas :
             DropObserver({o \in all : Cardinality({p \in all : p < o}) < n})
    /\ cur' = [cur EXCEPT !.phase = "ScaleDownFailed"]
    /\ UNCHANGED <<spec, edits, ms, sts, cache, pods, pvcs, status, rd, mem, updated>>

\* An error, before or between the statements: the StatefulSet is not applied.
DropFEFails ==
    /\ pc = "drop" /\ pc' = "clear" /\ Fault("sql")
    /\ \E n \in 0..MaxReplicas :
         /\ n = 0 \/ n <= NeedRemovedAmount
         /\ DropObserver(FindNeedDeletedObservers(n))
    /\ cur' = [cur EXCEPT !.phase = "ScaleDownFailed"]
    /\ UNCHANGED <<spec, edits, ms, sts, cache, pods, pvcs, status, rd, mem, updated>>

-----------------------------------------------------------------------------
(* The operator: apply, clear, status. *)

\* k8s.ApplyStatefulSet: the cached object differs and is patched; a conflict is
\* swallowed and an error ends Sync, both after the update was noted.
ApplyStatefulSet ==
    /\ pc = "apply" /\ pc' = "clear"
    /\ updated' = (mem # cache)
    /\ \/ sts' = (IF cache = sts THEN mem ELSE sts) /\ NoFault
       \/ /\ mem # cache /\ sts' = sts
          /\ Fault("conflict") \/ Fault("api")
    /\ UNCHANGED <<spec, edits, ms, cache, pods, role, pvcs, status, rd, mem, cur>>

\* listAndDeletePersistentVolumeClaim: the claims above the replicas in memory.
Unused == {o \in Ordinals : pvcs[o] # "none" /\ o >= mem.replicas}

\* ClearResources: whatever Sync did, its errors included; a claim in use stays
\* until its pod is gone, and the reconciler ignores errors.
ClearResources ==
    /\ pc = "clear" /\ pc' = "status"
    /\ \/ /\ NoFault
          /\ pvcs' = [o \in Ordinals |-> IF o \notin Unused THEN pvcs[o]
                                         ELSE IF Exists(o) THEN "deleting" ELSE "none"]
       \/ Unused # {} /\ Fault("api") /\ pvcs' = pvcs
    /\ UNCHANGED <<spec, edits, ms, sts, cache, pods, role, status, rd, mem, cur, updated>>

\* podIsFollower.
MasterAlive == {o \in Ordinals : Ready(o) /\ o < mem.election}

\* StatefulsetControlledPodsAllUseNewUpdateRevision.
AllUpdated == /\ \E o \in Ordinals : Exists(o)
              /\ \A o \in Ordinals : Exists(o) => pods[o].election = cache.election

\* Mutant of UpdateComponentStatus: all replicas have to be ready followers.
StatusCountsFollowers ==
    IF updated THEN cur
    ELSE [phase |-> IF AllUpdated /\ Cardinality(MasterAlive) = mem.replicas
                    THEN "Ready" ELSE cur.phase,
          available   |-> cur.available \/ MasterAlive # {},
          feAvailable |-> cur.feAvailable \/ MasterAlive # {}]

\* UpdateComponentStatus: a reconcile that updated the StatefulSet waits for a
\* later one; a ready follower makes the FE available, all pods make it Ready.
UpdateComponentStatus ==
    IF updated THEN cur
    ELSE [phase |-> IF /\ AllUpdated
                       /\ Cardinality(MasterAlive) = mem.election
                       /\ Cardinality({o \in Ordinals : Ready(o)}) = mem.replicas
                    THEN "Ready" ELSE cur.phase,
          available   |-> cur.available \/ MasterAlive # {},
          feAvailable |-> cur.feAvailable \/ MasterAlive # {}]

\* updateObjectORStatus: a corrected feSpec is written back with the resource
\* version of the moment, over an edit made meanwhile unless the cache has not
\* seen it; then the status.  A refused write is only logged.
UpdateObjectORStatus ==
    /\ pc = "status" /\ pc' = "idle"
    /\ \/ spec' = (IF mem = rd THEN spec ELSE mem)
       \/ spec # rd /\ spec' = spec
    /\ \/ status' = UpdateComponentStatus /\ NoFault
       \/ status' = status /\ Fault("api")
    /\ cur' = status' /\ updated' = FALSE
    /\ rd' = spec' /\ mem' = spec'
    /\ UNCHANGED <<edits, ms, sts, cache, pods, role, pvcs>>

-----------------------------------------------------------------------------
(* Around the operator. *)

\* The informer delivers the current StatefulSet.
CacheSync ==
    /\ cache # sts /\ cache' = sts
    /\ UNCHANGED <<spec, edits, faults, ms, sts, pods, role, pvcs, status, opVars>>

\* The frontends are what the user asked for and show it.
Settled ==
    /\ status.phase = "Ready" /\ sts = spec
    /\ \A o \in Ordinals : IF o < spec.replicas
                           THEN Ready(o) /\ ~ pods[o].deleting /\ pods[o].election = spec.election
                                /\ role[o] # "none"
                           ELSE ~ Exists(o)

\* The user edits the custom resource.
EditSpec ==
    /\ edits < MaxEdits
    /\ Settled \/ "overlap" \in Faults
    /\ \E n \in EditReplicas, e \in EditElections :
         /\ spec' = [replicas |-> n, election |-> e]
         /\ spec' # spec
    /\ edits' = edits + 1
    /\ UNCHANGED <<faults, ms, sts, cache, pods, role, pvcs, status, opVars>>

\* The meta service becomes unavailable, and available again.
MSDown ==
    /\ ms /\ ms' = FALSE /\ Fault("ms")
    /\ UNCHANGED <<spec, edits, sts, cache, pods, role, pvcs, status, opVars>>

MSUp ==
    /\ ~ ms /\ ms' = TRUE
    /\ UNCHANGED <<spec, edits, faults, sts, cache, pods, role, pvcs, status, opVars>>

\* StatefulSet controller: create a missing pod, and its claim.
StsCreatePod(o) ==
    /\ o < sts.replicas /\ ~ Exists(o) /\ pvcs[o] # "deleting"
    /\ pods' = [pods EXCEPT ![o] = [phase |-> "starting", election |-> sts.election,
                                    deleting |-> FALSE]]
    /\ pvcs' = [pvcs EXCEPT ![o] = "bound"]
    /\ UNCHANGED <<spec, edits, faults, ms, sts, cache, role, status, opVars>>

\* StatefulSet controller: delete a pod above the replica count, or, from the
\* highest down, one of an older template.
StsDeletePod(o) ==
    /\ Exists(o) /\ ~ pods[o].deleting
    /\ \/ o >= sts.replicas
       \/ /\ pods[o].election # sts.election
          /\ \A p \in Ordinals : o < p /\ p < sts.replicas =>
                Ready(p) /\ pods[p].election = sts.election /\ ~ pods[p].deleting
    /\ pods' = [pods EXCEPT ![o].deleting = TRUE]
    /\ UNCHANGED <<spec, edits, faults, ms, sts, cache, role, pvcs, status, opVars>>

\* Kubelet: a deleted pod is gone, and with it a claim that waited for it.
PodGone(o) ==
    /\ pods[o].deleting
    /\ pods' = [pods EXCEPT ![o] = NoPod]
    /\ pvcs' = [pvcs EXCEPT ![o] = IF @ = "deleting" THEN "none" ELSE @]
    /\ UNCHANGED <<spec, edits, faults, ms, sts, cache, role, status, opVars>>

\* Kubelet: the FE starts; one that is not in the metadata registers with the
\* role its pod number and ELECT_NUMBER give it.
PodReady(o) ==
    /\ pods[o].phase = "starting" /\ ~ pods[o].deleting
    /\ pods' = [pods EXCEPT ![o].phase = "ready"]
    /\ role' = [role EXCEPT ![o] = IF @ # "none" THEN @
                                   ELSE IF o < pods[o].election THEN "FOLLOWER" ELSE "OBSERVER"]
    /\ UNCHANGED <<spec, edits, faults, ms, sts, cache, pvcs, status, opVars>>

\* An FE process ends and its container is started again.
PodFails(o) ==
    /\ Ready(o) /\ Fault("pod")
    /\ pods' = [pods EXCEPT ![o].phase = "starting"]
    /\ UNCHANGED <<spec, edits, ms, sts, cache, role, pvcs, status, opVars>>

-----------------------------------------------------------------------------
(* Specification. *)

FESpecInit == [replicas |-> InitReplicas, election |-> InitElection]

\* Frontends that run as asked, or whose StatefulSet has just been created.
Init ==
    /\ spec = FESpecInit /\ sts = FESpecInit /\ cache = FESpecInit
    /\ edits = 0 /\ faults = 0 /\ ms = TRUE
    /\ \/ /\ pods = [o \in Ordinals |-> IF o < InitReplicas
                                        THEN [phase |-> "ready", election |-> InitElection,
                                              deleting |-> FALSE]
                                        ELSE NoPod]
          /\ role = [o \in Ordinals |-> IF o < InitElection THEN "FOLLOWER"
                                        ELSE IF o < InitReplicas THEN "OBSERVER" ELSE "none"]
          /\ pvcs = [o \in Ordinals |-> IF o < InitReplicas THEN "bound" ELSE "none"]
          /\ status = [phase |-> "Ready", available |-> TRUE, feAvailable |-> TRUE]
       \/ /\ pods = [o \in Ordinals |-> NoPod]
          /\ role = [o \in Ordinals |-> "none"]
          /\ pvcs = [o \in Ordinals |-> "none"]
          /\ status = [phase |-> "Reconciling", available |-> FALSE, feAvailable |-> FALSE]
    /\ pc = "idle" /\ rd = spec /\ mem = spec /\ cur = status /\ updated = FALSE

Operator == Sync \/ SyncWaitsForMS \/ DropFE \/ DropFEFails \/ ApplyStatefulSet
            \/ ClearResources \/ UpdateObjectORStatus

Environment == \/ CacheSync \/ EditSpec \/ MSDown \/ MSUp
               \/ \E o \in Ordinals : StsCreatePod(o) \/ StsDeletePod(o) \/ PodGone(o)
                                      \/ PodReady(o) \/ PodFails(o)

Next == Operator \/ Environment

Spec == Init /\ [][Next]_vars

\* The operator requeues while the cluster is not healthy and is woken by pod
\* events; the cache, the meta service, the controllers and the kubelet go on.
Fairness ==
    /\ WF_vars(Operator) /\ WF_vars(CacheSync) /\ WF_vars(MSUp)
    /\ \A o \in Ordinals : /\ WF_vars(StsCreatePod(o)) /\ WF_vars(StsDeletePod(o))
                           /\ WF_vars(PodGone(o)) /\ WF_vars(PodReady(o))

FairSpec == Spec /\ Fairness

-----------------------------------------------------------------------------
(* Properties. *)

\* dropFEBySQLClient "only delete[s] the fe nodes whose pod number is greater
\* than the expected number": an FE leaves the metadata only if its ordinal is
\* not among the replicas asked for.
DropOnlySurplus ==
    [][\A o \in Ordinals : role[o] # "none" /\ role'[o] = "none" => o >= mem.replicas]_vars

\* The frontends as a membership: the replicas in memory, the StatefulSet, and
\* what SHOW FRONTENDS lists.
ScalesFrontends == INSTANCE Membership WITH
    Voters <- InitElection, target <- mem.replicas, size <- sts.replicas,
    members <- {o \in Ordinals : role[o] # "none"}

\* Scaling implements Membership while the election number is not edited: under
\* every fault observers leave from the top and above the target only, no
\* follower leaves, and the StatefulSet never shrinks into the followers (Sync,
\* dropFEBySQLClient, reconcileStatefulset).
KeepsVoters == ScalesFrontends!MembershipSpec

\* Once the faults are over, what the user asked for last, corrected, is reached
\* and kept: the pods run it, are registered in the FE, and the status is Ready.
FEConverges == <>[]Settled
=============================================================================
