------------------------------ MODULE ComputeGroup ------------------------------
(***************************************************************************)
(* One compute group of a DorisDisaggregatedCluster, as reconciled by      *)
(* pkg/controller/sub_controller/disaggregated_cluster/computegroups: the  *)
(* StatefulSet of its BE pods, the graceful rollout and scale-down state   *)
(* machine kept in the StatefulSet's graceful-action annotation, and the   *)
(* removal of scaled-down backends from the FE's metadata.                 *)
(*                                                                         *)
(* The operator reads the StatefulSet through an informer cache and writes *)
(* to the API server; a reconcile is a sequence of steps (pc) between      *)
(* which the StatefulSet controller, the kubelet, the FE, the user and the *)
(* cache take theirs.                                                      *)
(***************************************************************************)
EXTENDS Integers, FiniteSets, Decommission

CONSTANTS MaxReplicas,         \* bound: ordinals are 0 .. MaxReplicas - 1
          MaxRev,              \* bound: pod templates (revisions) are 1 .. MaxRev
          MaxStarts,           \* bound: BE process starts per ordinal
          MaxRestarts,         \* bound: container restarts inside one pod
          MaxEdits,            \* bound: edits of the custom resource by the user
          InitReplicas,        \* replicas of the group at the start
          EditReplicas,        \* replica counts the user may ask for
          EnableDecommission,  \* spec.enableDecommission
          Faults               \* the faults that may happen in a run

\* What can go wrong around the operator.  A run allows a subset of it:
\*   stale     a reconcile starts from a StatefulSet that the cache has not caught up with
\*   conflict  the StatefulSet is newer than the cache when it is patched
\*   lag       the StatefulSet controller publishes status.updateRevision late
\*   crash     the operator stops between two steps of a reconcile and restarts
\*   exec      a command executed in a pod fails
\*   sql       the FE cannot be queried, or a statement fails
\*   api       a write to the API server is refused
\*   deadline  waiting for a backend in the FE exceeds its deadline
\*   overlap   the user edits the group again before it has settled
FaultKinds == {"stale", "conflict", "lag", "crash", "exec", "sql", "api", "deadline", "overlap"}

ASSUME ConstantsAssumption ==
    /\ MaxReplicas \in Nat \ {0} /\ InitReplicas \in 1..MaxReplicas
    /\ MaxRev \in Nat \ {0} /\ MaxStarts \in Nat \ {0}
    /\ MaxRestarts \in Nat /\ MaxEdits \in Nat
    /\ EditReplicas \subseteq 1..MaxReplicas
    /\ EnableDecommission \in BOOLEAN
    /\ Faults \subseteq FaultKinds

VARIABLES
    spec,     \* what the user asks for: template revision and replicas
    edits,    \* number of user edits so far
    sts,      \* the StatefulSet in the API server
    cache,    \* the operator's informer copy of sts
    fresh,    \* the copy has the resourceVersion of sts
    pods,     \* ordinal -> the pod of that name
    starts,   \* ordinal -> number of BE processes started there: the generation of the last one
    be,       \* ordinal -> the backend as SHOW BACKENDS in the FE lists it
    phase,    \* the compute group's phase in the custom resource's status
    cgid,     \* the status holds the id the FE gave to the group
    pc,       \* operator: next step of the running reconcile
    est,      \* operator: StatefulSet read at the start of the reconcile
    st,       \* operator: StatefulSet it is about to apply
    ask,      \* operator: replicas in the custom resource it read
    cur       \* operator: the compute group's phase in memory

sysVars == <<spec, edits, sts, cache, fresh, pods, starts, be, phase, cgid>>
opVars  == <<pc, est, st, ask, cur>>
vars    == <<spec, edits, sts, cache, fresh, pods, starts, be, phase, cgid, pc, est, st, ask, cur>>

-----------------------------------------------------------------------------
(* Records. *)

Ordinals == 0..(MaxReplicas - 1)
Revs     == 1..MaxRev
NoOrdinal == -1

ActionTypes  == {"None", "RollingUpdate", "ScaleDown"}
ActionPhases == {"TriggerDrain", "WaitDrain", "DeletePod", "WaitPodReady", "WaitBEAlive", "Done"}

\* dv1.GracefulAction.  initGen and replGen stand for the FE-observed start time
\* and process epoch (0: empty); pod for CurrentPod and CurrentOrdinal;
\* target 0 for an empty TargetRevision.  Past TriggerDrain an action has its pod.
ActionRecord ==
    [type : ActionTypes, phase : ActionPhases, pod : Ordinals \cup {NoOrdinal},
     target : 0..MaxRev, desired : 0..MaxReplicas, initRestarts : 0..MaxRestarts,
     initGen : 0..MaxStarts, replGen : 0..MaxStarts, stable : 0..2]

GracefulAction ==
    {ga \in ActionRecord : ga.phase \in {"TriggerDrain", "Done"} \/ ga.pod \in Ordinals}

NewAction(type, target, desired) ==
    [type |-> type, phase |-> "TriggerDrain", pod |-> NoOrdinal, target |-> target,
     desired |-> desired, initRestarts |-> 0, initGen |-> 0, replGen |-> 0, stable |-> 0]

\* No graceful-action annotation.
NoAction == NewAction("None", 0, 0)

\* appv1.StatefulSet: template, replicas, update strategy (ru: the rollingUpdate
\* block is present), annotations (graceful action, spec hash) and status
\* revisions (0: not yet published).
StatefulSet ==
    [tmpl : Revs, replicas : 0..MaxReplicas, strategy : {"RollingUpdate", "OnDelete"},
     ru : BOOLEAN, ann : GracefulAction, hash : Revs \X (0..MaxReplicas),
     updRev : 0..MaxRev, curRev : 0..MaxRev]

\* A pod of the StatefulSet.  draining: stop_be.sh --grace reached its container;
\* sentinel: the terminating sentinel file exists in it.
Pod == [phase : {"none", "starting", "ready", "exited"}, rev : 0..MaxRev,
        deleting : BOOLEAN, draining : BOOLEAN, sentinel : BOOLEAN, restarts : 0..MaxRestarts]

NoPod == [phase |-> "none", rev |-> 0, deleting |-> FALSE, draining |-> FALSE,
          sentinel |-> FALSE, restarts |-> 0]

\* A backend in the FE's metadata (listed: it is in SHOW BACKENDS).
Backend == [listed : BOOLEAN, alive : BOOLEAN, shutdown : BOOLEAN, gen : 0..MaxStarts,
            decom : {"no", "moving", "done"}]

NoBackend == [listed |-> FALSE, alive |-> FALSE, shutdown |-> FALSE, gen |-> 0, decom |-> "no"]

Phases == {"Reconciling", "Ready", "Scaling", "ScaleDownFailed", "Decommissioning",
           "GracefulRolling", "GracefulScaling"}

PCs == {"idle", "graceful", "finalize", "clear", "apply", "status", "statusUpdated"}

\* The state of the system: one compute group and its operator.
TypeOK ==
    /\ spec \in [tmpl : Revs, replicas : 1..MaxReplicas]
    /\ edits \in 0..MaxEdits
    /\ sts \in StatefulSet /\ cache \in StatefulSet /\ fresh \in BOOLEAN
    /\ pods \in [Ordinals -> Pod]
    /\ starts \in [Ordinals -> 0..MaxStarts]
    /\ be \in [Ordinals -> Backend]
    /\ phase \in Phases /\ cgid \in BOOLEAN /\ cur \in Phases
    /\ pc \in PCs /\ ask \in 0..MaxReplicas
    /\ est \in StatefulSet /\ st \in StatefulSet

-----------------------------------------------------------------------------
(* Helpers of the code. *)

Exists(o)  == pods[o].phase # "none"
Running(o) == pods[o].phase \in {"starting", "ready"}

\* The StatefulSet as NewStatefulset builds it from the custom resource.
NewStatefulset(s) ==
    [tmpl |-> s.tmpl, replicas |-> s.replicas, strategy |-> "RollingUpdate", ru |-> TRUE,
     ann |-> NoAction, hash |-> <<s.tmpl, s.replicas>>, updRev |-> 0, curRev |-> 0]

\* statefulSetHashObject: what the spec-hash annotation stands for.
HashObject(s) == <<s.tmpl, s.replicas>>

\* statefulSetSpecChanged: the new object's hash against the stored annotation.
StatefulSetSpecChanged(new, old) == HashObject(new) # old.hash

\* Pods listed by selectNextRollingUpdatePod: any whose revision is not the target.
Outdated(target) == {o \in Ordinals : Exists(o) /\ pods[o].rev # target}

TargetOrUpdate(old, ga) == IF ga.target = 0 THEN old.updRev ELSE ga.target

Highest(S) == CHOOSE o \in S : \A p \in S : p <= o

\* Mutant of SelectNextPod: a scale-down starts from the lowest ordinal.
SelectLowestPod(old, ga) ==
    IF ga.type = "RollingUpdate"
    THEN LET out == Outdated(TargetOrUpdate(old, ga))
         IN  IF out = {} THEN NoOrdinal ELSE Highest(out)
    ELSE IF ga.type = "ScaleDown" /\ ga.desired < old.replicas THEN 0 ELSE NoOrdinal

\* selectNextPod: the ordinal to work on next, NoOrdinal if there is none.
SelectNextPod(old, ga) ==
    IF ga.type = "RollingUpdate"
    THEN LET out == Outdated(TargetOrUpdate(old, ga))
         IN  IF out = {} THEN NoOrdinal ELSE Highest(out)
    ELSE IF ga.type = "ScaleDown" /\ ga.desired < old.replicas
         THEN old.replicas - 1
         ELSE NoOrdinal

\* detectGracefulAction.
DetectGracefulAction(new, old) ==
    IF new.replicas < old.replicas THEN NewAction("ScaleDown", 0, new.replicas)
    ELSE IF StatefulSetSpecChanged(new, old) THEN NewAction("RollingUpdate", 0, 0)
    ELSE IF old.updRev # 0 /\ old.updRev # old.curRev /\ Outdated(old.updRev) # {}
         THEN NewAction("RollingUpdate", old.updRev, 0)
    ELSE NoAction

GracefulActionPriority(type) ==
    CASE type = "ScaleDown" -> 2 [] type = "RollingUpdate" -> 1 [] OTHER -> 0

\* The stored action, or the detected one where its priority is higher.
ChooseAction(detected, stored) ==
    IF GracefulActionPriority(detected.type) > GracefulActionPriority(stored.type)
    THEN detected ELSE stored

\* refreshRollingUpdateTargetRevision.
RefreshTarget(old, ga) ==
    IF ga.type = "RollingUpdate" /\ old.updRev # 0
    THEN [ga EXCEPT !.target = old.updRev] ELSE ga

\* Mutant of AdvanceToNextPod: pod and phase are not reset.
AdvanceKeepsPhase(ga) == [ga EXCEPT !.replGen = 0, !.stable = 0]

\* advanceToNextPod.
AdvanceToNextPod(ga) == NewAction(ga.type, ga.target, ga.desired)

\* Mutant of PrepareGracefulStatefulSet: ensureOnDeleteStrategy is not called.
PrepareWithoutOnDelete(new, old, ga) ==
    [new EXCEPT !.ann = ga,
                !.replicas = IF ga.type = "ScaleDown" THEN old.replicas ELSE new.replicas]

\* prepareGracefulStatefulSet and setGracefulAction.
PrepareGracefulStatefulSet(new, old, ga) ==
    [new EXCEPT !.strategy = "OnDelete", !.ru = FALSE, !.ann = ga,
                !.replicas = IF ga.type = "ScaleDown" THEN old.replicas ELSE new.replicas]

\* The phase the group shows while the action runs.
ActionPhase(ga) == IF ga.type = "ScaleDown" THEN "GracefulScaling" ELSE "GracefulRolling"

\* A write to the StatefulSet: a new resourceVersion unless nothing changes.
WriteSts(new) ==
    /\ sts' = new
    /\ fresh' = (fresh /\ new = sts)
    /\ cache' = cache

\* A cached read inside a reconcile: the cache may lag behind only under "conflict".
CacheServes == fresh \/ "conflict" \in Faults

\* getBackendsByComputeGroupId: without the group's id, no backend is found.
Listed == {o \in Ordinals : cgid /\ be[o].listed}
BackendList == [o \in Listed |-> be[o]]

-----------------------------------------------------------------------------
(* The operator: preApplyStatefulSet. *)

NoSts == NewStatefulset([tmpl |-> 1, replicas |-> 0])

\* reconcileStatefulset reads the StatefulSet and goes on at step next with the
\* group's phase p in memory.
Begin(next, p) ==
    /\ pc = "idle" /\ pc' = next
    /\ fresh \/ "stale" \in Faults
    /\ est' = cache
    /\ st' = NewStatefulset(spec)
    /\ ask' = spec.replicas
    /\ cur' = p
    /\ UNCHANGED <<spec, edits, sts, cache, fresh, pods, starts, phase, cgid>>

\* getOperationType.
ScaleDownOperation == spec.replicas < cache.replicas \/ phase \in {"Decommissioning", "ScaleDownFailed"}

\* scaledOutBENodesByDrop: DROPP the backends of every ordinal not kept.
Dropped(keep) == [o \in Ordinals |-> IF o \in ScaledOut(BackendList, keep) THEN NoBackend ELSE be[o]]

\* decommissionBENodes: DECOMMISSION the same backends.
Decommissioned(keep) ==
    [o \in Ordinals |-> IF o \in ScaledOut(BackendList, keep) /\ be[o].decom = "no"
                        THEN [be[o] EXCEPT !.decom = "moving"] ELSE be[o]]

DecommissionProgress ==
    GetDecommissionPhase(ConstructDecommissionTaskStatus(BackendList, spec.replicas))

\* Not a scale-down: nothing is done before the StatefulSet is applied.
PreApplyNothing ==
    /\ ~ ScaleDownOperation
    /\ Begin("graceful", phase)
    /\ be' = be

\* scaleOut without decommission drops the backends, then goes on to apply.
ScaleOutByDrop ==
    /\ ScaleDownOperation /\ ~ EnableDecommission
    /\ Begin("graceful", "Scaling")
    /\ be' = Dropped(spec.replicas)

\* scaledOutBENodesByDecommission, nothing decommissioned yet: start, skip apply.
StartDecommission ==
    /\ ScaleDownOperation /\ EnableDecommission
    /\ DecommissionProgress = "Acceptable"
    /\ Begin("status", "Decommissioning")
    /\ be' = Decommissioned(spec.replicas)

\* Tablets still move, or the counters match no phase: wait, skip apply.
AwaitDecommission ==
    /\ ScaleDownOperation /\ EnableDecommission
    /\ DecommissionProgress \in {"Decommissioning", "Unknown"}
    /\ Begin("status", "Decommissioning")
    /\ be' = be

\* Every tablet has moved: drop the backends (an error is ignored) and go on.
FinishDecommission ==
    /\ ScaleDownOperation /\ EnableDecommission
    /\ DecommissionProgress = "Decommissioned"
    /\ Begin("graceful", "Scaling")
    /\ be' = Dropped(spec.replicas) \/ ("sql" \in Faults /\ be' = be)

\* The FE cannot be asked: the reconcile stops, the phase keeps its value; or
\* the DROPP or DECOMMISSION statement fails, which the phase records.
ScaleOutFails ==
    /\ ScaleDownOperation /\ "sql" \in Faults
    /\ \/ Begin("status", phase)
       \/ /\ ~ EnableDecommission \/ DecommissionProgress = "Acceptable"
          /\ Begin("status", "ScaleDownFailed")
    /\ be' = be

PreApplyStatefulSet ==
    \/ PreApplyNothing \/ ScaleOutByDrop \/ ScaleOutFails
    \/ StartDecommission \/ AwaitDecommission \/ FinishDecommission

-----------------------------------------------------------------------------
(* The operator: gracefulRolloutReconcile and the state machine. *)

Detected == DetectGracefulAction(st, est)

\* The action is kept and stored with the StatefulSet that is applied next.
Continue(ga) ==
    /\ st' = PrepareGracefulStatefulSet(st, est, ga)
    /\ cur' = ActionPhase(ga)
    /\ pc' = "clear"
    /\ UNCHANGED <<est, ask>>

\* The state machine returns an error: OnDelete, but neither the action nor the
\* replicas of the StatefulSet to apply are prepared.
StateMachineError(ga) ==
    /\ st' = [st EXCEPT !.strategy = "OnDelete", !.ru = FALSE]
    /\ cur' = ActionPhase(ga)
    /\ pc' = "clear"
    /\ UNCHANGED <<est, ask>>

\* No action needed or in progress.
NoGracefulAction ==
    /\ pc = "graceful" /\ Detected = NoAction /\ est.ann = NoAction
    /\ pc' = "clear"
    /\ UNCHANGED <<sysVars, est, st, ask, cur>>

\* A new action: stored first if the image of the pod it would start with
\* supports the terminating sentinel (found out by an exec into it), and
\* otherwise disabled: the StatefulSet is applied with RollingUpdate.
StartGracefulAction ==
    /\ pc = "graceful" /\ Detected # NoAction /\ est.ann = NoAction
    /\ LET o == SelectNextPod(est, Detected) IN
       \/ /\ o # NoOrdinal => Running(o)
          /\ Continue(Detected)
       \/ /\ o # NoOrdinal /\ (~ Running(o) \/ "exec" \in Faults)
          /\ pc' = "clear" /\ UNCHANGED <<est, st, ask, cur>>
    /\ UNCHANGED sysVars

\* The action a running state machine works on.
Action == RefreshTarget(est, ChooseAction(Detected, est.ann))

InPhase(p) == pc = "graceful" /\ est.ann # NoAction /\ Action.phase = p

\* handleTriggerDrain: nothing left to work on, or the revision is not known yet.
TriggerDrainNoPod ==
    /\ InPhase("TriggerDrain")
    /\ IF Action.type = "RollingUpdate" /\ Action.target = 0
       THEN Continue(Action)
       ELSE /\ SelectNextPod(est, Action) = NoOrdinal
            /\ st' = [st EXCEPT !.ann = [Action EXCEPT !.phase = "Done"]]
            /\ cur' = ActionPhase(Action)
            /\ pc' = "finalize"
            /\ UNCHANGED <<est, ask>>
    /\ UNCHANGED sysVars

\* getBackendByPodName: the generation the FE reports, empty if it knows none.
KnownGen(o) == IF o \in Listed THEN be[o].gen ELSE 0

\* handleTriggerDrain on the selected pod: remember its restart count and what
\* the FE says of its backend, write the sentinel, run stop_be.sh --grace.
\* A failed query leaves the generation empty; a failed exec changes nothing.
TriggerDrain ==
    /\ InPhase("TriggerDrain")
    /\ Action.type = "ScaleDown" \/ Action.target # 0
    /\ LET o  == SelectNextPod(est, Action)
           ga == [Action EXCEPT !.pod = o, !.phase = "WaitDrain"]
           CanExec(ok) == IF ok THEN Running(o) ELSE ~ Running(o) \/ "exec" \in Faults
       IN  /\ o # NoOrdinal
           /\ IF ~ Exists(o)
              THEN /\ Continue(IF Action.type = "RollingUpdate"
                               THEN [ga EXCEPT !.phase = "WaitPodReady"]
                               ELSE AdvanceToNextPod(Action))
                   /\ pods' = pods
              ELSE \E sentinel, stop \in BOOLEAN, gen \in {KnownGen(o), 0} :
                     /\ CanExec(sentinel) /\ CanExec(stop)
                     /\ gen = KnownGen(o) \/ "sql" \in Faults
                     /\ pods' = [pods EXCEPT ![o].sentinel = @ \/ sentinel,
                                             ![o].draining = @ \/ stop]
                     /\ Continue([ga EXCEPT !.initRestarts = pods[o].restarts,
                                            !.initGen = gen])
    /\ UNCHANGED <<spec, edits, sts, cache, fresh, starts, be, phase, cgid>>

\* handleWaitDrain on a pod that is gone or whose container has ended or was
\* restarted by the kubelet, or after the grace period (which may end at any
\* time): the pod is to be deleted.
WaitDrainOver ==
    /\ InPhase("WaitDrain")
    /\ Continue(IF Exists(Action.pod) THEN [Action EXCEPT !.phase = "DeletePod"]
                ELSE IF Action.type = "RollingUpdate"
                THEN [Action EXCEPT !.phase = "WaitPodReady"]
                ELSE AdvanceToNextPod(Action))
    /\ UNCHANGED sysVars

\* handleWaitDrain: still waiting.
WaitDrain ==
    /\ InPhase("WaitDrain")
    /\ Running(Action.pod) /\ pods[Action.pod].restarts <= Action.initRestarts
    /\ Continue(Action)
    /\ UNCHANGED sysVars

\* updateStatefulSetReplicas: an Update of the cached object; a conflict or a
\* refusal is only logged.
UpdateStatefulSetReplicas(n) ==
    \/ /\ fresh
       /\ WriteSts([sts EXCEPT !.replicas = n])
    \/ /\ ~ fresh \/ "api" \in Faults
       /\ UNCHANGED <<sts, cache, fresh>>

\* Mutant of AfterPodDeleted: a rolling update stays in the phase DeletePod.
AfterPodDeletedStays ==
    IF Action.type = "RollingUpdate"
    THEN Continue(Action) /\ UNCHANGED <<sts, cache, fresh>>
    ELSE CacheServes /\ UpdateStatefulSetReplicas(Action.pod) /\ Continue(AdvanceToNextPod(Action))

\* Mutant of AfterPodDeleted: the replacement pod is not waited for.
AfterPodDeletedAdvances ==
    /\ Continue(AdvanceToNextPod(Action))
    /\ IF Action.type = "RollingUpdate" THEN UNCHANGED <<sts, cache, fresh>>
       ELSE CacheServes /\ UpdateStatefulSetReplicas(Action.pod)

\* Mutant of AfterPodDeleted: off by one, the replicas are set to the ordinal before.
AfterPodDeletedOffByOne ==
    IF Action.type = "RollingUpdate"
    THEN /\ Continue([Action EXCEPT !.phase = "WaitPodReady"])
         /\ UNCHANGED <<sts, cache, fresh>>
    ELSE /\ CacheServes
         /\ UpdateStatefulSetReplicas(IF Action.pod > 0 THEN Action.pod - 1 ELSE 0)
         /\ Continue(AdvanceToNextPod(Action))

\* afterPodDeleted.
AfterPodDeleted ==
    IF Action.type = "RollingUpdate"
    THEN /\ Continue([Action EXCEPT !.phase = "WaitPodReady"])
         /\ UNCHANGED <<sts, cache, fresh>>
    ELSE /\ CacheServes
         /\ UpdateStatefulSetReplicas(Action.pod)
         /\ Continue(AdvanceToNextPod(Action))

\* handleDeletePod: the pod of that name is deleted, whichever it is.
DeletePod ==
    /\ InPhase("DeletePod")
    /\ LET o == Action.pod IN
       \/ /\ pods' = IF Exists(o) THEN [pods EXCEPT ![o].deleting = TRUE] ELSE pods
          /\ AfterPodDeleted
       \/ /\ Exists(o) /\ "api" \in Faults
          /\ StateMachineError(Action)
          /\ UNCHANGED <<pods, sts, cache, fresh>>
    /\ UNCHANGED <<spec, edits, starts, be, phase, cgid>>

\* handleWaitPodReady: a pod of that name is Ready.
WaitPodReady ==
    /\ InPhase("WaitPodReady")
    /\ Continue(IF pods[Action.pod].phase = "ready"
                THEN [Action EXCEPT !.phase = "WaitBEAlive"] ELSE Action)
    /\ UNCHANGED sysVars

\* Mutant of RequiredStableObservations: more than the annotation's counter is meant to hold.
TooManyObservations == 4

\* requiredStableBackendObservations.
RequiredStableObservations == 2

\* Mutant of AcceptBackend: a generation is accepted without looking at the drained one.
AcceptAnyGeneration(b, ga) == b.alive /\ ~ b.shutdown /\ b.gen # 0

\* The backend is alive, not shutting down, and its generation is not the drained one.
AcceptBackend(b, ga) == b.alive /\ ~ b.shutdown /\ b.gen # 0 /\ b.gen # ga.initGen

\* The count of consecutive observations of one new generation.
Observe(b, ga) ==
    [ga EXCEPT !.replGen = b.gen, !.stable = IF @ # 0 /\ ga.replGen = b.gen THEN @ + 1 ELSE 1]

\* handleWaitBEAlive: the new generation has been seen often enough, or the
\* deadline has passed without an acceptable answer.
WaitBEAlive ==
    /\ InPhase("WaitBEAlive")
    /\ LET b == be[Action.pod] IN
       \/ /\ Action.pod \in Listed /\ AcceptBackend(b, Action)
          /\ Continue(IF Observe(b, Action).stable >= RequiredStableObservations
                      THEN AdvanceToNextPod(Action) ELSE Observe(b, Action))
       \/ /\ Action.pod \notin Listed \/ ~ AcceptBackend(b, Action) \/ "sql" \in Faults
          /\ \/ Continue(Action)
             \/ "deadline" \in Faults /\ Continue(AdvanceToNextPod(Action))
    /\ UNCHANGED sysVars

\* An action that is stored as Done has nothing left to run.
AlreadyDone ==
    /\ InPhase("Done")
    /\ st' = [st EXCEPT !.ann = Action]
    /\ cur' = ActionPhase(Action)
    /\ pc' = "finalize"
    /\ UNCHANGED <<sysVars, est, ask>>

\* shouldFinalizeGracefulAction and finalizeGracefulAction: unless outdated pods
\* are left, the annotation is removed by a patch of its own and the StatefulSet
\* is applied as the custom resource asks, still with OnDelete.
FinalizeGracefulAction ==
    /\ pc = "finalize"
    /\ LET ga == st.ann IN
       IF ga.type = "RollingUpdate" /\ Outdated(TargetOrUpdate(est, ga)) # {}
       THEN Continue(ga) /\ UNCHANGED <<sts, cache, fresh>>
       ELSE \/ /\ WriteSts([sts EXCEPT !.ann = NoAction])
               /\ st' = [st EXCEPT !.ann = NoAction, !.strategy = "OnDelete", !.ru = FALSE]
               /\ cur' = "Reconciling"
               /\ pc' = "clear" /\ UNCHANGED <<est, ask>>
            \/ /\ "api" \in Faults
               /\ st' = [st EXCEPT !.ann = NoAction, !.strategy = "OnDelete", !.ru = FALSE]
               /\ cur' = "Reconciling"
               /\ pc' = "clear" /\ UNCHANGED <<est, ask, sts, cache, fresh>>
    /\ UNCHANGED <<spec, edits, pods, starts, be, phase, cgid>>

GracefulRolloutReconcile ==
    \/ NoGracefulAction \/ StartGracefulAction
    \/ TriggerDrainNoPod \/ TriggerDrain \/ WaitDrain \/ WaitDrainOver \/ DeletePod
    \/ WaitPodReady \/ WaitBEAlive \/ AlreadyDone \/ FinalizeGracefulAction

-----------------------------------------------------------------------------
(* The operator: apply, status, restart. *)

\* clearStatefulSetRollingUpdate: a patch without a resourceVersion; a refusal
\* is only logged.
ClearStatefulSetRollingUpdate ==
    /\ pc = "clear" /\ pc' = "apply"
    /\ \/ st.strategy = "OnDelete" /\ WriteSts([sts EXCEPT !.ru = FALSE])
       \/ /\ st.strategy = "RollingUpdate" \/ "api" \in Faults
          /\ UNCHANGED <<sts, cache, fresh>>
    /\ UNCHANGED <<spec, edits, pods, starts, be, phase, cgid, est, st, ask, cur>>

BusinessEqual == ~ StatefulSetSpecChanged(st, cache)
ApplyEqual == BusinessEqual /\ st.strategy = cache.strategy /\ st.ann = cache.ann

\* The StatefulSet after the merge patch.  An annotation that st does not carry
\* stays; the controller publishes the update revision in the same step unless
\* it may lag.
Merged ==
    [sts EXCEPT !.tmpl = st.tmpl, !.replicas = st.replicas, !.strategy = st.strategy,
                !.ru = @ \/ st.ru, !.hash = HashObject(st),
                !.ann = IF st.ann = NoAction THEN @ ELSE st.ann,
                !.updRev = IF "lag" \in Faults \/ @ = 0 THEN @ ELSE st.tmpl]

\* A rollingUpdate block together with OnDelete does not pass validation.
Invalid(s) == s.strategy = "OnDelete" /\ s.ru

\* k8s.ApplyStatefulSet: nothing to write, a write, a swallowed conflict, or an error.
ApplyStatefulSet ==
    /\ pc = "apply" /\ CacheServes
    /\ pc' = IF BusinessEqual THEN "status" ELSE "statusUpdated"
    /\ \/ /\ ~ ApplyEqual /\ fresh /\ ~ Invalid(Merged)
          /\ WriteSts(Merged)
       \/ /\ ApplyEqual \/ ~ fresh \/ Invalid(Merged) \/ "api" \in Faults
          /\ UNCHANGED <<sts, cache, fresh>>
    /\ UNCHANGED <<spec, edits, pods, starts, be, phase, cgid, est, st, ask, cur>>

\* What the operator forgets between two reconciles.
Reset(p) == pc' = "idle" /\ est' = NoSts /\ st' = NoSts /\ ask' = 0 /\ cur' = p

Available == {o \in Ordinals : pods[o].phase = "ready"}

\* Mutant of AllUpdated: one updated pod is enough.
SomeUpdated == cache.updRev # 0 /\ \E o \in Ordinals : Exists(o) /\ pods[o].rev = cache.updRev

\* StatefulsetControlledPodsAllUseNewUpdateRevision.
AllUpdated == cache.updRev # 0 /\ (\E o \in Ordinals : Exists(o)) /\ Outdated(cache.updRev) = {}

\* updateCGStatus, recordComputeGroupIds and the status update that ends a reconcile.  A reconcile that
\* changed the StatefulSet leaves the phase to a later one.
UpdateCGStatus ==
    /\ pc \in {"status", "statusUpdated"}
    /\ fresh \/ "stale" \in Faults
    /\ phase' = IF pc = "statusUpdated" THEN cur
                ELSE IF cache.ann # NoAction
                     THEN IF cur = "Ready" THEN "GracefulRolling" ELSE cur
                ELSE IF AllUpdated /\ Cardinality(Available) = ask THEN "Ready"
                ELSE cur
    /\ \/ cgid' = (cgid \/ \E o \in Ordinals : be[o].listed)
       \/ "sql" \in Faults /\ cgid' = cgid
    /\ Reset(phase')
    /\ UNCHANGED <<spec, edits, sts, cache, fresh, pods, starts, be>>

\* The operator is restarted: what it had in memory is lost.
Crash ==
    /\ pc # "idle" /\ "crash" \in Faults
    /\ Reset(phase)
    /\ UNCHANGED sysVars

-----------------------------------------------------------------------------
(* Around the operator. *)

\* The informer delivers the current StatefulSet.
CacheSync ==
    /\ ~ fresh
    /\ cache' = sts /\ fresh' = TRUE
    /\ UNCHANGED <<spec, edits, sts, pods, starts, be, phase, cgid, opVars>>

\* Another writer (a replica count in the status, an annotation) gives the
\* StatefulSet a new resourceVersion.
ForeignWrite ==
    /\ fresh /\ "conflict" \in Faults /\ pc # "idle"
    /\ fresh' = FALSE
    /\ UNCHANGED <<spec, edits, sts, cache, pods, starts, be, phase, cgid, opVars>>

\* The BE of this ordinal serves: its pod is Ready and stays, and the FE has
\* seen the process that runs in it.
Serving(o) ==
    /\ pods[o].phase = "ready" /\ ~ pods[o].deleting /\ ~ pods[o].draining
    /\ be[o].listed /\ be[o].alive /\ ~ be[o].shutdown /\ be[o].gen = starts[o]

\* The group is what the user asked for and shows it.
Settled ==
    /\ phase = "Ready" /\ sts.ann = NoAction
    /\ sts.tmpl = spec.tmpl /\ sts.replicas = spec.replicas /\ sts.updRev = sts.tmpl
    /\ sts.hash = HashObject(spec)
    /\ \A o \in Ordinals : IF o < spec.replicas
                           THEN Serving(o) /\ pods[o].rev = spec.tmpl
                           ELSE ~ Exists(o)

\* The user edits the custom resource.
EditSpec ==
    /\ edits < MaxEdits
    /\ Settled \/ "overlap" \in Faults
    /\ \E t \in Revs, n \in EditReplicas :
         /\ [tmpl |-> t, replicas |-> n] # spec
         /\ spec' = [tmpl |-> t, replicas |-> n]
    /\ edits' = edits + 1
    /\ UNCHANGED <<sts, cache, fresh, pods, starts, be, phase, cgid, opVars>>

\* StatefulSet controller: publish the revision of the template.
StsPublishRevision ==
    /\ sts.updRev # sts.tmpl
    /\ WriteSts([sts EXCEPT !.updRev = sts.tmpl,
                            !.curRev = IF @ = 0 THEN sts.tmpl ELSE @])
    /\ UNCHANGED <<spec, edits, pods, starts, be, phase, cgid, opVars>>

\* StatefulSet controller: a completed RollingUpdate makes the update revision current.
StsCompleteUpdate ==
    /\ sts.strategy = "RollingUpdate" /\ sts.updRev = sts.tmpl /\ sts.curRev # sts.updRev
    /\ \A o \in Ordinals : o < sts.replicas => pods[o].phase = "ready" /\ pods[o].rev = sts.updRev
    /\ WriteSts([sts EXCEPT !.curRev = sts.updRev])
    /\ UNCHANGED <<spec, edits, pods, starts, be, phase, cgid, opVars>>

\* StatefulSet controller: create a missing pod from the current template.
StsCreatePod(o) ==
    /\ o < sts.replicas /\ ~ Exists(o) /\ starts[o] < MaxStarts
    /\ pods' = [pods EXCEPT ![o] = [NoPod EXCEPT !.phase = "starting", !.rev = sts.tmpl]]
    /\ starts' = [starts EXCEPT ![o] = @ + 1]
    /\ UNCHANGED <<spec, edits, sts, cache, fresh, be, phase, cgid, opVars>>

\* StatefulSet controller: delete a pod above the replica count (Parallel
\* management: without waiting for others).
StsScaleDown(o) ==
    /\ o >= sts.replicas /\ Exists(o) /\ ~ pods[o].deleting
    /\ pods' = [pods EXCEPT ![o].deleting = TRUE]
    /\ UNCHANGED <<spec, edits, sts, cache, fresh, starts, be, phase, cgid, opVars>>

\* StatefulSet controller, strategy RollingUpdate: delete the highest outdated
\* pod once every pod above it is updated and ready.
StsRollingUpdate(o) ==
    /\ sts.strategy = "RollingUpdate" /\ o < sts.replicas
    /\ Exists(o) /\ pods[o].rev # sts.tmpl /\ ~ pods[o].deleting
    /\ \A p \in Ordinals : o < p /\ p < sts.replicas =>
          pods[p].phase = "ready" /\ pods[p].rev = sts.tmpl /\ ~ pods[p].deleting
    /\ pods' = [pods EXCEPT ![o].deleting = TRUE]
    /\ UNCHANGED <<spec, edits, sts, cache, fresh, starts, be, phase, cgid, opVars>>

\* Kubelet: the BE starts (its entrypoint registers it in the FE) and the pod is Ready.
PodReady(o) ==
    /\ pods[o].phase = "starting" /\ ~ pods[o].deleting
    /\ pods' = [pods EXCEPT ![o].phase = "ready"]
    /\ be' = [be EXCEPT ![o].listed = TRUE]
    /\ UNCHANGED <<spec, edits, sts, cache, fresh, starts, phase, cgid, opVars>>

\* Kubelet: the BE process of a draining or deleted pod ends.
BEExit(o) ==
    /\ Running(o) /\ (pods[o].draining \/ pods[o].deleting)
    /\ pods' = [pods EXCEPT ![o].phase = "exited"]
    /\ UNCHANGED <<spec, edits, sts, cache, fresh, starts, be, phase, cgid, opVars>>

\* Kubelet: the container of a pod that is not deleted is restarted; with the
\* sentinel in place it ends again before it starts a BE.
KubeletRestart(o) ==
    /\ pods[o].phase = "exited" /\ ~ pods[o].deleting /\ pods[o].restarts < MaxRestarts
    /\ IF pods[o].sentinel
       THEN /\ pods' = [pods EXCEPT ![o].restarts = @ + 1]
            /\ starts' = starts
       ELSE /\ starts[o] < MaxStarts
            /\ pods' = [pods EXCEPT ![o].restarts = @ + 1, ![o].phase = "starting",
                                    ![o].draining = FALSE]
            /\ starts' = [starts EXCEPT ![o] = @ + 1]
    /\ UNCHANGED <<spec, edits, sts, cache, fresh, be, phase, cgid, opVars>>

\* Kubelet: a deleted pod whose container has ended (or was killed) is gone.
PodGone(o) ==
    /\ pods[o].deleting
    /\ pods' = [pods EXCEPT ![o] = NoPod]
    /\ UNCHANGED <<spec, edits, sts, cache, fresh, starts, be, phase, cgid, opVars>>

\* FE: a heartbeat of a registered backend is answered, or not.
Heartbeat(o) ==
    /\ be[o].listed
    /\ be' = [be EXCEPT ![o] = IF pods[o].phase = "ready"
                               THEN [@ EXCEPT !.alive = TRUE, !.shutdown = pods[o].draining,
                                              !.gen = starts[o]]
                               ELSE [@ EXCEPT !.alive = FALSE]]
    /\ be' # be
    /\ UNCHANGED <<spec, edits, sts, cache, fresh, pods, starts, phase, cgid, opVars>>

\* FE: the last tablet has left a decommissioned backend.
TabletsMoved(o) ==
    /\ be[o].listed /\ be[o].decom = "moving"
    /\ be' = [be EXCEPT ![o].decom = "done"]
    /\ UNCHANGED <<spec, edits, sts, cache, fresh, pods, starts, phase, cgid, opVars>>

-----------------------------------------------------------------------------
(* Specification. *)

ReadyPod(t) == [NoPod EXCEPT !.phase = "ready", !.rev = t]

\* A group that runs as asked, or whose StatefulSet has just been created.
Init ==
    /\ spec = [tmpl |-> 1, replicas |-> InitReplicas] /\ edits = 0
    /\ \/ /\ sts = [NewStatefulset(spec) EXCEPT !.updRev = 1, !.curRev = 1]
          /\ pods = [o \in Ordinals |-> IF o < InitReplicas THEN ReadyPod(1) ELSE NoPod]
          /\ starts = [o \in Ordinals |-> IF o < InitReplicas THEN 1 ELSE 0]
          /\ be = [o \in Ordinals |-> IF o < InitReplicas
                                      THEN [NoBackend EXCEPT !.listed = TRUE, !.alive = TRUE,
                                                             !.gen = 1]
                                      ELSE NoBackend]
          /\ phase = "Ready" /\ cgid = TRUE
       \/ /\ sts = NewStatefulset(spec)
          /\ pods = [o \in Ordinals |-> NoPod]
          /\ starts = [o \in Ordinals |-> 0]
          /\ be = [o \in Ordinals |-> NoBackend]
          /\ phase = "Reconciling" /\ cgid = FALSE
    /\ cache = sts /\ fresh = TRUE
    /\ pc = "idle" /\ est = NoSts /\ st = NoSts /\ ask = 0 /\ cur = phase

Operator == PreApplyStatefulSet \/ GracefulRolloutReconcile \/ ClearStatefulSetRollingUpdate
            \/ ApplyStatefulSet \/ UpdateCGStatus

StsController == StsPublishRevision \/ StsCompleteUpdate
                 \/ \E o \in Ordinals : StsCreatePod(o) \/ StsScaleDown(o) \/ StsRollingUpdate(o)

Kubelet == \E o \in Ordinals : PodReady(o) \/ BEExit(o) \/ KubeletRestart(o) \/ PodGone(o)

Frontend == \E o \in Ordinals : Heartbeat(o) \/ TabletsMoved(o)

Next == Operator \/ Crash \/ CacheSync \/ ForeignWrite \/ EditSpec
        \/ StsController \/ Kubelet \/ Frontend

Spec == Init /\ [][Next]_vars

\* Every actor keeps working: the operator requeues while the group is not Ready
\* and is woken by pod and StatefulSet events, the controllers and the FE retry.
Fairness ==
    /\ WF_vars(Operator) /\ SF_vars(WaitDrainOver) /\ WF_vars(CacheSync)
    /\ WF_vars(StsPublishRevision) /\ WF_vars(StsCompleteUpdate)
    /\ \A o \in Ordinals :
         /\ WF_vars(StsCreatePod(o)) /\ WF_vars(StsScaleDown(o)) /\ WF_vars(StsRollingUpdate(o))
         /\ WF_vars(PodReady(o)) /\ WF_vars(BEExit(o)) /\ WF_vars(PodGone(o))
         /\ WF_vars(Heartbeat(o)) /\ WF_vars(TabletsMoved(o))

FairSpec == Spec /\ Fairness

-----------------------------------------------------------------------------
(* Properties. *)

\* A pod that starts to be deleted in this step.
NewlyDeleted(o) == ~ pods[o].deleting /\ pods'[o].deleting

\* A pod that runs a BE is only deleted, by the operator or by the StatefulSet
\* controller, after stop_be.sh --grace was started in it (handleTriggerDrain
\* precedes handleDeletePod, and OnDelete keeps the controller from deleting).
DrainBeforeDelete == [][\A o \in Ordinals : NewlyDeleted(o) => pods[o].draining \/ ~ Running(o)]_vars

\* A pod is only deleted if the user asked for fewer replicas or another
\* template: no replacement pod is deleted a second time (handleDeletePod).
NoNeedlessDelete ==
    [][\A o \in Ordinals : NewlyDeleted(o) => o >= spec.replicas \/ pods[o].rev # spec.tmpl]_vars

\* A change of the template takes at most one BE out of service at a time: the
\* next drain waits for the FE to report the replacement (handleWaitBEAlive).
OneOutOfService ==
    edits > 0 => Cardinality({o \in 0..(InitReplicas - 1) : ~ Serving(o)}) <= 1

\* While the annotation holds an action, Kubernetes may not roll pods by itself
\* (prepareGracefulStatefulSet, ensureOnDeleteStrategy).
OnDeleteWhileGraceful == sts.ann # NoAction => sts.strategy = "OnDelete"

\* A group that reports Ready runs the template of its StatefulSet in every pod
\* (updateCGStatus).
ReadyIsTruthful ==
    [][phase # "Ready" /\ phase' = "Ready"
       => \A o \in Ordinals : Exists(o) => pods[o].rev = sts.tmpl]_vars

\* A backend leaves the FE's metadata only without tablets when decommission is
\* enabled (scaledOutBENodesByDecommission).
DropOnlyEmptyBackends ==
    [][EnableDecommission => \A o \in Ordinals : be[o].listed /\ ~ be'[o].listed => be[o].decom = "done"]_vars

\* The replicas of the StatefulSet only grow to what the user asks for: a pod
\* that was scaled down is not brought back (afterPodDeleted).
NoReplicaRevert == [][sts'.replicas > sts.replicas => sts'.replicas <= spec.replicas]_vars

\* The StatefulSet shrinks by one replica at a time, and only past a pod that
\* the operator has deleted: Kubernetes never removes a pod of its own accord
\* (afterPodDeleted, prepareGracefulStatefulSet).
GracefulShrink ==
    [][sts'.replicas < sts.replicas
       => /\ sts'.replicas = sts.replicas - 1
          /\ ~ Exists(sts'.replicas) \/ pods'[sts'.replicas].deleting]_vars

\* The rollout leaves a pod only for a replacement that serves: when WaitBEAlive
\* accepts a backend, no pod of the drained generation is behind it
\* (InitialBackendStartTime, "used to reject stale alive=true views").
AdvancesOnReplacement ==
    [][pc = "graceful" /\ est.ann.type = "RollingUpdate" /\ est.ann.phase = "WaitBEAlive"
          /\ pc' = "clear" /\ st'.ann.phase = "TriggerDrain"
       => LET p == pods[est.ann.pod] IN Exists(est.ann.pod) /\ ~ p.draining /\ ~ p.deleting]_vars

\* The pods the group starts with as members that are replaced in turn.
ReplacesPods == INSTANCE RollingReplacement WITH
    Members <- 0..(InitReplicas - 1), None <- 0, wanted <- sts.tmpl,
    running <- [o \in 0..(InitReplicas - 1) |-> IF Exists(o) THEN pods[o].rev ELSE 0],
    serving <- {o \in 0..(InitReplicas - 1) : Serving(o)}

\* A rollout implements RollingReplacement, several reconciles and the steps of
\* the controllers to one of its steps: a pod stops serving only when it is
\* outdated and all others serve, is gone only after it stopped, comes back with
\* the template asked for, and the template changes only when all serve again
\* (gracefulRolloutReconcile, detectGracefulAction).
ReplacesInTurn == ReplacesPods!ReplacementSpec

\* A decommission comes to an end (updateObjectORStatus: "should wait it over").
DecommissionEnds == phase = "Decommissioning" ~> phase # "Decommissioning"

\* Whatever the user asked for last is reached and kept.
Converges == <>[]Settled
=============================================================================
