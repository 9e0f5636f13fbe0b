----------------------------- MODULE RolloutProofs -----------------------------
(***************************************************************************)
(* Proofs about the graceful rollout of a ComputeGroup whose replicas are  *)
(* never taken down, for any number of replicas, templates and edits: pods *)
(* are drained before they are deleted, no replacement is deleted, one BE  *)
(* at a time is out of service, and the rollout implements                 *)
(* RollingReplacement.  Nothing fails around the operator (Faults = {}):   *)
(* each of the faults alone makes each of these properties false.  All     *)
(* interleavings with the StatefulSet controller, the kubelet, the FE, the *)
(* cache and the user remain.                                              *)
(***************************************************************************)
EXTENDS ScaleDownProofs

\* The user asks for no fewer replicas than before.
NeverShrinks == [][spec'.replicas >= spec.replicas]_vars

-----------------------------------------------------------------------------
(* The inductive invariant: what the operator reads and writes. *)

\* The StatefulSet as the last apply left it: its hash and its revision are
\* those of its template, and an action belongs to what the user asks for.
Written ==
    /\ sts.hash = HashObject(sts)
    /\ sts.updRev \in {0, sts.tmpl}
    /\ sts.updRev = 0 => sts.ann = NoAction /\ sts.hash = HashObject(spec)
    /\ sts.ann # NoAction => sts.hash = HashObject(spec)
    /\ pc = "apply" /\ st.strategy = "OnDelete" => ~ sts.ru

\* The state machine works on the StatefulSet as it is, except that its revision
\* may have been published since, for a spec that is applied already.
ReadsWritten == pc = "graceful" =>
    /\ est.ann = sts.ann /\ est.replicas = sts.replicas /\ est.hash = sts.hash
    /\ st.ann = NoAction /\ st.strategy = "RollingUpdate"
    /\ \/ est.updRev = sts.updRev
       \/ est.updRev = 0 /\ HashObject(st) = sts.hash /\ sts.ann = NoAction

\* What is in memory is what the user asks for, or what a settled group has.
HoldsSpec == Holding =>
    \/ HashObject(st) = HashObject(spec)
    \/ HashObject(st) = sts.hash /\ sts.ann = NoAction /\ st.ann = NoAction

\* An action is finalized once no pod is outdated.
Finalizes == pc = "finalize" =>
    /\ sts.ann # NoAction /\ sts.ann.phase = "TriggerDrain"
    /\ st.ann.type = "RollingUpdate" /\ st.ann.target = sts.tmpl
    /\ Outdated(sts.tmpl) = {}

\* An apply without an action changes neither the template nor the replicas; one
\* that brings a new action brings a change of the spec with it.
Applies == Applying =>
    /\ st.ann = NoAction => sts.ann = NoAction /\ HashObject(st) = sts.hash
    /\ st.ann # NoAction => HashObject(st) = HashObject(spec) /\ st.strategy = "OnDelete"
    /\ st.ann # NoAction /\ sts.ann = NoAction =>
         HashObject(st) # sts.hash /\ st.ann.phase = "TriggerDrain"
    /\ st.strategy = "OnDelete" => ~ st.ru

\* The FE's id of the group is known before a pod is drained.
GroupKnown ==
    /\ phase = "Ready" \/ cur = "Ready" => cgid
    /\ sts.hash # HashObject(spec) \/ sts.ann # NoAction => cgid
    /\ \A o \in Ordinals : pods[o].phase = "ready" => be[o].listed
    /\ pc # "idle" => ask # 0

-----------------------------------------------------------------------------
(* The inductive invariant: the pods. *)

\* The action in force: the stored one, or the one that is about to be stored.
InForce == IF Applying THEN st.ann ELSE sts.ann

\* The pod of a drain: outdated, told to stop, and held down by the sentinel.
\* g is the generation of its BE process.
BeingDrained(o, g) ==
    /\ Exists(o) /\ pods[o].rev # sts.tmpl
    /\ pods[o].draining /\ pods[o].sentinel /\ ~ pods[o].deleting
    /\ starts[o] = g /\ be[o].gen = g

\* The pod is deleted or gone, or its replacement is there; the FE reports
\* another generation than g only if that is the replacement, and Ready.
BeingReplaced(o, g) ==
    \/ /\ pods[o].deleting \/ ~ Exists(o)
       /\ starts[o] = g /\ be[o].gen = g
    \/ /\ Running(o) /\ pods[o].rev = sts.tmpl
       /\ ~ pods[o].deleting /\ ~ pods[o].draining
       /\ starts[o] # g /\ be[o].gen \in {g, starts[o]}
       /\ be[o].gen = starts[o] => pods[o].phase = "ready"

\* How far an action is with its pod.
Stage(ga) ==
    /\ ga.phase # "Done"
    /\ ga.phase = "TriggerDrain" => ga.pod = NoOrdinal
    /\ ga.phase \in {"WaitDrain", "DeletePod"} => BeingDrained(ga.pod, ga.initGen)
    /\ ga.phase \in {"WaitPodReady", "WaitBEAlive"} => BeingReplaced(ga.pod, ga.initGen)

\* Every other pod that the user had, or that is still to be replaced, serves.
OthersServe(ga) ==
    \A o \in Ordinals \ {ga.pod} :
        (edits > 0 /\ o < InitReplicas) \/ (Exists(o) /\ pods[o].rev # sts.tmpl) => Serving(o)

\* Without an action no pod is outdated, and none is ever above the replicas.
NoneOutdated == sts.ann = NoAction => Outdated(sts.tmpl) = {}
InRange == InitReplicas <= spec.replicas /\ \A o \in Ordinals : Exists(o) => o < sts.replicas

\* An edit that is not applied yet finds the group serving.
EditWaits ==
    sts.ann = NoAction /\ sts.hash # HashObject(spec) =>
        \A o \in Ordinals : o < sts.replicas => Serving(o)

BaseInv == TypeOK /\ OnDeleteInv /\ GrowsOnly
OperatorInv == Written /\ ReadsWritten /\ HoldsSpec /\ Finalizes /\ Applies /\ GroupKnown
PodsInv == Stage(InForce) /\ OthersServe(InForce) /\ NoneOutdated /\ InRange /\ EditWaits

RolloutInv == BaseInv /\ OperatorInv /\ PodsInv

-----------------------------------------------------------------------------
(* Steps of the StatefulSet controller, the kubelet and the FE on one pod. *)

\* No template has the revision 0, which stands for none.
LEMMA Templates ==
    ASSUME TypeOK
    PROVE  sts.tmpl # 0 /\ st.tmpl # 0 /\ spec.tmpl # 0
<1>1. sts.tmpl \in Revs /\ st.tmpl \in Revs /\ spec.tmpl \in Revs
  BY Numbers, StatefulSetFields
<1>2. \A t \in Revs : t # 0
  BY ConstantsAssumption DEF ConstantsAssumption, Revs
<1> QED BY <1>1, <1>2

\* A step of the cluster on the pod or the backend of ordinal p.
PodStep(p) ==
    \/ StsCreatePod(p) \/ StsScaleDown(p) \/ StsRollingUpdate(p)
    \/ PodReady(p) \/ BEExit(p) \/ KubeletRestart(p) \/ PodGone(p)
    \/ Heartbeat(p) \/ TabletsMoved(p)

LEMMA PodStepFrame ==
    ASSUME TypeOK, NEW p \in Ordinals, PodStep(p)
    PROVE  /\ UNCHANGED <<spec, edits, sts, cache, fresh, phase, cgid, opVars>>
           /\ \A o \in Ordinals \ {p} : pods'[o] = pods[o] /\ starts'[o] = starts[o] /\ be'[o] = be[o]
<1>0. pods \in [Ordinals -> Pod] /\ starts \in [Ordinals -> 0..MaxStarts] /\ be \in [Ordinals -> Backend]
  BY DEF TypeOK
<1>1. UNCHANGED <<spec, edits, sts, cache, fresh, phase, cgid, opVars>>
  BY DEF PodStep, StsCreatePod, StsScaleDown, StsRollingUpdate, PodReady, BEExit, KubeletRestart,
         PodGone, Heartbeat, TabletsMoved
<1>2. \A o \in Ordinals \ {p} : pods'[o] = pods[o] /\ starts'[o] = starts[o] /\ be'[o] = be[o]
  BY <1>0 DEF PodStep, StsCreatePod, StsScaleDown, StsRollingUpdate, PodReady, BEExit, KubeletRestart,
              PodGone, Heartbeat, TabletsMoved
<1> QED BY <1>1, <1>2

\* The StatefulSet controller has no pod to delete.
LEMMA ControllerDeletesNothing ==
    ASSUME RolloutInv, NEW p \in Ordinals
    PROVE  ~ StsScaleDown(p) /\ ~ StsRollingUpdate(p)
<1>1. ~ StsScaleDown(p)
  <2>1. sts.replicas \in Nat /\ p \in Nat
    BY Numbers DEF RolloutInv, BaseInv
  <2> QED BY <2>1 DEF RolloutInv, PodsInv, InRange, StsScaleDown
<1>2. ~ StsRollingUpdate(p)
  BY DEF StsRollingUpdate, RolloutInv, BaseInv, OnDeleteInv, OnDeleteWhileGraceful, PodsInv,
         NoneOutdated, Outdated
<1> QED BY <1>1, <1>2

\* What any other step does to the pod of its ordinal.
LEMMA PodStepEffect ==
    ASSUME TypeOK, NEW p \in Ordinals, PodStep(p), ~ StsScaleDown(p), ~ StsRollingUpdate(p),
           pods[p].phase = "ready" => be[p].listed
    PROVE  /\ Exists(p)' /\ pods'[p].rev # sts.tmpl => Exists(p) /\ pods[p].rev # sts.tmpl
           /\ Exists(p)' => Exists(p) \/ p < sts.replicas
           /\ pods'[p].phase = "ready" => be'[p].listed
           /\ pods'[p].deleting => pods[p].deleting
           /\ Serving(p) => Serving(p)'
           /\ \A g : BeingDrained(p, g) => BeingDrained(p, g)'
           /\ \A g : BeingReplaced(p, g) => BeingReplaced(p, g)'
<1>0. /\ pods \in [Ordinals -> Pod] /\ starts \in [Ordinals -> 0..MaxStarts]
      /\ be \in [Ordinals -> Backend] /\ pods[p] \in Pod /\ be[p] \in Backend /\ starts[p] \in Nat
  BY ConstantsAssumption DEF ConstantsAssumption, TypeOK
<1>1. sts' = sts
  BY PodStepFrame
<1> USE <1>0, <1>1 DEF Exists, Running, Serving, BeingDrained, BeingReplaced
<1>2. CASE StsCreatePod(p)
  <2>1. /\ pods'[p].phase = "starting" /\ pods'[p].rev = sts.tmpl
        /\ ~ pods'[p].deleting /\ ~ pods'[p].draining
    BY <1>2 DEF StsCreatePod, NoPod
  <2>2. starts'[p] = starts[p] + 1 /\ be' = be /\ ~ Exists(p) /\ p < sts.replicas
    BY <1>2 DEF StsCreatePod
  <2> QED BY <2>1, <2>2
<1>3. CASE PodReady(p)
  <2>1. /\ pods'[p] = [pods[p] EXCEPT !.phase = "ready"] /\ be'[p] = [be[p] EXCEPT !.listed = TRUE]
        /\ starts' = starts /\ pods[p].phase = "starting" /\ ~ pods[p].deleting
    BY <1>3 DEF PodReady
  <2> QED BY <2>1 DEF Pod, Backend
<1>4. CASE BEExit(p)
  <2>1. /\ pods'[p] = [pods[p] EXCEPT !.phase = "exited"] /\ be' = be /\ starts' = starts
        /\ Running(p) /\ (pods[p].draining \/ pods[p].deleting)
    BY <1>4 DEF BEExit
  <2> QED BY <2>1 DEF Pod
<1>5. CASE KubeletRestart(p)
  <2>1. pods[p].phase = "exited" /\ ~ pods[p].deleting /\ be' = be
    BY <1>5 DEF KubeletRestart
  <2>2. CASE pods[p].sentinel
    <3>1. starts' = starts /\ pods'[p] = [pods[p] EXCEPT !.restarts = @ + 1]
      BY <1>5, <2>2 DEF KubeletRestart
    <3> QED BY <2>1, <3>1 DEF Pod
  <2>3. CASE ~ pods[p].sentinel
    <3>1. /\ pods'[p] = [pods[p] EXCEPT !.restarts = @ + 1, !.phase = "starting", !.draining = FALSE]
      BY <1>5, <2>3 DEF KubeletRestart
    <3> QED BY <2>1, <2>3, <3>1 DEF Pod
  <2> QED BY <2>2, <2>3
<1>6. CASE PodGone(p)
  <2>1. pods[p].deleting /\ pods'[p] = NoPod /\ be' = be /\ starts' = starts
    BY <1>6 DEF PodGone
  <2>2. NoPod.phase = "none" /\ ~ NoPod.deleting
    BY DEF NoPod
  <2> QED BY <2>1, <2>2
<1>7. CASE Heartbeat(p)
  <2>1. /\ pods' = pods /\ starts' = starts /\ be[p].listed
        /\ be'[p] = IF pods[p].phase = "ready"
                    THEN [be[p] EXCEPT !.alive = TRUE, !.shutdown = pods[p].draining, !.gen = starts[p]]
                    ELSE [be[p] EXCEPT !.alive = FALSE]
    BY <1>7 DEF Heartbeat
  <2>2. CASE pods[p].phase = "ready"
    <3>1. be'[p].gen = starts[p] /\ be'[p].alive /\ be'[p].listed /\ be'[p].shutdown = pods[p].draining
      BY <2>1, <2>2, Zenon DEF Backend
    <3> QED BY <2>1, <2>2, <3>1
  <2>3. CASE pods[p].phase # "ready"
    BY <2>1, <2>3 DEF Backend
  <2> QED BY <2>2, <2>3
<1>8. CASE TabletsMoved(p)
  <2>1. pods' = pods /\ starts' = starts /\ be'[p] = [be[p] EXCEPT !.decom = "done"]
    BY <1>8 DEF TabletsMoved
  <2> QED BY <2>1 DEF Backend
<1> QED BY <1>2, <1>3, <1>4, <1>5, <1>6, <1>7, <1>8 DEF PodStep

LEMMA PodStepKeeps ==
    ASSUME RolloutInv, NEW p \in Ordinals, PodStep(p)
    PROVE  OperatorInv' /\ PodsInv' /\ \A o \in Ordinals : ~ NewlyDeleted(o)
<1> USE DEF RolloutInv, BaseInv
<1>1. /\ UNCHANGED <<spec, edits, sts, cache, fresh, phase, cgid>>
      /\ UNCHANGED <<pc, est, st, ask, cur>>
      /\ \A o \in Ordinals \ {p} : pods'[o] = pods[o] /\ starts'[o] = starts[o] /\ be'[o] = be[o]
  BY PodStepFrame DEF opVars
<1>2. \A o \in Ordinals : pods[o].phase = "ready" => be[o].listed
  BY DEF OperatorInv, GroupKnown
<1>3. /\ Exists(p)' /\ pods'[p].rev # sts.tmpl => Exists(p) /\ pods[p].rev # sts.tmpl
      /\ Exists(p)' => Exists(p) \/ p < sts.replicas
      /\ pods'[p].phase = "ready" => be'[p].listed
      /\ pods'[p].deleting => pods[p].deleting
      /\ Serving(p) => Serving(p)'
      /\ \A g : BeingDrained(p, g) => BeingDrained(p, g)'
      /\ \A g : BeingReplaced(p, g) => BeingReplaced(p, g)'
  BY <1>2, ControllerDeletesNothing, PodStepEffect
<1>4. \A o \in Ordinals :
        /\ Exists(o)' /\ pods'[o].rev # sts.tmpl => Exists(o) /\ pods[o].rev # sts.tmpl
        /\ Exists(o)' => Exists(o) \/ o < sts.replicas
        /\ pods'[o].phase = "ready" => be'[o].listed
        /\ pods'[o].deleting => pods[o].deleting
        /\ Serving(o) => Serving(o)'
        /\ \A g : BeingDrained(o, g) => BeingDrained(o, g)'
        /\ \A g : BeingReplaced(o, g) => BeingReplaced(o, g)'
  <2> TAKE o \in Ordinals
  <2>1. CASE o = p
    BY <1>3, <2>1 DEF Exists, Running, Serving, BeingDrained, BeingReplaced
  <2>2. CASE o # p
    <3>1. sts' = sts /\ pods'[o] = pods[o] /\ starts'[o] = starts[o] /\ be'[o] = be[o]
      BY <1>1, <2>2
    <3> QED BY <1>2, <3>1 DEF Exists, Running, Serving, BeingDrained, BeingReplaced
  <2> QED BY <2>1, <2>2
<1>5. Outdated(sts.tmpl) = {} => Outdated(sts.tmpl)' = {}
  BY <1>1, <1>4 DEF Outdated
<1>6. OperatorInv'
  <2>1. Written' /\ ReadsWritten' /\ HoldsSpec' /\ Applies'
    BY <1>1 DEF OperatorInv, Written, ReadsWritten, HoldsSpec, Applies, HashObject, Holding, Applying
  <2>2. Finalizes'
    BY <1>1, <1>5 DEF OperatorInv, Finalizes
  <2>3. GroupKnown'
    BY <1>1, <1>4 DEF OperatorInv, GroupKnown, HashObject
  <2> QED BY <2>1, <2>2, <2>3 DEF OperatorInv
<1>7. PodsInv'
  <2>1. InForce' = InForce
    BY <1>1 DEF InForce, Applying
  <2>2. InForce.phase \notin {"TriggerDrain", "Done"} => InForce.pod \in Ordinals
    <3>1. sts.ann \in GracefulAction /\ st.ann \in GracefulAction
      BY Numbers
    <3> QED BY <3>1, ActionFields DEF InForce
  <2>3. Stage(InForce)'
    BY <1>4, <2>1, <2>2 DEF PodsInv, Stage
  <2>4. OthersServe(InForce)'
    BY <1>1, <1>4, <2>1 DEF PodsInv, OthersServe
  <2>5. NoneOutdated' /\ InRange' /\ EditWaits'
    BY <1>1, <1>4, <1>5 DEF PodsInv, NoneOutdated, InRange, EditWaits, HashObject
  <2> QED BY <2>3, <2>4, <2>5 DEF PodsInv
<1> QED BY <1>4, <1>6, <1>7 DEF NewlyDeleted

-----------------------------------------------------------------------------
(* Other steps around the operator. *)

\* Where neither a pod nor what the StatefulSet says of them changes.
LEMMA PodsFrame ==
    ASSUME PodsInv, UNCHANGED <<pods, starts, be, spec, edits>>, InForce' = InForce,
           sts'.tmpl = sts.tmpl, sts'.replicas = sts.replicas, sts'.hash = sts.hash, sts'.ann = sts.ann
    PROVE  PodsInv'
<1>1. Stage(InForce)'
  BY DEF PodsInv, Stage, BeingDrained, BeingReplaced, Exists, Running
<1>2. OthersServe(InForce)'
  BY DEF PodsInv, OthersServe, Exists, Serving
<1>3. NoneOutdated' /\ InRange' /\ EditWaits'
  BY DEF PodsInv, NoneOutdated, Outdated, InRange, EditWaits, HashObject, Exists, Serving
<1> QED BY <1>1, <1>2, <1>3 DEF PodsInv

\* The StatefulSet controller publishes a revision.
LEMMA PublishKeeps ==
    ASSUME RolloutInv, StsPublishRevision \/ StsCompleteUpdate
    PROVE  OperatorInv' /\ PodsInv' /\ pods' = pods
<1> USE DEF RolloutInv, BaseInv
<1>0. sts \in StatefulSet
  BY Numbers
<1>1. /\ UNCHANGED <<spec, edits, pods, starts, be, phase, cgid, cache>>
      /\ UNCHANGED <<pc, est, st, ask, cur>>
  BY DEF StsPublishRevision, StsCompleteUpdate, WriteSts, opVars
<1>2. /\ sts'.tmpl = sts.tmpl /\ sts'.replicas = sts.replicas /\ sts'.hash = sts.hash
      /\ sts'.ann = sts.ann /\ sts'.ru = sts.ru
      /\ sts'.updRev = sts.updRev \/ (sts.updRev # sts.tmpl /\ sts'.updRev = sts.tmpl)
  BY <1>0 DEF StsPublishRevision, StsCompleteUpdate, WriteSts, StatefulSet
<1>3. sts.tmpl # 0
  BY Templates
<1>4. Written'
  BY <1>1, <1>2, <1>3 DEF OperatorInv, Written, HashObject
<1>5. ReadsWritten'
  BY <1>1, <1>2, <1>3 DEF OperatorInv, Written, ReadsWritten, HoldsSpec, Holding, HashObject
<1>6. HoldsSpec' /\ Finalizes' /\ Applies' /\ GroupKnown'
  BY <1>1, <1>2 DEF OperatorInv, HoldsSpec, Holding, Finalizes, Outdated, Exists, Applies, Applying,
                    GroupKnown, HashObject
<1>7. InForce' = InForce
  BY <1>1, <1>2 DEF InForce, Applying
<1> QED BY <1>1, <1>2, <1>4, <1>5, <1>6, <1>7, PodsFrame DEF OperatorInv

LEMMA CacheKeeps ==
    ASSUME RolloutInv, CacheSync
    PROVE  OperatorInv' /\ PodsInv' /\ pods' = pods
<1>1. /\ UNCHANGED <<spec, edits, pods, starts, be, phase, cgid, sts>>
      /\ UNCHANGED <<pc, est, st, ask, cur>>
  BY DEF CacheSync, opVars
<1>2. InForce' = InForce
  BY <1>1 DEF InForce, Applying
<1>3. OperatorInv'
  BY <1>1 DEF RolloutInv, OperatorInv, Written, ReadsWritten, HoldsSpec, Holding, Finalizes, Outdated,
              Exists, Applies, Applying, GroupKnown, HashObject
<1> QED BY <1>1, <1>2, <1>3, PodsFrame DEF RolloutInv

\* The user edits a settled group.
LEMMA EditKeeps ==
    ASSUME Faults = {}, RolloutInv, EditSpec, spec'.replicas >= spec.replicas
    PROVE  OperatorInv' /\ PodsInv' /\ pods' = pods
<1> USE DEF RolloutInv, BaseInv
<1>0. /\ sts.tmpl # 0 /\ InitReplicas \in Nat /\ spec.replicas \in Nat
      /\ sts.replicas \in Nat /\ edits \in Nat /\ \A o \in Ordinals : o \in Nat
  <2>1. InitReplicas \in Nat /\ edits \in Nat
    BY ConstantsAssumption DEF ConstantsAssumption, TypeOK
  <2> QED BY <2>1, Numbers, Templates
<1>1. /\ Settled /\ edits' = edits + 1 /\ spec'.replicas \in Nat
      /\ UNCHANGED <<sts, cache, pods, starts, be, phase, cgid>>
      /\ UNCHANGED <<pc, est, st, ask, cur>>
  BY ConstantsAssumption DEF ConstantsAssumption, EditSpec, opVars
<1>2. /\ sts.ann = NoAction /\ sts.hash = HashObject(spec) /\ sts.updRev = sts.tmpl /\ phase = "Ready"
      /\ sts.replicas = spec.replicas
      /\ \A o \in Ordinals : o < sts.replicas => Serving(o)
  BY <1>0, <1>1 DEF Settled
<1>3. Written' /\ ReadsWritten'
  BY <1>0, <1>1, <1>2 DEF OperatorInv, Written, ReadsWritten, HashObject
<1>4. Applying => st.ann = NoAction
  BY <1>2 DEF OperatorInv, Applies
<1>5. pc # "finalize"
  BY <1>2 DEF OperatorInv, Finalizes
<1>6. HoldsSpec'
  BY <1>1, <1>2, <1>4, <1>5 DEF OperatorInv, HoldsSpec, ReadsWritten, Holding, Applying, HashObject
<1>7. Finalizes' /\ Applies' /\ GroupKnown'
  BY <1>1, <1>2, <1>4, <1>5 DEF OperatorInv, Finalizes, Applies, Applying, GroupKnown, HashObject
<1>8. InForce' = InForce
  BY <1>1 DEF InForce, Applying
<1>9. Stage(InForce)'
  BY <1>1, <1>8 DEF PodsInv, Stage, BeingDrained, BeingReplaced, Exists, Running
<1>10. \A o \in Ordinals : o < sts.replicas => Serving(o)'
  BY <1>1, <1>2 DEF Serving
<1>11. OthersServe(InForce)'
  BY <1>0, <1>1, <1>2, <1>8, <1>10 DEF PodsInv, OthersServe, InRange, Exists
<1>12. NoneOutdated' /\ InRange' /\ EditWaits'
  BY <1>0, <1>1, <1>10 DEF PodsInv, NoneOutdated, Outdated, InRange, EditWaits, Exists
<1> QED BY <1>1, <1>3, <1>6, <1>7, <1>9, <1>11, <1>12 DEF OperatorInv, PodsInv

-----------------------------------------------------------------------------
(* The operator around the state machine. *)

\* A reconcile begins: nothing is scaled down, so the state machine is next.
LEMMA BeginKeeps ==
    ASSUME Faults = {}, RolloutInv, PreApplyStatefulSet
    PROVE  OperatorInv' /\ PodsInv' /\ pods' = pods
<1> USE DEF RolloutInv, BaseInv
<1>0. spec.replicas \in Nat /\ spec.replicas # 0 /\ \A s \in {sts, est, st, cache} : s.replicas \in Nat
  BY Numbers DEF TypeOK
<1>1. Begin("graceful", phase) /\ be' = be
  <2>1. ~ ScaleDownOperation
    BY <1>0 DEF GrowsOnly, ScaleDownOperation, Failing
  <2> QED BY <2>1 DEF PreApplyStatefulSet, PreApplyNothing, ScaleOutByDrop, ScaleOutFails,
                      StartDecommission, AwaitDecommission, FinishDecommission
<1>2. /\ pc = "idle" /\ pc' = "graceful" /\ est' = sts /\ st' = NewStatefulset(spec)
      /\ ask' = spec.replicas /\ cur' = phase
      /\ UNCHANGED <<spec, edits, sts, pods, starts, be, phase, cgid>>
  BY <1>1 DEF Begin, OnDeleteInv, FreshCache
<1>3. st'.ann = NoAction /\ st'.strategy = "RollingUpdate" /\ HashObject(st') = HashObject(spec)
  BY <1>2 DEF NewStatefulset, HashObject
<1>4. Written' /\ ReadsWritten' /\ Finalizes' /\ Applies'
  BY <1>2, <1>3 DEF OperatorInv, Written, ReadsWritten, Finalizes, Applies, Applying, HashObject
<1>5. HoldsSpec'
  BY <1>2, <1>3 DEF HoldsSpec, HashObject
<1>6. GroupKnown'
  BY <1>0, <1>2 DEF OperatorInv, GroupKnown, HashObject
<1>7. InForce' = InForce
  BY <1>2 DEF InForce, Applying
<1> QED BY <1>2, <1>4, <1>5, <1>6, <1>7, PodsFrame DEF OperatorInv

LEMMA ClearKeeps ==
    ASSUME Faults = {}, RolloutInv, ClearStatefulSetRollingUpdate
    PROVE  OperatorInv' /\ PodsInv' /\ pods' = pods
<1> USE DEF RolloutInv, BaseInv
<1>0. sts \in StatefulSet
  BY Numbers
<1>1. /\ pc = "clear" /\ pc' = "apply"
      /\ UNCHANGED <<spec, edits, pods, starts, be, phase, cgid, est, st, ask, cur>>
      /\ sts' = [sts EXCEPT !.ru = FALSE] \/ (sts' = sts /\ st.strategy = "RollingUpdate")
  BY DEF ClearStatefulSetRollingUpdate, WriteSts
<1>2. /\ sts'.tmpl = sts.tmpl /\ sts'.replicas = sts.replicas /\ sts'.hash = sts.hash
      /\ sts'.ann = sts.ann /\ sts'.updRev = sts.updRev
      /\ ~ sts'.ru \/ st.strategy = "RollingUpdate"
  BY <1>0, <1>1 DEF StatefulSet
<1>3. Written'
  BY <1>1, <1>2 DEF OperatorInv, Written, HashObject
<1>4. ReadsWritten' /\ HoldsSpec' /\ Finalizes' /\ Applies' /\ GroupKnown'
  BY <1>1, <1>2 DEF OperatorInv, ReadsWritten, HoldsSpec, Holding, Finalizes, Applies, Applying,
                    GroupKnown, HashObject
<1>5. InForce' = InForce
  BY <1>1 DEF InForce, Applying
<1> QED BY <1>1, <1>2, <1>3, <1>4, <1>5, PodsFrame DEF OperatorInv

\* The apply goes through: afterwards the StatefulSet is what was in memory.
LEMMA ApplyEffect ==
    ASSUME Faults = {}, RolloutInv, ApplyStatefulSet
    PROVE  /\ sts'.tmpl = st.tmpl /\ sts'.replicas = st.replicas /\ sts'.hash = HashObject(st)
           /\ sts'.ann = st.ann /\ sts'.updRev = IF sts.updRev = 0 THEN 0 ELSE st.tmpl
           /\ pc = "apply" /\ pc' \in {"status", "statusUpdated"}
           /\ UNCHANGED <<spec, edits, pods, starts, be, phase, cgid, est, st, ask, cur>>
<1> USE DEF RolloutInv, BaseInv
<1>0. sts \in StatefulSet /\ st \in StatefulSet /\ cache = sts
  BY Numbers DEF ApplyStatefulSet, CacheServes, OnDeleteInv, FreshCache
<1>1. /\ pc = "apply" /\ pc' \in {"status", "statusUpdated"}
      /\ UNCHANGED <<spec, edits, pods, starts, be, phase, cgid, est, st, ask, cur>>
      /\ sts' = Merged \/ ((ApplyEqual \/ Invalid(Merged)) /\ sts' = sts)
  BY DEF ApplyStatefulSet, CacheServes, WriteSts
<1>2. /\ Merged.tmpl = st.tmpl /\ Merged.replicas = st.replicas /\ Merged.strategy = st.strategy
      /\ Merged.hash = HashObject(st) /\ Merged.ann = IF st.ann = NoAction THEN sts.ann ELSE st.ann
      /\ Merged.updRev = IF sts.updRev = 0 THEN 0 ELSE st.tmpl
      /\ Merged.ru = (sts.ru \/ st.ru)
  BY <1>0 DEF Merged, StatefulSet
<1>3. ~ Invalid(Merged)
  BY <1>1, <1>2 DEF Invalid, OperatorInv, Written, Applies, Applying
<1>4. st.ann = NoAction => sts.ann = NoAction
  BY <1>1 DEF OperatorInv, Applies, Applying
<1>5. CASE sts' = Merged
  BY <1>1, <1>2, <1>4, <1>5
<1>6. CASE ApplyEqual /\ sts' = sts
  <2>1. sts.hash = HashObject(st) /\ sts.ann = st.ann
    BY <1>0, <1>6 DEF ApplyEqual, BusinessEqual, StatefulSetSpecChanged
  <2>2. sts.tmpl = st.tmpl /\ sts.replicas = st.replicas
    BY <2>1 DEF OperatorInv, Written, HashObject
  <2> QED BY <1>1, <1>6, <2>1, <2>2 DEF OperatorInv, Written
<1> QED BY <1>1, <1>3, <1>5, <1>6

LEMMA ApplyKeepsPods ==
    ASSUME Faults = {}, RolloutInv, ApplyStatefulSet
    PROVE  OperatorInv' /\ PodsInv' /\ pods' = pods
<1> USE DEF RolloutInv, BaseInv
<1>1. /\ sts'.tmpl = st.tmpl /\ sts'.replicas = st.replicas /\ sts'.hash = HashObject(st)
      /\ sts'.ann = st.ann /\ sts'.updRev = IF sts.updRev = 0 THEN 0 ELSE st.tmpl
      /\ pc = "apply" /\ pc' \in {"status", "statusUpdated"}
      /\ UNCHANGED <<spec, edits, pods, starts, be, phase, cgid, est, st, ask, cur>>
  BY ApplyEffect
<1>2. /\ st.ann = NoAction => sts.ann = NoAction /\ HashObject(st) = sts.hash
      /\ st.ann # NoAction => HashObject(st) = HashObject(spec)
      /\ st.ann # NoAction /\ sts.ann = NoAction =>
           HashObject(st) # sts.hash /\ st.ann.phase = "TriggerDrain"
      /\ HashObject(st) \in {HashObject(spec), sts.hash}
  BY <1>1 DEF OperatorInv, Applies, Applying, HoldsSpec, Holding
<1>3. OperatorInv'
  <2>1. Written'
    <3>1. st.tmpl # 0
      BY Templates
    <3>2. sts'.hash = HashObject(sts)' /\ sts'.updRev \in {0, sts'.tmpl}
      BY <1>1 DEF HashObject
    <3>3. sts.updRev = 0 => sts.ann = NoAction /\ sts.hash = HashObject(spec)
      BY DEF OperatorInv, Written
    <3>4. HashObject(spec)' = HashObject(spec)
      BY <1>1 DEF HashObject
    <3>5. sts'.updRev = 0 => sts'.ann = NoAction /\ sts'.hash = HashObject(spec)
      BY <1>1, <1>2, <3>1, <3>3
    <3> QED BY <1>1, <1>2, <3>2, <3>4, <3>5 DEF Written
  <2>2. GroupKnown'
    BY <1>1, <1>2 DEF OperatorInv, GroupKnown, HashObject
  <2> QED BY <1>1, <2>1, <2>2 DEF OperatorInv, ReadsWritten, HoldsSpec, Holding, Finalizes, Applies, Applying
<1>4. InForce = st.ann /\ InForce' = st.ann
  BY <1>1 DEF InForce, Applying
<1>5. CASE HashObject(st) = sts.hash
  <2>1. sts'.tmpl = sts.tmpl /\ sts'.replicas = sts.replicas /\ sts'.hash = sts.hash
    BY <1>1, <1>5 DEF OperatorInv, Written, HashObject
  <2>2. sts'.ann = NoAction => sts.ann = NoAction
    BY <1>1, <1>2
  <2>3. Stage(InForce)'
    BY <1>1, <1>4, <2>1 DEF PodsInv, Stage, BeingDrained, BeingReplaced, Exists, Running
  <2>4. OthersServe(InForce)'
    BY <1>1, <1>4, <2>1 DEF PodsInv, OthersServe, Exists, Serving
  <2>5. NoneOutdated' /\ InRange' /\ EditWaits'
    BY <1>1, <2>1, <2>2 DEF PodsInv, NoneOutdated, Outdated, InRange, EditWaits, HashObject, Exists, Serving
  <2> QED BY <1>1, <1>3, <2>3, <2>4, <2>5 DEF PodsInv
<1>6. CASE HashObject(st) # sts.hash
  <2>1. st.ann # NoAction /\ HashObject(st) = HashObject(spec)
    BY <1>2, <1>6
  <2>2. sts.ann = NoAction /\ st.ann.phase = "TriggerDrain"
    BY <1>2, <1>6, <2>1 DEF OperatorInv, Written
  <2>3. \A o \in Ordinals : o < sts.replicas => Serving(o)
    BY <1>6, <2>1, <2>2 DEF PodsInv, EditWaits
  <2>4. Stage(InForce)'
    BY <1>4, <2>2 DEF PodsInv, Stage
  <2>5. OthersServe(InForce)'
    BY <1>1, <1>4, <2>3 DEF PodsInv, OthersServe, InRange, Exists, Serving
  <2>6. st.replicas = spec.replicas
    BY <2>1 DEF HashObject
  <2>7. InRange'
    <3>1. sts.replicas \in Nat /\ st.replicas \in Nat /\ sts.replicas <= spec.replicas
          /\ \A o \in Ordinals : o \in Nat
      BY Numbers DEF GrowsOnly
    <3> QED BY <1>1, <2>6, <3>1 DEF PodsInv, InRange, Exists
  <2>8. NoneOutdated' /\ EditWaits'
    BY <1>1, <2>1 DEF NoneOutdated, EditWaits
  <2> QED BY <1>1, <1>3, <2>4, <2>5, <2>7, <2>8 DEF PodsInv
<1> QED BY <1>5, <1>6

\* The status update that ends a reconcile: a group that becomes Ready has a
\* pod, and so the FE knows the group.
LEMMA StatusKeeps ==
    ASSUME Faults = {}, RolloutInv, TypeOK', UpdateCGStatus
    PROVE  OperatorInv' /\ PodsInv' /\ pods' = pods
<1> USE DEF RolloutInv, BaseInv
<1>1. /\ pc \in {"status", "statusUpdated"} /\ pc' = "idle" /\ cur' = phase'
      /\ UNCHANGED <<spec, edits, sts, pods, starts, be>>
      /\ cgid' = (cgid \/ \E o \in Ordinals : be[o].listed)
  BY DEF UpdateCGStatus, Reset
<1>2. phase' = "Ready" => cgid'
  <2>1. cur = "Ready" => cgid
    BY DEF OperatorInv, GroupKnown
  <2>2. Available = {} => Cardinality(Available) # ask
    BY <1>1, FS_EmptySet DEF OperatorInv, GroupKnown
  <2>3. Available # {} => \E o \in Ordinals : be[o].listed
    BY DEF Available, OperatorInv, GroupKnown
  <2>4. phase' = "Ready" => cur = "Ready" \/ Cardinality(Available) = ask
    BY DEF UpdateCGStatus
  <2> QED BY <1>1, <2>1, <2>2, <2>3, <2>4
<1>3. cgid => cgid'
  BY <1>1
<1>4. GroupKnown'
  BY <1>1, <1>2, <1>3 DEF OperatorInv, GroupKnown, HashObject
<1>5. Written' /\ ReadsWritten' /\ HoldsSpec' /\ Finalizes' /\ Applies'
  BY <1>1 DEF OperatorInv, Written, ReadsWritten, HoldsSpec, Holding, Finalizes, Applies, Applying, HashObject
<1>6. InForce' = InForce
  BY <1>1 DEF InForce, Applying
<1> QED BY <1>1, <1>4, <1>5, <1>6, PodsFrame DEF OperatorInv

-----------------------------------------------------------------------------
(* The state machine. *)

\* What a step may delete: a pod that has been told to stop and is outdated.
DeletesDrained ==
    \A o \in Ordinals : NewlyDeleted(o) => pods[o].draining /\ pods[o].rev # spec.tmpl

\* A running action is the stored rolling update, with the current revision.
LEMMA RollingAction ==
    ASSUME RolloutInv, pc = "graceful", est.ann # NoAction
    PROVE  /\ Action \in ActionRecord /\ Action.type = "RollingUpdate" /\ Action.target = sts.tmpl
           /\ Action.phase = sts.ann.phase /\ Action.pod = sts.ann.pod
           /\ Action.initGen = sts.ann.initGen
           /\ sts.ann # NoAction /\ HashObject(st) = HashObject(spec) /\ sts.tmpl = spec.tmpl
           /\ InForce = sts.ann
<1> USE DEF RolloutInv, BaseInv
<1>1. est.ann \in ActionRecord /\ est.replicas \in Nat /\ st.replicas \in Nat
  BY Numbers, ActionFields
<1>2. est.ann = sts.ann /\ est.updRev = sts.updRev
  BY DEF OperatorInv, ReadsWritten
<1>3. sts.updRev = sts.tmpl /\ sts.hash = HashObject(spec) /\ sts.hash = HashObject(sts)
  BY <1>2 DEF OperatorInv, Written
<1>4. est.ann.type = "RollingUpdate" /\ est.replicas <= st.replicas
  BY DEF GrowsOnly
<1>5. ~ (GracefulActionPriority(Detected.type) > GracefulActionPriority("RollingUpdate"))
  <2>1. Detected.type # "ScaleDown"
    BY <1>1, <1>4, DetectedFacts
  <2> QED BY <2>1, DetectedFacts DEF GracefulActionPriority
<1>6. Action = [est.ann EXCEPT !.target = sts.tmpl]
  BY <1>2, <1>3, <1>4, <1>5, Templates DEF Action, ChooseAction, RefreshTarget
<1>7. /\ Action.type = est.ann.type /\ Action.target = sts.tmpl /\ Action.phase = est.ann.phase
      /\ Action.pod = est.ann.pod /\ Action.initGen = est.ann.initGen
  BY <1>1, <1>6 DEF ActionRecord
<1>8. Action \in ActionRecord
  BY ActionType, ActionFields
<1>9. HashObject(st) = HashObject(spec)
  BY <1>2 DEF OperatorInv, HoldsSpec, Holding
<1>10. sts.tmpl = spec.tmpl
  BY <1>3 DEF HashObject
<1> QED BY <1>2, <1>4, <1>7, <1>8, <1>9, <1>10 DEF InForce, Applying

\* The action goes on: what is applied next is the spec, with the action.
LEMMA RollsOn ==
    ASSUME RolloutInv, pc = "graceful", NEW ga, Continue(ga), ga.type = "RollingUpdate",
           UNCHANGED <<spec, edits, sts, starts, be, phase, cgid>>,
           \A o \in Ordinals : pods'[o].phase = pods[o].phase,
           HashObject(st) = HashObject(spec),
           sts.ann = NoAction => HashObject(st) # sts.hash /\ ga.phase = "TriggerDrain"
    PROVE  OperatorInv' /\ InForce' = ga
<1> USE DEF RolloutInv, BaseInv
<1>0. st \in StatefulSet
  BY Numbers
<1>1. /\ st'.tmpl = st.tmpl /\ st'.replicas = st.replicas /\ st'.ann = ga
      /\ st'.strategy = "OnDelete" /\ ~ st'.ru
  BY <1>0 DEF Continue, PrepareGracefulStatefulSet, StatefulSet
<1>2. pc' = "clear" /\ cur' = "GracefulRolling" /\ UNCHANGED <<est, ask>>
  BY DEF Continue, ActionPhase
<1>3. ga # NoAction
  BY NoActionFields
<1>4. Written' /\ ReadsWritten' /\ Finalizes'
  BY <1>2 DEF OperatorInv, Written, ReadsWritten, Finalizes, HashObject
<1>5. HoldsSpec' /\ Applies'
  BY <1>1, <1>2, <1>3 DEF HoldsSpec, Applies, HashObject
<1>6. GroupKnown'
  BY <1>2 DEF OperatorInv, GroupKnown, HashObject
<1>7. InForce' = ga
  BY <1>1, <1>2 DEF InForce, Applying
<1> QED BY <1>4, <1>5, <1>6, <1>7 DEF OperatorInv

\* The next stage of an action whose pod is left as it is.
LEMMA StageKeeps ==
    ASSUME PodsInv, UNCHANGED <<spec, edits, sts, pods, starts, be>>, NEW ga, InForce' = ga,
           Stage(ga), OthersServe(ga)
    PROVE  PodsInv'
<1>1. Stage(InForce)'
  BY DEF Stage, BeingDrained, BeingReplaced, Exists, Running
<1>2. OthersServe(InForce)'
  BY DEF OthersServe, Exists, Serving
<1>3. NoneOutdated' /\ InRange' /\ EditWaits'
  BY DEF PodsInv, NoneOutdated, Outdated, InRange, EditWaits, HashObject, Exists, Serving
<1> QED BY <1>1, <1>2, <1>3 DEF PodsInv

\* No action is needed: the apply changes neither template nor replicas.
LEMMA IdleKeeps ==
    ASSUME RolloutInv, NoGracefulAction
    PROVE  OperatorInv' /\ PodsInv' /\ pods' = pods
<1> USE DEF RolloutInv, BaseInv
<1>1. /\ pc = "graceful" /\ pc' = "clear" /\ Detected = NoAction /\ est.ann = NoAction
      /\ UNCHANGED <<spec, edits, sts, pods, starts, be, phase, cgid, est, st, ask, cur>>
  BY DEF NoGracefulAction, sysVars
<1>2. /\ sts.ann = NoAction /\ st.ann = NoAction /\ st.strategy = "RollingUpdate"
      /\ est.hash = sts.hash
  BY <1>1 DEF OperatorInv, ReadsWritten
<1>3. HashObject(st) = sts.hash
  <2>1. NewAction("RollingUpdate", 0, 0) # NoAction
    BY NewActionFields, NoActionFields
  <2>2. \A n : NewAction("ScaleDown", 0, n) # NoAction
    BY NewActionFields, NoActionFields
  <2> QED BY <1>1, <1>2, <2>1, <2>2 DEF Detected, DetectGracefulAction, StatefulSetSpecChanged
<1>4. Written' /\ ReadsWritten' /\ Finalizes'
  BY <1>1 DEF OperatorInv, Written, ReadsWritten, Finalizes, HashObject
<1>5. HoldsSpec' /\ Applies'
  BY <1>1, <1>2, <1>3 DEF HoldsSpec, Applies, HashObject
<1>6. GroupKnown'
  BY <1>1 DEF OperatorInv, GroupKnown, HashObject
<1>7. InForce' = InForce
  BY <1>1, <1>2 DEF InForce, Applying
<1> QED BY <1>1, <1>4, <1>5, <1>6, <1>7, PodsFrame DEF OperatorInv

\* A new action: the spec was edited, no pod is outdated yet, so no pod is probed
\* for the sentinel and the action is stored.
LEMMA StartKeeps ==
    ASSUME RolloutInv, StartGracefulAction
    PROVE  OperatorInv' /\ PodsInv' /\ pods' = pods
<1> USE DEF RolloutInv, BaseInv
<1>1. /\ pc = "graceful" /\ Detected # NoAction /\ est.ann = NoAction
      /\ UNCHANGED <<spec, edits, sts, pods, starts, be, phase, cgid>>
  BY DEF StartGracefulAction, sysVars
<1>2. /\ sts.ann = NoAction /\ est.hash = sts.hash /\ Outdated(sts.tmpl) = {}
      /\ \/ est.updRev = sts.updRev
         \/ est.updRev = 0 /\ HashObject(st) = sts.hash
  BY <1>1 DEF OperatorInv, ReadsWritten, PodsInv, NoneOutdated
<1>3. ~ (st.replicas < est.replicas)
  <2>1. est.replicas <= st.replicas /\ est.replicas \in Nat /\ st.replicas \in Nat
    BY <1>1, Numbers DEF GrowsOnly
  <2> QED BY <2>1
<1>4. sts.updRev \in {0, sts.tmpl}
  BY DEF OperatorInv, Written
<1>5. HashObject(st) # sts.hash /\ Detected = NewAction("RollingUpdate", 0, 0)
  BY <1>1, <1>2, <1>3, <1>4 DEF Detected, DetectGracefulAction, StatefulSetSpecChanged
<1>6. HashObject(st) = HashObject(spec) /\ est.updRev = sts.tmpl
  BY <1>1, <1>2, <1>4, <1>5 DEF OperatorInv, HoldsSpec, Holding, Written
<1> DEFINE ga == NewAction("RollingUpdate", 0, 0)
<1>7. ga.type = "RollingUpdate" /\ ga.phase = "TriggerDrain" /\ ga.pod = NoOrdinal /\ ga.target = 0
  BY DEF NewAction
<1>8. SelectNextPod(est, Detected) = NoOrdinal
  <2> HIDE DEF ga
  <2>1. TargetOrUpdate(est, ga) = sts.tmpl
    BY <1>6, <1>7 DEF TargetOrUpdate
  <2>2. Detected = ga
    BY <1>5 DEF ga
  <2> QED BY <1>2, <1>7, <2>1, <2>2 DEF SelectNextPod
<1>9. Continue(ga)
  BY <1>5, <1>8 DEF StartGracefulAction
<1> HIDE DEF ga
<1>10. OperatorInv' /\ InForce' = ga
  BY <1>1, <1>5, <1>6, <1>7, <1>9, RollsOn
<1>11. Stage(ga)
  BY <1>7 DEF Stage
<1>12. OthersServe(ga)
  <2>1. InForce.pod = NoOrdinal
    BY <1>1, <1>2, NoActionFields DEF InForce, Applying
  <2> QED BY <1>7, <2>1 DEF PodsInv, OthersServe
<1> QED BY <1>1, <1>10, <1>11, <1>12, StageKeeps

\* Whom selectNextPod finds for a rolling update: an outdated pod, if there is one.
LEMMA NextOutdated ==
    ASSUME RolloutInv, pc = "graceful", est.ann # NoAction
    PROVE  LET o == SelectNextPod(est, Action)
           IN  /\ o = NoOrdinal => Outdated(sts.tmpl) = {}
               /\ o # NoOrdinal => o \in Ordinals /\ Exists(o) /\ pods[o].rev # sts.tmpl
<1> USE DEF RolloutInv, BaseInv
<1>1. TargetOrUpdate(est, Action) = sts.tmpl /\ Action.type = "RollingUpdate"
  BY RollingAction, Templates DEF TargetOrUpdate
<1> DEFINE out == Outdated(sts.tmpl)
<1>2. out \in SUBSET Ordinals /\ NoOrdinal \notin Ordinals
  BY ConstantsAssumption DEF ConstantsAssumption, Outdated, Ordinals, NoOrdinal
<1>3. SelectNextPod(est, Action) = IF out = {} THEN NoOrdinal ELSE Highest(out)
  BY <1>1 DEF SelectNextPod
<1>4. out # {} => Highest(out) \in out
  <2> HIDE DEF out
  <2> QED BY <1>2, HighestIsMember
<1>5. \A o \in out : o \in Ordinals /\ Exists(o) /\ pods[o].rev # sts.tmpl
  BY DEF Outdated
<1> HIDE DEF out
<1>6. CASE out = {}
  BY <1>3, <1>6 DEF out
<1>7. CASE out # {}
  BY <1>2, <1>3, <1>4, <1>5, <1>7
<1> QED BY <1>6, <1>7

\* No pod is outdated any more: the action is done.
LEMMA DoneKeeps ==
    ASSUME RolloutInv, TriggerDrainNoPod
    PROVE  OperatorInv' /\ PodsInv' /\ pods' = pods
<1> USE DEF RolloutInv, BaseInv
<1>1. /\ pc = "graceful" /\ est.ann # NoAction /\ Action.phase = "TriggerDrain"
      /\ UNCHANGED <<spec, edits, sts, pods, starts, be, phase, cgid>>
  BY DEF TriggerDrainNoPod, InPhase, sysVars
<1>2. /\ Action \in ActionRecord /\ Action.type = "RollingUpdate" /\ Action.target = sts.tmpl
      /\ sts.tmpl # 0 /\ sts.ann.phase = "TriggerDrain" /\ sts.ann # NoAction
      /\ HashObject(st) = HashObject(spec)
  BY <1>1, RollingAction, Templates
<1>3. /\ SelectNextPod(est, Action) = NoOrdinal /\ pc' = "finalize" /\ UNCHANGED <<est, ask>>
      /\ st' = [st EXCEPT !.ann = [Action EXCEPT !.phase = "Done"]]
      /\ cur' = ActionPhase(Action)
  BY <1>2 DEF TriggerDrainNoPod
<1>4. Outdated(sts.tmpl) = {}
  BY <1>1, <1>3, NextOutdated
<1>5. st'.tmpl = st.tmpl /\ st'.replicas = st.replicas /\ st'.ann = [Action EXCEPT !.phase = "Done"]
  <2>1. st \in StatefulSet
    BY Numbers
  <2> QED BY <1>3, <2>1 DEF StatefulSet
<1>6. st'.ann.type = "RollingUpdate" /\ st'.ann.target = sts.tmpl
  BY <1>2, <1>5 DEF ActionRecord
<1>7. Finalizes'
  BY <1>1, <1>2, <1>4, <1>6 DEF Finalizes, Outdated, Exists
<1>8. Written' /\ ReadsWritten' /\ HoldsSpec' /\ Applies'
  BY <1>1, <1>2, <1>3, <1>5 DEF OperatorInv, Written, ReadsWritten, HoldsSpec, Holding, Applies, Applying,
                                HashObject
<1>9. GroupKnown'
  BY <1>1, <1>3 DEF OperatorInv, GroupKnown, HashObject, ActionPhase
<1>10. InForce' = InForce
  BY <1>1, <1>3 DEF InForce, Applying
<1> QED BY <1>1, <1>7, <1>8, <1>9, <1>10, PodsFrame DEF OperatorInv

\* A drain starts: its pod serves, so both commands reach it and the FE knows
\* which generation of its backend is drained.
LEMMA DrainKeeps ==
    ASSUME Faults = {}, RolloutInv, TriggerDrain
    PROVE  OperatorInv' /\ PodsInv' /\ \A o \in Ordinals : ~ NewlyDeleted(o)
<1> USE DEF RolloutInv, BaseInv
<1>1. /\ pc = "graceful" /\ est.ann # NoAction /\ Action.phase = "TriggerDrain"
      /\ UNCHANGED <<spec, edits, sts, starts, be, phase, cgid>>
  BY DEF TriggerDrain, InPhase
<1>2. /\ Action \in ActionRecord /\ Action.type = "RollingUpdate" /\ sts.ann # NoAction
      /\ sts.ann.phase = "TriggerDrain" /\ InForce = sts.ann /\ HashObject(st) = HashObject(spec)
  BY <1>1, RollingAction
<1>3. PICK o \in Ordinals : o = SelectNextPod(est, Action) /\ Exists(o) /\ pods[o].rev # sts.tmpl
  BY <1>1, NextOutdated DEF TriggerDrain
<1>4. sts.ann.pod = NoOrdinal /\ NoOrdinal \notin Ordinals
  BY <1>2, ConstantsAssumption DEF ConstantsAssumption, PodsInv, Stage, Ordinals, NoOrdinal
<1>5. \A p \in Ordinals : (edits > 0 /\ p < InitReplicas) \/ (Exists(p) /\ pods[p].rev # sts.tmpl) => Serving(p)
  BY <1>2, <1>4 DEF PodsInv, OthersServe
<1>6. Serving(o) /\ Running(o)
  BY <1>3, <1>5 DEF Serving, Running
<1>7. KnownGen(o) = starts[o] /\ be[o].gen = starts[o]
  <2>1. cgid
    BY <1>2 DEF OperatorInv, GroupKnown
  <2> QED BY <1>3, <1>6, <2>1 DEF KnownGen, Listed, Serving
<1> DEFINE ga == [[Action EXCEPT !.pod = o, !.phase = "WaitDrain"]
                    EXCEPT !.initRestarts = pods[o].restarts, !.initGen = starts[o]]
<1>8. /\ pods' = [pods EXCEPT ![o].sentinel = TRUE, ![o].draining = TRUE]
      /\ Continue(ga)
  <2>1. \E sentinel, stop \in BOOLEAN, gen \in {KnownGen(o), 0} :
          /\ sentinel /\ stop /\ gen = KnownGen(o)
          /\ pods' = [pods EXCEPT ![o].sentinel = @ \/ sentinel, ![o].draining = @ \/ stop]
          /\ Continue([[Action EXCEPT !.pod = o, !.phase = "WaitDrain"]
                         EXCEPT !.initRestarts = pods[o].restarts, !.initGen = gen])
    BY <1>3, <1>6 DEF TriggerDrain
  <2> QED BY <1>7, <2>1
<1>9. ga.type = "RollingUpdate" /\ ga.phase = "WaitDrain" /\ ga.pod = o /\ ga.initGen = starts[o]
  BY <1>2 DEF ActionRecord
<1> HIDE DEF ga
<1>10. /\ \A p \in Ordinals \ {o} : pods'[p] = pods[p]
       /\ pods'[o] = [pods[o] EXCEPT !.sentinel = TRUE, !.draining = TRUE]
       /\ pods[o] \in Pod
  BY <1>3, <1>8 DEF TypeOK
<1>11. /\ pods'[o].phase = pods[o].phase /\ pods'[o].rev = pods[o].rev
       /\ pods'[o].deleting = pods[o].deleting /\ pods'[o].draining /\ pods'[o].sentinel
  BY <1>10 DEF Pod
<1>12. \A p \in Ordinals : /\ pods'[p].phase = pods[p].phase /\ pods'[p].rev = pods[p].rev
                           /\ pods'[p].deleting = pods[p].deleting
  BY <1>10, <1>11
<1>13. OperatorInv' /\ InForce' = ga
  BY <1>1, <1>2, <1>8, <1>9, <1>12, RollsOn
<1>14. Stage(InForce)'
  <2>1. BeingDrained(o, starts[o])'
    BY <1>1, <1>3, <1>6, <1>7, <1>11 DEF BeingDrained, Exists, Serving
  <2>2. InForce'.phase = "WaitDrain" /\ InForce'.pod = o /\ InForce'.initGen = starts'[o]
    BY <1>1, <1>9, <1>13
  <2> QED BY <2>1, <2>2 DEF Stage, BeingDrained, Exists
<1>15. OthersServe(InForce)'
  BY <1>1, <1>5, <1>9, <1>10, <1>13 DEF OthersServe, Serving, Exists
<1>16. NoneOutdated' /\ InRange' /\ EditWaits'
  BY <1>1, <1>2, <1>12 DEF PodsInv, NoneOutdated, InRange, EditWaits, Exists
<1> QED BY <1>12, <1>13, <1>14, <1>15, <1>16 DEF PodsInv, NewlyDeleted

\* An action that goes on with its pod, whose state it leaves as it is.
LEMMA SamePodKeeps ==
    ASSUME RolloutInv, pc = "graceful", est.ann # NoAction, UNCHANGED sysVars,
           NEW ga, Continue(ga), ga.type = "RollingUpdate", ga.pod = Action.pod, Stage(ga)
    PROVE  OperatorInv' /\ PodsInv' /\ pods' = pods
<1>1. UNCHANGED <<spec, edits, sts, pods, starts, be, phase, cgid>>
  BY DEF sysVars
<1>2. sts.ann # NoAction /\ HashObject(st) = HashObject(spec) /\ InForce.pod = ga.pod
  BY RollingAction
<1>3. OperatorInv' /\ InForce' = ga
  BY <1>1, <1>2, RollsOn
<1>4. OthersServe(ga)
  BY <1>2 DEF RolloutInv, PodsInv, OthersServe
<1> QED BY <1>1, <1>3, <1>4, StageKeeps DEF RolloutInv

\* The fields of a running action after a change of its phase.
LEMMA PhaseFields ==
    ASSUME NEW ga \in ActionRecord, NEW ph
    PROVE  LET next == [ga EXCEPT !.phase = ph]
           IN  next.phase = ph /\ next.type = ga.type /\ next.pod = ga.pod /\ next.initGen = ga.initGen
BY DEF ActionRecord

LEMMA WaitDrainKeeps ==
    ASSUME RolloutInv, WaitDrain \/ WaitDrainOver
    PROVE  OperatorInv' /\ PodsInv' /\ pods' = pods
<1>1. pc = "graceful" /\ est.ann # NoAction /\ Action.phase = "WaitDrain" /\ UNCHANGED sysVars
  BY DEF WaitDrain, WaitDrainOver, InPhase
<1>2. /\ Action \in ActionRecord /\ Action.type = "RollingUpdate"
      /\ BeingDrained(Action.pod, Action.initGen)
  BY <1>1, RollingAction DEF RolloutInv, PodsInv, Stage
<1> DEFINE ga == [Action EXCEPT !.phase = "DeletePod"]
<1>3. ga.phase = "DeletePod" /\ ga.type = "RollingUpdate" /\ ga.pod = Action.pod /\ ga.initGen = Action.initGen
  BY <1>2, PhaseFields
<1>4. Continue(Action) \/ Continue(ga)
  BY <1>2 DEF WaitDrain, WaitDrainOver, BeingDrained
<1> HIDE DEF ga
<1>5. Stage(Action) /\ Stage(ga)
  BY <1>1, <1>2, <1>3 DEF Stage
<1> QED BY <1>1, <1>2, <1>3, <1>4, <1>5, SamePodKeeps

\* The pod is deleted: it has been drained and is outdated.
LEMMA DeletePodKeeps ==
    ASSUME Faults = {}, RolloutInv, DeletePod
    PROVE  OperatorInv' /\ PodsInv' /\ DeletesDrained
<1> USE DEF RolloutInv, BaseInv
<1>1. /\ pc = "graceful" /\ est.ann # NoAction /\ Action.phase = "DeletePod"
      /\ UNCHANGED <<spec, edits, starts, be, phase, cgid>>
  BY DEF DeletePod, InPhase
<1>2. /\ Action \in ActionRecord /\ Action.type = "RollingUpdate" /\ sts.ann # NoAction
      /\ HashObject(st) = HashObject(spec) /\ sts.tmpl = spec.tmpl /\ InForce = sts.ann
      /\ Action.pod = sts.ann.pod
      /\ BeingDrained(Action.pod, Action.initGen)
  BY <1>1, RollingAction DEF PodsInv, Stage
<1>3. PICK o \in Ordinals : o = Action.pod
  <2>1. Action.pod \in Ordinals
    BY <1>1, ActionType, ActionFields
  <2> QED BY <2>1
<1> DEFINE ga == [Action EXCEPT !.phase = "WaitPodReady"]
<1>4. ga.phase = "WaitPodReady" /\ ga.type = "RollingUpdate" /\ ga.pod = o /\ ga.initGen = Action.initGen
  BY <1>2, <1>3, PhaseFields
<1>5. /\ pods' = [pods EXCEPT ![o].deleting = TRUE] /\ Continue(ga)
      /\ UNCHANGED <<sts, cache, fresh>>
  BY <1>2, <1>3 DEF DeletePod, AfterPodDeleted, BeingDrained
<1> HIDE DEF ga
<1>6. /\ \A p \in Ordinals \ {o} : pods'[p] = pods[p]
      /\ pods'[o] = [pods[o] EXCEPT !.deleting = TRUE] /\ pods[o] \in Pod
  BY <1>5 DEF TypeOK
<1>7. /\ pods'[o].phase = pods[o].phase /\ pods'[o].rev = pods[o].rev /\ pods'[o].deleting
  BY <1>6 DEF Pod
<1>8. \A p \in Ordinals : pods'[p].phase = pods[p].phase /\ pods'[p].rev = pods[p].rev
  BY <1>6, <1>7
<1>9. OperatorInv' /\ InForce' = ga
  BY <1>1, <1>2, <1>4, <1>5, <1>8, RollsOn
<1>10. Stage(InForce)'
  <2>1. starts[o] = Action.initGen /\ be[o].gen = Action.initGen
    BY <1>2, <1>3 DEF BeingDrained
  <2>2. InForce'.phase = "WaitPodReady" /\ InForce'.pod = o /\ InForce'.initGen = starts'[o]
    BY <1>1, <1>4, <1>9, <2>1
  <2>3. be'[o].gen = starts'[o] /\ pods'[o].deleting
    BY <1>1, <1>7, <2>1
  <2> QED BY <2>2, <2>3 DEF Stage, BeingReplaced
<1>11. OthersServe(InForce)'
  BY <1>1, <1>2, <1>3, <1>4, <1>5, <1>6, <1>9 DEF PodsInv, OthersServe, Serving, Exists
<1>12. NoneOutdated' /\ InRange' /\ EditWaits'
  BY <1>1, <1>2, <1>5, <1>8 DEF PodsInv, NoneOutdated, InRange, EditWaits, Exists
<1>13. DeletesDrained
  BY <1>2, <1>3, <1>6 DEF DeletesDrained, NewlyDeleted, BeingDrained
<1> QED BY <1>9, <1>10, <1>11, <1>12, <1>13 DEF PodsInv

LEMMA WaitPodReadyKeeps ==
    ASSUME RolloutInv, WaitPodReady
    PROVE  OperatorInv' /\ PodsInv' /\ pods' = pods
<1>1. pc = "graceful" /\ est.ann # NoAction /\ Action.phase = "WaitPodReady" /\ UNCHANGED sysVars
  BY DEF WaitPodReady, InPhase
<1>2. /\ Action \in ActionRecord /\ Action.type = "RollingUpdate"
      /\ BeingReplaced(Action.pod, Action.initGen)
  BY <1>1, RollingAction DEF RolloutInv, PodsInv, Stage
<1> DEFINE ga == [Action EXCEPT !.phase = "WaitBEAlive"]
<1>3. ga.phase = "WaitBEAlive" /\ ga.type = "RollingUpdate" /\ ga.pod = Action.pod /\ ga.initGen = Action.initGen
  BY <1>2, PhaseFields
<1>4. Continue(Action) \/ Continue(ga)
  BY DEF WaitPodReady
<1> HIDE DEF ga
<1>5. Stage(Action) /\ Stage(ga)
  BY <1>1, <1>2, <1>3 DEF Stage
<1> QED BY <1>1, <1>2, <1>3, <1>4, <1>5, SamePodKeeps

\* A backend whose generation is not the drained one is the replacement, and serves.
LEMMA AcceptedServes ==
    ASSUME RolloutInv, WaitBEAlive, Action.pod \in Listed, AcceptBackend(be[Action.pod], Action)
    PROVE  Serving(Action.pod)
<1>1. pc = "graceful" /\ est.ann # NoAction /\ Action.phase = "WaitBEAlive"
  BY DEF WaitBEAlive, InPhase
<1>2. BeingReplaced(Action.pod, Action.initGen)
  BY <1>1, RollingAction DEF RolloutInv, PodsInv, Stage
<1> QED BY <1>2 DEF AcceptBackend, BeingReplaced, Serving, Listed

LEMMA WaitBEAliveKeeps ==
    ASSUME Faults = {}, RolloutInv, WaitBEAlive
    PROVE  OperatorInv' /\ PodsInv' /\ pods' = pods
<1>1. pc = "graceful" /\ est.ann # NoAction /\ Action.phase = "WaitBEAlive" /\ UNCHANGED sysVars
  BY DEF WaitBEAlive, InPhase
<1>2. /\ Action \in ActionRecord /\ Action.type = "RollingUpdate"
      /\ BeingReplaced(Action.pod, Action.initGen) /\ InForce.pod = Action.pod
      /\ sts.ann # NoAction /\ HashObject(st) = HashObject(spec)
  BY <1>1, RollingAction DEF RolloutInv, PodsInv, Stage
<1>3. CASE Continue(Action)
  <2>1. Stage(Action)
    BY <1>1, <1>2 DEF Stage
  <2> QED BY <1>1, <1>2, <1>3, <2>1, SamePodKeeps
<1>4. ASSUME NEW b, Continue(Observe(b, Action))
      PROVE  OperatorInv' /\ PodsInv' /\ pods' = pods
  <2> DEFINE ga == Observe(b, Action)
  <2>1. ga.phase = "WaitBEAlive" /\ ga.type = "RollingUpdate" /\ ga.pod = Action.pod /\ ga.initGen = Action.initGen
    BY <1>1, <1>2 DEF Observe, ActionRecord
  <2>2. Continue(ga)
    BY <1>4
  <2> HIDE DEF ga
  <2>3. Stage(ga)
    BY <1>2, <2>1 DEF Stage
  <2> QED BY <1>1, <2>1, <2>2, <2>3, SamePodKeeps
<1>5. CASE /\ Continue(AdvanceToNextPod(Action))
           /\ Action.pod \in Listed /\ AcceptBackend(be[Action.pod], Action)
  <2> DEFINE ga == AdvanceToNextPod(Action)
  <2>1. ga.phase = "TriggerDrain" /\ ga.type = "RollingUpdate" /\ ga.pod = NoOrdinal
    BY <1>2 DEF AdvanceToNextPod, NewAction
  <2>2. Continue(ga)
    BY <1>5
  <2> HIDE DEF ga
  <2>3. Stage(ga)
    BY <2>1 DEF Stage
  <2>4. UNCHANGED <<spec, edits, sts, pods, starts, be, phase, cgid>>
    BY <1>1 DEF sysVars
  <2>5. OperatorInv' /\ InForce' = ga
    BY <1>1, <1>2, <2>1, <2>2, <2>4, RollsOn
  <2>6. OthersServe(ga)
    BY <1>2, <1>5, AcceptedServes DEF RolloutInv, PodsInv, OthersServe
  <2> QED BY <2>3, <2>4, <2>5, <2>6, StageKeeps DEF RolloutInv
<1> QED BY <1>3, <1>4, <1>5 DEF WaitBEAlive

\* The annotation is removed: no pod is outdated, and the spec is applied.
LEMMA FinalizeKeepsPods ==
    ASSUME Faults = {}, RolloutInv, FinalizeGracefulAction
    PROVE  OperatorInv' /\ PodsInv' /\ pods' = pods
<1> USE DEF RolloutInv, BaseInv
<1>0. st \in StatefulSet /\ sts \in StatefulSet
  BY Numbers
<1>1. /\ pc = "finalize" /\ sts.ann # NoAction /\ sts.ann.phase = "TriggerDrain"
      /\ st.ann.type = "RollingUpdate" /\ st.ann.target = sts.tmpl /\ Outdated(sts.tmpl) = {}
      /\ UNCHANGED <<spec, edits, pods, starts, be, phase, cgid>>
  BY DEF FinalizeGracefulAction, OperatorInv, Finalizes
<1>2. Outdated(TargetOrUpdate(est, st.ann)) = {}
  BY <1>1, Templates DEF TargetOrUpdate
<1>3. /\ sts' = [sts EXCEPT !.ann = NoAction]
      /\ st' = [st EXCEPT !.ann = NoAction, !.strategy = "OnDelete", !.ru = FALSE]
      /\ cur' = "Reconciling" /\ pc' = "clear" /\ UNCHANGED <<est, ask>>
  BY <1>2 DEF FinalizeGracefulAction, WriteSts
<1>4. /\ sts'.ann = NoAction /\ sts'.tmpl = sts.tmpl /\ sts'.replicas = sts.replicas
      /\ sts'.hash = sts.hash /\ sts'.updRev = sts.updRev
      /\ st'.ann = NoAction /\ st'.tmpl = st.tmpl /\ st'.replicas = st.replicas /\ ~ st'.ru
  BY <1>0, <1>3 DEF StatefulSet
<1>5. sts.hash = HashObject(spec) /\ HashObject(st) = HashObject(spec)
  BY <1>1 DEF OperatorInv, Written, HoldsSpec, Holding
<1>6. Written' /\ ReadsWritten' /\ HoldsSpec' /\ Finalizes' /\ Applies'
  BY <1>1, <1>3, <1>4, <1>5 DEF OperatorInv, Written, ReadsWritten, HoldsSpec, Finalizes, Applies, HashObject
<1>7. GroupKnown'
  BY <1>1, <1>3, <1>4, <1>5 DEF OperatorInv, GroupKnown, HashObject
<1>8. InForce = sts.ann /\ InForce' = NoAction /\ InForce.pod = NoOrdinal
  BY <1>1, <1>3, <1>4 DEF InForce, Applying, PodsInv, Stage
<1>9. Stage(InForce)'
  BY <1>8, NoActionFields, NewActionFields DEF Stage, NoAction
<1>10. OthersServe(InForce)'
  BY <1>1, <1>4, <1>8, NoActionFields DEF PodsInv, OthersServe, Serving, Exists
<1>11. NoneOutdated' /\ InRange' /\ EditWaits'
  BY <1>1, <1>4, <1>5 DEF PodsInv, NoneOutdated, Outdated, InRange, EditWaits, Exists, HashObject
<1> QED BY <1>1, <1>6, <1>7, <1>9, <1>10, <1>11 DEF OperatorInv, PodsInv

-----------------------------------------------------------------------------
(* All steps. *)

\* What AdvancesOnReplacement says of a step.
LeavesReplacement ==
    pc = "graceful" /\ est.ann.type = "RollingUpdate" /\ est.ann.phase = "WaitBEAlive"
      /\ pc' = "clear" /\ st'.ann.phase = "TriggerDrain"
    => LET p == pods[est.ann.pod] IN Exists(est.ann.pod) /\ ~ p.draining /\ ~ p.deleting

LEMMA NothingDeleted ==
    ASSUME pods' = pods \/ \A o \in Ordinals : ~ NewlyDeleted(o)
    PROVE  DeletesDrained
BY DEF DeletesDrained, NewlyDeleted

LEMMA RolloutStep ==
    ASSUME Faults = {}, RolloutInv, TypeOK', [Next]_vars, [spec'.replicas >= spec.replicas]_vars
    PROVE  RolloutInv' /\ DeletesDrained
<1> USE DEF RolloutInv, BaseInv
<1>1. spec'.replicas >= spec.replicas
  <2>1. spec.replicas \in Nat
    BY Numbers
  <2> QED BY <2>1 DEF vars
<1>2. BaseInv'
  <2>1. GrowsOnly'
    BY <1>1, GrowsOnlyStep
  <2>2. OnDeleteInv'
    BY OnDeleteStep DEF OnDeleteInv
  <2> QED BY <2>1, <2>2
<1>3. CASE UNCHANGED vars
  <2>1. pods' = pods /\ sts' = sts /\ InForce' = InForce
        /\ UNCHANGED <<spec, edits, starts, be, phase, cgid, pc, est, st, ask, cur>>
    BY <1>3 DEF vars, InForce, Applying
  <2>2. OperatorInv'
    BY <2>1 DEF OperatorInv, Written, ReadsWritten, HoldsSpec, Holding, Finalizes, Outdated, Exists,
                Applies, Applying, GroupKnown, HashObject
  <2> QED BY <1>2, <2>1, <2>2, PodsFrame, NothingDeleted
<1>4. CASE PreApplyStatefulSet \/ ClearStatefulSetRollingUpdate \/ ApplyStatefulSet \/ UpdateCGStatus
  BY <1>2, <1>4, BeginKeeps, ClearKeeps, ApplyKeepsPods, StatusKeeps, NothingDeleted
<1>5. CASE GracefulRolloutReconcile
  <2>1. ~ AlreadyDone
    <3> SUFFICES ASSUME AlreadyDone PROVE FALSE
      OBVIOUS
    <3>1. pc = "graceful" /\ est.ann # NoAction /\ Action.phase = "Done"
      BY DEF AlreadyDone, InPhase
    <3> QED BY <3>1, RollingAction DEF PodsInv, Stage
  <2>2. CASE NoGracefulAction \/ StartGracefulAction \/ TriggerDrainNoPod \/ TriggerDrain
    BY <1>2, <2>2, IdleKeeps, StartKeeps, DoneKeeps, DrainKeeps, NothingDeleted
  <2>3. CASE WaitDrain \/ WaitDrainOver \/ WaitPodReady \/ WaitBEAlive \/ FinalizeGracefulAction
    BY <1>2, <2>3, WaitDrainKeeps, WaitPodReadyKeeps, WaitBEAliveKeeps, FinalizeKeepsPods, NothingDeleted
  <2>4. CASE DeletePod
    BY <1>2, <2>4, DeletePodKeeps
  <2> QED BY <1>5, <2>1, <2>2, <2>3, <2>4 DEF GracefulRolloutReconcile
<1>6. CASE Crash \/ ForeignWrite
  BY <1>6 DEF Crash, ForeignWrite
<1>7. CASE CacheSync \/ EditSpec \/ StsPublishRevision \/ StsCompleteUpdate
  BY <1>1, <1>2, <1>7, CacheKeeps, EditKeeps, PublishKeeps, NothingDeleted
<1>8. CASE \E p \in Ordinals : PodStep(p)
  BY <1>2, <1>8, PodStepKeeps, NothingDeleted
<1> QED BY <1>3, <1>4, <1>5, <1>6, <1>7, <1>8
        DEF Next, Operator, StsController, Kubelet, Frontend, PodStep

LEMMA LeavesReplacementStep ==
    ASSUME Faults = {}, RolloutInv, [Next]_vars
    PROVE  LeavesReplacement
<1> SUFFICES ASSUME pc = "graceful", est.ann.type = "RollingUpdate", est.ann.phase = "WaitBEAlive",
                    pc' = "clear", st'.ann.phase = "TriggerDrain"
             PROVE  Exists(est.ann.pod) /\ ~ pods[est.ann.pod].draining /\ ~ pods[est.ann.pod].deleting
  BY DEF LeavesReplacement
<1>1. est.ann # NoAction
  BY NoActionFields
<1>2. /\ Action \in ActionRecord /\ Action.phase = "WaitBEAlive" /\ Action.pod = est.ann.pod
  BY <1>1, RollingAction DEF RolloutInv, OperatorInv, ReadsWritten
<1>3. GracefulRolloutReconcile
  <2>1. ~ UNCHANGED vars
    BY DEF vars
  <2>2. ~ (PreApplyStatefulSet \/ ClearStatefulSetRollingUpdate \/ ApplyStatefulSet \/ UpdateCGStatus \/ Crash)
    BY DEF PreApplyStatefulSet, PreApplyNothing, ScaleOutByDrop, ScaleOutFails, StartDecommission,
           AwaitDecommission, FinishDecommission, Begin, ClearStatefulSetRollingUpdate,
           ApplyStatefulSet, UpdateCGStatus, Crash
  <2>3. ~ (CacheSync \/ ForeignWrite \/ EditSpec \/ StsController \/ Kubelet \/ Frontend)
    BY ClusterStepKeepsControl DEF RolloutInv, BaseInv, OnDeleteInv, opVars
  <2> QED BY <2>1, <2>2, <2>3 DEF Next, Operator
<1>4. WaitBEAlive
  BY <1>1, <1>2, <1>3 DEF GracefulRolloutReconcile, NoGracefulAction, StartGracefulAction,
     TriggerDrainNoPod, TriggerDrain, WaitDrain, WaitDrainOver, DeletePod, WaitPodReady, AlreadyDone,
     FinalizeGracefulAction, InPhase
<1>5. \A ga : Continue(ga) /\ ga.phase = "WaitBEAlive" => FALSE
  BY ContinueEffect DEF RolloutInv, BaseInv
<1>6. Action.pod \in Listed /\ AcceptBackend(be[Action.pod], Action)
  BY <1>2, <1>4, <1>5 DEF WaitBEAlive
<1>7. Serving(Action.pod)
  BY <1>4, <1>6, AcceptedServes
<1> QED BY <1>2, <1>7 DEF Serving, Exists

\* A group starts with the template and the replicas of its spec, and no rollout.
LEMMA InitAsAsked ==
    ASSUME Init
    PROVE  /\ sts.ann = NoAction /\ sts.tmpl = spec.tmpl /\ sts.replicas = spec.replicas
           /\ sts.hash = HashObject(spec) /\ sts.updRev \in {0, 1}
<1> DEFINE new == NewStatefulset(spec)
           run == [new EXCEPT !.updRev = 1, !.curRev = 1]
<1>1. /\ new.ann = NoAction /\ new.tmpl = spec.tmpl /\ new.replicas = spec.replicas
      /\ new.hash = <<spec.tmpl, spec.replicas>> /\ new.updRev = 0
  BY DEF NewStatefulset
<1>2. /\ run.ann = NoAction /\ run.tmpl = spec.tmpl /\ run.replicas = spec.replicas
      /\ run.hash = <<spec.tmpl, spec.replicas>> /\ run.updRev = 1
  BY DEF NewStatefulset
<1>3. sts = new \/ sts = run
  BY DEF Init
<1> HIDE DEF new, run
<1> QED BY <1>1, <1>2, <1>3 DEF HashObject

LEMMA InitRollout == Init => RolloutInv
<1> SUFFICES ASSUME Init PROVE RolloutInv
  OBVIOUS
<1>0. TypeOK /\ InitReplicas \in Nat /\ InitReplicas <= MaxReplicas /\ \A o \in Ordinals : o \in Nat
  BY InitType, Numbers, ConstantsAssumption DEF ConstantsAssumption
<1>1. BaseInv
  BY <1>0, InitOnDelete, InitGrowsOnly DEF BaseInv
<1>2. pc = "idle" /\ cur = phase /\ edits = 0 /\ spec.tmpl = 1 /\ spec.replicas = InitReplicas
  BY DEF Init
<1>3. /\ sts.ann = NoAction /\ sts.tmpl = spec.tmpl /\ sts.replicas = spec.replicas
      /\ sts.hash = HashObject(spec) /\ sts.updRev \in {0, 1}
  BY InitAsAsked
<1>4. Written /\ ReadsWritten /\ HoldsSpec /\ Finalizes /\ Applies
  BY <1>2, <1>3 DEF Written, ReadsWritten, HoldsSpec, Holding, Finalizes, Applies, Applying, HashObject
<1>5. /\ NoPod.phase = "none" /\ ReadyPod(1).rev = 1
      /\ [NoBackend EXCEPT !.listed = TRUE, !.alive = TRUE, !.gen = 1].listed
  BY DEF NoPod, ReadyPod, NoBackend
<1>6. /\ \A o \in Ordinals : pods[o].phase = "ready" => be[o].listed
      /\ \A o \in Ordinals : Exists(o) => o < InitReplicas /\ pods[o].rev = 1
      /\ phase = "Ready" => cgid
  BY <1>5 DEF Init, Exists
<1>7. GroupKnown
  BY <1>2, <1>3, <1>6 DEF GroupKnown
<1>8. InForce = NoAction /\ NoAction.phase = "TriggerDrain" /\ NoAction.pod = NoOrdinal
  BY <1>2, <1>3, NoActionFields, NewActionFields DEF InForce, Applying, NoAction
<1>9. Stage(InForce)
  BY <1>8 DEF Stage
<1>10. OthersServe(InForce) /\ NoneOutdated /\ InRange /\ EditWaits
  BY <1>0, <1>2, <1>3, <1>6 DEF OthersServe, NoneOutdated, Outdated, InRange, EditWaits
<1> QED BY <1>1, <1>4, <1>7, <1>9, <1>10 DEF RolloutInv, OperatorInv, PodsInv

LEMMA RolloutInvariant ==
    ASSUME Faults = {}
    PROVE  Spec /\ NeverShrinks => []RolloutInv
<1>1. RolloutInv /\ TypeOK' /\ [Next]_vars /\ [spec'.replicas >= spec.replicas]_vars => RolloutInv'
  BY RolloutStep
<1> QED BY <1>1, InitRollout, TypeCorrect, PTL DEF Spec, NeverShrinks

-----------------------------------------------------------------------------
(* The rollout implements RollingReplacement. *)

\* The members, and the version RollingReplacement sees of one.
Originals == 0..(InitReplicas - 1)
Version(o) == IF Exists(o) THEN pods[o].rev ELSE 0
Servers == {o \in Originals : Serving(o)}
Versions == [o \in Originals |-> Version(o)]

\* Without an edit there is no rollout, and a pod is deleted for another template.
Untouched == edits = 0 => sts.ann = NoAction /\ sts.hash = HashObject(spec)
DeletedOutdated == \A o \in Ordinals : pods[o].deleting => Exists(o) /\ pods[o].rev # sts.tmpl

TurnInv == RolloutInv /\ Untouched /\ DeletedOutdated

LEMMA OriginalOrdinals ==
    \A o \in Originals : o \in Ordinals /\ o < InitReplicas
BY ConstantsAssumption DEF ConstantsAssumption, Originals, Ordinals

\* The steps in which nothing happens to a pod, and no template is applied.
Quiet ==
    \/ PreApplyStatefulSet \/ ClearStatefulSetRollingUpdate \/ UpdateCGStatus
    \/ NoGracefulAction \/ StartGracefulAction \/ TriggerDrainNoPod \/ WaitDrain \/ WaitDrainOver
    \/ WaitPodReady \/ WaitBEAlive \/ AlreadyDone \/ FinalizeGracefulAction
    \/ CacheSync \/ EditSpec \/ StsPublishRevision \/ StsCompleteUpdate \/ UNCHANGED vars

LEMMA QuietStepKeeps ==
    ASSUME Faults = {}, RolloutInv, Quiet
    PROVE  /\ UNCHANGED <<pods, starts, be>>
           /\ sts'.tmpl = sts.tmpl /\ sts'.hash = sts.hash /\ sts'.ann \in {sts.ann, NoAction}
           /\ UNCHANGED <<spec, edits>> \/ edits' # 0
<1> USE DEF RolloutInv, BaseInv
<1>0. sts \in StatefulSet
  BY Numbers
<1>1. CASE PreApplyStatefulSet
  <2>1. ~ ScaleDownOperation
    <3>1. spec.replicas \in Nat /\ \A s \in {sts, est, st, cache} : s.replicas \in Nat
      BY Numbers DEF TypeOK
    <3> QED BY <3>1 DEF GrowsOnly, ScaleDownOperation, Failing
  <2>2. Begin("graceful", phase) /\ be' = be
    BY <1>1, <2>1 DEF PreApplyStatefulSet, PreApplyNothing, ScaleOutByDrop, ScaleOutFails,
                      StartDecommission, AwaitDecommission, FinishDecommission
  <2> QED BY <2>2 DEF Begin
<1>2. CASE ClearStatefulSetRollingUpdate
  <2>1. /\ UNCHANGED <<spec, edits, pods, starts, be>>
        /\ sts' = [sts EXCEPT !.ru = FALSE] \/ sts' = sts
    BY <1>2 DEF ClearStatefulSetRollingUpdate, WriteSts
  <2> QED BY <1>0, <2>1 DEF StatefulSet
<1>3. CASE UpdateCGStatus \/ CacheSync \/ UNCHANGED vars
  BY <1>3 DEF UpdateCGStatus, CacheSync, vars
<1>4. CASE NoGracefulAction \/ StartGracefulAction \/ TriggerDrainNoPod \/ WaitDrain \/ WaitDrainOver
           \/ WaitPodReady \/ WaitBEAlive \/ AlreadyDone
  BY <1>4 DEF NoGracefulAction, StartGracefulAction, TriggerDrainNoPod, WaitDrain, WaitDrainOver,
              WaitPodReady, WaitBEAlive, AlreadyDone, sysVars
<1>5. CASE FinalizeGracefulAction
  <2>1. /\ UNCHANGED <<spec, edits, pods, starts, be>>
        /\ sts' = [sts EXCEPT !.ann = NoAction] \/ sts' = sts
    BY <1>5 DEF FinalizeGracefulAction, WriteSts
  <2> QED BY <1>0, <2>1 DEF StatefulSet
<1>6. CASE EditSpec
  <2>1. edits \in Nat
    BY ConstantsAssumption DEF ConstantsAssumption, TypeOK
  <2> QED BY <1>6, <2>1 DEF EditSpec
<1>7. CASE StsPublishRevision \/ StsCompleteUpdate
  <2>1. /\ UNCHANGED <<spec, edits, pods, starts, be>>
        /\ \/ \E c : sts' = [sts EXCEPT !.updRev = sts.tmpl, !.curRev = c]
           \/ sts' = [sts EXCEPT !.curRev = sts.updRev]
    BY <1>7 DEF StsPublishRevision, StsCompleteUpdate, WriteSts
  <2> QED BY <1>0, <2>1 DEF StatefulSet
<1> QED BY <1>1, <1>2, <1>3, <1>4, <1>5, <1>6, <1>7 DEF Quiet

\* The drain takes one outdated pod of a group that serves out of service.
LEMMA DrainTakesOne ==
    ASSUME Faults = {}, RolloutInv, TriggerDrain
    PROVE  /\ UNCHANGED <<spec, edits, sts, starts, be>> /\ sts.ann # NoAction
           /\ \A p \in Ordinals : (edits > 0 /\ p < InitReplicas) => Serving(p)
           /\ \E o \in Ordinals :
                /\ Exists(o) /\ pods[o].rev # sts.tmpl /\ ~ Serving(o)'
                /\ \A p \in Ordinals \ {o} : pods'[p] = pods[p]
                /\ pods'[o].phase = pods[o].phase /\ pods'[o].rev = pods[o].rev
                /\ pods'[o].deleting = pods[o].deleting
<1> USE DEF RolloutInv, BaseInv
<1>1. /\ pc = "graceful" /\ est.ann # NoAction /\ Action.phase = "TriggerDrain"
      /\ UNCHANGED <<spec, edits, sts, starts, be, phase, cgid>>
  BY DEF TriggerDrain, InPhase
<1>2. sts.ann # NoAction /\ sts.ann.phase = "TriggerDrain" /\ InForce = sts.ann
  BY <1>1, RollingAction
<1>3. PICK o \in Ordinals : o = SelectNextPod(est, Action) /\ Exists(o) /\ pods[o].rev # sts.tmpl
  BY <1>1, NextOutdated DEF TriggerDrain
<1>4. sts.ann.pod = NoOrdinal /\ NoOrdinal \notin Ordinals
  BY <1>2, ConstantsAssumption DEF ConstantsAssumption, PodsInv, Stage, Ordinals, NoOrdinal
<1>5. \A p \in Ordinals : (edits > 0 /\ p < InitReplicas) \/ (Exists(p) /\ pods[p].rev # sts.tmpl) => Serving(p)
  BY <1>2, <1>4 DEF PodsInv, OthersServe
<1>6. Running(o)
  BY <1>3, <1>5 DEF Serving, Running
<1>7. pods' = [pods EXCEPT ![o].sentinel = TRUE, ![o].draining = TRUE]
  <2>1. \E sentinel, stop \in BOOLEAN :
          /\ sentinel /\ stop
          /\ pods' = [pods EXCEPT ![o].sentinel = @ \/ sentinel, ![o].draining = @ \/ stop]
    BY <1>3, <1>6 DEF TriggerDrain
  <2> QED BY <2>1
<1>8. /\ \A p \in Ordinals \ {o} : pods'[p] = pods[p]
      /\ pods'[o] = [pods[o] EXCEPT !.sentinel = TRUE, !.draining = TRUE]
      /\ pods[o] \in Pod
  BY <1>3, <1>7 DEF TypeOK
<1>9. /\ pods'[o].phase = pods[o].phase /\ pods'[o].rev = pods[o].rev
      /\ pods'[o].deleting = pods[o].deleting /\ pods'[o].draining
  BY <1>8 DEF Pod
<1>10. ~ Serving(o)'
  BY <1>9 DEF Serving
<1> QED BY <1>1, <1>2, <1>3, <1>5, <1>8, <1>9, <1>10

\* The deletion changes neither the version of a pod nor who serves.
LEMMA DeleteTakesNone ==
    ASSUME Faults = {}, RolloutInv, DeletePod
    PROVE  /\ UNCHANGED <<spec, edits, sts, starts, be>> /\ sts.ann # NoAction
           /\ \A p \in Ordinals : /\ pods'[p].phase = pods[p].phase /\ pods'[p].rev = pods[p].rev
                                  /\ Serving(p)' <=> Serving(p)
                                  /\ pods'[p].deleting => pods[p].deleting \/ (Exists(p) /\ pods[p].rev # sts.tmpl)
<1> USE DEF RolloutInv, BaseInv
<1>1. /\ pc = "graceful" /\ est.ann # NoAction /\ Action.phase = "DeletePod"
      /\ UNCHANGED <<spec, edits, starts, be>>
  BY DEF DeletePod, InPhase
<1>2. /\ Action.type = "RollingUpdate" /\ sts.ann # NoAction
      /\ BeingDrained(Action.pod, Action.initGen)
  BY <1>1, RollingAction DEF PodsInv, Stage
<1>3. PICK o \in Ordinals : o = Action.pod
  <2>1. Action.pod \in Ordinals
    BY <1>1, ActionType, ActionFields
  <2> QED BY <2>1
<1>4. pods' = [pods EXCEPT ![o].deleting = TRUE] /\ sts' = sts
  BY <1>2, <1>3 DEF DeletePod, AfterPodDeleted, BeingDrained
<1>5. /\ \A p \in Ordinals \ {o} : pods'[p] = pods[p]
      /\ pods'[o] = [pods[o] EXCEPT !.deleting = TRUE] /\ pods[o] \in Pod
  BY <1>4 DEF TypeOK
<1>6. pods'[o].phase = pods[o].phase /\ pods'[o].rev = pods[o].rev /\ pods'[o].deleting
  BY <1>5 DEF Pod
<1>7. ~ Serving(o) /\ ~ Serving(o)' /\ Exists(o) /\ pods[o].rev # sts.tmpl
  BY <1>2, <1>3, <1>6 DEF BeingDrained, Serving
<1>8. \A p \in Ordinals \ {o} : Serving(p)' <=> Serving(p)
  BY <1>1, <1>5 DEF Serving
<1> QED BY <1>1, <1>2, <1>4, <1>5, <1>6, <1>7, <1>8

\* An apply changes the template only of a group that runs the last one and serves.
LEMMA ApplyAsks ==
    ASSUME Faults = {}, TurnInv, ApplyStatefulSet
    PROVE  /\ UNCHANGED <<spec, edits, pods, starts, be>>
           /\ edits = 0 => sts'.ann = NoAction /\ sts'.hash = sts.hash
           /\ sts'.tmpl # sts.tmpl =>
                /\ \A o \in Originals : Serving(o) /\ Version(o) = sts.tmpl
                /\ \A o \in Ordinals : ~ pods[o].deleting
<1> USE DEF TurnInv, RolloutInv, BaseInv
<1>1. /\ sts'.tmpl = st.tmpl /\ sts'.hash = HashObject(st) /\ sts'.ann = st.ann /\ pc = "apply"
      /\ UNCHANGED <<spec, edits, pods, starts, be>>
  BY ApplyEffect
<1>2. /\ st.ann = NoAction => sts.ann = NoAction /\ HashObject(st) = sts.hash
      /\ st.ann # NoAction => HashObject(st) = HashObject(spec)
      /\ st.ann # NoAction /\ sts.ann = NoAction =>
           HashObject(st) # sts.hash /\ st.ann.phase = "TriggerDrain"
  BY <1>1 DEF OperatorInv, Applies, Applying
<1>3. edits = 0 => st.ann = NoAction
  BY <1>2 DEF Untouched
<1>4. ASSUME sts'.tmpl # sts.tmpl
      PROVE  /\ \A o \in Originals : Serving(o) /\ Version(o) = sts.tmpl
             /\ \A o \in Ordinals : ~ pods[o].deleting
  <2>1. HashObject(st) # sts.hash
    BY <1>1, <1>4 DEF OperatorInv, Written, HashObject
  <2>2. st.ann # NoAction /\ HashObject(st) = HashObject(spec)
    BY <1>2, <2>1
  <2>3. sts.ann = NoAction /\ st.ann.phase = "TriggerDrain"
    BY <1>2, <2>1, <2>2 DEF OperatorInv, Written
  <2>4. edits > 0
    <3>1. edits \in Nat /\ edits # 0
      BY <1>3, <2>2, ConstantsAssumption DEF ConstantsAssumption, TypeOK
    <3> QED BY <3>1
  <2>5. InForce = st.ann /\ st.ann.pod = NoOrdinal /\ NoOrdinal \notin Ordinals
    <3>1. InForce = st.ann
      BY <1>1 DEF InForce, Applying
    <3>2. NoOrdinal \notin Ordinals
      BY ConstantsAssumption DEF ConstantsAssumption, Ordinals, NoOrdinal
    <3> QED BY <2>3, <3>1, <3>2 DEF PodsInv, Stage
  <2>6. \A o \in Originals : Serving(o)
    BY <2>4, <2>5, OriginalOrdinals DEF PodsInv, OthersServe
  <2>7. \A o \in Ordinals : Exists(o) => pods[o].rev = sts.tmpl
    BY <2>3 DEF PodsInv, NoneOutdated, Outdated
  <2>8. \A o \in Originals : Version(o) = sts.tmpl
    BY <2>6, <2>7, OriginalOrdinals DEF Version, Serving, Exists
  <2>9. \A o \in Ordinals : Exists(o) => Serving(o)
    BY <2>1, <2>2, <2>3 DEF PodsInv, EditWaits, InRange
  <2>10. \A o \in Ordinals : ~ pods[o].deleting
    BY <2>9 DEF Serving, DeletedOutdated
  <2> QED BY <2>6, <2>8, <2>10
<1> QED BY <1>1, <1>2, <1>3, <1>4

\* The steps that are told apart here.
LEMMA StepsAre ==
    ASSUME Faults = {}, [Next]_vars
    PROVE  Quiet \/ TriggerDrain \/ DeletePod \/ ApplyStatefulSet \/ \E p \in Ordinals : PodStep(p)
<1>1. ~ Crash /\ ~ ForeignWrite
  BY DEF Crash, ForeignWrite
<1> QED BY <1>1 DEF Next, Operator, GracefulRolloutReconcile, StsController, Kubelet, Frontend, PodStep, Quiet

\* A pod that is being deleted and is still there after the step was so before.
LEMMA PodKeepsVersion ==
    ASSUME TurnInv, NEW p \in Ordinals, PodStep(p)
    PROVE  pods'[p].deleting => pods[p].deleting /\ Exists(p)' /\ pods'[p].rev = pods[p].rev
<1> USE DEF TurnInv, RolloutInv, BaseInv
<1>0. pods \in [Ordinals -> Pod] /\ pods[p] \in Pod /\ (pods[p].deleting => Exists(p))
  BY DEF TypeOK, DeletedOutdated
<1>1. ~ StsScaleDown(p) /\ ~ StsRollingUpdate(p)
  BY ControllerDeletesNothing
<1>2. CASE StsCreatePod(p) \/ PodGone(p)
  <2>1. pods'[p] = NoPod \/ pods'[p] = [NoPod EXCEPT !.phase = "starting", !.rev = sts.tmpl]
    BY <1>0, <1>2 DEF StsCreatePod, PodGone
  <2>2. ~ NoPod.deleting /\ ~ [NoPod EXCEPT !.phase = "starting", !.rev = sts.tmpl].deleting
    BY DEF NoPod
  <2> QED BY <2>1, <2>2
<1>3. CASE PodReady(p)
  <2>1. pods'[p] = [pods[p] EXCEPT !.phase = "ready"]
    BY <1>0, <1>3 DEF PodReady
  <2> QED BY <1>0, <2>1 DEF Pod, Exists
<1>4. CASE BEExit(p)
  <2>1. pods'[p] = [pods[p] EXCEPT !.phase = "exited"]
    BY <1>0, <1>4 DEF BEExit
  <2> QED BY <1>0, <2>1 DEF Pod, Exists
<1>5. CASE KubeletRestart(p)
  <2>1. ~ pods[p].deleting
    BY <1>5 DEF KubeletRestart
  <2>2. CASE pods[p].sentinel
    <3>1. pods'[p] = [pods[p] EXCEPT !.restarts = @ + 1]
      BY <1>0, <1>5, <2>2 DEF KubeletRestart
    <3> QED BY <1>0, <2>1, <3>1 DEF Pod
  <2>3. CASE ~ pods[p].sentinel
    <3>1. pods'[p] = [pods[p] EXCEPT !.restarts = @ + 1, !.phase = "starting", !.draining = FALSE]
      BY <1>0, <1>5, <2>3 DEF KubeletRestart
    <3> QED BY <1>0, <2>1, <3>1 DEF Pod
  <2> QED BY <2>2, <2>3
<1>6. CASE Heartbeat(p) \/ TabletsMoved(p)
  BY <1>0, <1>6 DEF Heartbeat, TabletsMoved, Exists
<1> QED BY <1>1, <1>2, <1>3, <1>4, <1>5, <1>6 DEF PodStep

\* A step on the pod of p: it stays with its version, and begins to serve only with
\* the one asked for; it is created; or it goes, deleted.
LEMMA PodTurn ==
    ASSUME TurnInv, NEW p \in Ordinals, PodStep(p)
    PROVE  \/ /\ Version(p)' = Version(p)
              /\ Serving(p) => Serving(p)'
              /\ Serving(p)' => Serving(p) \/ Version(p) = sts.tmpl
           \/ Version(p) = 0 /\ Version(p)' = sts.tmpl /\ ~ Serving(p) /\ ~ Serving(p)'
           \/ Version(p) # sts.tmpl /\ Version(p)' = 0 /\ ~ Serving(p) /\ ~ Serving(p)'
<1> USE DEF TurnInv, RolloutInv, BaseInv
<1>0. /\ pods \in [Ordinals -> Pod] /\ be \in [Ordinals -> Backend] /\ pods[p] \in Pod
      /\ sts' = sts /\ sts.tmpl # 0
  BY Templates, PodStepFrame DEF TypeOK
<1>1. ~ StsScaleDown(p) /\ ~ StsRollingUpdate(p) /\ (pods[p].phase = "ready" => be[p].listed)
  BY ControllerDeletesNothing DEF OperatorInv, GroupKnown
<1>2. CASE StsCreatePod(p)
  <2>1. ~ Exists(p) /\ pods'[p].phase = "starting" /\ pods'[p].rev = sts.tmpl
    BY <1>0, <1>2 DEF StsCreatePod, NoPod
  <2> QED BY <2>1 DEF Version, Exists, Serving
<1>3. CASE PodGone(p)
  <2>1. pods[p].deleting /\ pods'[p] = NoPod /\ pods[p].rev # sts.tmpl
    BY <1>0, <1>3 DEF PodGone, DeletedOutdated
  <2>2. ~ Exists(p)' /\ ~ Serving(p)' /\ ~ Serving(p)
    BY <2>1 DEF Exists, Serving, NoPod
  <2> QED BY <1>0, <2>1, <2>2 DEF Version
<1>4. CASE PodReady(p) \/ BEExit(p) \/ KubeletRestart(p) \/ Heartbeat(p) \/ TabletsMoved(p)
  <2>1. pods'[p].rev = pods[p].rev /\ (Exists(p)' <=> Exists(p)) /\ pods'[p].deleting = pods[p].deleting
    <3>1. CASE PodReady(p)
      <4>1. pods[p].phase = "starting" /\ pods'[p] = [pods[p] EXCEPT !.phase = "ready"]
        BY <1>0, <3>1 DEF PodReady
      <4> QED BY <1>0, <4>1 DEF Pod, Exists
    <3>2. CASE BEExit(p)
      <4>1. Running(p) /\ pods'[p] = [pods[p] EXCEPT !.phase = "exited"]
        BY <1>0, <3>2 DEF BEExit
      <4> QED BY <1>0, <4>1 DEF Pod, Exists, Running
    <3>3. CASE KubeletRestart(p)
      <4>1. pods[p].phase = "exited"
        BY <3>3 DEF KubeletRestart
      <4>2. CASE pods[p].sentinel
        <5>1. pods'[p] = [pods[p] EXCEPT !.restarts = @ + 1]
          BY <1>0, <3>3, <4>2 DEF KubeletRestart
        <5> QED BY <1>0, <4>1, <5>1 DEF Pod, Exists
      <4>3. CASE ~ pods[p].sentinel
        <5>1. pods'[p] = [pods[p] EXCEPT !.restarts = @ + 1, !.phase = "starting", !.draining = FALSE]
          BY <1>0, <3>3, <4>3 DEF KubeletRestart
        <5> QED BY <1>0, <4>1, <5>1 DEF Pod, Exists
      <4> QED BY <4>2, <4>3
    <3>4. CASE Heartbeat(p) \/ TabletsMoved(p)
      BY <3>4 DEF Heartbeat, TabletsMoved, Exists
    <3> QED BY <1>4, <3>1, <3>2, <3>3, <3>4
  <2>2. /\ Serving(p) => Serving(p)'
        /\ \A g : BeingDrained(p, g) => BeingDrained(p, g)'
        /\ \A g : BeingReplaced(p, g) => BeingReplaced(p, g)'
    BY <1>1, PodStepEffect
  <2>3. ASSUME ~ Serving(p), Serving(p)', Version(p) # sts.tmpl PROVE FALSE
    <3>1. Exists(p) /\ pods[p].rev # sts.tmpl /\ Exists(p)' /\ pods'[p].rev # sts'.tmpl
      BY <1>0, <2>1, <2>3 DEF Serving, Exists, Version
    <3>2. p = InForce.pod
      BY <2>3, <3>1 DEF PodsInv, OthersServe
    <3>3. InForce.phase \in {"WaitDrain", "DeletePod", "WaitPodReady", "WaitBEAlive"}
      <4>1. InForce \in GracefulAction
        BY Numbers DEF InForce
      <4>2. NoOrdinal \notin Ordinals
        BY ConstantsAssumption DEF ConstantsAssumption, Ordinals, NoOrdinal
      <4>3. InForce.phase \in ActionPhases
        BY <4>1 DEF GracefulAction, ActionRecord
      <4> QED BY <3>2, <4>2, <4>3 DEF PodsInv, Stage, ActionPhases
    <3>4. PICK g : BeingDrained(p, g) \/ BeingReplaced(p, g)
      BY <3>2, <3>3 DEF PodsInv, Stage
    <3>5. BeingDrained(p, g)' \/ BeingReplaced(p, g)'
      BY <2>2, <3>4
    <3> QED BY <2>3, <3>1, <3>5 DEF BeingDrained, BeingReplaced, Serving, Exists
  <2>4. Version(p)' = Version(p)
    BY <2>1 DEF Version
  <2> QED BY <2>2, <2>3, <2>4
<1> QED BY <1>1, <1>2, <1>3, <1>4 DEF PodStep

LEMMA TurnInvStep ==
    ASSUME Faults = {}, TurnInv, TypeOK', [Next]_vars, [spec'.replicas >= spec.replicas]_vars
    PROVE  TurnInv'
<1>1. RolloutInv'
  BY RolloutStep DEF TurnInv
<1>2. CASE Quiet
  <2>1. /\ UNCHANGED <<pods, starts, be>>
        /\ sts'.tmpl = sts.tmpl /\ sts'.hash = sts.hash /\ sts'.ann \in {sts.ann, NoAction}
        /\ UNCHANGED <<spec, edits>> \/ edits' # 0
    BY <1>2, QuietStepKeeps DEF TurnInv
  <2> QED BY <1>1, <2>1 DEF TurnInv, Untouched, DeletedOutdated, Exists, HashObject
<1>3. CASE TriggerDrain
  <2>1. PICK o \in Ordinals :
          /\ \A p \in Ordinals \ {o} : pods'[p] = pods[p]
          /\ pods'[o].phase = pods[o].phase /\ pods'[o].rev = pods[o].rev
          /\ pods'[o].deleting = pods[o].deleting
    BY <1>3, DrainTakesOne DEF TurnInv
  <2>2. UNCHANGED <<spec, edits, sts>>
    BY <1>3, DrainTakesOne DEF TurnInv
  <2>3. \A p \in Ordinals : /\ pods'[p].phase = pods[p].phase /\ pods'[p].rev = pods[p].rev
                            /\ pods'[p].deleting = pods[p].deleting
    BY <2>1
  <2> QED BY <1>1, <2>2, <2>3 DEF TurnInv, Untouched, DeletedOutdated, Exists, HashObject
<1>4. CASE DeletePod
  <2>1. /\ UNCHANGED <<spec, edits, sts>>
        /\ \A p \in Ordinals : /\ pods'[p].phase = pods[p].phase /\ pods'[p].rev = pods[p].rev
                               /\ pods'[p].deleting => pods[p].deleting \/ (Exists(p) /\ pods[p].rev # sts.tmpl)
    BY <1>4, DeleteTakesNone DEF TurnInv
  <2> QED BY <1>1, <2>1 DEF TurnInv, Untouched, DeletedOutdated, Exists, HashObject
<1>5. CASE ApplyStatefulSet
  <2>1. /\ UNCHANGED <<spec, edits, pods>>
        /\ edits = 0 => sts'.ann = NoAction /\ sts'.hash = sts.hash
        /\ sts'.tmpl # sts.tmpl => \A o \in Ordinals : ~ pods[o].deleting
    BY <1>5, ApplyAsks
  <2> QED BY <1>1, <2>1 DEF TurnInv, Untouched, DeletedOutdated, Exists, HashObject
<1>6. ASSUME NEW p \in Ordinals, PodStep(p) PROVE TurnInv'
  <2>1. /\ UNCHANGED <<spec, edits, sts>>
        /\ \A o \in Ordinals \ {p} : pods'[o] = pods[o]
    BY <1>6, PodStepFrame DEF TurnInv, RolloutInv, BaseInv
  <2>2. pods'[p].deleting => pods[p].deleting /\ Exists(p)' /\ pods'[p].rev = pods[p].rev
    BY <1>6, PodKeepsVersion
  <2>3. DeletedOutdated'
    BY <2>1, <2>2 DEF TurnInv, DeletedOutdated, Exists
  <2> QED BY <1>1, <2>1, <2>3 DEF TurnInv, Untouched, HashObject
<1>7. Quiet \/ TriggerDrain \/ DeletePod \/ ApplyStatefulSet \/ \E p \in Ordinals : PodStep(p)
  BY StepsAre
<1> QED BY <1>2, <1>3, <1>4, <1>5, <1>6, <1>7

\* What a step on one member is to RollingReplacement.
LEMMA OneMember ==
    ASSUME NEW p \in Originals, sts'.tmpl = sts.tmpl,
           \A o \in Originals \ {p} : Version(o)' = Version(o) /\ (Serving(o)' <=> Serving(o)),
           \/ /\ Version(p)' = Version(p)
              /\ Serving(p) => Serving(p)'
              /\ Serving(p)' => Serving(p) \/ Version(p) = sts.tmpl
           \/ Version(p) = 0 /\ Version(p)' = sts.tmpl /\ ~ Serving(p) /\ ~ Serving(p)'
           \/ Version(p) # sts.tmpl /\ Version(p)' = 0 /\ ~ Serving(p) /\ ~ Serving(p)'
    PROVE  [ReplacesPods!ReplacementNext]_<<sts.tmpl, Versions, Servers>>
<1>0. /\ Versions' = [o \in Originals |-> Version(o)'] /\ Servers' = {o \in Originals : Serving(o)'}
  BY DEF Versions, Servers, Originals
<1>1. CASE Version(p)' = Version(p) /\ (Serving(p)' <=> Serving(p))
  <2>1. Versions' = Versions /\ Servers' = Servers
    BY <1>0, <1>1 DEF Versions, Servers
  <2> QED BY <2>1
<1>2. CASE Version(p)' = Version(p) /\ ~ Serving(p) /\ Serving(p)' /\ Version(p) = sts.tmpl
  <2>1. Versions' = Versions /\ Servers' = Servers \cup {p} /\ Versions[p] = sts.tmpl
    BY <1>0, <1>2 DEF Versions, Servers
  <2>2. ReplacesPods!Start(p)
    BY <2>1 DEF ReplacesPods!Start, Versions, Servers, Version, Originals
  <2> QED BY <2>2 DEF ReplacesPods!ReplacementNext, Originals
<1>3. CASE Version(p) = 0 /\ Version(p)' = sts.tmpl /\ ~ Serving(p) /\ ~ Serving(p)'
  <2>1. /\ Versions' = [Versions EXCEPT ![p] = sts.tmpl] /\ Servers' = Servers /\ Versions[p] = 0
    BY <1>0, <1>3 DEF Versions, Servers
  <2>2. ReplacesPods!Create(p)
    BY <2>1 DEF ReplacesPods!Create, Versions, Servers, Version, Originals
  <2> QED BY <2>2 DEF ReplacesPods!ReplacementNext, Originals
<1>4. CASE Version(p) # sts.tmpl /\ Version(p)' = 0 /\ ~ Serving(p) /\ ~ Serving(p)'
  <2>1. /\ Versions' = [Versions EXCEPT ![p] = 0] /\ Servers' = Servers /\ Versions[p] # sts.tmpl
        /\ p \notin Servers
    BY <1>0, <1>4 DEF Versions, Servers
  <2>2. ReplacesPods!Remove(p)
    BY <2>1 DEF ReplacesPods!Remove, Versions, Servers, Version, Originals
  <2> QED BY <2>2 DEF ReplacesPods!ReplacementNext, Originals
<1> QED BY <1>1, <1>2, <1>3, <1>4

\* Every step of the rollout is one of RollingReplacement, or none.
LEMMA StepOfReplacement ==
    ASSUME Faults = {}, TurnInv, [Next]_vars
    PROVE  [ReplacesPods!ReplacementNext]_<<sts.tmpl, Versions, Servers>>
<1>0. /\ Versions' = [o \in Originals |-> Version(o)'] /\ Servers' = {o \in Originals : Serving(o)'}
  BY DEF Versions, Servers, Originals
<1>1. CASE Quiet
  <2>1. UNCHANGED <<pods, starts, be>> /\ sts'.tmpl = sts.tmpl
    BY <1>1, QuietStepKeeps DEF TurnInv
  <2> QED BY <2>1 DEF Versions, Servers, Version, Serving, Exists
<1>2. CASE TriggerDrain
  <2>1. PICK o \in Ordinals :
          /\ Exists(o) /\ pods[o].rev # sts.tmpl /\ ~ Serving(o)'
          /\ \A p \in Ordinals \ {o} : pods'[p] = pods[p]
          /\ pods'[o].phase = pods[o].phase /\ pods'[o].rev = pods[o].rev
    BY <1>2, DrainTakesOne DEF TurnInv
  <2>2. /\ UNCHANGED <<sts, starts, be>> /\ sts.ann # NoAction
        /\ \A p \in Ordinals : (edits > 0 /\ p < InitReplicas) => Serving(p)
    BY <1>2, DrainTakesOne DEF TurnInv
  <2>3. edits > 0
    <3>1. edits \in Nat /\ edits # 0
      BY <2>2, ConstantsAssumption DEF ConstantsAssumption, TurnInv, Untouched, RolloutInv, BaseInv, TypeOK
    <3> QED BY <3>1
  <2>4. Servers = Originals
    BY <2>2, <2>3, OriginalOrdinals DEF Servers
  <2>5. \A p \in Originals : Version(p)' = Version(p)
    BY <2>1, OriginalOrdinals DEF Version, Exists
  <2>6. Versions' = Versions
    BY <1>0, <2>5 DEF Versions
  <2>7. \A p \in Originals \ {o} : Serving(p)'
    <3>1. \A p \in Originals : Serving(p)
      BY <2>4 DEF Servers
    <3> QED BY <2>1, <2>2, <3>1, OriginalOrdinals DEF Serving
  <2>8. Servers' = Originals \ {o}
    BY <1>0, <2>1, <2>7
  <2>9. CASE o \in Originals
    <3>1. Versions[o] # sts.tmpl
      BY <2>1, <2>9 DEF Versions, Version
    <3>2. ReplacesPods!Stop(o)
      BY <2>2, <2>4, <2>6, <2>8, <3>1 DEF ReplacesPods!Stop, Versions, Servers, Version, Originals
    <3> QED BY <2>9, <3>2 DEF ReplacesPods!ReplacementNext, Originals
  <2>10. CASE o \notin Originals
    BY <2>2, <2>4, <2>6, <2>8, <2>10
  <2> QED BY <2>9, <2>10
<1>3. CASE DeletePod
  <2>1. /\ sts' = sts
        /\ \A p \in Ordinals : /\ pods'[p].phase = pods[p].phase /\ pods'[p].rev = pods[p].rev
                               /\ Serving(p)' <=> Serving(p)
    BY <1>3, DeleteTakesNone DEF TurnInv
  <2>2. \A p \in Originals : Version(p)' = Version(p) /\ (Serving(p)' <=> Serving(p))
    BY <2>1, OriginalOrdinals DEF Version, Exists
  <2>3. Versions' = Versions /\ Servers' = Servers
    BY <1>0, <2>2 DEF Versions, Servers
  <2> QED BY <2>1, <2>3
<1>4. CASE ApplyStatefulSet
  <2>1. /\ UNCHANGED <<pods, starts, be>>
        /\ sts'.tmpl # sts.tmpl => \A o \in Originals : Serving(o) /\ Version(o) = sts.tmpl
    BY <1>4, ApplyAsks
  <2>2. Versions' = Versions /\ Servers' = Servers
    BY <2>1 DEF Versions, Servers, Version, Serving, Exists
  <2>3. CASE sts'.tmpl # sts.tmpl
    <3>1. Servers = Originals /\ \A o \in Originals : Versions[o] = sts.tmpl
      BY <2>1, <2>3 DEF Servers, Versions
    <3>2. ReplacesPods!Ask
      BY <2>2, <3>1 DEF ReplacesPods!Ask, Versions, Servers, Version, Originals
    <3> QED BY <3>2 DEF ReplacesPods!ReplacementNext
  <2> QED BY <2>2, <2>3
<1>5. ASSUME NEW p \in Ordinals, PodStep(p)
      PROVE  [ReplacesPods!ReplacementNext]_<<sts.tmpl, Versions, Servers>>
  <2>1. /\ sts' = sts
        /\ \A o \in Ordinals \ {p} : pods'[o] = pods[o] /\ starts'[o] = starts[o] /\ be'[o] = be[o]
    BY <1>5, PodStepFrame DEF TurnInv, RolloutInv, BaseInv
  <2>2. \A o \in Originals \ {p} : Version(o)' = Version(o) /\ (Serving(o)' <=> Serving(o))
    BY <2>1, OriginalOrdinals DEF Version, Exists, Serving
  <2>3. CASE p \in Originals
    BY <1>5, <2>1, <2>2, <2>3, PodTurn, OneMember
  <2>4. CASE p \notin Originals
    <3>1. Versions' = Versions /\ Servers' = Servers
      BY <1>0, <2>2, <2>4 DEF Versions, Servers
    <3> QED BY <2>1, <3>1
  <2> QED BY <2>3, <2>4
<1> QED BY <1>1, <1>2, <1>3, <1>4, <1>5, StepsAre

\* Its pods are as asked for, or not there yet.
LEMMA InitPods ==
    ASSUME Init
    PROVE  \A o \in Ordinals : (Exists(o) => pods[o].rev = sts.tmpl) /\ ~ pods[o].deleting
<1>1. sts.tmpl = 1
  BY InitAsAsked DEF Init
<1>2. /\ NoPod.phase = "none" /\ ~ NoPod.deleting
      /\ ReadyPod(1).rev = 1 /\ ~ ReadyPod(1).deleting
  BY DEF NoPod, ReadyPod
<1>3. \A o \in Ordinals : pods[o] \in {NoPod, ReadyPod(1)}
  BY DEF Init
<1> QED BY <1>1, <1>2, <1>3 DEF Exists

LEMMA InitTurn == Init => TurnInv /\ ReplacesPods!ReplacementInit
<1> SUFFICES ASSUME Init PROVE TurnInv /\ ReplacesPods!ReplacementInit
  OBVIOUS
<1>1. RolloutInv
  BY InitRollout
<1>2. Untouched
  BY InitAsAsked DEF Untouched
<1>3. DeletedOutdated
  BY InitPods DEF DeletedOutdated
<1>4. \A o \in Originals : Version(o) \in {sts.tmpl, 0}
  BY InitPods, OriginalOrdinals DEF Version
<1>5. \A o \in Originals : Serving(o) => Version(o) = sts.tmpl
  BY InitPods, OriginalOrdinals DEF Version, Serving, Exists
<1>6. Versions \in [Originals -> {sts.tmpl, 0}] /\ Servers \subseteq {m \in Originals : Versions[m] = sts.tmpl}
  BY <1>4, <1>5 DEF Versions, Servers
<1>7. ReplacesPods!ReplacementInit
  BY <1>6 DEF ReplacesPods!ReplacementInit, Versions, Servers, Version, Originals
<1> QED BY <1>1, <1>2, <1>3, <1>7 DEF TurnInv

-----------------------------------------------------------------------------
(* The theorems. *)

\* A pod that runs a BE is deleted only after stop_be.sh --grace was started in
\* it, by the operator as well as by the StatefulSet controller, however the
\* rollout interleaves with the controllers and the edits of a settled group
\* (handleTriggerDrain, handleDeletePod, prepareGracefulStatefulSet).
THEOREM DrainCorrect ==
    ASSUME Faults = {}
    PROVE  Spec /\ NeverShrinks => DrainBeforeDelete
<1>1. RolloutInv /\ TypeOK' /\ [Next]_vars /\ [spec'.replicas >= spec.replicas]_vars
      => [\A o \in Ordinals : NewlyDeleted(o) => pods[o].draining \/ ~ Running(o)]_vars
  BY RolloutStep DEF DeletesDrained
<1> QED BY <1>1, RolloutInvariant, TypeCorrect, PTL DEF Spec, NeverShrinks, DrainBeforeDelete

\* Only outdated pods are deleted: no replacement is deleted a second time
\* (handleDeletePod deletes whichever pod has the name).
THEOREM NoNeedlessDeleteCorrect ==
    ASSUME Faults = {}
    PROVE  Spec /\ NeverShrinks => NoNeedlessDelete
<1>1. RolloutInv /\ TypeOK' /\ [Next]_vars /\ [spec'.replicas >= spec.replicas]_vars
      => [\A o \in Ordinals : NewlyDeleted(o) => o >= spec.replicas \/ pods[o].rev # spec.tmpl]_vars
  BY RolloutStep DEF DeletesDrained
<1> QED BY <1>1, RolloutInvariant, TypeCorrect, PTL DEF Spec, NeverShrinks, NoNeedlessDelete

\* A change of the template takes at most one BE out of service at a time, for
\* any number of replicas (handleWaitBEAlive, selectNextRollingUpdatePod).
THEOREM OneOutOfServiceCorrect ==
    ASSUME Faults = {}
    PROVE  Spec /\ NeverShrinks => []OneOutOfService
<1>1. RolloutInv => OneOutOfService
  <2> SUFFICES ASSUME RolloutInv, edits > 0
               PROVE  Cardinality({o \in 0..(InitReplicas - 1) : ~ Serving(o)}) <= 1
    BY DEF OneOutOfService
  <2> DEFINE out == {o \in 0..(InitReplicas - 1) : ~ Serving(o)}
  <2>1. \A o \in 0..(InitReplicas - 1) : o \in Ordinals /\ o < InitReplicas
    BY ConstantsAssumption DEF ConstantsAssumption, Ordinals
  <2>2. out \subseteq {InForce.pod}
    BY <2>1 DEF RolloutInv, PodsInv, OthersServe
  <2> HIDE DEF out
  <2>3. IsFiniteSet({InForce.pod}) /\ Cardinality({InForce.pod}) = 1
    BY FS_Singleton
  <2>4. Cardinality(out) <= Cardinality({InForce.pod})
    BY <2>2, <2>3, FS_Subset
  <2> QED BY <2>3, <2>4 DEF out
<1> QED BY <1>1, RolloutInvariant, PTL

\* The rollout leaves a pod only for a replacement that is there to stay: a
\* stale report of the drained generation is never taken for it
\* (handleWaitBEAlive, InitialBackendStartTime).
THEOREM AdvancesCorrect ==
    ASSUME Faults = {}
    PROVE  Spec /\ NeverShrinks => AdvancesOnReplacement
<1>1. RolloutInv /\ [Next]_vars
      => [pc = "graceful" /\ est.ann.type = "RollingUpdate" /\ est.ann.phase = "WaitBEAlive"
             /\ pc' = "clear" /\ st'.ann.phase = "TriggerDrain"
          => LET p == pods[est.ann.pod] IN Exists(est.ann.pod) /\ ~ p.draining /\ ~ p.deleting]_vars
  BY LeavesReplacementStep DEF LeavesReplacement
<1> QED BY <1>1, RolloutInvariant, PTL DEF Spec, AdvancesOnReplacement

\* While the replicas are not lowered, the rollout implements RollingReplacement
\* for any number of replicas, templates and edits: however reconciles, pod
\* events, heartbeats and stale reads interleave, pods are replaced in turn, and
\* another template waits for the last one (gracefulRolloutReconcile,
\* detectGracefulAction, applyStatefulSet).
THEOREM ReplacesInTurnCorrect ==
    ASSUME Faults = {}
    PROVE  Spec /\ NeverShrinks => ReplacesInTurn
<1>1. Init => TurnInv /\ ReplacesPods!ReplacementInit
  BY InitTurn
<1>2. TurnInv /\ TypeOK' /\ [Next]_vars /\ [spec'.replicas >= spec.replicas]_vars => TurnInv'
  BY TurnInvStep
<1>3. TurnInv /\ [Next]_vars
      => [ReplacesPods!ReplacementNext]_<<sts.tmpl,
             [o \in 0..(InitReplicas - 1) |-> IF Exists(o) THEN pods[o].rev ELSE 0],
             {o \in 0..(InitReplicas - 1) : Serving(o)}>>
  BY StepOfReplacement DEF Versions, Servers, Version, Originals
<1> QED BY <1>1, <1>2, <1>3, TypeCorrect, PTL
        DEF Spec, NeverShrinks, ReplacesInTurn, ReplacesPods!ReplacementSpec
=============================================================================
