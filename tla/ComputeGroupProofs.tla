--------------------------- MODULE ComputeGroupProofs ---------------------------
(***************************************************************************)
(* Proofs about ComputeGroup, for every value of its constants: the types  *)
(* of its state, that the StatefulSet holds the OnDelete strategy whenever *)
(* it holds a graceful action, and that a group that becomes Ready runs    *)
(* the template of its StatefulSet.                                        *)
(***************************************************************************)
EXTENDS ComputeGroup, TLAPS, WellFoundedInduction

-----------------------------------------------------------------------------
(* The pod that selectNextPod returns. *)

\* A nonempty set of ordinals has a greatest element.
LEMMA GreatestOrdinal ==
    ASSUME NEW S \in SUBSET Ordinals, S # {}
    PROVE  \E o \in S : \A p \in S : p <= o
<1> DEFINE T == {MaxReplicas - o : o \in S}
           R == {ss \in Nat \X Nat : ss[1] < ss[2]}
<1>1. T \subseteq Nat /\ T # {}
  <2>1. T \subseteq Nat
    BY ConstantsAssumption DEF ConstantsAssumption, Ordinals
  <2> QED BY <2>1
<1>2. IsWellFoundedOn(R, Nat)
  BY NatLessThanWellFounded, Zenon DEF OpToRel
<1>3. PICK x \in T : \A y \in T : ~ (<<y, x>> \in R)
  <2> HIDE DEF T, R
  <2> QED BY <1>1, <1>2, WFMin, Zenon
<1>4. \A y \in T : ~ (y < x)
  <2> HIDE DEF T
  <2> QED BY <1>1, <1>3
<1>5. PICK o \in S : x = MaxReplicas - o
  BY <1>3
<1>6. \A p \in S : p <= o
  BY <1>4, <1>5, ConstantsAssumption DEF ConstantsAssumption, Ordinals
<1> QED BY <1>5, <1>6

LEMMA HighestIsMember ==
    ASSUME NEW S \in SUBSET Ordinals, S # {}
    PROVE  Highest(S) \in S
BY GreatestOrdinal DEF Highest

-----------------------------------------------------------------------------
(* Types of the records that the operator builds. *)

LEMMA NewActionType ==
    ASSUME NEW type \in ActionTypes, NEW target \in 0..MaxRev, NEW desired \in 0..MaxReplicas
    PROVE  NewAction(type, target, desired) \in GracefulAction
BY ConstantsAssumption
   DEF ConstantsAssumption, NewAction, GracefulAction, ActionRecord, ActionPhases, NoOrdinal

LEMMA NoActionType == NoAction \in GracefulAction
BY NewActionType, ConstantsAssumption DEF ConstantsAssumption, NoAction, ActionTypes

\* Fields of an action keep their types, whichever of them is set.
LEMMA ActionFields ==
    ASSUME NEW ga \in GracefulAction
    PROVE  /\ ga \in ActionRecord
           /\ ga.type \in ActionTypes /\ ga.target \in 0..MaxRev /\ ga.desired \in 0..MaxReplicas
           /\ \A t \in 0..MaxRev : [ga EXCEPT !.target = t] \in GracefulAction
           /\ [ga EXCEPT !.phase = "Done"] \in GracefulAction
           /\ \A o \in Ordinals, ph \in ActionPhases :
                 [ga EXCEPT !.pod = o, !.phase = ph] \in GracefulAction
           /\ ga.phase \notin {"TriggerDrain", "Done"} => ga.pod \in Ordinals
           /\ ga.pod \in Ordinals =>
                \A ph \in ActionPhases : [ga EXCEPT !.phase = ph] \in GracefulAction
           /\ AdvanceToNextPod(ga) \in GracefulAction
<1>1. ga \in ActionRecord /\ (ga.phase \in {"TriggerDrain", "Done"} \/ ga.pod \in Ordinals)
  BY DEF GracefulAction
<1>2. ga.type \in ActionTypes /\ ga.target \in 0..MaxRev /\ ga.desired \in 0..MaxReplicas
  BY <1>1 DEF ActionRecord
<1>3. AdvanceToNextPod(ga) \in GracefulAction
  BY <1>2, NewActionType DEF AdvanceToNextPod
<1>4. \A t \in 0..MaxRev : [ga EXCEPT !.target = t] \in GracefulAction
  BY <1>1 DEF GracefulAction, ActionRecord
<1>5. [ga EXCEPT !.phase = "Done"] \in GracefulAction
  BY <1>1 DEF GracefulAction, ActionRecord, ActionPhases
<1>6. \A o \in Ordinals, ph \in ActionPhases :
         [ga EXCEPT !.pod = o, !.phase = ph] \in GracefulAction
  BY <1>1 DEF GracefulAction, ActionRecord
<1>7. ga.pod \in Ordinals =>
         \A ph \in ActionPhases : [ga EXCEPT !.phase = ph] \in GracefulAction
  BY <1>1 DEF GracefulAction, ActionRecord
<1> QED BY <1>1, <1>2, <1>3, <1>4, <1>5, <1>6, <1>7

LEMMA NewStatefulsetType ==
    ASSUME NEW t \in Revs, NEW n \in 0..MaxReplicas
    PROVE  NewStatefulset([tmpl |-> t, replicas |-> n]) \in StatefulSet
BY NoActionType, ConstantsAssumption DEF ConstantsAssumption, NewStatefulset, StatefulSet

LEMMA NoStsType == NoSts \in StatefulSet
BY NewStatefulsetType, ConstantsAssumption DEF ConstantsAssumption, NoSts, Revs

\* Fields of a StatefulSet keep their types, whichever of them is set.
LEMMA StatefulSetFields ==
    ASSUME NEW s \in StatefulSet
    PROVE  /\ s.ann \in GracefulAction /\ s.replicas \in 0..MaxReplicas /\ s.tmpl \in Revs
           /\ s.updRev \in 0..MaxRev
           /\ \A ga \in GracefulAction : [s EXCEPT !.ann = ga] \in StatefulSet
           /\ \A n \in 0..MaxReplicas : [s EXCEPT !.replicas = n] \in StatefulSet
           /\ [s EXCEPT !.ru = FALSE] \in StatefulSet
           /\ [s EXCEPT !.strategy = "OnDelete", !.ru = FALSE] \in StatefulSet
           /\ \A ga \in GracefulAction :
                 [s EXCEPT !.ann = ga, !.strategy = "OnDelete", !.ru = FALSE] \in StatefulSet
           /\ \A u, c \in 0..MaxRev : [s EXCEPT !.updRev = u, !.curRev = c] \in StatefulSet
           /\ \A c \in 0..MaxRev : [s EXCEPT !.curRev = c] \in StatefulSet
BY DEF StatefulSet

LEMMA PrepareType ==
    ASSUME NEW new \in StatefulSet, NEW old \in StatefulSet, NEW ga \in GracefulAction
    PROVE  PrepareGracefulStatefulSet(new, old, ga) \in StatefulSet
BY DEF PrepareGracefulStatefulSet, StatefulSet

-----------------------------------------------------------------------------
(* Types of what the operator computes in a state. *)

LEMMA SelectNextPodType ==
    ASSUME NEW old \in StatefulSet, NEW ga \in GracefulAction
    PROVE  SelectNextPod(old, ga) \in Ordinals \cup {NoOrdinal}
<1> DEFINE out == Outdated(TargetOrUpdate(old, ga))
<1>1. out \in SUBSET Ordinals
  BY DEF Outdated
<1>2. out # {} => Highest(out) \in Ordinals
  <2> HIDE DEF out
  <2> QED BY <1>1, HighestIsMember
<1>3. ga.type = "ScaleDown" /\ ga.desired < old.replicas => old.replicas - 1 \in Ordinals
  <2>1. ga.desired \in 0..MaxReplicas /\ old.replicas \in 0..MaxReplicas
    BY ActionFields, StatefulSetFields
  <2> QED BY <2>1, ConstantsAssumption DEF ConstantsAssumption, Ordinals
<1>4. CASE ga.type = "RollingUpdate"
  BY <1>2, <1>4 DEF SelectNextPod
<1>5. CASE ga.type # "RollingUpdate"
  BY <1>3, <1>5 DEF SelectNextPod
<1> QED BY <1>4, <1>5

\* The action that the state machine works on is well typed.
LEMMA ActionType ==
    ASSUME TypeOK
    PROVE  Detected \in GracefulAction /\ Action \in GracefulAction
<1>1. /\ st \in StatefulSet /\ est \in StatefulSet
      /\ st.replicas \in 0..MaxReplicas /\ est.updRev \in 0..MaxRev /\ est.ann \in GracefulAction
  BY StatefulSetFields DEF TypeOK
<1>2. Detected \in GracefulAction
  <2>1. NewAction("ScaleDown", 0, st.replicas) \in GracefulAction
    BY <1>1, NewActionType, ConstantsAssumption DEF ConstantsAssumption, ActionTypes
  <2>2. NewAction("RollingUpdate", 0, 0) \in GracefulAction
    BY NewActionType, ConstantsAssumption DEF ConstantsAssumption, ActionTypes
  <2>3. NewAction("RollingUpdate", est.updRev, 0) \in GracefulAction
    BY <1>1, NewActionType, ConstantsAssumption DEF ConstantsAssumption, ActionTypes
  <2> QED BY <2>1, <2>2, <2>3, NoActionType DEF Detected, DetectGracefulAction
<1>3. ChooseAction(Detected, est.ann) \in GracefulAction
  BY <1>1, <1>2 DEF ChooseAction
<1>4. Action \in GracefulAction
  BY <1>1, <1>3, ActionFields DEF Action, RefreshTarget
<1> QED BY <1>2, <1>4

\* The types of the operator's own variables.
OperatorTypeOK ==
    /\ pc \in PCs /\ ask \in 0..MaxReplicas /\ cur \in Phases
    /\ est \in StatefulSet /\ st \in StatefulSet

LEMMA ContinueType ==
    ASSUME TypeOK, NEW ga \in GracefulAction, Continue(ga)
    PROVE  OperatorTypeOK'
<1>1. st' \in StatefulSet
  BY PrepareType DEF TypeOK, Continue
<1>2. cur' \in Phases
  BY DEF Continue, ActionPhase, Phases
<1> QED BY <1>1, <1>2 DEF TypeOK, Continue, OperatorTypeOK, PCs

LEMMA WriteStsType ==
    ASSUME TypeOK, NEW new \in StatefulSet, WriteSts(new)
    PROVE  sts' \in StatefulSet /\ cache' \in StatefulSet /\ fresh' \in BOOLEAN
BY DEF WriteSts, TypeOK

LEMMA ResetType ==
    ASSUME NEW p \in Phases, Reset(p)
    PROVE  OperatorTypeOK'
BY NoStsType, ConstantsAssumption DEF ConstantsAssumption, Reset, OperatorTypeOK, PCs

-----------------------------------------------------------------------------
(* Type correctness. *)

LEMMA NoPodType == NoPod \in Pod
BY ConstantsAssumption DEF ConstantsAssumption, NoPod, Pod

LEMMA NoBackendType == NoBackend \in Backend
BY ConstantsAssumption DEF ConstantsAssumption, NoBackend, Backend

LEMMA InitType == Init => TypeOK
<1> SUFFICES ASSUME Init PROVE TypeOK
  OBVIOUS
<1>1. spec = [tmpl |-> 1, replicas |-> InitReplicas]
  BY DEF Init
<1>2. NewStatefulset(spec) \in StatefulSet
  BY <1>1, NewStatefulsetType, ConstantsAssumption DEF ConstantsAssumption, Revs
<1>3. sts \in StatefulSet
  <2>1. 1 \in 0..MaxRev
    BY ConstantsAssumption DEF ConstantsAssumption
  <2>2. [NewStatefulset(spec) EXCEPT !.updRev = 1, !.curRev = 1] \in StatefulSet
    BY <1>2, <2>1, StatefulSetFields
  <2> QED BY <1>2, <2>2 DEF Init
<1>4. pods \in [Ordinals -> Pod]
  <2>1. ReadyPod(1) \in Pod
    <3>1. 1 \in 0..MaxRev
      BY ConstantsAssumption DEF ConstantsAssumption
    <3> QED BY <3>1, NoPodType DEF ReadyPod, Pod
  <2> QED BY <2>1, NoPodType DEF Init
<1>5. starts \in [Ordinals -> 0..MaxStarts]
  BY ConstantsAssumption DEF ConstantsAssumption, Init
<1>6. be \in [Ordinals -> Backend]
  <2>1. [NoBackend EXCEPT !.listed = TRUE, !.alive = TRUE, !.gen = 1] \in Backend
    <3>1. 1 \in 0..MaxStarts
      BY ConstantsAssumption DEF ConstantsAssumption
    <3> QED BY <3>1, NoBackendType DEF Backend
  <2> QED BY <2>1, NoBackendType DEF Init
<1>7. phase \in Phases /\ cgid \in BOOLEAN /\ cur \in Phases
  BY DEF Init, Phases
<1>8. spec \in [tmpl : Revs, replicas : 1..MaxReplicas] /\ edits \in 0..MaxEdits /\ ask \in 0..MaxReplicas
  BY <1>1, ConstantsAssumption DEF ConstantsAssumption, Init, Revs
<1>9. cache = sts /\ fresh \in BOOLEAN /\ pc \in PCs /\ est = NoSts /\ st = NoSts
  BY DEF Init, PCs
<1> QED BY <1>3, <1>4, <1>5, <1>6, <1>7, <1>8, <1>9, NoStsType DEF TypeOK

LEMMA BeginType ==
    ASSUME TypeOK, NEW next \in PCs, NEW p \in Phases, Begin(next, p), be' \in [Ordinals -> Backend]
    PROVE  TypeOK'
<1>1. spec = [tmpl |-> spec.tmpl, replicas |-> spec.replicas] /\ spec.tmpl \in Revs
      /\ spec.replicas \in 0..MaxReplicas
  BY ConstantsAssumption DEF ConstantsAssumption, TypeOK
<1>2. NewStatefulset(spec) \in StatefulSet
  BY <1>1, NewStatefulsetType
<1> QED BY <1>1, <1>2 DEF TypeOK, Begin

LEMMA PreApplyType == TypeOK /\ PreApplyStatefulSet => TypeOK'
<1> SUFFICES ASSUME TypeOK, PreApplyStatefulSet PROVE TypeOK'
  OBVIOUS
<1>1. \A n : Dropped(n) \in [Ordinals -> Backend]
  BY ConstantsAssumption DEF ConstantsAssumption, TypeOK, Dropped, NoBackend, Backend
<1>2. \A n : Decommissioned(n) \in [Ordinals -> Backend]
  BY DEF TypeOK, Decommissioned, Backend
<1>3. \E next \in PCs, p \in Phases : Begin(next, p) /\ be' \in [Ordinals -> Backend]
  <2>1. be \in [Ordinals -> Backend] /\ phase \in Phases
    BY DEF TypeOK
  <2>2. "graceful" \in PCs /\ "status" \in PCs
    BY DEF PCs
  <2>3. {"Scaling", "Decommissioning", "ScaleDownFailed"} \subseteq Phases
    BY DEF Phases
  <2> QED BY <1>1, <1>2, <2>1, <2>2, <2>3, Zenon
      DEF PreApplyStatefulSet, PreApplyNothing, ScaleOutByDrop, ScaleOutFails, StartDecommission,
          AwaitDecommission, FinishDecommission
<1> QED BY <1>3, BeginType

\* The types after a step that leaves the StatefulSet and the pods typed.
LEMMA OperatorStepType ==
    ASSUME TypeOK, OperatorTypeOK',
           sts' \in StatefulSet, cache' \in StatefulSet, fresh' \in BOOLEAN,
           pods' \in [Ordinals -> Pod],
           UNCHANGED <<spec, edits, starts, be, phase, cgid>>
    PROVE  TypeOK'
BY DEF TypeOK, OperatorTypeOK

LEMMA QuietStepType ==
    ASSUME TypeOK, OperatorTypeOK', UNCHANGED sysVars
    PROVE  TypeOK'
BY OperatorStepType DEF TypeOK, sysVars

\* A pod keeps its type when the operator drains or deletes it.
LEMMA PodFields ==
    ASSUME NEW q \in Pod
    PROVE  /\ q.restarts \in 0..MaxRestarts
           /\ [q EXCEPT !.deleting = TRUE] \in Pod
           /\ \A a, b \in BOOLEAN : [q EXCEPT !.sentinel = @ \/ a, !.draining = @ \/ b] \in Pod
<1>1. q.restarts \in 0..MaxRestarts /\ [q EXCEPT !.deleting = TRUE] \in Pod
  BY DEF Pod
<1>2. ASSUME NEW a \in BOOLEAN, NEW b \in BOOLEAN
      PROVE  [q EXCEPT !.sentinel = @ \/ a, !.draining = @ \/ b] \in Pod
  BY DEF Pod
<1> QED BY <1>1, <1>2

LEMMA StartGracefulActionType == TypeOK /\ StartGracefulAction => TypeOK'
<1> SUFFICES ASSUME TypeOK, StartGracefulAction PROVE TypeOK'
  OBVIOUS
<1>1. CASE Continue(Detected)
  BY <1>1, ActionType, ContinueType, QuietStepType DEF StartGracefulAction
<1>2. CASE pc' = "clear" /\ UNCHANGED <<est, st, ask, cur>>
  <2>1. OperatorTypeOK'
    BY <1>2 DEF TypeOK, OperatorTypeOK, PCs
  <2> QED BY <2>1, QuietStepType DEF StartGracefulAction
<1> QED BY <1>1, <1>2 DEF StartGracefulAction

LEMMA TriggerDrainNoPodType == TypeOK /\ TriggerDrainNoPod => TypeOK'
<1> SUFFICES ASSUME TypeOK, TriggerDrainNoPod PROVE TypeOK'
  OBVIOUS
<1>1. CASE Continue(Action)
  BY <1>1, ActionType, ContinueType, QuietStepType DEF TriggerDrainNoPod
<1>2. CASE /\ st' = [st EXCEPT !.ann = [Action EXCEPT !.phase = "Done"]]
           /\ cur' = ActionPhase(Action) /\ pc' = "finalize" /\ UNCHANGED <<est, ask>>
  <2>1. st' \in StatefulSet
    BY <1>2, ActionType, ActionFields, StatefulSetFields DEF TypeOK
  <2>2. OperatorTypeOK'
    BY <1>2, <2>1 DEF TypeOK, OperatorTypeOK, PCs, ActionPhase, Phases
  <2> QED BY <2>2, QuietStepType DEF TriggerDrainNoPod
<1> QED BY <1>1, <1>2 DEF TriggerDrainNoPod

LEMMA TriggerDrainType == TypeOK /\ TriggerDrain => TypeOK'
<1> SUFFICES ASSUME TypeOK, TriggerDrain PROVE TypeOK'
  OBVIOUS
<1> DEFINE o  == SelectNextPod(est, Action)
           ga == [Action EXCEPT !.pod = o, !.phase = "WaitDrain"]
<1>1. Action \in GracefulAction /\ o \in Ordinals
  BY ActionType, SelectNextPodType DEF TriggerDrain, TypeOK
<1> HIDE DEF o
<1>2. CASE /\ Continue(IF Action.type = "RollingUpdate"
                       THEN [ga EXCEPT !.phase = "WaitPodReady"] ELSE AdvanceToNextPod(Action))
           /\ pods' = pods
  <2>1. [ga EXCEPT !.phase = "WaitPodReady"] \in GracefulAction
    BY <1>1, ActionFields DEF ActionPhases
  <2>2. OperatorTypeOK'
    BY <1>1, <1>2, <2>1, ActionFields, ContinueType
  <2> QED BY <1>2, <2>2, OperatorStepType DEF TriggerDrain, TypeOK
<1>3. ASSUME NEW sentinel \in BOOLEAN, NEW stop \in BOOLEAN, NEW gen \in {KnownGen(o), 0},
             pods' = [pods EXCEPT ![o].sentinel = @ \/ sentinel, ![o].draining = @ \/ stop],
             Continue([ga EXCEPT !.initRestarts = pods[o].restarts, !.initGen = gen])
      PROVE  TypeOK'
  <2>1. pods[o] \in Pod /\ be[o] \in Backend
    BY <1>1 DEF TypeOK
  <2>2. gen \in 0..MaxStarts
    BY <2>1, ConstantsAssumption DEF ConstantsAssumption, KnownGen, Backend
  <2>3. ga \in GracefulAction /\ ga.phase = "WaitDrain" /\ ga.pod = o
    <3>1. "WaitDrain" \in ActionPhases /\ Action \in ActionRecord
      BY <1>1, ActionFields DEF ActionPhases
    <3>2. ga \in GracefulAction
      BY <1>1, <3>1, ActionFields
    <3>3. ga.phase = "WaitDrain" /\ ga.pod = o
      BY <3>1 DEF ActionRecord
    <3> QED BY <3>2, <3>3
  <2>4. [ga EXCEPT !.initRestarts = pods[o].restarts, !.initGen = gen] \in GracefulAction
    <3> HIDE DEF ga
    <3> QED BY <1>1, <2>1, <2>2, <2>3, PodFields DEF GracefulAction, ActionRecord
  <2>5. OperatorTypeOK'
    BY <1>3, <2>4, ContinueType
  <2>6. pods' \in [Ordinals -> Pod]
    BY <1>1, <1>3, <2>1, PodFields DEF TypeOK
  <2> QED BY <2>5, <2>6, OperatorStepType DEF TriggerDrain, TypeOK
<1> QED BY <1>2, <1>3 DEF TriggerDrain, o

LEMMA WaitDrainOverType == TypeOK /\ WaitDrainOver => TypeOK'
<1> SUFFICES ASSUME TypeOK, WaitDrainOver PROVE TypeOK'
  OBVIOUS
<1>1. Action \in GracefulAction /\ Action.pod \in Ordinals
  BY ActionType, ActionFields DEF WaitDrainOver, InPhase
<1>2. {[Action EXCEPT !.phase = "DeletePod"], [Action EXCEPT !.phase = "WaitPodReady"],
       AdvanceToNextPod(Action)} \subseteq GracefulAction
  BY <1>1, ActionFields DEF ActionPhases
<1>3. OperatorTypeOK'
  BY <1>2, ContinueType DEF WaitDrainOver
<1> QED BY <1>3, QuietStepType DEF WaitDrainOver

LEMMA DeletePodType == TypeOK /\ DeletePod => TypeOK'
<1> SUFFICES ASSUME TypeOK, DeletePod PROVE TypeOK'
  OBVIOUS
<1>1. Action \in GracefulAction /\ Action.pod \in Ordinals
  BY ActionType, ActionFields DEF DeletePod, InPhase
<1>2. pods' \in [Ordinals -> Pod]
  <2>1. [pods[Action.pod] EXCEPT !.deleting = TRUE] \in Pod
    BY <1>1, PodFields DEF TypeOK
  <2>2. [pods EXCEPT ![Action.pod].deleting = TRUE] \in [Ordinals -> Pod]
    BY <1>1, <2>1 DEF TypeOK
  <2> QED BY <2>2 DEF DeletePod, TypeOK
<1>3. /\ OperatorTypeOK'
      /\ sts' \in StatefulSet /\ cache' \in StatefulSet /\ fresh' \in BOOLEAN
  <2>1. CASE AfterPodDeleted
    <3>1. [Action EXCEPT !.phase = "WaitPodReady"] \in GracefulAction
          /\ AdvanceToNextPod(Action) \in GracefulAction
      BY <1>1, ActionFields DEF ActionPhases
    <3>2. OperatorTypeOK'
      BY <2>1, <3>1, ContinueType DEF AfterPodDeleted
    <3>3. [sts EXCEPT !.replicas = Action.pod] \in StatefulSet
      <4>1. Action.pod \in 0..MaxReplicas
        BY <1>1, ConstantsAssumption DEF ConstantsAssumption, Ordinals
      <4> QED BY <4>1, StatefulSetFields DEF TypeOK
    <3>4. sts' \in StatefulSet /\ cache' \in StatefulSet /\ fresh' \in BOOLEAN
      <4>1. CASE WriteSts([sts EXCEPT !.replicas = Action.pod])
        BY <3>3, <4>1, WriteStsType
      <4>2. CASE UNCHANGED <<sts, cache, fresh>>
        BY <4>2 DEF TypeOK
      <4> QED BY <2>1, <4>1, <4>2 DEF AfterPodDeleted, UpdateStatefulSetReplicas
    <3> QED BY <3>2, <3>4
  <2>2. CASE StateMachineError(Action) /\ UNCHANGED <<sts, cache, fresh>>
    <3>1. st' \in StatefulSet
      BY <2>2, StatefulSetFields DEF StateMachineError, TypeOK
    <3> QED BY <2>2, <3>1 DEF StateMachineError, TypeOK, OperatorTypeOK, PCs, ActionPhase, Phases
  <2> QED BY <2>1, <2>2 DEF DeletePod
<1> QED BY <1>2, <1>3, OperatorStepType DEF DeletePod

LEMMA WaitPodReadyType == TypeOK /\ WaitPodReady => TypeOK'
<1> SUFFICES ASSUME TypeOK, WaitPodReady PROVE TypeOK'
  OBVIOUS
<1>1. Action \in GracefulAction /\ Action.pod \in Ordinals
  BY ActionType, ActionFields DEF WaitPodReady, InPhase
<1>2. [Action EXCEPT !.phase = "WaitBEAlive"] \in GracefulAction
  BY <1>1, ActionFields DEF ActionPhases
<1>3. OperatorTypeOK'
  BY <1>1, <1>2, ContinueType DEF WaitPodReady
<1> QED BY <1>3, QuietStepType DEF WaitPodReady

LEMMA WaitBEAliveType == TypeOK /\ WaitBEAlive => TypeOK'
<1> SUFFICES ASSUME TypeOK, WaitBEAlive PROVE TypeOK'
  OBVIOUS
<1> DEFINE b == be[Action.pod]
           seen == Observe(b, Action)
<1>1. Action \in GracefulAction /\ Action.pod \in Ordinals /\ AdvanceToNextPod(Action) \in GracefulAction
  BY ActionType, ActionFields DEF WaitBEAlive, InPhase
<1>2. b.gen \in 0..MaxStarts
  BY <1>1 DEF TypeOK, Backend
<1>3. ~ (seen.stable >= RequiredStableObservations) => seen \in GracefulAction
  <2>1. Action \in ActionRecord /\ Action.stable \in 0..2
    BY <1>1 DEF GracefulAction, ActionRecord
  <2> DEFINE k == IF Action.stable # 0 /\ Action.replGen = b.gen THEN Action.stable + 1 ELSE 1
  <2>2. seen = [Action EXCEPT !.replGen = b.gen, !.stable = k] /\ seen.stable = k
    BY <2>1 DEF Observe, ActionRecord
  <2>3. ~ (k >= RequiredStableObservations) => k \in 0..2
    BY <2>1 DEF RequiredStableObservations
  <2> HIDE DEF k, b
  <2>4. k \in 0..2 => [Action EXCEPT !.replGen = b.gen, !.stable = k] \in GracefulAction
    BY <1>1, <1>2, <2>1 DEF GracefulAction, ActionRecord
  <2> QED BY <2>2, <2>3, <2>4
<1> HIDE DEF seen, b
<1>4. OperatorTypeOK'
  <2>1. CASE Continue(IF seen.stable >= RequiredStableObservations
                      THEN AdvanceToNextPod(Action) ELSE seen)
    BY <1>1, <1>3, <2>1, ContinueType
  <2>2. CASE Continue(Action) \/ Continue(AdvanceToNextPod(Action))
    BY <1>1, <2>2, ContinueType
  <2> QED BY <2>1, <2>2 DEF WaitBEAlive, seen, b
<1> QED BY <1>4, QuietStepType DEF WaitBEAlive

LEMMA FinalizeType == TypeOK /\ FinalizeGracefulAction => TypeOK'
<1> SUFFICES ASSUME TypeOK, FinalizeGracefulAction PROVE TypeOK'
  OBVIOUS
<1>1. CASE Continue(st.ann) /\ UNCHANGED <<sts, cache, fresh>>
  <2>1. OperatorTypeOK'
    BY <1>1, ContinueType, StatefulSetFields DEF TypeOK
  <2> QED BY <1>1, <2>1, QuietStepType DEF FinalizeGracefulAction, sysVars
<1>2. CASE /\ WriteSts([sts EXCEPT !.ann = NoAction]) \/ UNCHANGED <<sts, cache, fresh>>
           /\ st' = [st EXCEPT !.ann = NoAction, !.strategy = "OnDelete", !.ru = FALSE]
           /\ cur' = "Reconciling" /\ pc' = "clear" /\ UNCHANGED <<est, ask>>
  <2>1. st' \in StatefulSet /\ [sts EXCEPT !.ann = NoAction] \in StatefulSet
    BY <1>2, StatefulSetFields, NoActionType DEF TypeOK
  <2>2. sts' \in StatefulSet /\ cache' \in StatefulSet /\ fresh' \in BOOLEAN
    BY <1>2, <2>1, WriteStsType DEF TypeOK
  <2>3. OperatorTypeOK'
    BY <1>2, <2>1 DEF TypeOK, OperatorTypeOK, PCs, Phases
  <2> QED BY <2>2, <2>3, OperatorStepType DEF FinalizeGracefulAction, TypeOK
<1> QED BY <1>1, <1>2 DEF FinalizeGracefulAction

LEMMA GracefulRolloutType == TypeOK /\ GracefulRolloutReconcile => TypeOK'
<1> SUFFICES ASSUME TypeOK, GracefulRolloutReconcile PROVE TypeOK'
  OBVIOUS
<1>1. CASE NoGracefulAction
  <2>1. OperatorTypeOK'
    BY <1>1 DEF NoGracefulAction, TypeOK, OperatorTypeOK, PCs
  <2> QED BY <1>1, <2>1, QuietStepType DEF NoGracefulAction, sysVars
<1>2. CASE WaitDrain
  BY <1>2, ActionType, ContinueType, QuietStepType DEF WaitDrain
<1>3. CASE AlreadyDone
  <2>1. st' \in StatefulSet
    BY <1>3, ActionType, StatefulSetFields DEF AlreadyDone, TypeOK
  <2>2. OperatorTypeOK'
    BY <1>3, <2>1 DEF AlreadyDone, TypeOK, OperatorTypeOK, PCs, ActionPhase, Phases
  <2> QED BY <1>3, <2>2, QuietStepType DEF AlreadyDone, sysVars
<1> QED BY <1>1, <1>2, <1>3, StartGracefulActionType, TriggerDrainNoPodType, TriggerDrainType,
           WaitDrainOverType, DeletePodType, WaitPodReadyType, WaitBEAliveType, FinalizeType
        DEF GracefulRolloutReconcile

\* The object that the merge patch leaves behind.
LEMMA MergedType == TypeOK => Merged \in StatefulSet
<1> SUFFICES ASSUME TypeOK PROVE Merged \in StatefulSet
  OBVIOUS
<1>1. sts \in StatefulSet /\ st \in StatefulSet
  BY DEF TypeOK
<1> DEFINE ru  == sts.ru \/ st.ru
           ann == IF st.ann = NoAction THEN sts.ann ELSE st.ann
           upd == IF "lag" \in Faults \/ sts.updRev = 0 THEN sts.updRev ELSE st.tmpl
<1>2. Merged = [sts EXCEPT !.tmpl = st.tmpl, !.replicas = st.replicas, !.strategy = st.strategy,
                           !.ru = ru, !.hash = HashObject(st), !.ann = ann, !.updRev = upd]
  BY <1>1 DEF Merged, StatefulSet
<1>3. ru \in BOOLEAN /\ ann \in GracefulAction
  BY <1>1 DEF StatefulSet
<1>4. upd \in 0..MaxRev
  BY <1>1, ConstantsAssumption DEF ConstantsAssumption, StatefulSet, Revs
<1>5. HashObject(st) \in Revs \X (0..MaxReplicas)
  BY <1>1 DEF HashObject, StatefulSet
<1> HIDE DEF ru, ann, upd
<1> QED BY <1>1, <1>2, <1>3, <1>4, <1>5 DEF StatefulSet

LEMMA ApplyAndStatusType ==
    TypeOK /\ (ClearStatefulSetRollingUpdate \/ ApplyStatefulSet \/ UpdateCGStatus \/ Crash) => TypeOK'
<1> SUFFICES ASSUME TypeOK,
                    ClearStatefulSetRollingUpdate \/ ApplyStatefulSet \/ UpdateCGStatus \/ Crash
             PROVE  TypeOK'
  OBVIOUS
<1>1. CASE ClearStatefulSetRollingUpdate
  <2>1. [sts EXCEPT !.ru = FALSE] \in StatefulSet
    BY StatefulSetFields DEF TypeOK
  <2>2. sts' \in StatefulSet /\ cache' \in StatefulSet /\ fresh' \in BOOLEAN
    BY <1>1, <2>1, WriteStsType DEF ClearStatefulSetRollingUpdate, TypeOK
  <2> QED BY <1>1, <2>2 DEF ClearStatefulSetRollingUpdate, TypeOK, PCs
<1>2. CASE ApplyStatefulSet
  <2>1. sts' \in StatefulSet /\ cache' \in StatefulSet /\ fresh' \in BOOLEAN
    BY <1>2, MergedType, WriteStsType DEF ApplyStatefulSet, TypeOK
  <2> QED BY <1>2, <2>1 DEF ApplyStatefulSet, TypeOK, PCs
<1>3. CASE UpdateCGStatus
  <2>1. phase' \in Phases
    BY <1>3 DEF UpdateCGStatus, TypeOK, Phases
  <2>2. cgid' \in BOOLEAN
    BY <1>3 DEF UpdateCGStatus, TypeOK
  <2>3. OperatorTypeOK'
    BY <1>3, <2>1, ResetType DEF UpdateCGStatus
  <2> QED BY <1>3, <2>1, <2>2, <2>3 DEF UpdateCGStatus, TypeOK, OperatorTypeOK
<1>4. CASE Crash
  <2>1. OperatorTypeOK'
    BY <1>4, ResetType DEF Crash, TypeOK
  <2> QED BY <1>4, <2>1, QuietStepType DEF Crash
<1> QED BY <1>1, <1>2, <1>3, <1>4

\* What happens around the operator.
LEMMA ClusterStepType ==
    TypeOK /\ (CacheSync \/ ForeignWrite \/ EditSpec \/ StsController \/ Kubelet \/ Frontend) => TypeOK'
<1> SUFFICES ASSUME TypeOK, CacheSync \/ ForeignWrite \/ EditSpec \/ StsController \/ Kubelet \/ Frontend
             PROVE  TypeOK'
  OBVIOUS
<1>1. CASE CacheSync
  BY <1>1 DEF CacheSync, TypeOK, opVars
<1>2. CASE ForeignWrite
  BY <1>2 DEF ForeignWrite, TypeOK, opVars
<1>3. CASE EditSpec
  BY <1>3, ConstantsAssumption DEF ConstantsAssumption, EditSpec, TypeOK, opVars
<1>4. CASE StsPublishRevision
  <2>1. 0..MaxRev = {0} \cup Revs
    BY ConstantsAssumption DEF ConstantsAssumption, Revs
  <2>2. [sts EXCEPT !.updRev = sts.tmpl, !.curRev = IF @ = 0 THEN sts.tmpl ELSE @] \in StatefulSet
    BY <2>1 DEF TypeOK, StatefulSet
  <2>3. sts' \in StatefulSet /\ cache' \in StatefulSet /\ fresh' \in BOOLEAN
    BY <1>4, <2>2, WriteStsType DEF StsPublishRevision
  <2> QED BY <1>4, <2>3 DEF StsPublishRevision, TypeOK, opVars
<1>5. CASE StsCompleteUpdate
  <2>1. [sts EXCEPT !.curRev = sts.updRev] \in StatefulSet
    BY StatefulSetFields DEF TypeOK
  <2>2. sts' \in StatefulSet /\ cache' \in StatefulSet /\ fresh' \in BOOLEAN
    BY <1>5, <2>1, WriteStsType DEF StsCompleteUpdate
  <2> QED BY <1>5, <2>2 DEF StsCompleteUpdate, TypeOK, opVars
<1>6. ASSUME NEW o \in Ordinals, StsCreatePod(o) PROVE TypeOK'
  <2>1. sts.tmpl \in 0..MaxRev
    BY ConstantsAssumption DEF ConstantsAssumption, TypeOK, StatefulSet, Revs
  <2>2. [NoPod EXCEPT !.phase = "starting", !.rev = sts.tmpl] \in Pod
    BY <2>1, NoPodType DEF Pod
  <2>3. pods' \in [Ordinals -> Pod]
    BY <1>6, <2>2 DEF StsCreatePod, TypeOK
  <2>4. starts' \in [Ordinals -> 0..MaxStarts]
    BY <1>6, ConstantsAssumption DEF ConstantsAssumption, StsCreatePod, TypeOK
  <2> QED BY <1>6, <2>3, <2>4 DEF StsCreatePod, TypeOK, opVars
<1>7. ASSUME NEW o \in Ordinals, StsScaleDown(o) \/ StsRollingUpdate(o) PROVE TypeOK'
  <2>1. pods' = [pods EXCEPT ![o].deleting = TRUE]
        /\ UNCHANGED <<spec, edits, sts, cache, fresh, starts, be, phase, cgid, opVars>>
    BY <1>7 DEF StsScaleDown, StsRollingUpdate
  <2>2. pods' \in [Ordinals -> Pod]
    BY <2>1, PodFields DEF TypeOK
  <2> QED BY <2>1, <2>2 DEF TypeOK, opVars
<1>8. ASSUME NEW o \in Ordinals, PodReady(o) PROVE TypeOK'
  <2>1. pods' \in [Ordinals -> Pod]
    BY <1>8 DEF PodReady, TypeOK, Pod
  <2>2. be' \in [Ordinals -> Backend]
    BY <1>8 DEF PodReady, TypeOK, Backend
  <2> QED BY <1>8, <2>1, <2>2 DEF PodReady, TypeOK, opVars
<1>9. ASSUME NEW o \in Ordinals, BEExit(o) PROVE TypeOK'
  <2>1. pods' \in [Ordinals -> Pod]
    BY <1>9 DEF BEExit, TypeOK, Pod
  <2> QED BY <1>9, <2>1 DEF BEExit, TypeOK, opVars
<1>10. ASSUME NEW o \in Ordinals, KubeletRestart(o) PROVE TypeOK'
  <2>1. pods[o] \in Pod /\ pods[o].restarts + 1 \in 0..MaxRestarts
    BY <1>10, ConstantsAssumption DEF ConstantsAssumption, KubeletRestart, TypeOK, Pod
  <2>2. /\ [pods EXCEPT ![o].restarts = @ + 1] \in [Ordinals -> Pod]
        /\ [pods EXCEPT ![o].restarts = @ + 1, ![o].phase = "starting", ![o].draining = FALSE]
              \in [Ordinals -> Pod]
    BY <2>1 DEF TypeOK, Pod
  <2>3. pods' \in [Ordinals -> Pod]
    BY <1>10, <2>2 DEF KubeletRestart
  <2>4. starts' \in [Ordinals -> 0..MaxStarts]
    BY <1>10, ConstantsAssumption DEF ConstantsAssumption, KubeletRestart, TypeOK
  <2> QED BY <1>10, <2>3, <2>4 DEF KubeletRestart, TypeOK, opVars
<1>11. ASSUME NEW o \in Ordinals, PodGone(o) PROVE TypeOK'
  BY <1>11, NoPodType DEF PodGone, TypeOK, opVars
<1>12. ASSUME NEW o \in Ordinals, Heartbeat(o) PROVE TypeOK'
  <2>1. be' \in [Ordinals -> Backend]
    <3>1. pods[o].draining \in BOOLEAN /\ starts[o] \in 0..MaxStarts /\ be[o] \in Backend
      BY DEF TypeOK, Pod
    <3>2. /\ [be[o] EXCEPT !.alive = TRUE, !.shutdown = pods[o].draining, !.gen = starts[o]] \in Backend
          /\ [be[o] EXCEPT !.alive = FALSE] \in Backend
      BY <3>1 DEF Backend
    <3> QED BY <1>12, <3>2 DEF Heartbeat, TypeOK
  <2> QED BY <1>12, <2>1 DEF Heartbeat, TypeOK, opVars
<1>13. ASSUME NEW o \in Ordinals, TabletsMoved(o) PROVE TypeOK'
  <2>1. be' \in [Ordinals -> Backend]
    BY <1>13 DEF TabletsMoved, TypeOK, Backend
  <2> QED BY <1>13, <2>1 DEF TabletsMoved, TypeOK, opVars
<1> QED BY <1>1, <1>2, <1>3, <1>4, <1>5, <1>6, <1>7, <1>8, <1>9, <1>10, <1>11, <1>12, <1>13
        DEF StsController, Kubelet, Frontend

\* Every state that the operator and its cluster reach is well typed: an action
\* past TriggerDrain always names an ordinal of the group (runGracefulStateMachine),
\* and every counter stays within its range.
THEOREM TypeCorrect == Spec => []TypeOK
<1>1. TypeOK /\ [Next]_vars => TypeOK'
  <2> SUFFICES ASSUME TypeOK, [Next]_vars PROVE TypeOK'
    OBVIOUS
  <2>1. CASE UNCHANGED vars
    BY <2>1 DEF TypeOK, vars
  <2>2. CASE Next
    BY <2>2, PreApplyType, GracefulRolloutType, ApplyAndStatusType, ClusterStepType
       DEF Next, Operator
  <2> QED BY <2>1, <2>2
<1> QED BY <1>1, InitType, PTL DEF Spec

-----------------------------------------------------------------------------
(* OnDelete while an action is stored. *)

\* A cache that has caught up is the StatefulSet.
FreshCache == fresh => cache = sts

\* gracefulRolloutReconcile works on the annotation that the API server holds,
\* and on a StatefulSet without one.
ReadIsCurrent == pc = "graceful" => est.ann = sts.ann /\ st.ann = NoAction

\* What is applied switches back to RollingUpdate only if no action is stored,
\* in the API server or in what is applied.
ApplyKeepsOnDelete ==
    pc \in {"clear", "apply"} =>
        st.strategy = "OnDelete" \/ (st.ann = NoAction /\ sts.ann = NoAction)

OnDeleteInv == TypeOK /\ OnDeleteWhileGraceful /\ FreshCache /\ ReadIsCurrent /\ ApplyKeepsOnDelete

LEMMA WriteKeepsFreshCache ==
    ASSUME FreshCache, NEW new, WriteSts(new)
    PROVE  FreshCache'
BY DEF FreshCache, WriteSts

\* Steps of the StatefulSet controller, the kubelet, the FE, the user and the
\* cache leave the annotation and the strategy alone.
LEMMA ClusterStepKeepsControl ==
    ASSUME TypeOK, FreshCache,
           CacheSync \/ ForeignWrite \/ EditSpec \/ StsController \/ Kubelet \/ Frontend
    PROVE  sts'.ann = sts.ann /\ sts'.strategy = sts.strategy /\ FreshCache' /\ UNCHANGED opVars
<1>1. CASE CacheSync \/ ForeignWrite \/ EditSpec
  BY <1>1 DEF CacheSync, ForeignWrite, EditSpec, FreshCache
<1>2. CASE StsPublishRevision \/ StsCompleteUpdate
  <2>1. FreshCache'
    BY <1>2, WriteKeepsFreshCache DEF StsPublishRevision, StsCompleteUpdate
  <2>2. sts'.ann = sts.ann /\ sts'.strategy = sts.strategy
    BY <1>2 DEF StsPublishRevision, StsCompleteUpdate, WriteSts, TypeOK, StatefulSet
  <2> QED BY <1>2, <2>1, <2>2 DEF StsPublishRevision, StsCompleteUpdate
<1>3. CASE \/ \E o \in Ordinals : StsCreatePod(o) \/ StsScaleDown(o) \/ StsRollingUpdate(o)
           \/ Kubelet \/ Frontend
  <2>1. UNCHANGED <<sts, cache, fresh, opVars>>
    BY <1>3 DEF Kubelet, Frontend, StsCreatePod, StsScaleDown, StsRollingUpdate, PodReady, BEExit,
                KubeletRestart, PodGone, Heartbeat, TabletsMoved
  <2> QED BY <2>1 DEF FreshCache
<1> QED BY <1>1, <1>2, <1>3 DEF StsController

\* A step of the state machine ends with OnDelete in what is applied next, or
\* goes to finalize, or leaves what is applied alone while no action is stored;
\* it writes neither the strategy nor an action to the StatefulSet.
LEMMA GracefulStep ==
    ASSUME TypeOK, GracefulRolloutReconcile
    PROVE  /\ \/ pc' = "clear" /\ st'.strategy = "OnDelete"
              \/ pc' = "finalize"
              \/ pc = "graceful" /\ pc' = "clear" /\ est.ann = NoAction /\ UNCHANGED <<st, sts>>
           /\ sts'.strategy = sts.strategy
           /\ sts'.ann = sts.ann \/ sts'.ann = NoAction
           /\ FreshCache => FreshCache'
<1> USE DEF TypeOK
<1>1. st \in StatefulSet /\ est \in StatefulSet /\ sts \in StatefulSet
  OBVIOUS
<1>2. \A ga : st' = PrepareGracefulStatefulSet(st, est, ga) => st'.strategy = "OnDelete"
  BY <1>1 DEF PrepareGracefulStatefulSet, StatefulSet
<1>3. \A ga : Continue(ga) => pc' = "clear" /\ st'.strategy = "OnDelete"
  BY <1>2 DEF Continue
<1>4. CASE NoGracefulAction
  BY <1>4 DEF NoGracefulAction, sysVars, FreshCache
<1>5. CASE StartGracefulAction
  BY <1>3, <1>5 DEF StartGracefulAction, sysVars, FreshCache
<1>6. CASE TriggerDrainNoPod
  BY <1>3, <1>6 DEF TriggerDrainNoPod, sysVars, FreshCache
<1>7. CASE TriggerDrain
  <2>1. \E ga : Continue(ga)
    BY <1>7 DEF TriggerDrain
  <2> QED BY <1>3, <1>7, <2>1 DEF TriggerDrain, FreshCache
<1>8. CASE WaitDrain \/ WaitDrainOver \/ WaitPodReady \/ WaitBEAlive
  <2>1. \E ga : Continue(ga)
    BY <1>8 DEF WaitDrain, WaitDrainOver, WaitPodReady, WaitBEAlive
  <2>2. UNCHANGED sysVars
    BY <1>8 DEF WaitDrain, WaitDrainOver, WaitPodReady, WaitBEAlive
  <2> QED BY <1>3, <2>1, <2>2 DEF sysVars, FreshCache
<1>9. CASE DeletePod
  <2>1. \/ WriteSts([sts EXCEPT !.replicas = Action.pod])
        \/ UNCHANGED <<sts, cache, fresh>>
    BY <1>9 DEF DeletePod, AfterPodDeleted, UpdateStatefulSetReplicas
  <2>2. sts'.ann = sts.ann /\ sts'.strategy = sts.strategy
    BY <1>1, <2>1 DEF WriteSts, StatefulSet
  <2>3. FreshCache => FreshCache'
    BY <2>1, WriteKeepsFreshCache DEF FreshCache
  <2>4. (\E ga : Continue(ga)) \/ StateMachineError(Action)
    BY <1>9 DEF DeletePod, AfterPodDeleted
  <2>5. pc' = "clear" /\ st'.strategy = "OnDelete"
    BY <1>1, <1>3, <2>4 DEF StateMachineError, StatefulSet
  <2> QED BY <2>2, <2>3, <2>5
<1>10. CASE AlreadyDone
  BY <1>10 DEF AlreadyDone, sysVars, FreshCache
<1>11. CASE FinalizeGracefulAction
  <2>1. WriteSts([sts EXCEPT !.ann = NoAction]) \/ UNCHANGED <<sts, cache, fresh>>
    BY <1>11 DEF FinalizeGracefulAction
  <2>2. sts'.strategy = sts.strategy /\ (sts'.ann = sts.ann \/ sts'.ann = NoAction)
    BY <1>1, <2>1 DEF WriteSts, StatefulSet
  <2>3. FreshCache => FreshCache'
    BY <2>1, WriteKeepsFreshCache DEF FreshCache
  <2>4. \/ Continue(st.ann)
        \/ /\ st' = [st EXCEPT !.ann = NoAction, !.strategy = "OnDelete", !.ru = FALSE]
           /\ pc' = "clear"
    BY <1>11 DEF FinalizeGracefulAction
  <2>5. pc' = "clear" /\ st'.strategy = "OnDelete"
    BY <1>1, <1>3, <2>4 DEF StatefulSet
  <2> QED BY <2>2, <2>3, <2>5
<1> QED BY <1>4, <1>5, <1>6, <1>7, <1>8, <1>9, <1>10, <1>11 DEF GracefulRolloutReconcile

LEMMA OnDeleteStep ==
    ASSUME "stale" \notin Faults, OnDeleteInv, [Next]_vars
    PROVE  (OnDeleteWhileGraceful /\ FreshCache /\ ReadIsCurrent /\ ApplyKeepsOnDelete)'
<1> USE DEF OnDeleteInv
<1>1. CASE UNCHANGED vars
  BY <1>1 DEF vars, OnDeleteWhileGraceful, FreshCache, ReadIsCurrent, ApplyKeepsOnDelete
<1>2. CASE PreApplyStatefulSet
  <2>1. PICK next \in {"graceful", "status"}, p \in Phases : Begin(next, p)
    BY <1>2 DEF PreApplyStatefulSet, PreApplyNothing, ScaleOutByDrop, ScaleOutFails,
                StartDecommission, AwaitDecommission, FinishDecommission,
                TypeOK, Phases
  <2>2. est' = sts /\ st'.ann = NoAction
    BY <2>1 DEF Begin, FreshCache, NewStatefulset
  <2> QED BY <2>1, <2>2
          DEF Begin, OnDeleteWhileGraceful, FreshCache, ReadIsCurrent, ApplyKeepsOnDelete
<1>3. CASE GracefulRolloutReconcile
  BY <1>3, GracefulStep DEF OnDeleteWhileGraceful, FreshCache, ReadIsCurrent, ApplyKeepsOnDelete
<1>4. CASE ClearStatefulSetRollingUpdate
  <2>1. FreshCache'
    BY <1>4, WriteKeepsFreshCache DEF ClearStatefulSetRollingUpdate, FreshCache
  <2>2. sts'.ann = sts.ann /\ sts'.strategy = sts.strategy
    BY <1>4 DEF ClearStatefulSetRollingUpdate, WriteSts, TypeOK, StatefulSet
  <2> QED BY <1>4, <2>1, <2>2
          DEF ClearStatefulSetRollingUpdate, OnDeleteWhileGraceful, ReadIsCurrent, ApplyKeepsOnDelete
<1>5. CASE ApplyStatefulSet
  <2>1. FreshCache'
    BY <1>5, WriteKeepsFreshCache DEF ApplyStatefulSet, FreshCache
  <2>2. /\ Merged.strategy = st.strategy
        /\ Merged.ann = IF st.ann = NoAction THEN sts.ann ELSE st.ann
    BY DEF Merged, TypeOK, StatefulSet
  <2>3. OnDeleteWhileGraceful'
    BY <1>5, <2>2 DEF ApplyStatefulSet, WriteSts, OnDeleteWhileGraceful, ApplyKeepsOnDelete
  <2> QED BY <1>5, <2>1, <2>3 DEF ApplyStatefulSet, ReadIsCurrent, ApplyKeepsOnDelete
<1>6. CASE UpdateCGStatus \/ Crash
  BY <1>6 DEF UpdateCGStatus, Crash, Reset, sysVars, OnDeleteWhileGraceful, FreshCache,
              ReadIsCurrent, ApplyKeepsOnDelete
<1>7. CASE CacheSync \/ ForeignWrite \/ EditSpec \/ StsController \/ Kubelet \/ Frontend
  BY <1>7, ClusterStepKeepsControl DEF opVars, OnDeleteWhileGraceful, ReadIsCurrent, ApplyKeepsOnDelete
<1> QED BY <1>1, <1>2, <1>3, <1>4, <1>5, <1>6, <1>7 DEF Next, Operator

LEMMA InitOnDelete == Init => OnDeleteInv
<1> SUFFICES ASSUME Init PROVE OnDeleteInv
  OBVIOUS
<1>1. sts.ann = NoAction
  <2>1. /\ NewStatefulset(spec).ann = NoAction
        /\ [NewStatefulset(spec) EXCEPT !.updRev = 1, !.curRev = 1].ann = NoAction
    BY Zenon DEF NewStatefulset
  <2> QED BY <2>1 DEF Init
<1> QED BY <1>1, InitType
        DEF Init, OnDeleteInv, OnDeleteWhileGraceful, FreshCache, ReadIsCurrent, ApplyKeepsOnDelete

\* If every reconcile starts from the current StatefulSet, Kubernetes is never
\* free to roll pods while the annotation holds an action, whatever else fails:
\* conflicting writers, restarts of the operator, refused writes, failed execs
\* and queries, late revisions, edits in the middle of a rollout
\* (prepareGracefulStatefulSet, ensureOnDeleteStrategy, finalizeGracefulAction).
THEOREM OnDeleteCorrect ==
    ASSUME "stale" \notin Faults
    PROVE  Spec => []OnDeleteWhileGraceful
<1>1. Init => OnDeleteInv
  BY InitOnDelete
<1>2. OnDeleteInv /\ TypeOK' /\ [Next]_vars => OnDeleteInv'
  BY OnDeleteStep DEF OnDeleteInv
<1>3. OnDeleteInv => OnDeleteWhileGraceful
  BY DEF OnDeleteInv
<1> QED BY <1>1, <1>2, <1>3, TypeCorrect, PTL DEF Spec

-----------------------------------------------------------------------------
(* The phase Ready. *)

\* The published revision is the template's, and the operator has the phase
\* Ready in memory only if the group shows it.
ReadyInv == /\ OnDeleteInv
            /\ sts.updRev \in {0, sts.tmpl}
            /\ cur = "Ready" => phase = "Ready"

\* The state machine touches neither the template nor its revision, and never
\* sets the phase Ready.
LEMMA GracefulKeepsRevision ==
    ASSUME TypeOK, GracefulRolloutReconcile
    PROVE  /\ sts'.updRev = sts.updRev /\ sts'.tmpl = sts.tmpl
           /\ cur' = cur \/ cur' # "Ready"
           /\ phase' = phase
<1>0. sts \in StatefulSet
  BY DEF TypeOK
<1>1. \A ga : ActionPhase(ga) # "Ready"
  BY DEF ActionPhase
<1>2. \/ sts' = sts \/ sts' = [sts EXCEPT !.replicas = Action.pod]
      \/ sts' = [sts EXCEPT !.ann = NoAction]
  BY DEF GracefulRolloutReconcile, NoGracefulAction, StartGracefulAction, TriggerDrainNoPod,
         TriggerDrain, WaitDrain, WaitDrainOver, DeletePod, AfterPodDeleted, UpdateStatefulSetReplicas,
         WaitPodReady, WaitBEAlive, AlreadyDone, FinalizeGracefulAction, WriteSts, sysVars
<1>3. sts'.updRev = sts.updRev /\ sts'.tmpl = sts.tmpl
  BY <1>0, <1>2 DEF StatefulSet
<1>4. cur' = cur \/ cur' # "Ready"
  BY <1>1 DEF GracefulRolloutReconcile, NoGracefulAction, StartGracefulAction, TriggerDrainNoPod,
         TriggerDrain, WaitDrain, WaitDrainOver, DeletePod, AfterPodDeleted, StateMachineError,
         WaitPodReady, WaitBEAlive, AlreadyDone, FinalizeGracefulAction, Continue
<1>5. phase' = phase
  BY DEF GracefulRolloutReconcile, NoGracefulAction, StartGracefulAction, TriggerDrainNoPod,
         TriggerDrain, WaitDrain, WaitDrainOver, DeletePod, WaitPodReady, WaitBEAlive, AlreadyDone,
         FinalizeGracefulAction, sysVars
<1> QED BY <1>3, <1>4, <1>5

\* What ReadyIsTruthful says of a step.
BecomesReady ==
    phase # "Ready" /\ phase' = "Ready" => \A o \in Ordinals : Exists(o) => pods[o].rev = sts.tmpl

LEMMA ReadyStep ==
    ASSUME Faults \cap {"stale", "lag"} = {}, ReadyInv, TypeOK', [Next]_vars
    PROVE  ReadyInv' /\ BecomesReady
<1> USE DEF ReadyInv
<1>0. /\ TypeOK /\ sts \in StatefulSet /\ OnDeleteInv' /\ "stale" \notin Faults /\ "lag" \notin Faults
  <2>1. "stale" \notin Faults /\ "lag" \notin Faults
    OBVIOUS
  <2> QED BY <2>1, OnDeleteStep DEF OnDeleteInv, TypeOK
<1>1. CASE UNCHANGED vars
  BY <1>0, <1>1 DEF vars, BecomesReady
<1>2. CASE PreApplyStatefulSet
  <2>1. \E next, p : Begin(next, p) /\ (p = phase \/ p # "Ready")
    BY <1>2 DEF PreApplyStatefulSet, PreApplyNothing, ScaleOutByDrop, ScaleOutFails,
                StartDecommission, AwaitDecommission, FinishDecommission
  <2>2. UNCHANGED <<sts, phase>> /\ (cur' = phase \/ cur' # "Ready")
    BY <2>1 DEF Begin
  <2> QED BY <1>0, <2>2 DEF BecomesReady
<1>3. CASE GracefulRolloutReconcile
  BY <1>0, <1>3, GracefulKeepsRevision DEF BecomesReady
<1>4. CASE ClearStatefulSetRollingUpdate
  <2>1. sts'.updRev = sts.updRev /\ sts'.tmpl = sts.tmpl /\ UNCHANGED <<phase, cur>>
    BY <1>0, <1>4 DEF ClearStatefulSetRollingUpdate, WriteSts, StatefulSet
  <2> QED BY <1>0, <2>1 DEF BecomesReady
<1>5. CASE ApplyStatefulSet
  <2>1. Merged.tmpl = st.tmpl /\ Merged.updRev \in {0, st.tmpl}
    BY <1>0 DEF Merged, StatefulSet
  <2>2. (sts' = sts \/ sts' = Merged) /\ UNCHANGED <<phase, cur>>
    BY <1>5 DEF ApplyStatefulSet, WriteSts
  <2> QED BY <1>0, <2>1, <2>2 DEF BecomesReady
<1>6. CASE UpdateCGStatus
  <2>1. cache = sts /\ sts' = sts /\ cur' = phase'
    BY <1>0, <1>6 DEF UpdateCGStatus, Reset, OnDeleteInv, FreshCache
  <2>2. phase' = "Ready" => cur = "Ready" \/ AllUpdated
    BY <1>6 DEF UpdateCGStatus
  <2>3. AllUpdated => \A o \in Ordinals : Exists(o) => pods[o].rev = sts.tmpl
    BY <2>1 DEF AllUpdated, Outdated
  <2> QED BY <1>0, <2>1, <2>2, <2>3 DEF BecomesReady
<1>7. CASE Crash
  BY <1>0, <1>7 DEF Crash, Reset, sysVars, BecomesReady
<1>8. CASE StsPublishRevision \/ StsCompleteUpdate
  <2>1. sts'.tmpl = sts.tmpl /\ sts'.updRev \in {sts.updRev, sts.tmpl} /\ UNCHANGED <<phase, cur>>
    BY <1>0, <1>8 DEF StsPublishRevision, StsCompleteUpdate, WriteSts, StatefulSet, opVars
  <2> QED BY <1>0, <2>1 DEF BecomesReady
<1>9. CASE \/ CacheSync \/ ForeignWrite \/ EditSpec \/ Kubelet \/ Frontend
           \/ \E o \in Ordinals : StsCreatePod(o) \/ StsScaleDown(o) \/ StsRollingUpdate(o)
  <2>1. UNCHANGED <<sts, phase, cur>>
    BY <1>9 DEF CacheSync, ForeignWrite, EditSpec, Kubelet, Frontend, StsCreatePod, StsScaleDown,
                StsRollingUpdate, PodReady, BEExit, KubeletRestart, PodGone, Heartbeat, TabletsMoved, opVars
  <2> QED BY <1>0, <2>1 DEF BecomesReady
<1> QED BY <1>1, <1>2, <1>3, <1>4, <1>5, <1>6, <1>7, <1>8, <1>9 DEF Next, Operator, StsController

\* A group that becomes Ready runs the template of its StatefulSet in every pod,
\* whatever else fails, if the operator reads the current StatefulSet and the
\* revision is published with the template (updateCGStatus,
\* StatefulsetControlledPodsAllUseNewUpdateRevision).
THEOREM ReadyCorrect ==
    ASSUME Faults \cap {"stale", "lag"} = {}
    PROVE  Spec => ReadyIsTruthful
<1>1. Init => ReadyInv
  <2> SUFFICES ASSUME Init PROVE ReadyInv
    OBVIOUS
  <2> DEFINE new == NewStatefulset(spec)
             run == [new EXCEPT !.updRev = 1, !.curRev = 1]
  <2>1. new.updRev = 0 /\ run.updRev = 1 /\ run.tmpl = spec.tmpl
    BY DEF NewStatefulset
  <2>2. (sts = new \/ sts = run) /\ spec.tmpl = 1 /\ cur = phase
    BY DEF Init
  <2> HIDE DEF new, run
  <2> QED BY <2>1, <2>2, InitOnDelete DEF ReadyInv
<1>2. ReadyInv /\ TypeOK' /\ [Next]_vars => ReadyInv'
  BY ReadyStep
<1>3. ReadyInv /\ TypeOK' /\ [Next]_vars
      => [phase # "Ready" /\ phase' = "Ready"
          => \A o \in Ordinals : Exists(o) => pods[o].rev = sts.tmpl]_vars
  BY ReadyStep DEF BecomesReady
<1> QED BY <1>1, <1>2, <1>3, TypeCorrect, PTL DEF Spec, ReadyIsTruthful
=============================================================================
