---------------------------- MODULE ScaleDownProofs ----------------------------
(***************************************************************************)
(* Proofs about the scale-down of a ComputeGroup, for any number of        *)
(* replicas, templates and edits: the StatefulSet loses one replica at a   *)
(* time and only past a pod that the operator deleted, a backend is        *)
(* dropped only once its tablets have moved, and no pod is deleted that    *)
(* the user asks for.                                                      *)
(***************************************************************************)
EXTENDS ComputeGroupProofs, FiniteSetTheorems

\* The faults that make an apply shrink the StatefulSet: a reconcile on an old
\* StatefulSet, a refused deletion (the state machine's error path applies the
\* spec as it is), a failed probe for the sentinel (graceful handling is
\* disabled), and another target while a scale-down runs.
ShrinkFaults == {"stale", "api", "exec", "overlap"}

-----------------------------------------------------------------------------
(* The inductive invariant. *)

\* Where the template and the replicas in memory come from: the spec as it is,
\* or the spec of a settled group that was edited during the reconcile.
FromSpec    == st.tmpl = spec.tmpl /\ st.replicas = spec.replicas
FromSettled == sts.ann = NoAction /\ st.tmpl = sts.tmpl /\ st.replicas = sts.replicas

\* Every pod of the StatefulSet runs its template and stays.
AllUp == \A o \in Ordinals : o < sts.replicas =>
            Running(o) /\ ~ pods[o].deleting /\ ~ pods[o].draining /\ pods[o].rev = sts.tmpl

\* A scale-down works on the pod at the edge of the replicas: the last one, or
\* the one that the replicas were just taken down to.
AtEdge(s) == s.ann.phase # "TriggerDrain" => s.ann.pod \in {s.replicas - 1, s.replicas}

\* Actions that are stored: only a rolling update is stored as Done, and a
\* scale-down goes to what the user asks for.
SoundAction(s) ==
    /\ s.ann.type = "None" => s.ann = NoAction
    /\ s.ann.phase = "Done" => s.ann.type = "RollingUpdate"
    /\ s.ann.type = "ScaleDown" => s.ann.desired = spec.replicas /\ AtEdge(s)

ReadReplicas == pc = "graceful" =>
    /\ est.replicas = sts.replicas /\ est.ann = sts.ann /\ st.ann = NoAction
    /\ FromSpec \/ FromSettled

FinalizeKeeps == pc = "finalize" =>
    /\ FromSpec /\ sts.ann # NoAction /\ st.replicas >= sts.replicas
    /\ st.ann.type = "RollingUpdate" \/ st.ann.type = "ScaleDown"

\* An apply never shrinks the StatefulSet, and drops an action only together
\* with a spec that it belongs to.
ApplyKeeps == pc \in {"clear", "apply"} =>
    /\ st.replicas >= sts.replicas
    /\ SoundAction(st)
    /\ st.ann = NoAction => sts.ann = NoAction /\ (FromSpec \/ FromSettled)
    /\ st.ann.type = "ScaleDown" /\ sts.ann = NoAction => sts.replicas > spec.replicas

\* A scale-down that has not begun finds all its pods running, so that it is
\* handled gracefully.
StartsUp == sts.ann = NoAction /\ spec.replicas < sts.replicas => AllUp

ShrinkInv == /\ TypeOK /\ FreshCache /\ SoundAction(sts)
             /\ ReadReplicas /\ FinalizeKeeps /\ ApplyKeeps /\ StartsUp

-----------------------------------------------------------------------------
(* What a step of the state machine works on. *)

LEMMA Numbers ==
    ASSUME TypeOK
    PROVE  /\ MaxReplicas \in Nat /\ spec.replicas \in Nat /\ spec.tmpl \in Revs
           /\ \A s \in {sts, est, st, cache} :
                 /\ s \in StatefulSet /\ s.replicas \in Nat /\ s.replicas <= MaxReplicas
                 /\ s.ann \in GracefulAction
           /\ \A o \in Ordinals : o \in Nat
<1>1. MaxReplicas \in Nat /\ \A o \in Ordinals : o \in Nat
  BY ConstantsAssumption DEF ConstantsAssumption, Ordinals
<1>2. \A s \in {sts, est, st, cache} : s \in StatefulSet
  BY DEF TypeOK
<1>3. \A s \in StatefulSet : s.replicas \in Nat /\ s.replicas <= MaxReplicas /\ s.ann \in GracefulAction
  <2> TAKE s \in StatefulSet
  <2>1. s.replicas \in 0..MaxReplicas /\ s.ann \in GracefulAction
    BY StatefulSetFields
  <2> QED BY <1>1, <2>1
<1>4. spec.replicas \in Nat /\ spec.tmpl \in Revs
  BY <1>1 DEF TypeOK
<1> QED BY <1>1, <1>2, <1>3, <1>4

LEMMA NewActionFields ==
    ASSUME NEW type, NEW target, NEW desired
    PROVE  /\ NewAction(type, target, desired).type = type
           /\ NewAction(type, target, desired).phase = "TriggerDrain"
           /\ NewAction(type, target, desired).desired = desired
BY DEF NewAction

LEMMA NoActionFields == NoAction.type = "None" /\ NoAction.pod = NoOrdinal
BY NewActionFields DEF NoAction, NewAction

\* What detectGracefulAction finds.
LEMMA DetectedFacts ==
    ASSUME TypeOK
    PROVE  /\ Detected.type \in {"None", "RollingUpdate", "ScaleDown"}
           /\ Detected.type = "None" <=> Detected = NoAction
           /\ Detected.type = "ScaleDown" <=> st.replicas < est.replicas
           /\ Detected.type = "ScaleDown" => Detected.desired = st.replicas
           /\ Detected.phase = "TriggerDrain"
BY NewActionFields, NoActionFields DEF Detected, DetectGracefulAction, NoAction

\* The action the state machine runs: the stored one, or a scale-down that takes
\* precedence over a stored rolling update.
LEMMA ActionFacts ==
    ASSUME ShrinkInv, pc = "graceful", est.ann # NoAction
    PROVE  /\ Action.type = "RollingUpdate" \/ Action.type = "ScaleDown"
           /\ Action.type = "RollingUpdate" => st.replicas >= est.replicas
           /\ Action.type = "ScaleDown" =>
                /\ Action.desired = spec.replicas /\ Action.phase # "Done"
                /\ Action.phase # "TriggerDrain" => Action.pod \in {est.replicas - 1, est.replicas}
           /\ est.ann.type = "ScaleDown" => Action = est.ann
<1>0. TypeOK /\ est.ann = sts.ann /\ est.replicas = sts.replicas /\ SoundAction(sts)
      /\ (FromSpec \/ FromSettled) /\ est.ann.type \in ActionTypes
  BY Numbers, ActionFields DEF ShrinkInv, ReadReplicas
<1>1. est.replicas \in Nat /\ st.replicas \in Nat
  BY <1>0, Numbers
<1>2. est.ann.type = "RollingUpdate" \/ est.ann.type = "ScaleDown"
  BY <1>0 DEF ActionTypes, SoundAction
<1>3. CASE est.ann.type = "ScaleDown"
  <2>1. ~ (GracefulActionPriority(Detected.type) > GracefulActionPriority("ScaleDown"))
    BY <1>0, DetectedFacts DEF GracefulActionPriority
  <2>2. Action = est.ann
    BY <1>3, <2>1 DEF Action, ChooseAction, RefreshTarget
  <2>3. AtEdge(sts)
    BY <1>0, <1>3 DEF SoundAction
  <2> QED BY <1>0, <1>3, <2>2, <2>3 DEF SoundAction, AtEdge
<1>4. CASE est.ann.type = "RollingUpdate" /\ Detected.type = "ScaleDown"
  <2>1. GracefulActionPriority(Detected.type) > GracefulActionPriority("RollingUpdate")
    BY <1>4 DEF GracefulActionPriority
  <2>2. Action = Detected
    BY <1>4, <2>1 DEF Action, ChooseAction, RefreshTarget
  <2>3. st.replicas < est.replicas /\ Detected.desired = st.replicas /\ Detected.phase = "TriggerDrain"
    BY <1>0, <1>4, DetectedFacts
  <2>4. st.replicas = spec.replicas
    BY <1>0, <1>1, <2>3 DEF FromSpec, FromSettled
  <2> QED BY <1>4, <2>2, <2>3, <2>4
<1>5. CASE est.ann.type = "RollingUpdate" /\ Detected.type # "ScaleDown"
  <2>1. ~ (GracefulActionPriority(Detected.type) > GracefulActionPriority("RollingUpdate"))
    BY <1>0, <1>5, DetectedFacts DEF GracefulActionPriority
  <2>2. Action = RefreshTarget(est, est.ann)
    BY <1>5, <2>1 DEF Action, ChooseAction
  <2>3. Action.type = "RollingUpdate"
    <3>1. est.ann \in ActionRecord
      BY <1>0, Numbers, ActionFields
    <3> QED BY <1>5, <2>2, <3>1 DEF RefreshTarget, ActionRecord
  <2>4. st.replicas >= est.replicas
    BY <1>0, <1>1, <1>5, DetectedFacts
  <2> QED BY <1>5, <2>3, <2>4
<1> QED BY <1>2, <1>3, <1>4, <1>5

-----------------------------------------------------------------------------
(* Steps of the state machine. *)

LEMMA ContinueEffect ==
    ASSUME TypeOK, NEW ga, Continue(ga)
    PROVE  /\ pc' = "clear" /\ est' = est /\ st'.ann = ga /\ st'.tmpl = st.tmpl
           /\ st'.replicas = IF ga.type = "ScaleDown" THEN est.replicas ELSE st.replicas
BY DEF Continue, PrepareGracefulStatefulSet, TypeOK, StatefulSet

\* The next state of a running action: of the same type, with the same goal, and
\* still at the edge.
NextOf(ga) ==
    /\ ga.type = Action.type
    /\ ga.phase = "Done" => ga.type = "RollingUpdate"
    /\ ga.type = "ScaleDown" =>
         /\ ga.desired = Action.desired
         /\ ga.phase # "TriggerDrain" => ga.pod \in {est.replicas - 1, est.replicas}

\* An action that goes on keeps the invariant, whatever happens to pods and
\* backends in the step, if the StatefulSet keeps its annotation and does not
\* grow.
LEMMA ContinueKeeps ==
    ASSUME ShrinkInv, pc = "graceful", est.ann # NoAction, TypeOK', FreshCache',
           NEW ga, Continue(ga), NextOf(ga),
           spec' = spec, sts'.ann = sts.ann, sts'.replicas <= sts.replicas,
           sts.ann.type = "ScaleDown" => AtEdge(sts)'
    PROVE  ShrinkInv'
<1>1. /\ TypeOK /\ est.ann = sts.ann /\ est.replicas = sts.replicas /\ SoundAction(sts)
  BY DEF ShrinkInv, ReadReplicas
<1>2. /\ pc' = "clear" /\ st'.ann = ga
      /\ st'.replicas = IF ga.type = "ScaleDown" THEN est.replicas ELSE st.replicas
  BY <1>1, ContinueEffect
<1>3. ga.type = "RollingUpdate" \/ ga.type = "ScaleDown"
  BY ActionFacts DEF NextOf
<1>4. sts'.replicas \in Nat /\ st.replicas \in Nat /\ est.replicas \in Nat
  <2>1. sts' \in StatefulSet
    BY DEF TypeOK
  <2>2. sts'.replicas \in 0..MaxReplicas
    BY <2>1, StatefulSetFields
  <2> QED BY <1>1, <2>2, Numbers
<1>5. st'.replicas >= sts'.replicas
  BY <1>1, <1>2, <1>3, <1>4, ActionFacts DEF NextOf
<1>6. ga # NoAction /\ sts'.ann # NoAction
  BY <1>1, <1>3, NoActionFields
<1>7. SoundAction(st)'
  BY <1>2, <1>3, ActionFacts DEF NextOf, SoundAction, AtEdge
<1>8. SoundAction(sts)'
  BY <1>1 DEF SoundAction
<1>9. ApplyKeeps'
  BY <1>2, <1>5, <1>6, <1>7 DEF ApplyKeeps
<1>10. ReadReplicas' /\ FinalizeKeeps' /\ StartsUp'
  BY <1>2, <1>6 DEF ReadReplicas, FinalizeKeeps, StartsUp
<1> QED BY <1>8, <1>9, <1>10 DEF ShrinkInv

\* A new action, or none: a scale-down is never disabled, because its pods run.
LEMMA BeginsAction ==
    ASSUME Faults \cap ShrinkFaults = {}, ShrinkInv, TypeOK', NoGracefulAction \/ StartGracefulAction
    PROVE  ShrinkInv'
<1>0. /\ TypeOK /\ pc = "graceful" /\ est.ann = NoAction /\ sts.ann = NoAction /\ est.replicas = sts.replicas
      /\ st.ann = NoAction /\ (FromSpec \/ FromSettled) /\ SoundAction(sts) /\ UNCHANGED sysVars
  BY DEF ShrinkInv, ReadReplicas, NoGracefulAction, StartGracefulAction
<1>1. FreshCache' /\ SoundAction(sts)' /\ StartsUp'
  BY <1>0 DEF ShrinkInv, FreshCache, SoundAction, AtEdge, StartsUp, AllUp, Running, sysVars
<1>2. pc' = "clear"
  BY DEF NoGracefulAction, StartGracefulAction, Continue
<1>3. est.replicas \in Nat /\ st.replicas \in Nat /\ est.replicas <= MaxReplicas /\ MaxReplicas \in Nat
  BY <1>0, Numbers
<1>4. CASE st' = st /\ Detected.type # "ScaleDown"
  <2>1. st.replicas >= sts.replicas
    BY <1>0, <1>3, <1>4, DetectedFacts
  <2>2. SoundAction(st)'
    BY <1>0, <1>4 DEF SoundAction, NoAction, NewAction
  <2>3. (FromSpec \/ FromSettled)'
    BY <1>0, <1>4 DEF FromSpec, FromSettled, sysVars
  <2> QED BY <1>0, <1>1, <1>2, <1>4, <2>1, <2>2, <2>3, NoActionFields
          DEF ShrinkInv, ReadReplicas, FinalizeKeeps, ApplyKeeps, sysVars
<1>5. CASE StartGracefulAction /\ st' = st /\ Detected.type = "ScaleDown" /\ ~ Continue(Detected)
  <2>1. st.replicas < est.replicas /\ Detected.desired = st.replicas
    BY <1>0, <1>5, DetectedFacts
  <2>2. st.replicas = spec.replicas
    BY <1>0, <1>3, <2>1 DEF FromSpec, FromSettled
  <2>3. AllUp
    BY <1>0, <2>1, <2>2 DEF ShrinkInv, StartsUp
  <2>4. SelectNextPod(est, Detected) = est.replicas - 1
    BY <1>5, <2>1 DEF SelectNextPod
  <2>5. est.replicas - 1 \in Ordinals /\ est.replicas - 1 < sts.replicas
    BY <1>0, <1>3, <2>1 DEF Ordinals
  <2>6. Running(est.replicas - 1)
    BY <2>3, <2>5 DEF AllUp
  <2>7. "exec" \notin Faults
    BY DEF ShrinkFaults
  <2>8. FALSE
    BY <1>5, <2>4, <2>6, <2>7 DEF StartGracefulAction
  <2> QED BY <2>8
<1>6. CASE StartGracefulAction /\ Continue(Detected)
  <2>1. Detected \in GracefulAction /\ Detected # NoAction
    BY <1>0, <1>6, ActionType DEF StartGracefulAction
  <2>2. /\ st'.ann = Detected /\ st'.tmpl = st.tmpl
        /\ st'.replicas = IF Detected.type = "ScaleDown" THEN est.replicas ELSE st.replicas
    BY <1>0, <1>6, <2>1, ContinueEffect
  <2>3. st'.replicas >= sts.replicas
    BY <1>0, <1>3, <2>2, DetectedFacts
  <2>4. Detected.type = "ScaleDown" => st.replicas = spec.replicas /\ sts.replicas > spec.replicas
    BY <1>0, <1>3, DetectedFacts DEF FromSpec, FromSettled
  <2>5. SoundAction(st)'
    BY <1>0, <2>1, <2>2, <2>4, DetectedFacts DEF SoundAction, AtEdge, sysVars
  <2>6. ApplyKeeps'
    BY <1>0, <2>1, <2>2, <2>3, <2>4, <2>5 DEF ApplyKeeps, sysVars
  <2> QED BY <1>1, <1>2, <2>6 DEF ShrinkInv, ReadReplicas, FinalizeKeeps
<1>7. \/ st' = st /\ ~ (StartGracefulAction /\ Continue(Detected))
      \/ StartGracefulAction /\ Continue(Detected)
  BY DEF NoGracefulAction, StartGracefulAction
<1>8. NoGracefulAction => Detected.type # "ScaleDown"
  BY <1>0, DetectedFacts, NoActionFields DEF NoGracefulAction
<1> QED BY <1>4, <1>5, <1>6, <1>7, <1>8

\* Steps that neither write the StatefulSet nor end the action.
LEMMA GoesOn ==
    ASSUME Faults \cap ShrinkFaults = {}, ShrinkInv, TypeOK',
           \/ TriggerDrain \/ WaitDrain \/ WaitDrainOver \/ WaitPodReady \/ WaitBEAlive
    PROVE  ShrinkInv'
<1>0. /\ TypeOK /\ pc = "graceful" /\ est.ann # NoAction /\ FreshCache /\ est.ann = sts.ann
      /\ est.replicas = sts.replicas /\ SoundAction(sts)
  BY DEF ShrinkInv, ReadReplicas, TriggerDrain, WaitDrain, WaitDrainOver, WaitPodReady, WaitBEAlive, InPhase
<1>1. UNCHANGED <<spec, sts, cache, fresh>>
  BY DEF TriggerDrain, WaitDrain, WaitDrainOver, WaitPodReady, WaitBEAlive, sysVars
<1>2. Action \in GracefulAction /\ Action \in ActionRecord
  BY <1>0, ActionType, ActionFields
<1>3. est.replicas \in Nat
  BY <1>0, Numbers
<1>4. NextOf(Action) /\ NextOf(AdvanceToNextPod(Action))
  BY <1>0, <1>2, ActionFacts, NewActionFields DEF NextOf, AdvanceToNextPod
<1>5. \A p \in ActionPhases \ {"TriggerDrain", "Done"} :
        Action.phase # "TriggerDrain" => NextOf([Action EXCEPT !.phase = p])
  BY <1>0, <1>2, ActionFacts DEF NextOf, ActionRecord
<1>6. \E ga : Continue(ga) /\ NextOf(ga)
  <2>1. CASE TriggerDrain
    <3> DEFINE o == SelectNextPod(est, Action)
               ga == [Action EXCEPT !.pod = o, !.phase = "WaitDrain"]
    <3>1. o # NoOrdinal
      BY <2>1 DEF TriggerDrain
    <3>2. Action.type = "ScaleDown" => o = est.replicas - 1
      BY <3>1 DEF SelectNextPod
    <3> HIDE DEF o
    <3>3. NextOf(ga)
      BY <1>0, <1>2, <3>2, ActionFacts DEF NextOf, ActionRecord
    <3>4. Action.type = "RollingUpdate" => NextOf([ga EXCEPT !.phase = "WaitPodReady"])
      BY <1>0, <1>2, <3>2, ActionFacts DEF NextOf, ActionRecord
    <3>5. \A r, g : NextOf([ga EXCEPT !.initRestarts = r, !.initGen = g])
      BY <1>0, <1>2, <3>2, ActionFacts DEF NextOf, ActionRecord
    <3>6. \/ Continue(IF Action.type = "RollingUpdate"
                      THEN [ga EXCEPT !.phase = "WaitPodReady"] ELSE AdvanceToNextPod(Action))
          \/ \E r, g : Continue([ga EXCEPT !.initRestarts = r, !.initGen = g])
      BY <2>1 DEF TriggerDrain, o
    <3> HIDE DEF ga
    <3> QED BY <1>4, <3>4, <3>5, <3>6
  <2>2. CASE WaitDrain
    BY <1>4, <2>2 DEF WaitDrain
  <2>3. CASE WaitDrainOver
    BY <1>4, <1>5, <2>3 DEF WaitDrainOver, InPhase, ActionPhases
  <2>4. CASE WaitPodReady
    BY <1>4, <1>5, <2>4 DEF WaitPodReady, InPhase, ActionPhases
  <2>5. CASE WaitBEAlive
    <3>1. \A b : NextOf(Observe(b, Action))
      BY <1>0, <1>2, <2>5, ActionFacts DEF NextOf, ActionRecord, Observe, InPhase, WaitBEAlive
    <3>2. \/ Continue(Action) \/ Continue(AdvanceToNextPod(Action))
          \/ \E b : Continue(Observe(b, Action))
      BY <2>5 DEF WaitBEAlive
    <3> QED BY <1>4, <3>1, <3>2
  <2> QED BY <2>1, <2>2, <2>3, <2>4, <2>5
<1>7. FreshCache' /\ sts'.replicas <= sts.replicas /\ sts'.ann = sts.ann
  BY <1>0, <1>1, <1>3 DEF FreshCache
<1>8. sts.ann.type = "ScaleDown" => AtEdge(sts)'
  BY <1>0, <1>1 DEF SoundAction, AtEdge
<1> QED BY <1>0, <1>1, <1>6, <1>7, <1>8, ContinueKeeps

\* handleDeletePod: the replicas go down to the pod that is deleted.
LEMMA DeletesPod ==
    ASSUME Faults \cap ShrinkFaults = {}, ShrinkInv, TypeOK', DeletePod
    PROVE  /\ ShrinkInv'
           /\ sts'.replicas < sts.replicas =>
                /\ sts'.replicas = sts.replicas - 1
                /\ ~ Exists(sts'.replicas) \/ pods'[sts'.replicas].deleting
<1>0. /\ TypeOK /\ pc = "graceful" /\ est.ann # NoAction /\ FreshCache /\ est.ann = sts.ann
      /\ est.replicas = sts.replicas /\ SoundAction(sts) /\ Action.phase = "DeletePod" /\ sts \in StatefulSet
  BY Numbers DEF ShrinkInv, ReadReplicas, DeletePod, InPhase
<1>1. Action \in GracefulAction /\ Action \in ActionRecord /\ Action.pod \in Ordinals
  BY <1>0, ActionType, ActionFields
<1>2. sts.replicas \in Nat /\ Action.pod \in Nat
  BY <1>0, <1>1, Numbers
<1>3. "api" \notin Faults
  BY DEF ShrinkFaults
<1>4. /\ pods' = IF Exists(Action.pod) THEN [pods EXCEPT ![Action.pod].deleting = TRUE] ELSE pods
      /\ AfterPodDeleted /\ spec' = spec
  BY <1>3 DEF DeletePod
<1>5. CASE Action.type = "RollingUpdate"
  <2>1. Continue([Action EXCEPT !.phase = "WaitPodReady"]) /\ UNCHANGED <<sts, cache, fresh>>
    BY <1>4, <1>5 DEF AfterPodDeleted
  <2>2. NextOf([Action EXCEPT !.phase = "WaitPodReady"])
    BY <1>1, <1>5 DEF NextOf, ActionRecord
  <2>3. FreshCache' /\ sts'.replicas <= sts.replicas /\ sts'.ann = sts.ann
    BY <1>0, <1>2, <2>1 DEF FreshCache
  <2>4. sts.ann.type = "ScaleDown" => AtEdge(sts)'
    BY <1>0, <2>1 DEF SoundAction, AtEdge
  <2>5. ShrinkInv'
    BY <1>0, <1>4, <2>1, <2>2, <2>3, <2>4, ContinueKeeps
  <2> QED BY <1>2, <2>1, <2>5
<1>6. CASE Action.type = "ScaleDown"
  <2>1. Action.pod \in {sts.replicas - 1, sts.replicas}
    BY <1>0, <1>6, ActionFacts
  <2>2. Continue(AdvanceToNextPod(Action)) /\ UpdateStatefulSetReplicas(Action.pod)
    BY <1>4, <1>6 DEF AfterPodDeleted
  <2>3. NextOf(AdvanceToNextPod(Action))
    BY <1>0, ActionFacts, NewActionFields DEF NextOf, AdvanceToNextPod
  <2>4. /\ sts' = sts \/ sts' = [sts EXCEPT !.replicas = Action.pod]
        /\ FreshCache'
    BY <1>0, <2>2, WriteKeepsFreshCache DEF UpdateStatefulSetReplicas, WriteSts, FreshCache
  <2>5. /\ sts'.ann = sts.ann
        /\ sts'.replicas = sts.replicas \/ sts'.replicas = Action.pod
    BY <1>0, <2>4 DEF StatefulSet
  <2>6. sts'.replicas <= sts.replicas
    BY <1>2, <2>1, <2>5
  <2>7. sts.ann.type = "ScaleDown" => AtEdge(sts)'
    <3>1. sts.ann.type = "ScaleDown" => AtEdge(sts) /\ sts.ann.pod = Action.pod
      BY <1>0, ActionFacts DEF SoundAction
    <3> QED BY <2>5, <3>1 DEF AtEdge
  <2>8. ShrinkInv'
    BY <1>0, <1>4, <2>2, <2>3, <2>4, <2>5, <2>6, <2>7, ContinueKeeps
  <2>9. ~ Exists(Action.pod) \/ pods'[Action.pod].deleting
    BY <1>1, <1>4 DEF Exists, TypeOK, Pod
  <2> QED BY <1>2, <2>1, <2>5, <2>8, <2>9
<1> QED BY <1>0, <1>5, <1>6, ActionFacts

\* Nothing is left to work on: the spec no longer asks for fewer replicas.
LEMMA EndsAction ==
    ASSUME Faults \cap ShrinkFaults = {}, ShrinkInv, TypeOK', TriggerDrainNoPod \/ AlreadyDone
    PROVE  ShrinkInv'
<1>0. /\ TypeOK /\ pc = "graceful" /\ est.ann # NoAction /\ FreshCache /\ est.ann = sts.ann
      /\ est.replicas = sts.replicas /\ SoundAction(sts) /\ (FromSpec \/ FromSettled)
  BY DEF ShrinkInv, ReadReplicas, TriggerDrainNoPod, AlreadyDone, InPhase
<1>1. UNCHANGED <<spec, sts, cache, fresh, pods>>
  BY DEF TriggerDrainNoPod, AlreadyDone, sysVars
<1>2. /\ est.replicas \in Nat /\ st.replicas \in Nat /\ spec.replicas \in Nat
      /\ Action \in ActionRecord /\ st \in StatefulSet
  BY <1>0, Numbers, ActionType, ActionFields
<1>3. FromSpec
  BY <1>0 DEF FromSettled
<1>4. FreshCache' /\ SoundAction(sts)' /\ StartsUp'
  BY <1>0, <1>1 DEF FreshCache, SoundAction, AtEdge, StartsUp
<1>5. CASE Continue(Action)
  <2>1. NextOf(Action)
    BY <1>0, ActionFacts DEF NextOf
  <2>2. sts.ann.type = "ScaleDown" => AtEdge(sts)'
    BY <1>4, <1>1 DEF SoundAction
  <2>3. sts'.ann = sts.ann /\ sts'.replicas <= sts.replicas
    BY <1>0, <1>1, <1>2
  <2> QED BY <1>0, <1>1, <1>4, <1>5, <2>1, <2>2, <2>3, ContinueKeeps
<1>6. CASE TriggerDrainNoPod /\ ~ Continue(Action)
  <2>1. /\ SelectNextPod(est, Action) = NoOrdinal /\ pc' = "finalize"
        /\ st' = [st EXCEPT !.ann = [Action EXCEPT !.phase = "Done"]]
    BY <1>6 DEF TriggerDrainNoPod
  <2>2. Action.type = "ScaleDown" => spec.replicas >= est.replicas
    BY <1>0, <1>2, <2>1, ActionFacts DEF SelectNextPod, NoOrdinal
  <2>3. st.replicas >= sts.replicas
    BY <1>0, <1>2, <1>3, <2>2, ActionFacts DEF FromSpec
  <2>4. /\ st'.tmpl = st.tmpl /\ st'.replicas = st.replicas
        /\ st'.ann = [Action EXCEPT !.phase = "Done"]
    BY <1>2, <2>1 DEF StatefulSet
  <2>5. st'.ann.type = "RollingUpdate" \/ st'.ann.type = "ScaleDown"
    BY <1>0, <1>2, <2>4, ActionFacts DEF ActionRecord
  <2>6. FinalizeKeeps'
    BY <1>0, <1>1, <1>3, <2>3, <2>4, <2>5 DEF FinalizeKeeps, FromSpec
  <2> QED BY <1>4, <2>1, <2>6 DEF ShrinkInv, ReadReplicas, ApplyKeeps
<1>7. CASE AlreadyDone
  <2>1. Action.phase = "Done" /\ pc' = "finalize" /\ st' = [st EXCEPT !.ann = Action]
    BY <1>7 DEF AlreadyDone, InPhase
  <2>2. Action.type = "RollingUpdate" /\ st.replicas >= sts.replicas
    BY <1>0, <2>1, ActionFacts
  <2>3. st'.tmpl = st.tmpl /\ st'.replicas = st.replicas /\ st'.ann = Action
    BY <1>2, <2>1 DEF StatefulSet
  <2>4. FinalizeKeeps'
    BY <1>0, <1>1, <1>3, <2>2, <2>3 DEF FinalizeKeeps, FromSpec
  <2> QED BY <1>4, <2>1, <2>4 DEF ShrinkInv, ReadReplicas, ApplyKeeps
<1> QED BY <1>5, <1>6, <1>7

\* finalizeGracefulAction: the action is dropped with replicas that do not
\* shrink.
LEMMA FinalizesAction ==
    ASSUME Faults \cap ShrinkFaults = {}, ShrinkInv, TypeOK', FinalizeGracefulAction
    PROVE  ShrinkInv' /\ sts'.replicas = sts.replicas
<1>0. /\ TypeOK /\ FromSpec /\ sts.ann # NoAction /\ st.replicas >= sts.replicas
      /\ st.ann.type = "RollingUpdate" \/ st.ann.type = "ScaleDown"
      /\ FreshCache /\ SoundAction(sts) /\ StartsUp
  BY DEF ShrinkInv, FinalizeKeeps, FinalizeGracefulAction
<1>1. st \in StatefulSet /\ sts \in StatefulSet /\ st.replicas \in Nat /\ sts.replicas \in Nat
  BY <1>0, Numbers
<1>2. "api" \notin Faults
  BY DEF ShrinkFaults
<1>3. UNCHANGED <<spec, pods>> /\ pc' = "clear"
  BY DEF FinalizeGracefulAction, Continue
<1>4. CASE st.ann.type = "RollingUpdate" /\ Continue(st.ann) /\ UNCHANGED <<sts, cache, fresh>>
  <2>1. st'.ann = st.ann /\ st'.tmpl = st.tmpl /\ st'.replicas = st.replicas
    BY <1>0, <1>4, ContinueEffect
  <2>2. SoundAction(st)'
    BY <1>4, <2>1 DEF SoundAction
  <2>3. ApplyKeeps'
    BY <1>0, <1>4, <2>1, <2>2, NoActionFields DEF ApplyKeeps
  <2>4. FreshCache' /\ SoundAction(sts)' /\ StartsUp'
    BY <1>0, <1>3, <1>4 DEF FreshCache, SoundAction, AtEdge, StartsUp
  <2> QED BY <1>3, <1>4, <2>3, <2>4 DEF ShrinkInv, ReadReplicas, FinalizeKeeps
<1>5. CASE /\ WriteSts([sts EXCEPT !.ann = NoAction])
           /\ st' = [st EXCEPT !.ann = NoAction, !.strategy = "OnDelete", !.ru = FALSE]
  <2>1. sts'.ann = NoAction /\ sts'.replicas = sts.replicas
    BY <1>1, <1>5 DEF WriteSts, StatefulSet
  <2>2. st'.ann = NoAction /\ st'.tmpl = st.tmpl /\ st'.replicas = st.replicas
    BY <1>1, <1>5 DEF StatefulSet
  <2>3. NoAction.type = "None" /\ NoAction.phase = "TriggerDrain"
    BY NewActionFields DEF NoAction
  <2>4. SoundAction(st)' /\ SoundAction(sts)'
    BY <2>1, <2>2, <2>3 DEF SoundAction
  <2>5. ApplyKeeps'
    BY <1>0, <1>3, <2>1, <2>2, <2>3, <2>4 DEF ApplyKeeps, FromSpec
  <2>6. StartsUp'
    BY <1>0, <1>1, <1>3, <2>1 DEF StartsUp, FromSpec
  <2>7. FreshCache'
    BY <1>0, <1>5, WriteKeepsFreshCache
  <2> QED BY <1>3, <2>1, <2>4, <2>5, <2>6, <2>7 DEF ShrinkInv, ReadReplicas, FinalizeKeeps
<1> QED BY <1>2, <1>4, <1>5 DEF FinalizeGracefulAction

-----------------------------------------------------------------------------
(* The other steps. *)

\* Steps that leave alone what the invariant is about, but perhaps the pods.
LEMMA QuietStep ==
    ASSUME ShrinkInv, TypeOK', FreshCache',
           UNCHANGED <<spec, est, st>>,
           sts'.ann = sts.ann, sts'.replicas = sts.replicas, sts'.tmpl = sts.tmpl,
           pc' = pc \/ (pc = "clear" /\ pc' = "apply"),
           AllUp => AllUp'
    PROVE  ShrinkInv'
<1>1. SoundAction(sts)' /\ StartsUp'
  BY DEF ShrinkInv, SoundAction, AtEdge, StartsUp
<1>2. (FromSpec => FromSpec') /\ (FromSettled => FromSettled') /\ (SoundAction(st) => SoundAction(st)')
  BY DEF FromSpec, FromSettled, SoundAction, AtEdge
<1>3. ReadReplicas' /\ FinalizeKeeps' /\ ApplyKeeps'
  BY <1>2 DEF ShrinkInv, ReadReplicas, FinalizeKeeps, ApplyKeeps
<1> QED BY <1>1, <1>3 DEF ShrinkInv

LEMMA ReadsStatefulSet ==
    ASSUME Faults \cap ShrinkFaults = {}, ShrinkInv, TypeOK', PreApplyStatefulSet
    PROVE  ShrinkInv' /\ sts' = sts
<1>1. PICK next \in {"graceful", "status"} : \E p : Begin(next, p)
  BY DEF PreApplyStatefulSet, PreApplyNothing, ScaleOutByDrop, ScaleOutFails,
         StartDecommission, AwaitDecommission, FinishDecommission
<1>2. "stale" \notin Faults
  BY DEF ShrinkFaults
<1>3. /\ est' = sts /\ st' = NewStatefulset(spec) /\ pc' = next
      /\ UNCHANGED <<spec, sts, cache, fresh, pods>>
  BY <1>1, <1>2 DEF Begin, ShrinkInv, FreshCache
<1>4. st'.ann = NoAction /\ st'.tmpl = spec.tmpl /\ st'.replicas = spec.replicas
  BY <1>3, Zenon DEF NewStatefulset
<1>5. ReadReplicas'
  BY <1>3, <1>4 DEF ReadReplicas, FromSpec
<1>6. FreshCache' /\ SoundAction(sts)' /\ StartsUp'
  BY <1>3 DEF ShrinkInv, FreshCache, SoundAction, AtEdge, StartsUp, AllUp, Running
<1> QED BY <1>3, <1>5, <1>6 DEF ShrinkInv, FinalizeKeeps, ApplyKeeps

LEMMA ClearsRollingUpdate ==
    ASSUME ShrinkInv, TypeOK', ClearStatefulSetRollingUpdate
    PROVE  ShrinkInv' /\ sts'.replicas = sts.replicas
<1>1. sts \in StatefulSet /\ FreshCache
  BY Numbers DEF ShrinkInv
<1>2. sts'.ann = sts.ann /\ sts'.replicas = sts.replicas /\ sts'.tmpl = sts.tmpl
  BY <1>1 DEF ClearStatefulSetRollingUpdate, WriteSts, StatefulSet
<1>3. FreshCache'
  BY <1>1, WriteKeepsFreshCache DEF ClearStatefulSetRollingUpdate, FreshCache
<1>4. UNCHANGED <<spec, est, st, pods>> /\ pc = "clear" /\ pc' = "apply"
  BY DEF ClearStatefulSetRollingUpdate
<1>5. AllUp => AllUp'
  BY <1>2, <1>4 DEF AllUp, Running
<1> QED BY <1>2, <1>3, <1>4, <1>5, QuietStep

\* k8s.ApplyStatefulSet never takes replicas away.
LEMMA AppliesStatefulSet ==
    ASSUME ShrinkInv, TypeOK', ApplyStatefulSet
    PROVE  ShrinkInv' /\ sts'.replicas >= sts.replicas
<1>0. /\ TypeOK /\ FreshCache /\ SoundAction(sts) /\ StartsUp /\ st.replicas >= sts.replicas
      /\ SoundAction(st)
      /\ st.ann = NoAction => sts.ann = NoAction /\ (FromSpec \/ FromSettled)
  BY DEF ShrinkInv, ApplyKeeps, ApplyStatefulSet
<1>1. sts \in StatefulSet /\ st.replicas \in Nat /\ sts.replicas \in Nat /\ spec.replicas \in Nat
  BY <1>0, Numbers
<1>2. pc' \in {"status", "statusUpdated"} /\ UNCHANGED <<spec, st, pods>>
  BY DEF ApplyStatefulSet
<1>3. FreshCache'
  BY <1>0, WriteKeepsFreshCache DEF ApplyStatefulSet, FreshCache
<1>4. ReadReplicas' /\ FinalizeKeeps' /\ ApplyKeeps'
  BY <1>2 DEF ReadReplicas, FinalizeKeeps, ApplyKeeps
<1>5. CASE sts' = sts
  <2>1. SoundAction(sts)' /\ StartsUp'
    BY <1>0, <1>2, <1>5 DEF SoundAction, AtEdge, StartsUp, AllUp, Running
  <2> QED BY <1>1, <1>3, <1>4, <1>5, <2>1 DEF ShrinkInv
<1>6. CASE sts' = Merged
  <2>1. /\ sts'.tmpl = st.tmpl /\ sts'.replicas = st.replicas
        /\ sts'.ann = IF st.ann = NoAction THEN sts.ann ELSE st.ann
    BY <1>1, <1>6 DEF Merged, StatefulSet
  <2>2. CASE st.ann # NoAction
    BY <1>0, <1>2, <1>3, <1>4, <2>1, <2>2 DEF ShrinkInv, SoundAction, AtEdge, StartsUp
  <2>3. CASE st.ann = NoAction
    <3>1. sts'.ann = NoAction /\ sts.ann = NoAction
      BY <1>0, <2>1, <2>3
    <3>2. SoundAction(sts)'
      BY <1>0, <2>1, <2>3, <3>1, NoActionFields DEF SoundAction
    <3>3. CASE FromSpec
      <4>1. StartsUp'
        BY <1>1, <1>2, <2>1, <3>3 DEF StartsUp, FromSpec
      <4> QED BY <1>3, <1>4, <3>2, <4>1, <1>0, <2>1 DEF ShrinkInv
    <3>4. CASE FromSettled
      <4>1. StartsUp'
        BY <1>0, <1>2, <2>1, <3>1, <3>4 DEF StartsUp, FromSettled, AllUp, Running
      <4> QED BY <1>3, <1>4, <3>2, <4>1, <1>0, <2>1 DEF ShrinkInv
    <3> QED BY <1>0, <2>3, <3>3, <3>4
  <2> QED BY <2>2, <2>3
<1> QED BY <1>5, <1>6 DEF ApplyStatefulSet, WriteSts

LEMMA ForgetsReconcile ==
    ASSUME ShrinkInv, TypeOK', UpdateCGStatus \/ Crash
    PROVE  ShrinkInv' /\ sts' = sts
<1>1. pc' = "idle" /\ UNCHANGED <<spec, sts, cache, fresh, pods>>
  BY DEF UpdateCGStatus, Crash, Reset, sysVars
<1>2. FreshCache' /\ SoundAction(sts)' /\ StartsUp'
  BY <1>1 DEF ShrinkInv, FreshCache, SoundAction, AtEdge, StartsUp, AllUp, Running
<1> QED BY <1>1, <1>2 DEF ShrinkInv, ReadReplicas, FinalizeKeeps, ApplyKeeps

\* The user edits a settled group: its pods run, and no action is under way.
LEMMA EditsSettledGroup ==
    ASSUME Faults \cap ShrinkFaults = {}, ShrinkInv, TypeOK', EditSpec
    PROVE  ShrinkInv' /\ sts' = sts
<1>1. Settled
  BY DEF EditSpec, ShrinkFaults
<1>2. TypeOK /\ FreshCache /\ SoundAction(sts) /\ spec.replicas \in Nat
  BY Numbers DEF ShrinkInv
<1>3. sts.ann = NoAction /\ sts.tmpl = spec.tmpl /\ sts.replicas = spec.replicas
  BY <1>1 DEF Settled
<1>4. UNCHANGED <<sts, cache, fresh, pods, pc, est, st>>
  BY DEF EditSpec, opVars
<1>5. AllUp
  BY <1>1, <1>3 DEF Settled, Serving, AllUp, Running
<1>6. StartsUp' /\ FreshCache'
  BY <1>2, <1>4, <1>5 DEF StartsUp, AllUp, Running, FreshCache
<1>7. SoundAction(sts)'
  BY <1>2, <1>3, <1>4, NoActionFields DEF SoundAction
<1>8. FromSpec \/ FromSettled => FromSettled'
  BY <1>3, <1>4 DEF FromSpec, FromSettled
<1>9. ReadReplicas'
  BY <1>4, <1>8 DEF ShrinkInv, ReadReplicas
<1>10. pc # "finalize"
  BY <1>3 DEF ShrinkInv, FinalizeKeeps
<1>11. ApplyKeeps'
  <2> SUFFICES ASSUME pc \in {"clear", "apply"}
               PROVE  /\ (st.replicas >= sts.replicas)' /\ SoundAction(st)'
                      /\ (st.ann = NoAction => sts.ann = NoAction /\ (FromSpec \/ FromSettled))'
                      /\ st'.ann.type # "ScaleDown"
    BY <1>4 DEF ApplyKeeps
  <2>1. /\ st.replicas >= sts.replicas /\ SoundAction(st)
        /\ st.ann = NoAction => sts.ann = NoAction /\ (FromSpec \/ FromSettled)
        /\ st.ann.type # "ScaleDown"
    BY <1>2, <1>3 DEF ShrinkInv, ApplyKeeps
  <2>2. SoundAction(st)'
    BY <1>4, <2>1 DEF SoundAction
  <2> QED BY <1>4, <1>8, <2>1, <2>2
<1> QED BY <1>4, <1>6, <1>7, <1>9, <1>10, <1>11 DEF ShrinkInv, FinalizeKeeps

\* The StatefulSet controller, the kubelet, the FE and the cache: a pod that
\* runs the template and is neither drained nor deleted stays.
LEMMA ClusterKeepsPods ==
    ASSUME ShrinkInv, TypeOK',
           CacheSync \/ ForeignWrite \/ StsController \/ Kubelet \/ Frontend
    PROVE  ShrinkInv' /\ sts'.replicas = sts.replicas
<1>1. TypeOK /\ FreshCache /\ sts \in StatefulSet
  BY Numbers DEF ShrinkInv
<1>2. FreshCache' /\ UNCHANGED opVars
  BY <1>1, ClusterStepKeepsControl
<1>3. UNCHANGED <<spec, est, st, pc>>
  BY <1>2 DEF opVars, CacheSync, ForeignWrite, StsController, Kubelet, Frontend, StsPublishRevision,
              StsCompleteUpdate, StsCreatePod, StsScaleDown, StsRollingUpdate, PodReady, BEExit,
              KubeletRestart, PodGone, Heartbeat, TabletsMoved
<1>4. sts'.ann = sts.ann /\ sts'.replicas = sts.replicas /\ sts'.tmpl = sts.tmpl
  <2>1. CASE StsPublishRevision \/ StsCompleteUpdate
    BY <1>1, <2>1 DEF StsPublishRevision, StsCompleteUpdate, WriteSts, StatefulSet
  <2>2. CASE ~ (StsPublishRevision \/ StsCompleteUpdate)
    BY <2>2 DEF CacheSync, ForeignWrite, StsController, Kubelet, Frontend, StsCreatePod, StsScaleDown,
                StsRollingUpdate, PodReady, BEExit, KubeletRestart, PodGone, Heartbeat, TabletsMoved
  <2> QED BY <2>1, <2>2
<1>5. AllUp => AllUp'
  <2> SUFFICES ASSUME AllUp, NEW p \in Ordinals, p < sts.replicas
               PROVE  pods'[p].phase \in {"starting", "ready"} /\ ~ pods'[p].deleting
                      /\ ~ pods'[p].draining /\ pods'[p].rev = sts.tmpl
    BY <1>4 DEF AllUp, Running
  <2>1. /\ pods[p].phase \in {"starting", "ready"} /\ ~ pods[p].deleting
        /\ ~ pods[p].draining /\ pods[p].rev = sts.tmpl
    BY DEF AllUp, Running
  <2>2. pods \in [Ordinals -> Pod] /\ pods[p] \in Pod /\ sts.replicas \in Nat /\ p \in Nat
    BY <1>1, Numbers DEF TypeOK
  <2>3. CASE CacheSync \/ ForeignWrite \/ StsPublishRevision \/ StsCompleteUpdate \/ Frontend
    BY <2>1, <2>3 DEF CacheSync, ForeignWrite, StsPublishRevision, StsCompleteUpdate, Frontend,
                      Heartbeat, TabletsMoved
  <2>4. ASSUME NEW o \in Ordinals, StsCreatePod(o) \/ StsScaleDown(o) \/ StsRollingUpdate(o)
        PROVE  pods'[p] = pods[p]
    <3>1. o # p
      BY <2>1, <2>2, <2>4 DEF StsCreatePod, StsScaleDown, StsRollingUpdate, Exists
    <3> QED BY <2>2, <2>4, <3>1 DEF StsCreatePod, StsScaleDown, StsRollingUpdate
  <2>5. ASSUME NEW o \in Ordinals, BEExit(o) \/ KubeletRestart(o) \/ PodGone(o)
        PROVE  pods'[p] = pods[p]
    <3>1. o # p
      BY <2>1, <2>5 DEF BEExit, KubeletRestart, PodGone
    <3> QED BY <2>2, <2>5, <3>1 DEF BEExit, KubeletRestart, PodGone
  <2>6. ASSUME NEW o \in Ordinals, PodReady(o)
        PROVE  pods'[p] = pods[p] \/ pods'[p] = [pods[p] EXCEPT !.phase = "ready"]
    BY <2>2, <2>6 DEF PodReady
  <2>7. /\ [pods[p] EXCEPT !.phase = "ready"].phase = "ready"
        /\ [pods[p] EXCEPT !.phase = "ready"].deleting = pods[p].deleting
        /\ [pods[p] EXCEPT !.phase = "ready"].draining = pods[p].draining
        /\ [pods[p] EXCEPT !.phase = "ready"].rev = pods[p].rev
    BY <2>2 DEF Pod
  <2>8. CASE \E o \in Ordinals : StsCreatePod(o) \/ StsScaleDown(o) \/ StsRollingUpdate(o)
    BY <2>1, <2>4, <2>8
  <2>9. CASE Kubelet
    BY <2>1, <2>5, <2>6, <2>7, <2>9 DEF Kubelet
  <2> QED BY <2>3, <2>8, <2>9 DEF StsController
<1> QED BY <1>2, <1>3, <1>4, <1>5, QuietStep

-----------------------------------------------------------------------------
(* The theorem. *)

ShrinksGracefully ==
    sts'.replicas < sts.replicas
    => /\ sts'.replicas = sts.replicas - 1
       /\ ~ Exists(sts'.replicas) \/ pods'[sts'.replicas].deleting

LEMMA ShrinkStep ==
    ASSUME Faults \cap ShrinkFaults = {}, ShrinkInv, TypeOK', [Next]_vars
    PROVE  ShrinkInv' /\ ShrinksGracefully
<1>0. sts.replicas \in Nat /\ (sts'.replicas >= sts.replicas => ShrinksGracefully)
  <2>1. sts.replicas \in Nat
    BY Numbers DEF ShrinkInv
  <2>2. sts' \in StatefulSet
    BY DEF TypeOK
  <2>3. sts'.replicas \in 0..MaxReplicas /\ MaxReplicas \in Nat
    BY <2>2, StatefulSetFields, Numbers DEF ShrinkInv
  <2> QED BY <2>1, <2>3 DEF ShrinksGracefully
<1>1. CASE UNCHANGED vars
  <2>1. FreshCache' /\ (AllUp => AllUp')
    BY <1>1 DEF vars, ShrinkInv, FreshCache, AllUp, Running
  <2> QED BY <1>0, <1>1, <2>1, QuietStep DEF vars
<1>2. CASE PreApplyStatefulSet
  BY <1>0, <1>2, ReadsStatefulSet
<1>3. CASE NoGracefulAction \/ StartGracefulAction
  BY <1>0, <1>3, BeginsAction DEF NoGracefulAction, StartGracefulAction, sysVars
<1>4. CASE TriggerDrain \/ WaitDrain \/ WaitDrainOver \/ WaitPodReady \/ WaitBEAlive
  <2>1. sts' = sts
    BY <1>4 DEF TriggerDrain, WaitDrain, WaitDrainOver, WaitPodReady, WaitBEAlive, sysVars
  <2>2. ShrinkInv'
    BY <1>4, GoesOn
  <2> QED BY <1>0, <2>1, <2>2
<1>5. CASE TriggerDrainNoPod \/ AlreadyDone
  BY <1>0, <1>5, EndsAction DEF TriggerDrainNoPod, AlreadyDone, sysVars
<1>6. CASE DeletePod
  BY <1>6, DeletesPod DEF ShrinksGracefully
<1>7. CASE FinalizeGracefulAction
  BY <1>0, <1>7, FinalizesAction
<1>8. CASE ClearStatefulSetRollingUpdate
  BY <1>0, <1>8, ClearsRollingUpdate
<1>9. CASE ApplyStatefulSet
  BY <1>0, <1>9, AppliesStatefulSet
<1>10. CASE UpdateCGStatus \/ Crash
  BY <1>0, <1>10, ForgetsReconcile
<1>11. CASE EditSpec
  BY <1>0, <1>11, EditsSettledGroup
<1>12. CASE CacheSync \/ ForeignWrite \/ StsController \/ Kubelet \/ Frontend
  BY <1>0, <1>12, ClusterKeepsPods
<1> QED BY <1>1, <1>2, <1>3, <1>4, <1>5, <1>6, <1>7, <1>8, <1>9, <1>10, <1>11, <1>12
        DEF Next, Operator, GracefulRolloutReconcile

\* The StatefulSet shrinks by one replica at a time, and only past a pod that
\* handleDeletePod has deleted, whatever else happens: conflicting writers,
\* restarts of the operator, failed statements, late revisions and deadlines,
\* any number of edits of a settled group.  Each of the excluded faults has a
\* path by which an apply takes several replicas away at once.
THEOREM ShrinkCorrect ==
    ASSUME Faults \cap ShrinkFaults = {}
    PROVE  Spec => GracefulShrink
<1>1. Init => ShrinkInv
  <2> SUFFICES ASSUME Init PROVE ShrinkInv
    OBVIOUS
  <2>1. TypeOK /\ FreshCache /\ pc = "idle" /\ spec.replicas \in Nat
    BY InitType, Numbers DEF Init, FreshCache
  <2>2. sts.ann = NoAction /\ sts.replicas = spec.replicas
    <3>1. /\ NewStatefulset(spec).ann = NoAction
          /\ NewStatefulset(spec).replicas = spec.replicas
          /\ [NewStatefulset(spec) EXCEPT !.updRev = 1, !.curRev = 1].ann = NoAction
          /\ [NewStatefulset(spec) EXCEPT !.updRev = 1, !.curRev = 1].replicas = spec.replicas
      BY Zenon DEF NewStatefulset
    <3> QED BY <3>1 DEF Init
  <2>3. SoundAction(sts)
    BY <2>2, NewActionFields DEF SoundAction, NoAction
  <2> QED BY <2>1, <2>2, <2>3
          DEF ShrinkInv, ReadReplicas, FinalizeKeeps, ApplyKeeps, StartsUp
<1>2. ShrinkInv /\ TypeOK' /\ [Next]_vars => ShrinkInv'
  BY ShrinkStep
<1>3. ShrinkInv /\ TypeOK' /\ [Next]_vars
      => [sts'.replicas < sts.replicas
          => /\ sts'.replicas = sts.replicas - 1
             /\ ~ Exists(sts'.replicas) \/ pods'[sts'.replicas].deleting]_vars
  BY ShrinkStep DEF ShrinksGracefully
<1> QED BY <1>1, <1>2, <1>3, TypeCorrect, PTL DEF Spec, GracefulShrink

-----------------------------------------------------------------------------
(* Backends that are dropped. *)

\* Phases in which a reconcile takes backends away whatever the replicas are.
Failing == {"Decommissioning", "ScaleDownFailed"}

\* The backends the user keeps are known to the FE and hold their tablets.
Kept == \A o \in Ordinals : o < spec.replicas => be[o].listed /\ be[o].decom = "no"

Unmarked == \A o \in Ordinals : be[o].decom = "no"

\* What DropOnlyEmptyBackends says of a step.
DropsOnlyEmpty == \A o \in Ordinals : be[o].listed /\ ~ be'[o].listed => be[o].decom = "done"

\* The counters of GetDecommissionPhase tell that every backend above the kept
\* ones is empty, because the kept ones account for all that are not marked.
LEMMA DropsOnlyDone ==
    ASSUME TypeOK, Kept, DecommissionProgress = "Decommissioned",
           NEW o \in Ordinals, Dropped(spec.replicas)[o] # be[o]
    PROVE  be[o].decom = "done"
<1> DEFINE L == Listed
           U == {x \in L : be[x].decom = "no"}
           M == {x \in L : be[x].decom = "moving"}
           D == {x \in L : be[x].decom = "done"}
           K == 0..(spec.replicas - 1)
<1>1. DOMAIN BackendList = L /\ \A x \in L : BackendList[x] = be[x]
  BY DEF BackendList
<1>2. o \in L /\ o >= spec.replicas /\ cgid
  BY <1>1 DEF Dropped, ScaledOut, Listed
<1>3. spec.replicas \in Nat /\ MaxReplicas \in Nat /\ spec.replicas <= MaxReplicas
  BY Numbers DEF TypeOK
<1>4. IsFiniteSet(L)
  <2>1. IsFiniteSet(Ordinals)
    BY <1>3, FS_Interval DEF Ordinals
  <2> QED BY <2>1, FS_Subset DEF Listed
<1>5. IsFiniteSet(U) /\ IsFiniteSet(D) /\ IsFiniteSet(U \cup D) /\ Cardinality(U) \in Nat
  BY <1>4, FS_Subset, FS_CardinalityType
<1>6. /\ CountDecom(BackendList, "no") = Cardinality(U)
      /\ CountDecom(BackendList, "moving") = Cardinality(M)
      /\ CountDecom(BackendList, "done") = Cardinality(D)
  <2>1. \A d : {x \in DOMAIN BackendList : BackendList[x].decom = d} = {x \in L : be[x].decom = d}
    BY <1>1
  <2> QED BY <2>1 DEF CountDecom
<1>7. Cardinality(U) = spec.replicas /\ Cardinality(U) + Cardinality(D) = Cardinality(L)
  <2> DEFINE d == ConstructDecommissionTaskStatus(BackendList, spec.replicas)
  <2>1. /\ d.all = Cardinality(L) /\ d.undec = Cardinality(U) /\ d.done = Cardinality(D)
        /\ d.keep = spec.replicas
    BY <1>1, <1>6 DEF ConstructDecommissionTaskStatus
  <2>2. GetDecommissionPhase(d) = "Decommissioned"
    BY DEF DecommissionProgress
  <2> HIDE DEF d
  <2> QED BY <2>1, <2>2 DEF GetDecommissionPhase
<1>8. K \subseteq U
  BY <1>2, <1>3 DEF Kept, Listed, Ordinals
<1>9. Cardinality(K) = spec.replicas
  <2>1. spec.replicas - 1 \in Int /\ 0 \in Int
    BY <1>3
  <2>2. Cardinality(K) = IF 0 > spec.replicas - 1 THEN 0 ELSE (spec.replicas - 1) - 0 + 1
    BY <2>1, FS_Interval, Zenon
  <2> HIDE DEF K
  <2> QED BY <1>3, <2>2
<1>10. K = U
  <2> HIDE DEF K, U
  <2> QED BY <1>5, <1>7, <1>8, <1>9, FS_Subset
<1>11. U \cap D = {} /\ U \cup D \subseteq L
  OBVIOUS
<1>12. Cardinality(U \cup D) = Cardinality(L)
  <2>1. Cardinality(U \cup D) = Cardinality(U) + Cardinality(D) - Cardinality(U \cap D)
    <3> HIDE DEF U, D
    <3> QED BY <1>5, FS_Union
  <2>2. Cardinality(U \cap D) = 0
    BY <1>11, FS_EmptySet
  <2>3. Cardinality(D) \in Nat
    BY <1>5, FS_CardinalityType
  <2> HIDE DEF U, D, L
  <2> QED BY <1>5, <1>7, <2>1, <2>2, <2>3
<1>13. U \cup D = L
  <2> HIDE DEF U, D, L
  <2> QED BY <1>4, <1>11, <1>12, FS_Subset
<1>14. o \notin K
  BY <1>2, <1>3
<1> QED BY <1>2, <1>10, <1>13, <1>14

\* What the steps do to the backends: only a reconcile that begins unlists or
\* marks one, and never one the user keeps.
LEMMA BeginBackends ==
    ASSUME TypeOK, EnableDecommission, PreApplyStatefulSet
    PROVE  /\ \A o \in Ordinals : o < spec.replicas => be'[o] = be[o]
           /\ \A o \in Ordinals : be'[o].decom # "no" => be[o].decom # "no" \/ (cgid /\ be[o].listed)
           /\ \A o \in Ordinals : be'[o] # be[o] => be'[o] = NoBackend \/ be'[o].listed
           /\ be' = be \/ ScaleDownOperation
           /\ Kept => DropsOnlyEmpty
           /\ ~ ScaleDownOperation => be' = be
<1>1. be \in [Ordinals -> Backend] /\ spec.replicas \in Nat /\ \A o \in Ordinals : o \in Nat
  BY Numbers DEF TypeOK
<1>2. /\ \A o \in Ordinals : o < spec.replicas => Dropped(spec.replicas)[o] = be[o]
      /\ \A o \in Ordinals : o < spec.replicas => Decommissioned(spec.replicas)[o] = be[o]
  BY <1>1 DEF Dropped, Decommissioned, ScaledOut
<1>3. \A o \in Ordinals : Dropped(spec.replicas)[o] = be[o] \/ Dropped(spec.replicas)[o] = NoBackend
  BY DEF Dropped
<1>4. \A o \in Ordinals :
        \/ Decommissioned(spec.replicas)[o] = be[o]
        \/ /\ Decommissioned(spec.replicas)[o] = [be[o] EXCEPT !.decom = "moving"]
           /\ cgid /\ be[o].listed
  BY DEF Decommissioned, ScaledOut, BackendList, Listed
<1>5. \A o \in Ordinals : be[o].listed => [be[o] EXCEPT !.decom = "moving"].listed
  BY <1>1 DEF Backend
<1>6. NoBackend.decom = "no"
  BY DEF NoBackend
<1>7. CASE be' = be
  BY <1>7 DEF DropsOnlyEmpty
<1>8. CASE FinishDecommission /\ be' = Dropped(spec.replicas)
  <2>1. Kept => DropsOnlyEmpty
    <3> SUFFICES ASSUME Kept, NEW o \in Ordinals, be[o].listed, ~ be'[o].listed
                 PROVE  be[o].decom = "done"
      BY DEF DropsOnlyEmpty
    <3>1. Dropped(spec.replicas)[o] # be[o]
      BY <1>8
    <3> QED BY <1>8, <3>1, DropsOnlyDone DEF FinishDecommission
  <2> QED BY <1>2, <1>3, <1>6, <1>8, <2>1 DEF FinishDecommission
<1>9. CASE StartDecommission
  <2>1. be' = Decommissioned(spec.replicas) /\ ScaleDownOperation
    BY <1>9 DEF StartDecommission
  <2>2. DropsOnlyEmpty
    BY <1>4, <1>5, <2>1 DEF DropsOnlyEmpty
  <2> QED BY <1>2, <1>4, <1>5, <2>1, <2>2
<1> QED BY <1>7, <1>8, <1>9
        DEF PreApplyStatefulSet, PreApplyNothing, ScaleOutByDrop, ScaleOutFails, StartDecommission,
            AwaitDecommission, FinishDecommission

\* The kubelet registers backends and the FE follows them; nothing else
\* touches them.
LEMMA OtherBackends ==
    ASSUME TypeOK, Next, ~ PreApplyStatefulSet
    PROVE  \A o \in Ordinals : /\ be[o].listed => be'[o].listed
                               /\ be'[o].decom = be[o].decom \/ (be[o].decom = "moving" /\ be'[o].listed)
<1>1. be \in [Ordinals -> Backend]
  BY DEF TypeOK
<1>2. ASSUME NEW p \in Ordinals, PodReady(p) \/ Heartbeat(p) \/ TabletsMoved(p), NEW o \in Ordinals
      PROVE  /\ be[o].listed => be'[o].listed
             /\ be'[o].decom = be[o].decom \/ (be[o].decom = "moving" /\ be'[o].listed)
  <2>0. be[o] \in Backend
    BY <1>1
  <2>1. CASE PodReady(p)
    BY <1>1, <2>0, <2>1 DEF PodReady, Backend
  <2>2. CASE Heartbeat(p)
    <3>1. \/ be'[o] = be[o]
          \/ be'[o] = [be[o] EXCEPT !.alive = TRUE, !.shutdown = pods[o].draining, !.gen = starts[o]]
          \/ be'[o] = [be[o] EXCEPT !.alive = FALSE]
      BY <1>1, <2>2 DEF Heartbeat
    <3> QED BY <2>0, <3>1 DEF Backend
  <2>3. CASE TabletsMoved(p)
    BY <1>1, <2>0, <2>3 DEF TabletsMoved, Backend
  <2> QED BY <1>2, <2>1, <2>2, <2>3
<1>3. CASE \E p \in Ordinals : PodReady(p) \/ Heartbeat(p) \/ TabletsMoved(p)
  BY <1>2, <1>3
<1>4. CASE ~ \E p \in Ordinals : PodReady(p) \/ Heartbeat(p) \/ TabletsMoved(p)
  <2>1. CASE GracefulRolloutReconcile
    BY <2>1 DEF GracefulRolloutReconcile, NoGracefulAction, StartGracefulAction, TriggerDrainNoPod,
                TriggerDrain, WaitDrain, WaitDrainOver, DeletePod, WaitPodReady, WaitBEAlive,
                AlreadyDone, FinalizeGracefulAction, sysVars
  <2>2. CASE ClearStatefulSetRollingUpdate \/ ApplyStatefulSet \/ UpdateCGStatus \/ Crash
    BY <2>2 DEF ClearStatefulSetRollingUpdate, ApplyStatefulSet, UpdateCGStatus, Crash, sysVars
  <2>3. CASE CacheSync \/ ForeignWrite \/ EditSpec \/ StsController \/ Kubelet \/ Frontend
    BY <1>4, <2>3 DEF CacheSync, ForeignWrite, EditSpec, StsController, Kubelet, Frontend,
                      StsPublishRevision, StsCompleteUpdate, StsCreatePod, StsScaleDown,
                      StsRollingUpdate, BEExit, KubeletRestart, PodGone
  <2> QED BY <2>1, <2>2, <2>3 DEF Next, Operator
<1> QED BY <1>3, <1>4

LEMMA SpecStays ==
    ASSUME Next, ~ EditSpec
    PROVE  UNCHANGED <<spec, edits>>
<1>1. CASE PreApplyStatefulSet
  BY <1>1 DEF PreApplyStatefulSet, PreApplyNothing, ScaleOutByDrop, ScaleOutFails, StartDecommission,
              AwaitDecommission, FinishDecommission, Begin
<1>2. CASE GracefulRolloutReconcile
  BY <1>2 DEF GracefulRolloutReconcile, NoGracefulAction, StartGracefulAction, TriggerDrainNoPod,
              TriggerDrain, WaitDrain, WaitDrainOver, DeletePod, WaitPodReady, WaitBEAlive,
              AlreadyDone, FinalizeGracefulAction, sysVars
<1>3. CASE ClearStatefulSetRollingUpdate \/ ApplyStatefulSet \/ UpdateCGStatus \/ Crash
  BY <1>3 DEF ClearStatefulSetRollingUpdate, ApplyStatefulSet, UpdateCGStatus, Crash, sysVars
<1>4. CASE CacheSync \/ ForeignWrite \/ StsController \/ Kubelet \/ Frontend
  BY <1>4 DEF CacheSync, ForeignWrite, StsController, Kubelet, Frontend,
              StsPublishRevision, StsCompleteUpdate, StsCreatePod, StsScaleDown, StsRollingUpdate,
              PodReady, BEExit, KubeletRestart, PodGone, Heartbeat, TabletsMoved
<1> QED BY <1>1, <1>2, <1>3, <1>4 DEF Next, Operator

\* A running action keeps its type; a scale-down works on its pod, on the last
\* one, or on none yet.
LEMMA ContinuesWith ==
    ASSUME TypeOK, TriggerDrain \/ WaitDrain \/ WaitDrainOver \/ DeletePod \/ WaitPodReady \/ WaitBEAlive
    PROVE  \/ StateMachineError(Action)
           \/ \E ga : /\ Continue(ga) /\ ga.type = Action.type
                      /\ ga.type # "RollingUpdate" => ga.pod \in {Action.pod, NoOrdinal, est.replicas - 1}
<1> DEFINE Fits(ga) == /\ ga.type = Action.type
                       /\ ga.type # "RollingUpdate" => ga.pod \in {Action.pod, NoOrdinal, est.replicas - 1}
<1>1. Action \in ActionRecord
  BY ActionType, ActionFields
<1>2. Fits(Action)
  OBVIOUS
<1>3. Fits(AdvanceToNextPod(Action))
  BY DEF AdvanceToNextPod, NewAction
<1>4. \A p : Fits([Action EXCEPT !.phase = p])
  BY <1>1 DEF ActionRecord
<1>5. \A b : Fits(Observe(b, Action))
  BY <1>1 DEF ActionRecord, Observe
<1>6. CASE TriggerDrain
  <2> DEFINE o == SelectNextPod(est, Action)
             ga == [Action EXCEPT !.pod = o, !.phase = "WaitDrain"]
  <2>1. o # NoOrdinal
    BY <1>6 DEF TriggerDrain
  <2>2. Action.type # "RollingUpdate" => o = est.replicas - 1
    BY <2>1 DEF SelectNextPod
  <2> HIDE DEF o
  <2>3. Fits([ga EXCEPT !.phase = "WaitPodReady"])
    BY <1>1, <2>2 DEF ActionRecord
  <2>4. \A r, g : Fits([ga EXCEPT !.initRestarts = r, !.initGen = g])
    BY <1>1, <2>2 DEF ActionRecord
  <2>5. \/ Continue([ga EXCEPT !.phase = "WaitPodReady"]) \/ Continue(AdvanceToNextPod(Action))
        \/ \E r, g : Continue([ga EXCEPT !.initRestarts = r, !.initGen = g])
    BY <1>6 DEF TriggerDrain, o
  <2> HIDE DEF ga, Fits
  <2>6. \E next : Continue(next) /\ Fits(next)
    BY <1>3, <2>3, <2>4, <2>5
  <2> QED BY <2>6 DEF Fits
<1>7. CASE WaitDrain
  BY <1>2, <1>7 DEF WaitDrain
<1>8. CASE WaitDrainOver
  <2> HIDE DEF Fits
  <2>1. \E ga : Continue(ga) /\ Fits(ga)
    BY <1>3, <1>4, <1>8 DEF WaitDrainOver
  <2> QED BY <2>1 DEF Fits
<1>9. CASE DeletePod
  <2> HIDE DEF Fits
  <2>1. StateMachineError(Action) \/ \E ga : Continue(ga) /\ Fits(ga)
    BY <1>3, <1>4, <1>9 DEF DeletePod, AfterPodDeleted
  <2> QED BY <2>1 DEF Fits
<1>10. CASE WaitPodReady
  <2> HIDE DEF Fits
  <2>1. \E ga : Continue(ga) /\ Fits(ga)
    BY <1>2, <1>4, <1>10 DEF WaitPodReady
  <2> QED BY <2>1 DEF Fits
<1>11. CASE WaitBEAlive
  <2> HIDE DEF Fits
  <2>1. \E ga : Continue(ga) /\ Fits(ga)
    BY <1>2, <1>3, <1>5, <1>11 DEF WaitBEAlive
  <2> QED BY <2>1 DEF Fits
<1> QED BY <1>6, <1>7, <1>8, <1>9, <1>10, <1>11

-----------------------------------------------------------------------------
(* One edit, whatever fails. *)

\* Until the edit, and after one that asks for no fewer replicas, nothing is
\* scaled down.
GrowsOnly ==
    /\ \A s \in {sts, cache, est, st} : /\ s.replicas <= spec.replicas
                                        /\ s.ann = NoAction \/ s.ann.type = "RollingUpdate"
    /\ pc = "graceful" => est.replicas <= st.replicas
    /\ phase \notin Failing /\ cur \notin Failing /\ Unmarked

OneEditInv == GrowsOnly \/ (edits >= MaxEdits /\ Kept)

LEMMA KeepsBackends ==
    ASSUME EnableDecommission, TypeOK, edits >= MaxEdits, Kept, [Next]_vars
    PROVE  (edits >= MaxEdits /\ Kept)' /\ DropsOnlyEmpty
<1>1. ~ EditSpec
  BY ConstantsAssumption DEF ConstantsAssumption, EditSpec, TypeOK
<1>2. CASE UNCHANGED vars
  BY <1>2 DEF vars, Kept, DropsOnlyEmpty
<1>3. CASE PreApplyStatefulSet
  BY <1>1, <1>3, SpecStays, BeginBackends DEF Kept, Next, Operator
<1>4. CASE Next /\ ~ PreApplyStatefulSet
  BY <1>1, <1>4, SpecStays, OtherBackends DEF Kept, DropsOnlyEmpty
<1> QED BY <1>2, <1>3, <1>4

\* The state machine of a group that only grows rolls pods.
LEMMA RollsOnly ==
    ASSUME TypeOK, GrowsOnly, GracefulRolloutReconcile
    PROVE  /\ st'.replicas = st.replicas /\ est' = est /\ sts'.replicas = sts.replicas
           /\ st'.ann \in {st.ann, NoAction} \/ st'.ann.type = "RollingUpdate"
           /\ sts'.ann = sts.ann \/ sts'.ann = NoAction
           /\ pc' # "graceful" /\ cur' \notin Failing /\ cache' = cache
<1>0. /\ st \in StatefulSet /\ sts \in StatefulSet /\ est.replicas \in Nat /\ st.replicas \in Nat
      /\ est.ann \in ActionRecord /\ Action \in ActionRecord
  BY Numbers, ActionType, ActionFields
<1>1. \A ga : ActionPhase(ga) \notin Failing
  BY DEF ActionPhase, Failing
<1>2. \A ga : Continue(ga) /\ ga.type = "RollingUpdate" =>
         st'.replicas = st.replicas /\ st'.ann = ga /\ pc' = "clear" /\ est' = est /\ cur' \notin Failing
  BY <1>1, ContinueEffect DEF Continue
<1>3. /\ sts'.ann = sts.ann \/ sts'.ann = NoAction
      /\ pc' # "graceful"
  BY GracefulStep
<1>4. CASE NoGracefulAction \/ StartGracefulAction
  <2>1. Detected.type # "ScaleDown"
    BY <1>0, <1>4, DetectedFacts DEF GrowsOnly, NoGracefulAction, StartGracefulAction
  <2>2. Detected = NoAction \/ Detected.type = "RollingUpdate"
    BY <2>1, DetectedFacts
  <2> QED BY <1>2, <1>3, <1>4, <2>2
          DEF GrowsOnly, NoGracefulAction, StartGracefulAction, sysVars
<1>5. ASSUME pc = "graceful", est.ann # NoAction
      PROVE  Action.type = "RollingUpdate"
  <2>1. est.ann.type = "RollingUpdate"
    BY <1>5 DEF GrowsOnly
  <2>2. Detected.type # "ScaleDown"
    BY <1>0, <1>5, DetectedFacts DEF GrowsOnly
  <2>3. ~ (GracefulActionPriority(Detected.type) > GracefulActionPriority("RollingUpdate"))
    BY <2>2, DetectedFacts DEF GracefulActionPriority
  <2>4. Action = RefreshTarget(est, est.ann)
    BY <2>1, <2>3 DEF Action, ChooseAction
  <2> QED BY <1>0, <2>1, <2>4 DEF RefreshTarget, ActionRecord
<1>6. CASE TriggerDrain \/ WaitDrain \/ WaitDrainOver \/ DeletePod \/ WaitPodReady \/ WaitBEAlive
  <2>1. Action.type = "RollingUpdate"
    BY <1>5, <1>6 DEF TriggerDrain, WaitDrain, WaitDrainOver, DeletePod, WaitPodReady, WaitBEAlive, InPhase
  <2>2. sts' = sts /\ cache' = cache
    BY <1>6, <2>1 DEF TriggerDrain, WaitDrain, WaitDrainOver, DeletePod, AfterPodDeleted, WaitPodReady,
                      WaitBEAlive, sysVars
  <2>3. StateMachineError(Action) => st'.replicas = st.replicas /\ st'.ann = st.ann /\ est' = est
                                     /\ cur' \notin Failing
    BY <1>0, <1>1 DEF StateMachineError, StatefulSet
  <2> QED BY <1>2, <1>3, <1>6, <2>1, <2>2, <2>3, ContinuesWith
<1>7. CASE TriggerDrainNoPod
  <2>1. Action.type = "RollingUpdate"
    BY <1>5, <1>7 DEF TriggerDrainNoPod, InPhase
  <2>2. \/ Continue(Action)
        \/ /\ st' = [st EXCEPT !.ann = [Action EXCEPT !.phase = "Done"]]
           /\ cur' = ActionPhase(Action) /\ est' = est
    BY <1>7 DEF TriggerDrainNoPod
  <2>3. sts' = sts /\ cache' = cache
    BY <1>7 DEF TriggerDrainNoPod, sysVars
  <2>4. [Action EXCEPT !.phase = "Done"].type = Action.type
    BY <1>0 DEF ActionRecord
  <2>5. \A a : [st EXCEPT !.ann = a].ann = a /\ [st EXCEPT !.ann = a].replicas = st.replicas
    BY <1>0 DEF StatefulSet
  <2> QED BY <1>1, <1>2, <1>3, <2>1, <2>2, <2>3, <2>4, <2>5
<1>8. CASE AlreadyDone
  <2>1. Action.type = "RollingUpdate"
    BY <1>5, <1>8 DEF AlreadyDone, InPhase
  <2>2. /\ st' = [st EXCEPT !.ann = Action] /\ cur' = ActionPhase(Action) /\ est' = est
        /\ sts' = sts /\ cache' = cache
    BY <1>8 DEF AlreadyDone, sysVars
  <2>3. st'.ann = Action /\ st'.replicas = st.replicas
    BY <1>0, <2>2 DEF StatefulSet
  <2> QED BY <1>1, <1>3, <2>1, <2>2, <2>3
<1>9. CASE FinalizeGracefulAction
  <2>1. cache' = cache /\ est' = est
    BY <1>9 DEF FinalizeGracefulAction, Continue, WriteSts
  <2>2. sts'.replicas = sts.replicas
    BY <1>0, <1>9 DEF FinalizeGracefulAction, WriteSts, StatefulSet
  <2>3. \/ Continue(st.ann) /\ st.ann.type = "RollingUpdate"
        \/ /\ st' = [st EXCEPT !.ann = NoAction, !.strategy = "OnDelete", !.ru = FALSE]
           /\ cur' = "Reconciling"
    BY <1>9 DEF FinalizeGracefulAction
  <2>4. /\ [st EXCEPT !.ann = NoAction, !.strategy = "OnDelete", !.ru = FALSE].replicas = st.replicas
        /\ [st EXCEPT !.ann = NoAction, !.strategy = "OnDelete", !.ru = FALSE].ann = NoAction
    BY <1>0 DEF StatefulSet
  <2>5. "Reconciling" \notin Failing
    BY DEF Failing
  <2> QED BY <1>2, <1>3, <2>1, <2>2, <2>3, <2>4, <2>5
<1> QED BY <1>4, <1>6, <1>7, <1>8, <1>9 DEF GracefulRolloutReconcile

LEMMA GrowsOnlyStep ==
    ASSUME TypeOK, GrowsOnly, [Next]_vars, spec'.replicas >= spec.replicas
    PROVE  GrowsOnly' /\ DropsOnlyEmpty
<1> USE DEF GrowsOnly
<1>0. /\ spec.replicas \in Nat /\ MaxReplicas \in Nat /\ sts \in StatefulSet
      /\ \A s \in {sts, est, st, cache} : s.replicas \in Nat
      /\ NoSts.replicas = 0 /\ NoSts.ann = NoAction
  BY Numbers, Zenon DEF NoSts, NewStatefulset
<1>1. CASE UNCHANGED vars
  BY <1>1 DEF vars, Unmarked, DropsOnlyEmpty
<1>2. CASE PreApplyStatefulSet
  <2>1. ~ ScaleDownOperation
    BY <1>0 DEF ScaleDownOperation, Failing
  <2>2. Begin("graceful", phase) /\ be' = be
    BY <1>2, <2>1 DEF PreApplyStatefulSet, PreApplyNothing, ScaleOutByDrop, ScaleOutFails,
                      StartDecommission, AwaitDecommission, FinishDecommission
  <2>3. NewStatefulset(spec).replicas = spec.replicas /\ NewStatefulset(spec).ann = NoAction
    BY Zenon DEF NewStatefulset
  <2>4. GrowsOnly'
    BY <1>0, <2>2, <2>3 DEF Begin, Unmarked
  <2> QED BY <2>2, <2>4 DEF DropsOnlyEmpty
<1>3. CASE Next /\ ~ PreApplyStatefulSet
  <2>1. DropsOnlyEmpty
    BY <1>3, OtherBackends DEF DropsOnlyEmpty
  <2>2. Unmarked'
    BY <1>3, OtherBackends DEF Unmarked
  <2>3. CASE GracefulRolloutReconcile
    <3>1. UNCHANGED <<spec, phase>>
      BY <2>3 DEF GracefulRolloutReconcile, NoGracefulAction, StartGracefulAction, TriggerDrainNoPod,
                  TriggerDrain, WaitDrain, WaitDrainOver, DeletePod, WaitPodReady, WaitBEAlive,
                  AlreadyDone, FinalizeGracefulAction, sysVars
    <3>2. GrowsOnly'
      BY <2>2, <2>3, <3>1, RollsOnly
    <3> QED BY <2>1, <3>2
  <2>4. CASE ClearStatefulSetRollingUpdate
    <3>1. sts'.replicas = sts.replicas /\ sts'.ann = sts.ann
      BY <1>0, <2>4 DEF ClearStatefulSetRollingUpdate, WriteSts, StatefulSet
    <3>2. UNCHANGED <<spec, phase, est, st, cur, cache>> /\ pc' # "graceful"
      BY <2>4 DEF ClearStatefulSetRollingUpdate, WriteSts
    <3> QED BY <2>1, <2>2, <3>1, <3>2
  <2>5. CASE ApplyStatefulSet
    <3>1. /\ Merged.replicas = st.replicas
          /\ Merged.ann = IF st.ann = NoAction THEN sts.ann ELSE st.ann
      BY <1>0 DEF Merged, StatefulSet
    <3>2. UNCHANGED <<spec, phase, est, st, cur, cache>> /\ pc' # "graceful"
      BY <2>5 DEF ApplyStatefulSet, WriteSts
    <3>3. sts' = sts \/ sts' = Merged
      BY <2>5 DEF ApplyStatefulSet, WriteSts
    <3> QED BY <2>1, <2>2, <3>1, <3>2, <3>3
  <2>6. CASE UpdateCGStatus \/ Crash
    <3>1. UNCHANGED <<spec, sts, cache>> /\ pc' = "idle" /\ est' = NoSts /\ st' = NoSts
      BY <2>6 DEF UpdateCGStatus, Crash, Reset, sysVars
    <3>2. phase' \in {phase, cur, "Ready", "GracefulRolling"} /\ cur' = phase'
      BY <2>6 DEF UpdateCGStatus, Crash, Reset, sysVars
    <3>3. "Ready" \notin Failing /\ "GracefulRolling" \notin Failing
      BY DEF Failing
    <3> QED BY <1>0, <2>1, <2>2, <3>1, <3>2, <3>3
  <2>7. CASE EditSpec
    <3>1. UNCHANGED <<sts, cache, be, phase, pc, est, st, cur>>
      BY <2>7 DEF EditSpec, opVars
    <3>2. spec'.replicas \in Nat
      BY <1>0, <2>7, ConstantsAssumption DEF ConstantsAssumption, EditSpec
    <3>3. \A s \in {sts, cache, est, st} : s.replicas <= spec'.replicas
      BY <1>0, <3>2
    <3>4. GrowsOnly'
      BY <2>2, <3>1, <3>3
    <3> QED BY <2>1, <3>4
  <2>8. CASE StsPublishRevision \/ StsCompleteUpdate
    <3>1. sts'.replicas = sts.replicas /\ sts'.ann = sts.ann
      BY <1>0, <2>8 DEF StsPublishRevision, StsCompleteUpdate, WriteSts, StatefulSet
    <3>2. UNCHANGED <<spec, phase, est, st, cur, cache, pc>>
      BY <2>8 DEF StsPublishRevision, StsCompleteUpdate, WriteSts, opVars
    <3> QED BY <2>1, <2>2, <3>1, <3>2
  <2>9. CASE \/ CacheSync \/ ForeignWrite \/ Kubelet \/ Frontend
             \/ \E o \in Ordinals : StsCreatePod(o) \/ StsScaleDown(o) \/ StsRollingUpdate(o)
    <3>1. UNCHANGED <<spec, phase, est, st, cur, sts, pc>> /\ cache' \in {cache, sts}
      BY <2>9 DEF CacheSync, ForeignWrite, Kubelet, Frontend, StsCreatePod, StsScaleDown,
                  StsRollingUpdate, PodReady, BEExit, KubeletRestart, PodGone, Heartbeat, TabletsMoved,
                  opVars
    <3> QED BY <2>1, <2>2, <3>1
  <2> QED BY <1>3, <2>3, <2>4, <2>5, <2>6, <2>7, <2>8, <2>9 DEF Next, Operator, StsController
<1> QED BY <1>2, <1>3, <1>1

LEMMA StaysGrowing ==
    ASSUME "overlap" \notin Faults, MaxEdits <= 1, TypeOK, GrowsOnly, [Next]_vars
    PROVE  OneEditInv' /\ DropsOnlyEmpty
<1>0. spec.replicas \in Nat /\ \A o \in Ordinals : o \in Nat
  BY Numbers
<1>1. CASE spec'.replicas >= spec.replicas
  BY <1>1, GrowsOnlyStep DEF OneEditInv
<1>2. CASE EditSpec /\ spec'.replicas < spec.replicas
  <2>1. Settled /\ edits < MaxEdits /\ edits' = edits + 1 /\ be' = be
    BY <1>2 DEF EditSpec
  <2>2. spec'.replicas \in Nat
    BY <1>2, ConstantsAssumption DEF ConstantsAssumption, EditSpec
  <2>3. \A o \in Ordinals : o < spec.replicas => be[o].listed
    BY <2>1 DEF Settled, Serving
  <2>4. Kept'
    BY <1>0, <1>2, <2>1, <2>2, <2>3 DEF Kept, GrowsOnly, Unmarked
  <2>5. edits' >= MaxEdits
    BY <2>1, ConstantsAssumption DEF ConstantsAssumption, TypeOK
  <2> QED BY <2>1, <2>4, <2>5 DEF OneEditInv, DropsOnlyEmpty
<1>3. EditSpec \/ spec' = spec
  BY SpecStays DEF vars
<1>4. EditSpec => spec'.replicas \in Nat
  BY ConstantsAssumption DEF ConstantsAssumption, EditSpec
<1> QED BY <1>0, <1>1, <1>2, <1>3, <1>4

LEMMA InitGrowsOnly == Init => GrowsOnly
<1> SUFFICES ASSUME Init PROVE GrowsOnly
  OBVIOUS
<1>0. spec.replicas \in Nat
  BY InitType, Numbers
<1>1. sts.ann = NoAction /\ sts.replicas = spec.replicas
  <2>1. /\ NewStatefulset(spec).ann = NoAction
        /\ NewStatefulset(spec).replicas = spec.replicas
        /\ [NewStatefulset(spec) EXCEPT !.updRev = 1, !.curRev = 1].ann = NoAction
        /\ [NewStatefulset(spec) EXCEPT !.updRev = 1, !.curRev = 1].replicas = spec.replicas
    BY Zenon DEF NewStatefulset
  <2> QED BY <2>1 DEF Init
<1>2. NoSts.replicas = 0 /\ NoSts.ann = NoAction
  BY Zenon DEF NoSts, NewStatefulset
<1>3. Unmarked
  <2>1. /\ NoBackend.decom = "no"
        /\ [NoBackend EXCEPT !.listed = TRUE, !.alive = TRUE, !.gen = 1].decom = "no"
    BY DEF NoBackend
  <2> QED BY <2>1 DEF Init, Unmarked
<1>4. cache = sts /\ est = NoSts /\ st = NoSts /\ pc = "idle" /\ cur = phase /\ phase \notin Failing
  BY DEF Init, Failing
<1> QED BY <1>0, <1>1, <1>2, <1>3, <1>4 DEF GrowsOnly

\* With one edit of a settled group, a backend leaves the FE's metadata only
\* when its tablets have moved, whatever fails: stale reads, conflicting
\* writers, restarts of the operator, failed execs, queries and writes
\* (scaledOutBENodesByDecommission).
THEOREM DropOnceCorrect ==
    ASSUME "overlap" \notin Faults, MaxEdits <= 1
    PROVE  Spec => DropOnlyEmptyBackends
<1>1. Init => OneEditInv
  BY InitGrowsOnly DEF OneEditInv
<1>2. ASSUME EnableDecommission, TypeOK, OneEditInv, [Next]_vars
      PROVE  OneEditInv' /\ DropsOnlyEmpty
  BY <1>2, KeepsBackends, StaysGrowing DEF OneEditInv
<1>3. CASE EnableDecommission
  <2>1. TypeOK /\ OneEditInv /\ [Next]_vars => OneEditInv'
    BY <1>2, <1>3
  <2>2. TypeOK /\ OneEditInv /\ [Next]_vars
        => [EnableDecommission =>
              \A o \in Ordinals : be[o].listed /\ ~ be'[o].listed => be[o].decom = "done"]_vars
    BY <1>2, <1>3 DEF DropsOnlyEmpty
  <2> QED BY <1>1, <2>1, <2>2, TypeCorrect, PTL DEF Spec, DropOnlyEmptyBackends
<1>4. CASE ~ EnableDecommission
  <2>1. [Next]_vars
        => [EnableDecommission =>
              \A o \in Ordinals : be[o].listed /\ ~ be'[o].listed => be[o].decom = "done"]_vars
    BY <1>4
  <2> QED BY <2>1, PTL DEF Spec, DropOnlyEmptyBackends
<1> QED BY <1>3, <1>4

-----------------------------------------------------------------------------
(* Any number of edits. *)

\* The faults that may leave a mark in the FE's metadata behind, or a settled
\* group whose operator still means to take backends away; a crash is among
\* them because it leaves the phase of a scale-down that has been carried out.
DropFaults == {"stale", "sql", "crash", "overlap"}

\* The operator holds a StatefulSet that it may apply.
Holding == pc \in {"graceful", "finalize", "clear", "apply"}

\* Something goes down to the user's replicas: the StatefulSet, what is applied
\* next, or the pod of a scale-down.
GoingDown ==
    \/ sts.replicas > spec.replicas
    \/ Holding /\ st.replicas > spec.replicas
    \/ sts.ann.type # "RollingUpdate" /\ sts.ann.pod > spec.replicas
    \/ pc \in {"clear", "apply"} /\ st.ann.type # "RollingUpdate" /\ st.ann.pod > spec.replicas

ReadsCurrent == pc = "graceful" => est.ann = sts.ann /\ est.replicas = sts.replicas /\ st.ann = NoAction

\* The marks are gone before anything is applied, and until then the group is
\* visibly not settled.
MarksWhileLarge ==
    /\ Holding => Unmarked /\ cur \notin Failing
    /\ ~ Unmarked => sts.replicas > spec.replicas /\ cgid
    /\ \A o \in Ordinals : be[o].decom # "no" => be[o].listed
    /\ pc = "idle" => cur = phase
    /\ cur \in Failing => sts.replicas > spec.replicas

\* What is applied to a group without an action is no larger than the group or
\* what the user asks for.
HeldReplicas ==
    /\ Holding /\ sts.ann = NoAction => st.replicas <= spec.replicas \/ st.replicas <= sts.replicas
    /\ pc \in {"graceful", "finalize"} => st.replicas = spec.replicas \/ sts.ann = NoAction
    /\ pc = "finalize" => sts.ann # NoAction
    /\ pc \in {"clear", "apply"} /\ sts.ann = NoAction /\ st.ann.type # "RollingUpdate"
         => st.ann.pod = NoOrdinal

DropInv == /\ TypeOK /\ FreshCache /\ ReadsCurrent /\ MarksWhileLarge /\ HeldReplicas
           /\ GoingDown => Kept

LEMMA FieldNumbers ==
    ASSUME NEW s \in StatefulSet
    PROVE  /\ s.replicas \in Int /\ s.replicas >= 0
           /\ s.ann.pod \in Int
<1>1. s.replicas \in 0..MaxReplicas /\ s.ann \in ActionRecord /\ MaxReplicas \in Nat
  BY StatefulSetFields, ActionFields, ConstantsAssumption DEF ConstantsAssumption
<1>2. s.ann.pod \in Ordinals \cup {NoOrdinal}
  BY <1>1 DEF ActionRecord
<1> QED BY <1>1, <1>2 DEF Ordinals, NoOrdinal

\* A reconcile begins: the backends above the kept ones are marked, or dropped
\* once all of them are empty.
LEMMA DropBegins ==
    ASSUME Faults \cap DropFaults = {}, EnableDecommission, DropInv, TypeOK', PreApplyStatefulSet
    PROVE  DropInv' /\ DropsOnlyEmpty
<1>0. /\ TypeOK /\ FreshCache /\ spec.replicas \in Nat /\ sts.replicas \in Nat
      /\ be \in [Ordinals -> Backend]
  BY Numbers DEF DropInv, TypeOK
<1>1. "stale" \notin Faults /\ "sql" \notin Faults
  BY DEF DropFaults
<1>2. PICK next \in {"graceful", "status"} : \E p : Begin(next, p)
  BY DEF PreApplyStatefulSet, PreApplyNothing, ScaleOutByDrop, ScaleOutFails,
         StartDecommission, AwaitDecommission, FinishDecommission
<1>. PICK p : Begin(next, p)
  BY <1>2
<1>3. /\ est' = sts /\ st' = NewStatefulset(spec) /\ pc' = next /\ cur' = p /\ cache = sts
      /\ pc = "idle" /\ UNCHANGED <<spec, sts, cache, fresh, cgid, phase>>
  BY <1>0, <1>1, <1>2 DEF Begin, FreshCache
<1>4. st'.ann = NoAction /\ st'.replicas = spec.replicas
  BY <1>3, Zenon DEF NewStatefulset
<1>5. FreshCache' /\ ReadsCurrent'
  BY <1>0, <1>3, <1>4 DEF FreshCache, ReadsCurrent
<1>6. HeldReplicas'
  BY <1>0, <1>3, <1>4, NoActionFields DEF HeldReplicas
<1>7. ScaleDownOperation => sts.replicas > spec.replicas /\ Kept
  BY <1>0, <1>3 DEF DropInv, MarksWhileLarge, GoingDown, ScaleDownOperation, Failing
<1>8. (GoingDown => Kept)'
  <2>1. GoingDown' => GoingDown
    BY <1>0, <1>3, <1>4, NoActionFields DEF GoingDown
  <2>2. Kept => Kept'
    BY <1>0, <1>3, BeginBackends DEF Kept
  <2> QED BY <2>1, <2>2 DEF DropInv
<1>9. DropsOnlyEmpty
  <2>1. CASE ScaleDownOperation
    BY <1>0, <1>7, <2>1, BeginBackends
  <2>2. CASE ~ ScaleDownOperation
    BY <1>0, <2>2, BeginBackends DEF DropsOnlyEmpty
  <2> QED BY <2>1, <2>2
<1>10. \A o \in Ordinals : be'[o].decom # "no" => be'[o].listed
  <2> SUFFICES ASSUME NEW o \in Ordinals, be'[o].decom # "no" PROVE be'[o].listed
    OBVIOUS
  <2>1. be'[o] = be[o] \/ be'[o] = NoBackend \/ be'[o].listed
    BY <1>0, BeginBackends
  <2> QED BY <2>1 DEF DropInv, MarksWhileLarge, NoBackend
<1>11. ~ Unmarked' => sts.replicas > spec.replicas /\ cgid
  <2>1. CASE ScaleDownOperation
    BY <1>0, <1>7, <2>1, BeginBackends DEF DropInv, MarksWhileLarge, Unmarked
  <2>2. CASE ~ ScaleDownOperation
    BY <1>0, <2>2, BeginBackends DEF DropInv, MarksWhileLarge, Unmarked
  <2> QED BY <2>1, <2>2
<1>12. Holding' => Unmarked' /\ cur' \notin Failing
  <2> SUFFICES ASSUME pc' = "graceful" PROVE Unmarked' /\ cur' \notin Failing
    BY <1>3 DEF Holding
  <2>1. CASE PreApplyNothing
    <3>1. ~ ScaleDownOperation /\ be' = be /\ cur' = phase
      BY <2>1 DEF PreApplyNothing, Begin
    <3>2. Unmarked
      BY <1>0, <1>3, <3>1 DEF DropInv, MarksWhileLarge, ScaleDownOperation
    <3> QED BY <3>1, <3>2 DEF Unmarked, ScaleDownOperation, Failing
  <2>2. CASE FinishDecommission
    <3>1. be' = Dropped(spec.replicas) /\ cur' = "Scaling" /\ ScaleDownOperation
      BY <1>1, <2>2 DEF FinishDecommission, Begin
    <3>2. ASSUME NEW o \in Ordinals PROVE be'[o].decom = "no"
      <4>1. CASE be[o].decom = "no"
        BY <3>1, <4>1 DEF Dropped, NoBackend
      <4>2. CASE be[o].decom # "no"
        <5>1. be[o].listed /\ cgid
          BY <4>2 DEF DropInv, MarksWhileLarge, Unmarked
        <5>2. ~ (o < spec.replicas)
          BY <1>7, <3>1, <4>2 DEF Kept
        <5>3. o >= spec.replicas
          BY <1>0, <5>2, Numbers
        <5>4. o \in ScaledOut(BackendList, spec.replicas)
          BY <5>1, <5>3 DEF ScaledOut, BackendList, Listed
        <5> QED BY <3>1, <5>4 DEF Dropped, NoBackend
      <4> QED BY <4>1, <4>2
    <3> QED BY <3>1, <3>2 DEF Unmarked, Failing
  <2> QED BY <1>1, <2>1, <2>2
          DEF PreApplyStatefulSet, ScaleOutByDrop, ScaleOutFails, StartDecommission, AwaitDecommission, Begin
<1>13. cur' \in Failing => sts.replicas > spec.replicas
  <2>1. CASE ScaleDownOperation
    BY <1>7, <2>1
  <2>2. CASE ~ ScaleDownOperation
    <3>1. cur' = phase
      BY <2>2 DEF PreApplyStatefulSet, PreApplyNothing, ScaleOutByDrop, ScaleOutFails, StartDecommission,
                  AwaitDecommission, FinishDecommission, Begin
    <3> QED BY <2>2, <3>1 DEF ScaleDownOperation, Failing
  <2> QED BY <2>1, <2>2
<1>14. MarksWhileLarge'
  BY <1>3, <1>10, <1>11, <1>12, <1>13 DEF MarksWhileLarge
<1> QED BY <1>5, <1>6, <1>8, <1>9, <1>14 DEF DropInv

\* The pod of a scale-down that runs is the stored one's, or none yet.
LEMMA ActionPod ==
    ASSUME TypeOK
    PROVE  /\ Detected.pod = NoOrdinal
           /\ Action.type # "RollingUpdate" => Action = est.ann \/ Action.pod = NoOrdinal
<1>1. Detected.pod = NoOrdinal
  BY DEF Detected, DetectGracefulAction, NoAction, NewAction
<1>2. Action.type # "RollingUpdate" => Action = ChooseAction(Detected, est.ann)
  <2>1. ChooseAction(Detected, est.ann) \in ActionRecord
    BY ActionType, Numbers, ActionFields DEF ChooseAction
  <2> QED BY <2>1 DEF Action, RefreshTarget, ActionRecord
<1> QED BY <1>1, <1>2 DEF ChooseAction

\* An action that goes on, or ends, keeps the invariant.
LEMMA DropContinues ==
    ASSUME DropInv, TypeOK', FreshCache', pc = "graceful", est.ann # NoAction,
           UNCHANGED <<spec, be, cgid, phase>>, sts'.ann = sts.ann,
           \/ sts'.replicas = sts.replicas
           \/ sts'.replicas = Action.pod /\ Action.type # "RollingUpdate",
           cur' \notin Failing,
           \/ /\ pc' = "clear"
              /\ st'.replicas \in {sts.replicas, st.replicas}
              /\ \/ st'.ann = NoAction
                 \/ /\ st'.ann.type = Action.type
                    /\ st'.ann.type # "RollingUpdate" =>
                         st'.ann.pod \in {Action.pod, NoOrdinal, est.replicas - 1}
           \/ pc' = "finalize" /\ st'.replicas = st.replicas
    PROVE  DropInv'
<1>0. /\ TypeOK /\ est.ann = sts.ann /\ est.replicas = sts.replicas /\ st.ann = NoAction
      /\ Unmarked /\ sts.ann # NoAction /\ st.replicas = spec.replicas
  BY DEF DropInv, ReadsCurrent, MarksWhileLarge, HeldReplicas, Holding
<1>1. /\ spec.replicas \in Nat /\ sts.replicas \in Nat /\ st.replicas \in Nat
      /\ Action.pod \in Int /\ sts.ann.pod \in Int
  <2>1. sts \in StatefulSet /\ Action \in ActionRecord
    BY <1>0, Numbers, ActionType, ActionFields
  <2>2. Action.pod \in Ordinals \cup {NoOrdinal}
    BY <2>1 DEF ActionRecord
  <2> QED BY <1>0, <2>1, <2>2, Numbers, FieldNumbers DEF NoOrdinal
<1>2. Action.type # "RollingUpdate" /\ Action.pod > spec.replicas => GoingDown
  BY <1>0, <1>1, ActionPod DEF GoingDown, NoOrdinal
<1>3. sts.replicas > spec.replicas => GoingDown
  BY DEF GoingDown
<1>4. sts'.replicas > spec.replicas => GoingDown
  BY <1>2, <1>3
<1>5. sts'.ann.type # "RollingUpdate" /\ sts'.ann.pod > spec.replicas => GoingDown
  BY DEF GoingDown
<1>6. Holding' /\ st'.replicas > spec.replicas => GoingDown
  BY <1>0, <1>1, <1>3
<1>7. pc' \in {"clear", "apply"} /\ st'.ann.type # "RollingUpdate" /\ st'.ann.pod > spec.replicas
      => GoingDown
  <2>1. est.replicas - 1 > spec.replicas => GoingDown
    BY <1>0, <1>1, <1>3
  <2>2. ~ (NoOrdinal > spec.replicas)
    BY <1>1 DEF NoOrdinal
  <2> QED BY <1>2, <2>1, <2>2, NoActionFields
<1>8. (GoingDown => Kept)'
  BY <1>4, <1>5, <1>6, <1>7 DEF DropInv, GoingDown, Kept
<1>9. HeldReplicas'
  BY <1>0 DEF HeldReplicas
<1>10. MarksWhileLarge'
  BY <1>0 DEF DropInv, MarksWhileLarge, Unmarked
<1>11. ReadsCurrent'
  BY DEF ReadsCurrent
<1> QED BY <1>8, <1>9, <1>10, <1>11 DEF DropInv

LEMMA DropGraceful ==
    ASSUME DropInv, TypeOK', GracefulRolloutReconcile
    PROVE  DropInv'
<1>0. /\ TypeOK /\ FreshCache' /\ st \in StatefulSet /\ sts \in StatefulSet
      /\ spec.replicas \in Nat /\ sts.replicas \in Nat /\ st.replicas \in Nat
  BY Numbers, GracefulStep DEF DropInv
<1>1. UNCHANGED <<spec, be, cgid, phase>>
  BY DEF GracefulRolloutReconcile, NoGracefulAction, StartGracefulAction, TriggerDrainNoPod,
         TriggerDrain, WaitDrain, WaitDrainOver, DeletePod, WaitPodReady, WaitBEAlive,
         AlreadyDone, FinalizeGracefulAction, sysVars
<1>2. Unmarked'
  BY <1>1 DEF DropInv, MarksWhileLarge, Holding, Unmarked, GracefulRolloutReconcile, NoGracefulAction,
              StartGracefulAction, TriggerDrainNoPod, TriggerDrain, WaitDrain, WaitDrainOver, DeletePod,
              WaitPodReady, WaitBEAlive, AlreadyDone, FinalizeGracefulAction, InPhase
<1>3. \A ga : ActionPhase(ga) \notin Failing
  BY DEF ActionPhase, Failing
<1>4. \A ga : Continue(ga) => /\ pc' = "clear" /\ cur' \notin Failing /\ st'.ann = ga
                              /\ st'.replicas = IF ga.type = "ScaleDown" THEN est.replicas ELSE st.replicas
  BY <1>0, <1>3, ContinueEffect DEF Continue
<1>5. CASE NoGracefulAction \/ StartGracefulAction
  <2>0. /\ pc = "graceful" /\ sts.ann = NoAction /\ st.ann = NoAction /\ est.replicas = sts.replicas
        /\ cur \notin Failing /\ sts' = sts
        /\ st.replicas <= spec.replicas \/ st.replicas <= sts.replicas
    BY <1>5 DEF DropInv, ReadsCurrent, MarksWhileLarge, HeldReplicas, Holding, NoGracefulAction,
                StartGracefulAction, sysVars
  <2>1. Detected.pod = NoOrdinal /\ NoAction.pod = NoOrdinal
    BY <1>0, ActionPod, NoActionFields
  <2>2. \/ Continue(Detected) \/ (st' = st /\ pc' = "clear" /\ cur' = cur)
    BY <1>5 DEF NoGracefulAction, StartGracefulAction
  <2>3. /\ pc' = "clear" /\ cur' \notin Failing /\ st'.ann.pod = NoOrdinal
        /\ st'.replicas = st.replicas \/ st'.replicas = sts.replicas
    BY <1>4, <2>0, <2>1, <2>2
  <2>4. HeldReplicas'
    BY <1>0, <1>1, <2>0, <2>3 DEF HeldReplicas
  <2>5. GoingDown' => GoingDown
    BY <1>0, <1>1, <2>0, <2>3 DEF GoingDown, Holding, NoOrdinal
  <2>6. (GoingDown => Kept)'
    BY <1>1, <2>5 DEF DropInv, Kept
  <2>7. MarksWhileLarge' /\ ReadsCurrent'
    BY <1>1, <1>2, <2>3 DEF DropInv, MarksWhileLarge, ReadsCurrent, Unmarked
  <2> QED BY <1>0, <2>4, <2>6, <2>7 DEF DropInv
<1>6. CASE TriggerDrain \/ WaitDrain \/ WaitDrainOver \/ DeletePod \/ WaitPodReady \/ WaitBEAlive
  <2>0. pc = "graceful" /\ est.ann # NoAction
    BY <1>6 DEF TriggerDrain, WaitDrain, WaitDrainOver, DeletePod, WaitPodReady, WaitBEAlive, InPhase
  <2>1. est.replicas = sts.replicas /\ st.ann = NoAction
    BY <2>0 DEF DropInv, ReadsCurrent
  <2>2. \/ sts' = sts
        \/ sts' = [sts EXCEPT !.replicas = Action.pod] /\ Action.type # "RollingUpdate"
    BY <1>6 DEF TriggerDrain, WaitDrain, WaitDrainOver, DeletePod, AfterPodDeleted, WaitPodReady,
                WaitBEAlive, sysVars, UpdateStatefulSetReplicas, WriteSts
  <2>3. /\ sts'.ann = sts.ann
        /\ \/ sts'.replicas = sts.replicas
           \/ sts'.replicas = Action.pod /\ Action.type # "RollingUpdate"
    BY <1>0, <2>2 DEF StatefulSet
  <2>4. StateMachineError(Action) => /\ st'.replicas = st.replicas /\ st'.ann = st.ann
                                     /\ cur' \notin Failing /\ pc' = "clear"
    BY <1>0, <1>3 DEF StateMachineError, StatefulSet
  <2>5. /\ pc' = "clear" /\ cur' \notin Failing
        /\ st'.replicas \in {sts.replicas, st.replicas}
        /\ \/ st'.ann = NoAction
           \/ /\ st'.ann.type = Action.type
              /\ st'.ann.type # "RollingUpdate" =>
                   st'.ann.pod \in {Action.pod, NoOrdinal, est.replicas - 1}
    BY <1>0, <1>4, <1>6, <2>1, <2>4, ContinuesWith
  <2> QED BY <1>0, <1>1, <2>0, <2>3, <2>5, DropContinues
<1>7. CASE TriggerDrainNoPod \/ AlreadyDone
  <2>0. pc = "graceful" /\ est.ann # NoAction /\ sts' = sts
    BY <1>7 DEF TriggerDrainNoPod, AlreadyDone, InPhase, sysVars
  <2>1. est.replicas = sts.replicas
    BY <2>0 DEF DropInv, ReadsCurrent
  <2>2. \/ Continue(Action)
        \/ \E a : st' = [st EXCEPT !.ann = a] /\ cur' = ActionPhase(Action) /\ pc' = "finalize"
    BY <1>7 DEF TriggerDrainNoPod, AlreadyDone
  <2>3. \A a : [st EXCEPT !.ann = a].replicas = st.replicas
    BY <1>0 DEF StatefulSet
  <2>4. /\ cur' \notin Failing
        /\ \/ /\ pc' = "clear" /\ st'.ann = Action
              /\ st'.replicas \in {sts.replicas, st.replicas}
           \/ pc' = "finalize" /\ st'.replicas = st.replicas
    BY <1>3, <1>4, <2>1, <2>2, <2>3
  <2> QED BY <1>0, <1>1, <2>0, <2>4, DropContinues
<1>8. CASE FinalizeGracefulAction
  <2>0. pc = "finalize" /\ sts.ann # NoAction /\ st.replicas = spec.replicas
    BY <1>8 DEF DropInv, HeldReplicas, FinalizeGracefulAction
  <2>1. \/ Continue(st.ann) /\ st.ann.type = "RollingUpdate" /\ sts' = sts
        \/ /\ st' = [st EXCEPT !.ann = NoAction, !.strategy = "OnDelete", !.ru = FALSE]
           /\ cur' = "Reconciling" /\ pc' = "clear"
           /\ sts' = sts \/ sts' = [sts EXCEPT !.ann = NoAction]
    BY <1>8 DEF FinalizeGracefulAction, WriteSts
  <2>2. /\ [st EXCEPT !.ann = NoAction, !.strategy = "OnDelete", !.ru = FALSE].replicas = st.replicas
        /\ [st EXCEPT !.ann = NoAction, !.strategy = "OnDelete", !.ru = FALSE].ann = NoAction
        /\ [sts EXCEPT !.ann = NoAction].ann = NoAction
        /\ [sts EXCEPT !.ann = NoAction].replicas = sts.replicas
    BY <1>0 DEF StatefulSet
  <2>3. "Reconciling" \notin Failing
    BY DEF Failing
  <2>4. /\ pc' = "clear" /\ cur' \notin Failing /\ st'.replicas = spec.replicas
        /\ st'.ann = NoAction \/ st'.ann.type = "RollingUpdate"
        /\ sts'.replicas = sts.replicas /\ (sts'.ann = NoAction \/ sts'.ann = sts.ann)
    BY <1>4, <2>0, <2>1, <2>2, <2>3
  <2>5. HeldReplicas'
    BY <1>0, <1>1, <2>4, NoActionFields DEF HeldReplicas
  <2>6. GoingDown' => GoingDown
    BY <1>0, <1>1, <2>4, NoActionFields DEF GoingDown, NoOrdinal
  <2>7. (GoingDown => Kept)'
    BY <1>1, <2>6 DEF DropInv, Kept
  <2>8. MarksWhileLarge' /\ ReadsCurrent'
    BY <1>1, <1>2, <2>4 DEF DropInv, MarksWhileLarge, ReadsCurrent, Unmarked
  <2> QED BY <1>0, <2>5, <2>7, <2>8 DEF DropInv
<1> QED BY <1>5, <1>6, <1>7, <1>8 DEF GracefulRolloutReconcile

\* Steps that leave the spec, the operator and the StatefulSet's replicas and
\* annotation alone.
LEMMA DropQuiet ==
    ASSUME DropInv, TypeOK', FreshCache', Next, ~ PreApplyStatefulSet,
           UNCHANGED <<spec, est, st, cur, phase, cgid>>,
           sts'.ann = sts.ann, sts'.replicas = sts.replicas,
           pc' = pc \/ (pc = "clear" /\ pc' = "apply")
    PROVE  DropInv'
<1>0. TypeOK
  BY DEF DropInv
<1>1. ReadsCurrent' /\ HeldReplicas'
  BY DEF DropInv, ReadsCurrent, HeldReplicas, Holding
<1>2. GoingDown' => GoingDown
  BY DEF GoingDown, Holding
<1>3. Kept => Kept'
  BY <1>0, OtherBackends DEF Kept
<1>4. /\ Unmarked => Unmarked'
      /\ (\A o \in Ordinals : be[o].decom # "no" => be[o].listed)
         => \A o \in Ordinals : be'[o].decom # "no" => be'[o].listed
  BY <1>0, OtherBackends DEF Unmarked
<1>5. MarksWhileLarge'
  BY <1>4 DEF DropInv, MarksWhileLarge, Holding
<1> QED BY <1>1, <1>2, <1>3, <1>5 DEF DropInv

LEMMA DropApplies ==
    ASSUME DropInv, TypeOK', ApplyStatefulSet
    PROVE  DropInv'
<1>0. /\ TypeOK /\ FreshCache /\ sts \in StatefulSet /\ pc = "apply"
      /\ Unmarked /\ cur \notin Failing
  BY Numbers DEF DropInv, MarksWhileLarge, Holding, ApplyStatefulSet
<1>1. /\ pc' \in {"status", "statusUpdated"} /\ UNCHANGED <<spec, st, be, cur, cgid, phase>>
      /\ sts' = sts \/ sts' = Merged
  BY DEF ApplyStatefulSet, WriteSts
<1>2. FreshCache'
  BY <1>0, WriteKeepsFreshCache DEF ApplyStatefulSet, FreshCache
<1>3. /\ Merged.replicas = st.replicas
      /\ Merged.ann = IF st.ann = NoAction THEN sts.ann ELSE st.ann
  BY <1>0 DEF Merged, StatefulSet
<1>4. GoingDown' => GoingDown
  BY <1>0, <1>1, <1>3 DEF GoingDown, Holding
<1>5. (GoingDown => Kept)'
  BY <1>1, <1>4 DEF DropInv, Kept
<1>6. MarksWhileLarge' /\ ReadsCurrent' /\ HeldReplicas'
  BY <1>0, <1>1 DEF DropInv, MarksWhileLarge, ReadsCurrent, HeldReplicas, Holding, Unmarked
<1> QED BY <1>2, <1>5, <1>6 DEF DropInv

LEMMA DropStatus ==
    ASSUME DropInv, TypeOK', UpdateCGStatus
    PROVE  DropInv'
<1>0. pc \in {"status", "statusUpdated"} /\ FreshCache
  BY DEF DropInv, UpdateCGStatus
<1>1. /\ pc' = "idle" /\ cur' = phase' /\ UNCHANGED <<spec, sts, cache, fresh, be>>
      /\ cgid => cgid'
  <2>1. cgid => cgid'
    <3>1. cgid' = (cgid \/ \E o \in Ordinals : be[o].listed) \/ cgid' = cgid
      BY DEF UpdateCGStatus
    <3> QED BY <3>1, Zenon
  <2> QED BY <2>1 DEF UpdateCGStatus, Reset
<1>2. phase' \in {cur, "Ready", "GracefulRolling"}
  BY DEF UpdateCGStatus
<1>3. cur' \in Failing => cur \in Failing
  BY <1>1, <1>2 DEF Failing
<1>4. FreshCache' /\ ReadsCurrent' /\ HeldReplicas'
  BY <1>0, <1>1 DEF FreshCache, ReadsCurrent, HeldReplicas, Holding
<1>5. MarksWhileLarge'
  BY <1>1, <1>3 DEF DropInv, MarksWhileLarge, Holding, Unmarked
<1>6. (GoingDown => Kept)'
  BY <1>1 DEF DropInv, GoingDown, Holding, Kept
<1> QED BY <1>4, <1>5, <1>6 DEF DropInv

\* The user edits a settled group: no backend is marked, and all are listed.
LEMMA DropEdits ==
    ASSUME Faults \cap DropFaults = {}, DropInv, TypeOK', EditSpec
    PROVE  DropInv'
<1>0. /\ TypeOK /\ FreshCache /\ spec.replicas \in Nat
      /\ st.replicas \in Nat /\ \A o \in Ordinals : o \in Nat
  BY Numbers DEF DropInv
<1>1. /\ Settled /\ UNCHANGED <<sts, cache, fresh, be, phase, cgid, pc, est, st, cur>>
  BY DEF EditSpec, opVars, DropFaults
<1>2. sts.ann = NoAction /\ sts.replicas = spec.replicas
  BY <1>1 DEF Settled
<1>3. spec'.replicas \in Nat
  BY ConstantsAssumption DEF ConstantsAssumption, EditSpec
<1>4. Unmarked /\ cur \notin Failing
  BY <1>0, <1>2 DEF DropInv, MarksWhileLarge
<1>5. MarksWhileLarge' /\ ReadsCurrent' /\ FreshCache'
  BY <1>0, <1>1, <1>4 DEF DropInv, MarksWhileLarge, ReadsCurrent, FreshCache, Holding, Unmarked
<1>6. Holding => st.replicas <= sts.replicas
  BY <1>0, <1>2 DEF DropInv, HeldReplicas
<1>7. pc \in {"clear", "apply"} /\ st.ann.type # "RollingUpdate" => st.ann.pod = NoOrdinal
  BY <1>2 DEF DropInv, HeldReplicas
<1>8. HeldReplicas'
  BY <1>1, <1>2, <1>6, <1>7 DEF DropInv, HeldReplicas, Holding
<1>9. (GoingDown => Kept)'
  <2>1. CASE spec'.replicas < spec.replicas
    <3>1. \A o \in Ordinals : o < spec.replicas => be[o].listed
      BY <1>1 DEF Settled, Serving
    <3> QED BY <1>0, <1>1, <1>3, <1>4, <2>1, <3>1 DEF Kept, Unmarked
  <2>2. CASE ~ (spec'.replicas < spec.replicas)
    <3>1. spec.replicas <= spec'.replicas
      BY <1>0, <1>3, <2>2
    <3>2. ~ GoingDown'
      BY <1>0, <1>1, <1>2, <1>3, <1>6, <1>7, <3>1, NoActionFields DEF GoingDown, Holding, NoOrdinal
    <3> QED BY <3>2
  <2> QED BY <2>1, <2>2
<1> QED BY <1>5, <1>8, <1>9 DEF DropInv

LEMMA DropStep ==
    ASSUME Faults \cap DropFaults = {}, EnableDecommission, DropInv, TypeOK', [Next]_vars
    PROVE  DropInv' /\ DropsOnlyEmpty
<1>0. TypeOK /\ FreshCache /\ sts \in StatefulSet
  BY Numbers DEF DropInv
<1>1. CASE UNCHANGED vars
  BY <1>1 DEF vars, DropInv, FreshCache, ReadsCurrent, MarksWhileLarge, HeldReplicas, GoingDown,
              Holding, Kept, Unmarked, DropsOnlyEmpty
<1>2. CASE PreApplyStatefulSet
  BY <1>2, DropBegins
<1>3. CASE Next /\ ~ PreApplyStatefulSet
  <2>1. DropsOnlyEmpty
    BY <1>0, <1>3, OtherBackends DEF DropsOnlyEmpty
  <2>2. ~ Crash
    BY DEF Crash, DropFaults
  <2>3. CASE GracefulRolloutReconcile
    BY <2>1, <2>3, DropGraceful
  <2>4. CASE ClearStatefulSetRollingUpdate
    <3>1. sts'.ann = sts.ann /\ sts'.replicas = sts.replicas
      BY <1>0, <2>4 DEF ClearStatefulSetRollingUpdate, WriteSts, StatefulSet
    <3>2. FreshCache'
      BY <1>0, <2>4, WriteKeepsFreshCache DEF ClearStatefulSetRollingUpdate, FreshCache
    <3>3. UNCHANGED <<spec, est, st, cur, phase, cgid>> /\ pc = "clear" /\ pc' = "apply"
      BY <2>4 DEF ClearStatefulSetRollingUpdate
    <3> QED BY <1>3, <2>1, <3>1, <3>2, <3>3, DropQuiet
  <2>5. CASE ApplyStatefulSet
    BY <2>1, <2>5, DropApplies
  <2>6. CASE UpdateCGStatus
    BY <2>1, <2>6, DropStatus
  <2>7. CASE EditSpec
    BY <2>1, <2>7, DropEdits
  <2>8. CASE CacheSync \/ ForeignWrite \/ StsController \/ Kubelet \/ Frontend
    <3>1. FreshCache' /\ sts'.ann = sts.ann /\ UNCHANGED opVars
      BY <1>0, <2>8, ClusterStepKeepsControl
    <3>2. sts'.replicas = sts.replicas
      BY <1>0, <2>8 DEF CacheSync, ForeignWrite, StsController, Kubelet, Frontend, StsPublishRevision,
                        StsCompleteUpdate, WriteSts, StatefulSet, StsCreatePod, StsScaleDown,
                        StsRollingUpdate, PodReady, BEExit, KubeletRestart, PodGone, Heartbeat, TabletsMoved
    <3>3. UNCHANGED <<spec, phase, cgid>>
      BY <2>8 DEF CacheSync, ForeignWrite, StsController, Kubelet, Frontend, StsPublishRevision,
                  StsCompleteUpdate, StsCreatePod, StsScaleDown, StsRollingUpdate, PodReady, BEExit,
                  KubeletRestart, PodGone, Heartbeat, TabletsMoved
    <3> QED BY <1>3, <2>1, <3>1, <3>2, <3>3, DropQuiet DEF opVars
  <2> QED BY <1>3, <2>2, <2>3, <2>4, <2>5, <2>6, <2>7, <2>8 DEF Next, Operator
<1> QED BY <1>1, <1>2, <1>3

\* Through any number of edits of a settled group, up and down again, a backend
\* leaves the FE's metadata only when its tablets have moved, whatever happens
\* otherwise: conflicting writers, late revisions, failed execs, refused writes
\* and deadlines.  A DROPP that fails is ignored (prepare_modify.go:104) and
\* leaves a marked backend behind: after a scale-up has taken it in again the
\* counters of GetDecommissionPhase are right for the wrong backends.
THEOREM DropEmptyCorrect ==
    ASSUME Faults \cap DropFaults = {}
    PROVE  Spec => DropOnlyEmptyBackends
<1>1. Init => DropInv
  <2> SUFFICES ASSUME Init PROVE DropInv
    OBVIOUS
  <2>0. TypeOK /\ FreshCache /\ spec.replicas \in Nat
    BY InitType, Numbers DEF Init, FreshCache
  <2>1. sts.ann = NoAction /\ sts.replicas = spec.replicas
    <3>1. /\ NewStatefulset(spec).ann = NoAction
          /\ NewStatefulset(spec).replicas = spec.replicas
          /\ [NewStatefulset(spec) EXCEPT !.updRev = 1, !.curRev = 1].ann = NoAction
          /\ [NewStatefulset(spec) EXCEPT !.updRev = 1, !.curRev = 1].replicas = spec.replicas
      BY Zenon DEF NewStatefulset
    <3> QED BY <3>1 DEF Init
  <2>2. Unmarked
    <3>1. /\ NoBackend.decom = "no"
          /\ [NoBackend EXCEPT !.listed = TRUE, !.alive = TRUE, !.gen = 1].decom = "no"
      BY DEF NoBackend
    <3> QED BY <3>1 DEF Init, Unmarked
  <2>3. pc = "idle" /\ cur = phase /\ phase \notin Failing
    BY DEF Init, Failing
  <2>4. MarksWhileLarge /\ ReadsCurrent /\ HeldReplicas
    BY <2>2, <2>3 DEF MarksWhileLarge, ReadsCurrent, HeldReplicas, Holding, Unmarked
  <2>5. ~ GoingDown
    BY <2>0, <2>1, <2>3, NoActionFields DEF GoingDown, Holding, NoOrdinal
  <2> QED BY <2>0, <2>4, <2>5 DEF DropInv
<1>2. CASE EnableDecommission
  <2>1. TypeOK' /\ DropInv /\ [Next]_vars => DropInv'
    BY <1>2, DropStep
  <2>2. TypeOK' /\ DropInv /\ [Next]_vars
        => [EnableDecommission =>
              \A o \in Ordinals : be[o].listed /\ ~ be'[o].listed => be[o].decom = "done"]_vars
    BY <1>2, DropStep DEF DropsOnlyEmpty
  <2> QED BY <1>1, <2>1, <2>2, TypeCorrect, PTL DEF Spec, DropOnlyEmptyBackends
<1>3. CASE ~ EnableDecommission
  <2>1. [Next]_vars
        => [EnableDecommission =>
              \A o \in Ordinals : be[o].listed /\ ~ be'[o].listed => be[o].decom = "done"]_vars
    BY <1>3
  <2> QED BY <2>1, PTL DEF Spec, DropOnlyEmptyBackends
<1> QED BY <1>2, <1>3

-----------------------------------------------------------------------------
(* Pods that are kept. *)

\* The user scales the group and leaves its template alone.
KeepsTemplate == [][spec'.tmpl = spec.tmpl]_vars

\* An edit in the middle of a scale-down may ask for the pod that is being
\* deleted.  Without the other, the state machine works on current reads.
KeepFaults == {"stale", "overlap"}

\* The StatefulSet to apply is ready.
Applying == pc \in {"clear", "apply"}

\* There is one template, its revision published or not.
OneRevision(s) == s.tmpl = 1 /\ s.updRev \in {0, 1}
OneTemplate ==
    /\ spec.tmpl = 1 /\ OneRevision(sts) /\ OneRevision(est) /\ OneRevision(st)
    /\ \A o \in Ordinals : Exists(o) => pods[o].rev = 1

\* A scale-down stays above the replicas asked for, and a rolling update has no
\* pod to work on.
StaysAbove(ga) ==
    IF ga.type = "ScaleDown"
    THEN /\ ga.desired >= spec.replicas
         /\ ga.phase \notin {"TriggerDrain", "Done"} => ga.pod >= spec.replicas
    ELSE ga.phase \in {"TriggerDrain", "Done"} /\ ga.target \in {0, 1}

\* A reconcile holds the replicas asked for, or those of a settled group that was
\* edited since it began.
KeepsReading ==
    /\ ReadsCurrent
    /\ pc = "graceful" => st.replicas = spec.replicas \/ (sts.ann = NoAction /\ st.replicas = sts.replicas)
    /\ pc = "finalize" => sts.ann # NoAction /\ st.replicas = spec.replicas /\ StaysAbove(st.ann)

\* Pods to be kept are below the StatefulSet's replicas.
KeepsStored ==
    /\ StaysAbove(sts.ann) /\ (sts.ann.type = "ScaleDown" => sts.replicas >= spec.replicas)
    /\ \A o \in Ordinals : o < spec.replicas /\ Exists(o) => o < sts.replicas

\* And are so after the next apply.  A scale-down that is not stored yet finds
\* the group larger than asked for.
KeepsApplied == Applying =>
    /\ StaysAbove(st.ann)
    /\ st.replicas >= spec.replicas \/ st.replicas >= sts.replicas
    /\ st.ann.type = "ScaleDown" \/ sts.ann.type = "ScaleDown" => st.replicas >= spec.replicas
    /\ st.ann.type = "ScaleDown" /\ sts.ann = NoAction => sts.replicas > spec.replicas

KeepInv == TypeOK /\ FreshCache /\ OneTemplate /\ KeepsReading /\ KeepsStored /\ KeepsApplied

\* What NoNeedlessDelete says of a step.
DeletesSurplus ==
    \A o \in Ordinals : NewlyDeleted(o) => o >= spec.replicas \/ pods[o].rev # spec.tmpl

LEMMA NoActionAbove == StaysAbove(NoAction)
BY NewActionFields DEF StaysAbove, NoAction, NewAction

\* The action that the state machine runs.
LEMMA RunsAbove ==
    ASSUME KeepInv, pc = "graceful", est.ann # NoAction
    PROVE  /\ StaysAbove(Action) /\ st.replicas = spec.replicas
           /\ Action.type = "ScaleDown" => sts.replicas >= spec.replicas
<1>0. /\ TypeOK /\ est.ann = sts.ann /\ est.replicas = sts.replicas /\ st.replicas = spec.replicas
      /\ StaysAbove(sts.ann) /\ (sts.ann.type = "ScaleDown" => sts.replicas >= spec.replicas)
      /\ est.updRev \in {0, 1}
  BY DEF KeepInv, KeepsReading, KeepsStored, ReadsCurrent, OneTemplate, OneRevision
<1>1. /\ est.replicas \in Nat /\ spec.replicas \in Nat
      /\ est.ann \in ActionRecord /\ est.ann.type \in ActionTypes
  BY <1>0, Numbers, ActionFields
<1>2. CASE est.ann.type = "ScaleDown"
  <2>1. ~ (GracefulActionPriority(Detected.type) > GracefulActionPriority("ScaleDown"))
    BY <1>0, DetectedFacts DEF GracefulActionPriority
  <2>2. Action = est.ann
    BY <1>2, <2>1 DEF Action, ChooseAction, RefreshTarget
  <2> QED BY <1>0, <1>2, <2>2
<1>3. CASE est.ann.type # "ScaleDown" /\ Detected.type = "ScaleDown"
  <2>1. GracefulActionPriority(Detected.type) > GracefulActionPriority(est.ann.type)
    BY <1>1, <1>3 DEF GracefulActionPriority, ActionTypes
  <2>2. Action = Detected
    BY <1>3, <2>1 DEF Action, ChooseAction, RefreshTarget
  <2>3. st.replicas < est.replicas /\ Detected.desired = st.replicas /\ Detected.phase = "TriggerDrain"
    BY <1>0, <1>3, DetectedFacts
  <2> QED BY <1>0, <1>1, <1>3, <2>2, <2>3 DEF StaysAbove
<1>4. CASE est.ann.type # "ScaleDown" /\ Detected.type # "ScaleDown"
  <2> DEFINE ga == ChooseAction(Detected, est.ann)
  <2>1. Detected.target \in {0, 1}
    BY <1>0 DEF Detected, DetectGracefulAction, NewAction, NoAction
  <2>2. /\ ga.type # "ScaleDown" /\ ga.phase \in {"TriggerDrain", "Done"} /\ ga.target \in {0, 1}
        /\ ga \in ActionRecord
    BY <1>0, <1>1, <1>4, <2>1, DetectedFacts, ActionType, ActionFields DEF ChooseAction, StaysAbove
  <2> HIDE DEF ga
  <2>3. Action.type # "ScaleDown" /\ Action.phase \in {"TriggerDrain", "Done"} /\ Action.target \in {0, 1}
    <3>1. Action = ga \/ Action = [ga EXCEPT !.target = est.updRev]
      BY DEF Action, RefreshTarget, ga
    <3> QED BY <1>0, <2>2, <3>1 DEF ActionRecord
  <2> QED BY <1>0, <2>3 DEF StaysAbove
<1> QED BY <1>2, <1>3, <1>4

\* A rolling update finds no outdated pod, so that only scale-downs go on past
\* TriggerDrain.
LEMMA ContinuesAbove ==
    ASSUME KeepInv, TriggerDrain \/ WaitDrain \/ WaitDrainOver \/ DeletePod \/ WaitPodReady \/ WaitBEAlive
    PROVE  /\ Action.type = "ScaleDown"
           /\ \/ StateMachineError(Action)
              \/ \E ga : Continue(ga) /\ ga.type = Action.type /\ StaysAbove(ga)
<1>0. /\ TypeOK /\ pc = "graceful" /\ est.ann # NoAction
  BY DEF KeepInv, TriggerDrain, WaitDrain, WaitDrainOver, DeletePod, WaitPodReady, WaitBEAlive, InPhase
<1>1. /\ StaysAbove(Action) /\ Action \in ActionRecord /\ est.replicas \in Nat /\ spec.replicas \in Nat
  BY <1>0, RunsAbove, ActionType, ActionFields, Numbers
<1>2. Action.desired \in Nat
  <2>1. Action.desired \in 0..MaxReplicas
    BY <1>1 DEF ActionRecord
  <2> QED BY <2>1
<1> DEFINE Fits(ga) == ga.type = Action.type /\ StaysAbove(ga)
<1>3. CASE TriggerDrain
  <2> DEFINE o == SelectNextPod(est, Action)
             ga == [Action EXCEPT !.pod = o, !.phase = "WaitDrain"]
  <2>1. o # NoOrdinal
    BY <1>3 DEF TriggerDrain
  <2>2. Action.type = "ScaleDown"
    <3> SUFFICES ASSUME Action.type # "ScaleDown" PROVE FALSE
      OBVIOUS
    <3>1. Action.target = 1
      BY <1>1, <1>3 DEF TriggerDrain, StaysAbove
    <3>2. Outdated(1) = {}
      BY DEF KeepInv, OneTemplate, Outdated
    <3>3. TargetOrUpdate(est, Action) = 1
      BY <3>1 DEF TargetOrUpdate
    <3> QED BY <2>1, <3>2, <3>3 DEF SelectNextPod
  <2>3. o = est.replicas - 1 /\ Action.desired < est.replicas
    BY <2>1, <2>2 DEF SelectNextPod
  <2>4. o >= spec.replicas /\ Action.desired >= spec.replicas
    BY <1>1, <1>2, <2>2, <2>3 DEF StaysAbove
  <2> HIDE DEF o
  <2>5. \A r, g : Fits([ga EXCEPT !.initRestarts = r, !.initGen = g])
    BY <1>1, <2>2, <2>4 DEF ActionRecord, StaysAbove
  <2>6. Fits(AdvanceToNextPod(Action))
    BY <2>2, <2>4 DEF StaysAbove, AdvanceToNextPod, NewAction
  <2>7. \/ Continue(AdvanceToNextPod(Action))
        \/ \E r, g : Continue([ga EXCEPT !.initRestarts = r, !.initGen = g])
    BY <1>3, <2>2 DEF TriggerDrain, o
  <2> HIDE DEF ga, Fits
  <2>8. \E next : Continue(next) /\ Fits(next)
    BY <2>5, <2>6, <2>7
  <2> QED BY <2>2, <2>8 DEF Fits
<1>4. CASE WaitDrain \/ WaitDrainOver \/ DeletePod \/ WaitPodReady \/ WaitBEAlive
  <2>1. Action.phase \notin {"TriggerDrain", "Done"}
    BY <1>4 DEF WaitDrain, WaitDrainOver, DeletePod, WaitPodReady, WaitBEAlive, InPhase
  <2>2. Action.type = "ScaleDown" /\ Action.desired >= spec.replicas /\ Action.pod >= spec.replicas
    BY <1>1, <2>1 DEF StaysAbove
  <2>3. Fits(Action)
    BY <1>1
  <2>4. Fits(AdvanceToNextPod(Action))
    BY <2>2 DEF StaysAbove, AdvanceToNextPod, NewAction
  <2>5. \A p : Fits([Action EXCEPT !.phase = p])
    BY <1>1, <2>2 DEF ActionRecord, StaysAbove
  <2>6. \A b : Fits(Observe(b, Action))
    BY <1>1, <2>2 DEF ActionRecord, StaysAbove, Observe
  <2> HIDE DEF Fits
  <2>7. StateMachineError(Action) \/ \E ga : Continue(ga) /\ Fits(ga)
    <3>1. CASE WaitDrain
      BY <2>3, <3>1 DEF WaitDrain
    <3>2. CASE WaitDrainOver
      BY <2>4, <2>5, <3>2 DEF WaitDrainOver
    <3>3. CASE DeletePod
      BY <2>4, <2>5, <3>3 DEF DeletePod, AfterPodDeleted
    <3>4. CASE WaitPodReady
      BY <2>3, <2>5, <3>4 DEF WaitPodReady
    <3>5. CASE WaitBEAlive
      BY <2>3, <2>4, <2>6, <3>5 DEF WaitBEAlive
    <3> QED BY <1>4, <3>1, <3>2, <3>3, <3>4, <3>5
  <2> QED BY <2>2, <2>7 DEF Fits
<1> QED BY <1>3, <1>4

\* The templates in memory and in the cluster stay the only one.
LEMMA TemplateStays ==
    ASSUME KeepInv, TypeOK', "stale" \notin Faults, [Next]_vars, spec'.tmpl = spec.tmpl
    PROVE  OneTemplate'
<1>0. /\ TypeOK /\ FreshCache /\ spec.tmpl = 1 /\ OneRevision(sts) /\ OneRevision(est) /\ OneRevision(st)
      /\ \A o \in Ordinals : Exists(o) => pods[o].rev = 1
  BY DEF KeepInv, OneTemplate
<1>1. sts \in StatefulSet /\ st \in StatefulSet /\ pods \in [Ordinals -> Pod]
  BY <1>0 DEF TypeOK
<1>2. OneRevision(NoSts) /\ OneRevision(NewStatefulset(spec))
  BY <1>0 DEF OneRevision, NoSts, NewStatefulset
<1>3. OneRevision(sts)'
  <2>1. \/ sts' = sts
        \/ \E n : sts' = [sts EXCEPT !.replicas = n]
        \/ sts' = [sts EXCEPT !.ann = NoAction]
        \/ sts' = [sts EXCEPT !.ru = FALSE]
        \/ sts' = Merged
        \/ \E c : sts' = [sts EXCEPT !.updRev = sts.tmpl, !.curRev = c]
        \/ sts' = [sts EXCEPT !.curRev = sts.updRev]
    <3>1. CASE UNCHANGED vars
      BY <3>1 DEF vars
    <3>2. CASE PreApplyStatefulSet
      BY <3>2 DEF PreApplyStatefulSet, PreApplyNothing, ScaleOutByDrop, ScaleOutFails, StartDecommission,
                  AwaitDecommission, FinishDecommission, Begin
    <3>3. CASE GracefulRolloutReconcile
      BY <3>3 DEF GracefulRolloutReconcile, NoGracefulAction, StartGracefulAction, TriggerDrainNoPod,
                  TriggerDrain, WaitDrain, WaitDrainOver, DeletePod, AfterPodDeleted,
                  UpdateStatefulSetReplicas, WaitPodReady, WaitBEAlive, AlreadyDone,
                  FinalizeGracefulAction, WriteSts, sysVars
    <3>4. CASE ClearStatefulSetRollingUpdate \/ ApplyStatefulSet \/ UpdateCGStatus \/ Crash
      BY <3>4 DEF ClearStatefulSetRollingUpdate, ApplyStatefulSet, UpdateCGStatus, Crash, WriteSts, sysVars
    <3>5. CASE CacheSync \/ ForeignWrite \/ EditSpec \/ Kubelet \/ Frontend
      BY <3>5 DEF CacheSync, ForeignWrite, EditSpec, Kubelet, Frontend, PodReady, BEExit,
                  KubeletRestart, PodGone, Heartbeat, TabletsMoved
    <3>6. CASE StsController
      BY <3>6 DEF StsController, StsPublishRevision, StsCompleteUpdate, StsCreatePod, StsScaleDown,
                  StsRollingUpdate, WriteSts
    <3> QED BY <3>1, <3>2, <3>3, <3>4, <3>5, <3>6 DEF Next, Operator
  <2>2. /\ \A n : OneRevision([sts EXCEPT !.replicas = n])
        /\ OneRevision([sts EXCEPT !.ann = NoAction]) /\ OneRevision([sts EXCEPT !.ru = FALSE])
        /\ \A c : OneRevision([sts EXCEPT !.updRev = sts.tmpl, !.curRev = c])
        /\ OneRevision([sts EXCEPT !.curRev = sts.updRev])
    BY <1>0, <1>1 DEF OneRevision, StatefulSet
  <2>3. OneRevision(Merged)
    BY <1>0, <1>1 DEF OneRevision, Merged, StatefulSet
  <2>4. \E s : sts' = s /\ OneRevision(s)
    BY <1>0, <2>1, <2>2, <2>3
  <2> QED BY <2>4 DEF OneRevision
<1>4. OneRevision(est)' /\ OneRevision(st)'
  <2>1. CASE PreApplyStatefulSet
    <3>1. est' = cache /\ st' = NewStatefulset(spec) /\ fresh
      BY <2>1 DEF PreApplyStatefulSet, PreApplyNothing, ScaleOutByDrop, ScaleOutFails, StartDecommission,
                  AwaitDecommission, FinishDecommission, Begin
    <3> QED BY <1>0, <1>2, <3>1 DEF FreshCache, OneRevision
  <2>2. CASE GracefulRolloutReconcile
    <3>1. est' = est
      BY <2>2 DEF GracefulRolloutReconcile, NoGracefulAction, StartGracefulAction, TriggerDrainNoPod,
                  TriggerDrain, WaitDrain, WaitDrainOver, DeletePod, AfterPodDeleted, StateMachineError,
                  WaitPodReady, WaitBEAlive, AlreadyDone, FinalizeGracefulAction, Continue
    <3>2. \/ st' = st \/ (\E ga : Continue(ga)) \/ (\E ga : st' = [st EXCEPT !.ann = ga])
          \/ st' = [st EXCEPT !.strategy = "OnDelete", !.ru = FALSE]
          \/ st' = [st EXCEPT !.ann = NoAction, !.strategy = "OnDelete", !.ru = FALSE]
      BY <2>2 DEF GracefulRolloutReconcile, NoGracefulAction, StartGracefulAction, TriggerDrainNoPod,
                  TriggerDrain, WaitDrain, WaitDrainOver, DeletePod, AfterPodDeleted, StateMachineError,
                  WaitPodReady, WaitBEAlive, AlreadyDone, FinalizeGracefulAction
    <3>3. \A ga : Continue(ga) => st'.tmpl = st.tmpl /\ st'.updRev = st.updRev
      BY <1>1 DEF Continue, PrepareGracefulStatefulSet, StatefulSet
    <3>4. st'.tmpl = st.tmpl /\ st'.updRev = st.updRev
      BY <1>1, <3>2, <3>3 DEF StatefulSet
    <3> QED BY <1>0, <3>1, <3>4 DEF OneRevision
  <2>3. CASE UpdateCGStatus \/ Crash
    BY <1>2, <2>3 DEF UpdateCGStatus, Crash, Reset, OneRevision
  <2>4. CASE ~ (PreApplyStatefulSet \/ GracefulRolloutReconcile \/ UpdateCGStatus \/ Crash)
    <3>1. UNCHANGED <<est, st>>
      BY <2>4 DEF Next, Operator, ClearStatefulSetRollingUpdate, ApplyStatefulSet, CacheSync, ForeignWrite,
                  EditSpec, Kubelet, Frontend, PodReady, BEExit, KubeletRestart, PodGone, Heartbeat,
                  TabletsMoved, StsController, StsPublishRevision, StsCompleteUpdate, StsCreatePod,
                  StsScaleDown, StsRollingUpdate, opVars, vars
    <3> QED BY <1>0, <3>1 DEF OneRevision
  <2> QED BY <2>1, <2>2, <2>3, <2>4
<1>5. \A o \in Ordinals : Exists(o)' => pods'[o].rev = 1
  <2>1. \/ pods' = pods
        \/ \E o \in Ordinals : \E a, b : pods' = [pods EXCEPT ![o].sentinel = a, ![o].draining = b]
        \/ \E o \in Ordinals : pods' = [pods EXCEPT ![o].deleting = TRUE] /\ Exists(o)
        \/ \E o \in Ordinals : pods' = [pods EXCEPT ![o] = NoPod]
        \/ \E o \in Ordinals :
             pods' = [pods EXCEPT ![o] = [NoPod EXCEPT !.phase = "starting", !.rev = sts.tmpl]]
        \/ \E o \in Ordinals : \E p \in {"ready", "exited"} : pods' = [pods EXCEPT ![o].phase = p] /\ Exists(o)
        \/ \E o \in Ordinals : \E n : pods' = [pods EXCEPT ![o].restarts = n]
        \/ \E o \in Ordinals : \E n :
             /\ pods' = [pods EXCEPT ![o].restarts = n, ![o].phase = "starting", ![o].draining = FALSE]
             /\ Exists(o)
    <3>1. CASE UNCHANGED vars
      BY <3>1 DEF vars
    <3>2. CASE PreApplyStatefulSet
      BY <3>2 DEF PreApplyStatefulSet, PreApplyNothing, ScaleOutByDrop, ScaleOutFails, StartDecommission,
                  AwaitDecommission, FinishDecommission, Begin
    <3>3. CASE TriggerDrain
      <4>1. SelectNextPod(est, Action) \in Ordinals \cup {NoOrdinal}
        BY <1>0, ActionType, SelectNextPodType, Numbers
      <4> QED BY <3>3, <4>1 DEF TriggerDrain
    <3>4. CASE DeletePod
      <4>1. Action.pod \in Ordinals
        BY <1>0, <3>4, ActionType DEF DeletePod, InPhase, GracefulAction
      <4> QED BY <3>4, <4>1 DEF DeletePod
    <3>5. CASE GracefulRolloutReconcile /\ ~ TriggerDrain /\ ~ DeletePod
      BY <3>5 DEF GracefulRolloutReconcile, NoGracefulAction, StartGracefulAction, TriggerDrainNoPod,
                  WaitDrain, WaitDrainOver, WaitPodReady, WaitBEAlive, AlreadyDone,
                  FinalizeGracefulAction, sysVars
    <3>6. CASE ClearStatefulSetRollingUpdate \/ ApplyStatefulSet \/ UpdateCGStatus \/ Crash
      BY <3>6 DEF ClearStatefulSetRollingUpdate, ApplyStatefulSet, UpdateCGStatus, Crash, sysVars
    <3>7. CASE CacheSync \/ ForeignWrite \/ EditSpec \/ Frontend
      BY <3>7 DEF CacheSync, ForeignWrite, EditSpec, Frontend, Heartbeat, TabletsMoved
    <3>8. CASE StsController
      BY <3>8 DEF StsController, StsPublishRevision, StsCompleteUpdate, StsCreatePod, StsScaleDown,
                  StsRollingUpdate
    <3>9. CASE Kubelet
      BY <3>9 DEF Kubelet, PodReady, BEExit, KubeletRestart, PodGone, Exists, Running
    <3> QED BY <3>1, <3>2, <3>3, <3>4, <3>5, <3>6, <3>7, <3>8, <3>9 DEF Next, Operator
  <2>2. NoPod.phase = "none" /\ sts.tmpl = 1 /\ [NoPod EXCEPT !.phase = "starting", !.rev = sts.tmpl].rev = sts.tmpl
    BY <1>0 DEF NoPod, OneRevision
  <2>3. \A q \in Pod : /\ \A a, b : /\ [q EXCEPT !.sentinel = a, !.draining = b].rev = q.rev
                                   /\ [q EXCEPT !.sentinel = a, !.draining = b].phase = q.phase
                    /\ [q EXCEPT !.deleting = TRUE].rev = q.rev
                    /\ \A p : [q EXCEPT !.phase = p].rev = q.rev
                    /\ \A n : /\ [q EXCEPT !.restarts = n].rev = q.rev
                              /\ [q EXCEPT !.restarts = n].phase = q.phase
                              /\ [q EXCEPT !.restarts = n, !.phase = "starting", !.draining = FALSE].rev = q.rev
    BY DEF Pod
  <2> SUFFICES ASSUME NEW x \in Ordinals, Exists(x)'
               PROVE  (Exists(x) /\ pods'[x].rev = pods[x].rev) \/ pods'[x].rev = 1
    BY <1>0
  <2>4. \A o \in Ordinals : pods[o] \in Pod
    BY <1>1
  <2>5. CASE pods' = pods
    BY <2>5 DEF Exists
  <2>6. CASE \E o \in Ordinals : \E a, b : pods' = [pods EXCEPT ![o].sentinel = a, ![o].draining = b]
    BY <1>1, <2>2, <2>3, <2>4, <2>6 DEF Exists
  <2>7. CASE \E o \in Ordinals : pods' = [pods EXCEPT ![o].deleting = TRUE] /\ Exists(o)
    BY <1>1, <2>2, <2>3, <2>4, <2>7 DEF Exists
  <2>8. CASE \E o \in Ordinals : pods' = [pods EXCEPT ![o] = NoPod]
    BY <1>1, <2>2, <2>3, <2>4, <2>8 DEF Exists
  <2>9. CASE \E o \in Ordinals :
             pods' = [pods EXCEPT ![o] = [NoPod EXCEPT !.phase = "starting", !.rev = sts.tmpl]]
    BY <1>1, <2>2, <2>3, <2>4, <2>9 DEF Exists
  <2>10. CASE \E o \in Ordinals : \E p \in {"ready", "exited"} : pods' = [pods EXCEPT ![o].phase = p] /\ Exists(o)
    BY <1>1, <2>2, <2>3, <2>4, <2>10 DEF Exists
  <2>11. CASE \E o \in Ordinals : \E n : pods' = [pods EXCEPT ![o].restarts = n]
    BY <1>1, <2>2, <2>3, <2>4, <2>11 DEF Exists
  <2>12. CASE \E o \in Ordinals : \E n :
             /\ pods' = [pods EXCEPT ![o].restarts = n, ![o].phase = "starting", ![o].draining = FALSE]
             /\ Exists(o)
    BY <1>1, <2>2, <2>3, <2>4, <2>12 DEF Exists
  <2> QED BY <2>1, <2>5, <2>6, <2>7, <2>8, <2>9, <2>10, <2>11, <2>12
<1> QED BY <1>0, <1>3, <1>4, <1>5 DEF OneTemplate

\* Steps of the operator and of the kubelet make no pods.
LEMMA GracefulPods ==
    ASSUME TypeOK, GracefulRolloutReconcile
    PROVE  \A o \in Ordinals : /\ Exists(o)' <=> Exists(o)
                               /\ NewlyDeleted(o) => DeletePod /\ o = Action.pod
<1>0. pods \in [Ordinals -> Pod]
  BY DEF TypeOK
<1>1. CASE TriggerDrain
  <2>1. \/ pods' = pods
        \/ \E a, b : pods' = [pods EXCEPT ![SelectNextPod(est, Action)].sentinel = a,
                                          ![SelectNextPod(est, Action)].draining = b]
    BY <1>1 DEF TriggerDrain
  <2>2. \A q \in Pod : \A a, b : /\ [q EXCEPT !.sentinel = a, !.draining = b].phase = q.phase
                               /\ [q EXCEPT !.sentinel = a, !.draining = b].deleting = q.deleting
    BY DEF Pod
  <2>3. CASE pods' # pods
    <3>1. PICK k, a, b : pods' = [pods EXCEPT ![k].sentinel = a, ![k].draining = b]
      BY <2>1, <2>3
    <3> SUFFICES ASSUME NEW o \in Ordinals
                 PROVE  pods'[o].phase = pods[o].phase /\ pods'[o].deleting = pods[o].deleting
      BY DEF Exists, NewlyDeleted
    <3>2. CASE o = k
      <4>1. pods'[o] = [pods[o] EXCEPT !.sentinel = a, !.draining = b]
        BY <1>0, <3>1, <3>2
      <4> QED BY <1>0, <2>2, <4>1
    <3>3. CASE o # k
      BY <1>0, <3>1, <3>3
    <3> QED BY <3>2, <3>3
  <2>4. CASE pods' = pods
    BY <2>4 DEF Exists, NewlyDeleted
  <2> QED BY <2>3, <2>4
<1>2. CASE DeletePod
  <2>1. pods' = pods \/ pods' = [pods EXCEPT ![Action.pod].deleting = TRUE]
    BY <1>2 DEF DeletePod
  <2> QED BY <1>0, <1>2, <2>1 DEF Exists, NewlyDeleted, Pod
<1>3. CASE ~ TriggerDrain /\ ~ DeletePod
  <2>1. pods' = pods
    BY <1>3 DEF GracefulRolloutReconcile, NoGracefulAction, StartGracefulAction, TriggerDrainNoPod,
                WaitDrain, WaitDrainOver, WaitPodReady, WaitBEAlive, AlreadyDone,
                FinalizeGracefulAction, sysVars
  <2> QED BY <2>1 DEF Exists, NewlyDeleted
<1> QED BY <1>1, <1>2, <1>3

LEMMA KeepGraceful ==
    ASSUME KeepInv, TypeOK', GracefulRolloutReconcile
    PROVE  FreshCache' /\ KeepsReading' /\ KeepsStored' /\ KeepsApplied' /\ DeletesSurplus
<1>0. /\ TypeOK /\ FreshCache' /\ st \in StatefulSet /\ sts \in StatefulSet
      /\ spec.replicas \in Nat /\ sts.replicas \in Nat /\ st.replicas \in Nat
      /\ KeepsStored /\ KeepsReading /\ ReadsCurrent
  BY Numbers, GracefulStep DEF KeepInv, KeepsReading
<1>1. spec' = spec /\ \A o \in Ordinals : Exists(o)' <=> Exists(o)
  BY <1>0, GracefulPods
     DEF GracefulRolloutReconcile, NoGracefulAction, StartGracefulAction, TriggerDrainNoPod,
         TriggerDrain, WaitDrain, WaitDrainOver, DeletePod, WaitPodReady, WaitBEAlive,
         AlreadyDone, FinalizeGracefulAction, sysVars
<1>2. \A ga : StaysAbove(ga) /\ Continue(ga) =>
        /\ pc' = "clear" /\ st'.ann = ga /\ StaysAbove(st'.ann)
        /\ st'.replicas = IF ga.type = "ScaleDown" THEN est.replicas ELSE st.replicas
  BY <1>0, ContinueEffect
<1>3. \A ga : StaysAbove(ga)' <=> StaysAbove(ga)
  BY <1>1 DEF StaysAbove
<1>4. ~ DeletePod => DeletesSurplus
  BY <1>0, GracefulPods DEF DeletesSurplus
<1>5. CASE NoGracefulAction \/ StartGracefulAction
  <2>0. /\ pc = "graceful" /\ sts.ann = NoAction /\ st.ann = NoAction /\ est.replicas = sts.replicas
        /\ sts' = sts /\ est.updRev \in {0, 1}
        /\ st.replicas = spec.replicas \/ st.replicas = sts.replicas
    BY <1>0, <1>5 DEF KeepInv, OneTemplate, OneRevision, ReadsCurrent, KeepsReading, NoGracefulAction,
                      StartGracefulAction, sysVars
  <2>1. Detected.type = "ScaleDown" => st.replicas = spec.replicas /\ sts.replicas > spec.replicas
    BY <1>0, <2>0, DetectedFacts
  <2>2. StaysAbove(Detected)
    <3>1. Detected.target \in {0, 1}
      BY <2>0 DEF Detected, DetectGracefulAction, NewAction, NoAction
    <3> QED BY <1>0, <2>1, <3>1, DetectedFacts DEF StaysAbove
  <2>3. Continue(Detected) \/ (st' = st /\ pc' = "clear")
    BY <1>5 DEF NoGracefulAction, StartGracefulAction
  <2>4. /\ pc' = "clear" /\ StaysAbove(st'.ann)
        /\ st'.replicas = spec.replicas \/ st'.replicas = sts.replicas
        /\ st'.ann.type = "ScaleDown" => st'.replicas = sts.replicas /\ sts.replicas > spec.replicas
    BY <1>2, <2>0, <2>1, <2>2, <2>3, NoActionAbove, NoActionFields
  <2>5. StaysAbove(st.ann)'
    BY <1>1, <2>4 DEF StaysAbove
  <2>6. KeepsStored'
    BY <1>0, <1>1, <2>0 DEF KeepsStored, StaysAbove
  <2>7. KeepsApplied'
    BY <1>0, <1>1, <2>0, <2>4, <2>5, NoActionFields DEF KeepsApplied
  <2>8. KeepsReading'
    BY <2>4 DEF KeepsReading, ReadsCurrent
  <2> QED BY <1>0, <1>4, <1>5, <2>0, <2>6, <2>7, <2>8 DEF NoGracefulAction, StartGracefulAction, DeletePod, InPhase, ReadsCurrent
<1>6. CASE TriggerDrain \/ WaitDrain \/ WaitDrainOver \/ DeletePod \/ WaitPodReady \/ WaitBEAlive
  <2>0. pc = "graceful" /\ est.ann # NoAction
    BY <1>6 DEF TriggerDrain, WaitDrain, WaitDrainOver, DeletePod, WaitPodReady, WaitBEAlive, InPhase
  <2>1. /\ est.replicas = sts.replicas /\ st.ann = NoAction /\ st.replicas = spec.replicas
        /\ StaysAbove(Action) /\ Action.type = "ScaleDown" /\ sts.replicas >= spec.replicas
    BY <1>0, <1>6, <2>0, RunsAbove, ContinuesAbove DEF ReadsCurrent
  <2>2. \/ sts' = sts
        \/ sts' = [sts EXCEPT !.replicas = Action.pod] /\ DeletePod
    BY <1>6 DEF TriggerDrain, WaitDrain, WaitDrainOver, DeletePod, AfterPodDeleted, WaitPodReady,
                WaitBEAlive, sysVars, UpdateStatefulSetReplicas, WriteSts
  <2>3. DeletePod => Action.pod >= spec.replicas
    BY <2>1 DEF DeletePod, InPhase, StaysAbove
  <2>4. /\ sts'.ann = sts.ann /\ sts'.replicas >= spec.replicas
        /\ sts'.replicas = sts.replicas \/ sts'.replicas = Action.pod
    BY <1>0, <2>1, <2>2, <2>3 DEF StatefulSet
  <2>5. StateMachineError(Action) => /\ st'.replicas = st.replicas /\ st'.ann = st.ann /\ pc' = "clear"
    BY <1>0 DEF StateMachineError, StatefulSet
  <2>6. /\ pc' = "clear" /\ StaysAbove(st'.ann)
        /\ st'.replicas = spec.replicas \/ st'.replicas = sts.replicas
    BY <1>2, <1>6, <2>1, <2>5, ContinuesAbove, NoActionAbove
  <2>7. st'.replicas >= spec.replicas /\ sts.ann # NoAction
    BY <1>0, <2>0, <2>1, <2>6 DEF ReadsCurrent
  <2>8. StaysAbove(st.ann)' /\ StaysAbove(sts.ann)'
    BY <1>0, <1>1, <2>4, <2>6 DEF StaysAbove, KeepsStored
  <2>9. KeepsStored'
    <3>1. Action.pod \in Int /\ \A o \in Ordinals : o \in Nat
      <4>1. Action.pod \in Ordinals \cup {NoOrdinal}
        BY <1>0, ActionType, ActionFields DEF ActionRecord
      <4> QED BY <1>0, <4>1, Numbers DEF NoOrdinal
    <3>2. \A o \in Ordinals : o < spec.replicas => o < sts'.replicas
      BY <1>0, <2>4, <3>1
    <3> QED BY <1>0, <1>1, <2>4, <2>8, <3>2 DEF KeepsStored
  <2>10. KeepsApplied'
    BY <1>0, <1>1, <2>4, <2>6, <2>7, <2>8 DEF KeepsApplied
  <2>11. KeepsReading'
    BY <2>6 DEF KeepsReading, ReadsCurrent
  <2>12. DeletesSurplus
    BY <1>0, <2>3, GracefulPods DEF DeletesSurplus
  <2> QED BY <1>0, <2>9, <2>10, <2>11, <2>12
<1>7. CASE TriggerDrainNoPod \/ AlreadyDone
  <2>0. pc = "graceful" /\ est.ann # NoAction /\ sts' = sts /\ ~ DeletePod
    BY <1>7 DEF TriggerDrainNoPod, AlreadyDone, DeletePod, InPhase, sysVars
  <2>1. /\ est.replicas = sts.replicas /\ st.replicas = spec.replicas /\ StaysAbove(Action)
        /\ Action.type = "ScaleDown" => sts.replicas >= spec.replicas
        /\ sts.ann # NoAction
    BY <1>0, <2>0, RunsAbove DEF ReadsCurrent
  <2>2. \/ Continue(Action)
        \/ st' = [st EXCEPT !.ann = [Action EXCEPT !.phase = "Done"]] /\ pc' = "finalize"
        \/ st' = [st EXCEPT !.ann = Action] /\ pc' = "finalize"
    BY <1>7 DEF TriggerDrainNoPod, AlreadyDone
  <2>3. StaysAbove([Action EXCEPT !.phase = "Done"])
    <3>1. Action \in ActionRecord
      BY <1>0, ActionType, ActionFields
    <3> QED BY <2>1, <3>1 DEF StaysAbove, ActionRecord
  <2>4. \A a : [st EXCEPT !.ann = a].replicas = st.replicas /\ [st EXCEPT !.ann = a].ann = a
    BY <1>0 DEF StatefulSet
  <2>5. /\ pc' \in {"clear", "finalize"} /\ StaysAbove(st'.ann)
        /\ pc' = "finalize" => st'.replicas = spec.replicas
        /\ pc' = "clear" => /\ st'.replicas = spec.replicas \/ st'.replicas = sts.replicas
                            /\ st'.replicas >= spec.replicas
    <3>1. CASE Continue(Action)
      BY <1>0, <1>2, <2>1, <3>1
    <3>2. CASE st' = [st EXCEPT !.ann = [Action EXCEPT !.phase = "Done"]] /\ pc' = "finalize"
      BY <2>1, <2>3, <2>4, <3>2
    <3>3. CASE st' = [st EXCEPT !.ann = Action] /\ pc' = "finalize"
      BY <2>1, <2>4, <3>3
    <3> QED BY <2>2, <3>1, <3>2, <3>3
  <2>6. StaysAbove(st.ann)' /\ KeepsStored'
    BY <1>0, <1>1, <2>0, <2>5 DEF StaysAbove, KeepsStored
  <2>7. KeepsApplied'
    BY <1>0, <1>1, <2>0, <2>1, <2>5, <2>6 DEF KeepsApplied, Applying
  <2>8. KeepsReading'
    BY <1>1, <2>0, <2>1, <2>5, <2>6 DEF KeepsReading, ReadsCurrent
  <2> QED BY <1>0, <1>4, <2>0, <2>6, <2>7, <2>8
<1>8. CASE FinalizeGracefulAction
  <2>0. pc = "finalize" /\ sts.ann # NoAction /\ st.replicas = spec.replicas /\ StaysAbove(st.ann) /\ ~ DeletePod
    BY <1>0, <1>8 DEF KeepsReading, FinalizeGracefulAction, DeletePod, InPhase
  <2>1. \/ Continue(st.ann) /\ st.ann.type = "RollingUpdate" /\ sts' = sts
        \/ /\ st' = [st EXCEPT !.ann = NoAction, !.strategy = "OnDelete", !.ru = FALSE]
           /\ pc' = "clear"
           /\ sts' = sts \/ sts' = [sts EXCEPT !.ann = NoAction]
    BY <1>8 DEF FinalizeGracefulAction, WriteSts
  <2>2. /\ [st EXCEPT !.ann = NoAction, !.strategy = "OnDelete", !.ru = FALSE].replicas = st.replicas
        /\ [st EXCEPT !.ann = NoAction, !.strategy = "OnDelete", !.ru = FALSE].ann = NoAction
        /\ [sts EXCEPT !.ann = NoAction].ann = NoAction
        /\ [sts EXCEPT !.ann = NoAction].replicas = sts.replicas
    BY <1>0 DEF StatefulSet
  <2>3. /\ pc' = "clear" /\ st'.replicas = spec.replicas /\ StaysAbove(st'.ann) /\ st'.ann.type # "ScaleDown"
        /\ sts'.replicas = sts.replicas /\ (sts'.ann = NoAction \/ sts'.ann = sts.ann)
    BY <1>2, <2>0, <2>1, <2>2, NoActionAbove, NoActionFields
  <2>4. StaysAbove(st.ann)' /\ StaysAbove(sts.ann)'
    BY <1>0, <1>1, <2>3, NoActionAbove DEF StaysAbove, KeepsStored
  <2>5. KeepsStored'
    BY <1>0, <1>1, <2>3, <2>4, NoActionFields DEF KeepsStored
  <2>6. KeepsApplied'
    BY <1>0, <1>1, <2>3, <2>4 DEF KeepsApplied
  <2>7. KeepsReading'
    BY <2>3 DEF KeepsReading, ReadsCurrent
  <2> QED BY <1>0, <1>4, <2>0, <2>5, <2>6, <2>7
<1> QED BY <1>5, <1>6, <1>7, <1>8 DEF GracefulRolloutReconcile

LEMMA KeepBegins ==
    ASSUME "stale" \notin Faults, KeepInv, TypeOK', PreApplyStatefulSet
    PROVE  FreshCache' /\ KeepsReading' /\ KeepsStored' /\ KeepsApplied' /\ DeletesSurplus
<1>1. PICK next \in {"graceful", "status"} : \E p : Begin(next, p)
  BY DEF PreApplyStatefulSet, PreApplyNothing, ScaleOutByDrop, ScaleOutFails,
         StartDecommission, AwaitDecommission, FinishDecommission
<1>2. /\ est' = sts /\ st' = NewStatefulset(spec) /\ pc' = next
      /\ UNCHANGED <<spec, sts, cache, fresh, pods>>
  BY <1>1 DEF Begin, KeepInv, FreshCache
<1>3. st'.ann = NoAction /\ st'.replicas = spec.replicas
  BY <1>2, Zenon DEF NewStatefulset
<1>4. FreshCache' /\ KeepsStored' /\ DeletesSurplus
  BY <1>2 DEF KeepInv, FreshCache, KeepsStored, StaysAbove, Exists, DeletesSurplus, NewlyDeleted
<1>5. KeepsReading' /\ KeepsApplied'
  BY <1>2, <1>3 DEF KeepsReading, ReadsCurrent, KeepsApplied, Applying
<1> QED BY <1>4, <1>5

\* Steps that leave the spec, the operator and the StatefulSet's replicas and
\* annotation alone, and create pods only below its replicas.
LEMMA KeepQuiet ==
    ASSUME KeepInv, FreshCache', UNCHANGED <<spec, est, st>>,
           sts'.ann = sts.ann, sts'.replicas = sts.replicas,
           pc' = pc \/ (pc = "clear" /\ pc' = "apply"),
           \A o \in Ordinals : Exists(o)' => Exists(o) \/ o < sts.replicas
    PROVE  FreshCache' /\ KeepsReading' /\ KeepsStored' /\ KeepsApplied'
<1>1. KeepsStored'
  BY DEF KeepInv, KeepsStored, StaysAbove
<1>2. KeepsReading'
  BY DEF KeepInv, KeepsReading, ReadsCurrent, StaysAbove
<1>3. KeepsApplied'
  BY DEF KeepInv, KeepsApplied, Applying, StaysAbove
<1> QED BY <1>1, <1>2, <1>3

LEMMA KeepApplies ==
    ASSUME KeepInv, TypeOK', ApplyStatefulSet
    PROVE  FreshCache' /\ KeepsReading' /\ KeepsStored' /\ KeepsApplied' /\ DeletesSurplus
<1>0. /\ TypeOK /\ FreshCache /\ KeepsStored /\ sts \in StatefulSet /\ pc = "apply"
      /\ StaysAbove(st.ann)
      /\ st.replicas >= spec.replicas \/ st.replicas >= sts.replicas
      /\ st.ann.type = "ScaleDown" \/ sts.ann.type = "ScaleDown" => st.replicas >= spec.replicas
      /\ st.replicas \in Nat /\ sts.replicas \in Nat /\ spec.replicas \in Nat
      /\ \A o \in Ordinals : o \in Nat
  BY Numbers DEF KeepInv, KeepsApplied, Applying, ApplyStatefulSet
<1>1. /\ pc' \in {"status", "statusUpdated"} /\ UNCHANGED <<spec, st, pods>>
      /\ sts' = sts \/ sts' = Merged
  BY DEF ApplyStatefulSet, WriteSts
<1>2. FreshCache'
  BY <1>0, WriteKeepsFreshCache DEF ApplyStatefulSet, FreshCache
<1>3. /\ Merged.replicas = st.replicas
      /\ Merged.ann = IF st.ann = NoAction THEN sts.ann ELSE st.ann
  BY <1>0 DEF Merged, StatefulSet
<1>4. /\ StaysAbove(sts'.ann) /\ (sts'.ann.type = "ScaleDown" => sts'.replicas >= spec.replicas)
      /\ \A o \in Ordinals : o < spec.replicas /\ Exists(o) => o < sts'.replicas
  <2>1. CASE sts' = sts
    BY <1>0, <2>1 DEF KeepsStored
  <2>2. CASE sts' = Merged
    <3>1. \A o \in Ordinals : o < spec.replicas /\ Exists(o) => o < st.replicas
      BY <1>0 DEF KeepsStored
    <3>2. sts'.replicas = st.replicas /\ (sts'.ann = sts.ann \/ sts'.ann = st.ann)
      BY <1>3, <2>2
    <3> QED BY <1>0, <3>1, <3>2 DEF KeepsStored
  <2> QED BY <1>1, <2>1, <2>2
<1>5. KeepsStored' /\ DeletesSurplus
  BY <1>1, <1>4 DEF KeepsStored, StaysAbove, Exists, DeletesSurplus, NewlyDeleted
<1>6. KeepsReading' /\ KeepsApplied'
  BY <1>1 DEF KeepsReading, ReadsCurrent, KeepsApplied, Applying
<1> QED BY <1>2, <1>5, <1>6

\* The user edits a settled group: there is no action, and no pod at or above
\* the replicas of the StatefulSet.
LEMMA KeepEdits ==
    ASSUME "overlap" \notin Faults, KeepInv, TypeOK', EditSpec
    PROVE  FreshCache' /\ KeepsReading' /\ KeepsStored' /\ KeepsApplied' /\ DeletesSurplus
<1>0. /\ TypeOK /\ FreshCache /\ KeepsStored /\ KeepsReading /\ KeepsApplied
      /\ st.replicas \in Nat /\ sts.replicas \in Nat /\ spec.replicas \in Nat
  BY Numbers DEF KeepInv
<1>1. Settled /\ UNCHANGED <<sts, cache, fresh, pods, pc, est, st>>
  BY DEF EditSpec, opVars
<1>2. /\ sts.ann = NoAction /\ sts.replicas = spec.replicas
      /\ \A o \in Ordinals : Exists(o) => o < sts.replicas
  BY <1>1 DEF Settled
<1>3. FreshCache' /\ DeletesSurplus
  BY <1>0, <1>1 DEF FreshCache, DeletesSurplus, NewlyDeleted
<1>4. StaysAbove(NoAction)'
  BY NewActionFields DEF StaysAbove, NoAction, NewAction
<1>5. KeepsStored'
  <2>1. StaysAbove(sts.ann)'
    BY <1>1, <1>2, <1>4 DEF StaysAbove
  <2>2. \A o \in Ordinals : Exists(o)' => o < sts'.replicas
    BY <1>1, <1>2 DEF Exists
  <2> QED BY <1>1, <1>2, <2>1, <2>2, NoActionFields DEF KeepsStored
<1>6. KeepsReading'
  BY <1>0, <1>1, <1>2 DEF KeepsReading, ReadsCurrent
<1>7. KeepsApplied'
  <2>1. Applying => st.ann.type # "ScaleDown" /\ st.replicas >= sts.replicas /\ StaysAbove(st.ann)
    BY <1>0, <1>2 DEF KeepsApplied
  <2>2. Applying => StaysAbove(st.ann)'
    BY <1>1, <2>1 DEF StaysAbove
  <2> QED BY <1>1, <1>2, <2>1, <2>2, NoActionFields DEF KeepsApplied, Applying
<1> QED BY <1>3, <1>5, <1>6, <1>7

\* The StatefulSet controller deletes pods only above its replicas, as no pod is
\* outdated; nobody else around the operator deletes any.
LEMMA KeepCluster ==
    ASSUME KeepInv, TypeOK', CacheSync \/ ForeignWrite \/ StsController \/ Kubelet \/ Frontend
    PROVE  FreshCache' /\ KeepsReading' /\ KeepsStored' /\ KeepsApplied' /\ DeletesSurplus
<1>0. /\ TypeOK /\ FreshCache /\ KeepsStored /\ sts \in StatefulSet /\ sts.replicas \in Nat
      /\ spec.replicas \in Nat /\ \A o \in Ordinals : o \in Nat
  BY Numbers DEF KeepInv
<1>1. FreshCache' /\ sts'.ann = sts.ann /\ UNCHANGED <<pc, est, st>>
  BY <1>0, ClusterStepKeepsControl DEF opVars
<1>2. sts'.replicas = sts.replicas
  BY <1>0 DEF CacheSync, ForeignWrite, StsController, Kubelet, Frontend, StsPublishRevision,
              StsCompleteUpdate, WriteSts, StatefulSet, StsCreatePod, StsScaleDown,
              StsRollingUpdate, PodReady, BEExit, KubeletRestart, PodGone, Heartbeat, TabletsMoved
<1>3. spec' = spec
  BY DEF CacheSync, ForeignWrite, StsController, Kubelet, Frontend, StsPublishRevision,
         StsCompleteUpdate, StsCreatePod, StsScaleDown, StsRollingUpdate, PodReady, BEExit,
         KubeletRestart, PodGone, Heartbeat, TabletsMoved
<1>4. pods \in [Ordinals -> Pod]
  BY <1>0 DEF TypeOK
<1>5. \A o \in Ordinals : /\ Exists(o)' => Exists(o) \/ o < sts.replicas
                          /\ NewlyDeleted(o) => o >= spec.replicas
  <2> SUFFICES ASSUME NEW x \in Ordinals
               PROVE  /\ Exists(x)' => Exists(x) \/ x < sts.replicas
                      /\ NewlyDeleted(x) => x >= spec.replicas
    OBVIOUS
  <2>1. /\ [pods[x] EXCEPT !.deleting = TRUE].phase = pods[x].phase
        /\ \A p : [pods[x] EXCEPT !.phase = p].deleting = pods[x].deleting
        /\ \A n : /\ [pods[x] EXCEPT !.restarts = n].deleting = pods[x].deleting
                  /\ [pods[x] EXCEPT !.restarts = n].phase = pods[x].phase
                  /\ [pods[x] EXCEPT !.restarts = n, !.phase = "starting", !.draining = FALSE].deleting
                     = pods[x].deleting
        /\ ~ NoPod.deleting /\ NoPod.phase = "none"
        /\ ~ [NoPod EXCEPT !.phase = "starting", !.rev = sts.tmpl].deleting
    BY <1>4 DEF Pod, NoPod
  <2>2. CASE UNCHANGED pods
    BY <2>2 DEF Exists, NewlyDeleted
  <2>3. ASSUME NEW o \in Ordinals, StsCreatePod(o) PROVE Exists(x)' => Exists(x) \/ x < sts.replicas
    BY <1>4, <2>3 DEF StsCreatePod, Exists
  <2>4. ASSUME NEW o \in Ordinals, StsCreatePod(o) PROVE ~ NewlyDeleted(x)
    BY <1>4, <2>1, <2>4 DEF StsCreatePod, NewlyDeleted
  <2>5. ASSUME NEW o \in Ordinals, StsScaleDown(o)
        PROVE  /\ Exists(x)' => Exists(x) \/ x < sts.replicas
               /\ NewlyDeleted(x) => x >= spec.replicas
    <3>1. o >= spec.replicas
      BY <1>0, <2>5 DEF StsScaleDown, KeepsStored
    <3>2. pods'[x] = IF x = o THEN [pods[x] EXCEPT !.deleting = TRUE] ELSE pods[x]
      BY <1>4, <2>5 DEF StsScaleDown
    <3> QED BY <2>1, <3>1, <3>2 DEF Exists, NewlyDeleted
  <2>6. \A o \in Ordinals : ~ StsRollingUpdate(o)
    BY DEF KeepInv, OneTemplate, OneRevision, StsRollingUpdate
  <2>7. ASSUME NEW o \in Ordinals, PodReady(o) \/ BEExit(o) \/ KubeletRestart(o) \/ PodGone(o)
        PROVE  (Exists(x)' => Exists(x)) /\ ~ NewlyDeleted(x)
    <3>1. CASE x # o
      <4>1. pods'[x] = pods[x]
        BY <1>4, <2>7, <3>1 DEF PodReady, BEExit, KubeletRestart, PodGone
      <4> QED BY <4>1 DEF Exists, NewlyDeleted
    <3>2. CASE x = o /\ PodGone(o)
      <4>1. pods'[x] = NoPod
        BY <1>4, <3>2 DEF PodGone
      <4> QED BY <2>1, <4>1 DEF Exists, NewlyDeleted
    <3>3. CASE x = o /\ ~ PodGone(o)
      <4>1. Exists(x)
        BY <2>7, <3>3 DEF PodReady, BEExit, KubeletRestart, Exists, Running
      <4>2. \/ \E p : pods'[x] = [pods[x] EXCEPT !.phase = p]
            \/ \E n : pods'[x] = [pods[x] EXCEPT !.restarts = n]
            \/ \E n : pods'[x] = [pods[x] EXCEPT !.restarts = n, !.phase = "starting", !.draining = FALSE]
        <5>1. CASE PodReady(o) \/ BEExit(o)
          BY <1>4, <3>3, <5>1 DEF PodReady, BEExit
        <5>2. CASE KubeletRestart(o)
          <6>1. pods' = IF pods[o].sentinel
                        THEN [pods EXCEPT ![o].restarts = @ + 1]
                        ELSE [pods EXCEPT ![o].restarts = @ + 1, ![o].phase = "starting", ![o].draining = FALSE]
            BY <5>2 DEF KubeletRestart
          <6> QED BY <1>4, <3>3, <6>1
        <5> QED BY <2>7, <3>3, <5>1, <5>2
      <4> QED BY <2>1, <4>1, <4>2 DEF NewlyDeleted
    <3> QED BY <2>7, <3>1, <3>2, <3>3
  <2>8. CASE \E o \in Ordinals : StsCreatePod(o) \/ StsScaleDown(o) \/ StsRollingUpdate(o)
    BY <2>3, <2>4, <2>5, <2>6, <2>8
  <2>9. CASE Kubelet
    BY <2>7, <2>9 DEF Kubelet
  <2> QED BY <2>2, <2>8, <2>9 DEF StsController, StsPublishRevision, StsCompleteUpdate, CacheSync,
                                  ForeignWrite, Frontend, Heartbeat, TabletsMoved
<1> QED BY <1>1, <1>2, <1>3, <1>5, KeepQuiet DEF DeletesSurplus

LEMMA KeepStep ==
    ASSUME Faults \cap KeepFaults = {}, KeepInv, TypeOK', [Next]_vars, [spec'.tmpl = spec.tmpl]_vars
    PROVE  KeepInv' /\ DeletesSurplus
<1>0. /\ "stale" \notin Faults /\ "overlap" \notin Faults /\ spec'.tmpl = spec.tmpl
      /\ TypeOK /\ FreshCache /\ sts \in StatefulSet
  BY Numbers DEF KeepFaults, vars, KeepInv
<1>1. OneTemplate'
  BY <1>0, TemplateStays
<1>2. FreshCache' /\ KeepsReading' /\ KeepsStored' /\ KeepsApplied' /\ DeletesSurplus
  <2>1. CASE UNCHANGED vars
    <3>1. FreshCache' /\ DeletesSurplus /\ \A o \in Ordinals : Exists(o)' => Exists(o)
      BY <1>0, <2>1 DEF vars, FreshCache, DeletesSurplus, NewlyDeleted, Exists
    <3> QED BY <2>1, <3>1, KeepQuiet DEF vars
  <2>2. CASE PreApplyStatefulSet
    BY <1>0, <2>2, KeepBegins
  <2>3. CASE GracefulRolloutReconcile
    BY <2>3, KeepGraceful
  <2>4. CASE ClearStatefulSetRollingUpdate
    <3>1. sts'.ann = sts.ann /\ sts'.replicas = sts.replicas
      BY <1>0, <2>4 DEF ClearStatefulSetRollingUpdate, WriteSts, StatefulSet
    <3>2. FreshCache'
      BY <1>0, <2>4, WriteKeepsFreshCache DEF ClearStatefulSetRollingUpdate, FreshCache
    <3>3. UNCHANGED <<spec, est, st, pods>> /\ pc = "clear" /\ pc' = "apply"
      BY <2>4 DEF ClearStatefulSetRollingUpdate
    <3>4. DeletesSurplus /\ \A o \in Ordinals : Exists(o)' => Exists(o)
      BY <3>3 DEF DeletesSurplus, NewlyDeleted, Exists
    <3> QED BY <3>1, <3>2, <3>3, <3>4, KeepQuiet
  <2>5. CASE ApplyStatefulSet
    BY <2>5, KeepApplies
  <2>6. CASE UpdateCGStatus \/ Crash
    <3>1. pc' = "idle" /\ UNCHANGED <<spec, sts, cache, fresh, pods>>
      BY <2>6 DEF UpdateCGStatus, Crash, Reset, sysVars
    <3>2. FreshCache' /\ KeepsStored' /\ DeletesSurplus
      BY <3>1 DEF KeepInv, FreshCache, KeepsStored, StaysAbove, Exists, DeletesSurplus, NewlyDeleted
    <3> QED BY <3>1, <3>2 DEF KeepsReading, ReadsCurrent, KeepsApplied, Applying
  <2>7. CASE EditSpec
    BY <1>0, <2>7, KeepEdits
  <2>8. CASE CacheSync \/ ForeignWrite \/ StsController \/ Kubelet \/ Frontend
    BY <2>8, KeepCluster
  <2> QED BY <2>1, <2>2, <2>3, <2>4, <2>5, <2>6, <2>7, <2>8 DEF Next, Operator
<1> QED BY <1>1, <1>2 DEF KeepInv

LEMMA InitKeep == Init => KeepInv
<1> SUFFICES ASSUME Init PROVE KeepInv
  OBVIOUS
<1>0. TypeOK /\ FreshCache /\ spec.replicas \in Nat
  BY InitType, Numbers DEF Init, FreshCache
<1>1. spec.tmpl = 1 /\ spec.replicas = InitReplicas /\ pc = "idle" /\ est = NoSts /\ st = NoSts
  BY DEF Init
<1>2. OneRevision(NoSts) /\ OneRevision(NewStatefulset(spec))
      /\ OneRevision([NewStatefulset(spec) EXCEPT !.updRev = 1, !.curRev = 1])
  BY <1>1 DEF OneRevision, NoSts, NewStatefulset
<1>3. sts.ann = NoAction /\ sts.replicas = spec.replicas /\ OneRevision(sts)
  <2>1. /\ NewStatefulset(spec).ann = NoAction
        /\ NewStatefulset(spec).replicas = spec.replicas
        /\ [NewStatefulset(spec) EXCEPT !.updRev = 1, !.curRev = 1].ann = NoAction
        /\ [NewStatefulset(spec) EXCEPT !.updRev = 1, !.curRev = 1].replicas = spec.replicas
    BY Zenon DEF NewStatefulset
  <2> QED BY <1>2, <2>1 DEF Init
<1>4. \A o \in Ordinals : Exists(o) => o < spec.replicas /\ pods[o].rev = 1
  <2>1. NoPod.phase = "none" /\ ReadyPod(1).rev = 1
    BY DEF NoPod, ReadyPod
  <2> QED BY <1>1, <2>1 DEF Init, Exists
<1>5. OneTemplate
  BY <1>1, <1>2, <1>3, <1>4 DEF OneTemplate
<1>6. KeepsStored
  BY <1>3, <1>4, NoActionAbove, NoActionFields DEF KeepsStored
<1>7. KeepsReading /\ KeepsApplied
  BY <1>1 DEF KeepsReading, ReadsCurrent, KeepsApplied, Applying
<1> QED BY <1>0, <1>5, <1>6, <1>7 DEF KeepInv

\* A group that is scaled up and down, any number of times from a settled state,
\* loses no pod that the user asks for, whatever fails around the operator: its
\* restart in the middle of a scale-down, a failed drain, a refused deletion or
\* patch (the state machine's error path then applies the replicas asked for),
\* a conflicting writer, a failed statement, a late revision, a deadline
\* (handleDeletePod, afterPodDeleted, prepareGracefulStatefulSet).
THEOREM KeepCorrect ==
    ASSUME Faults \cap KeepFaults = {}
    PROVE  Spec /\ KeepsTemplate => NoNeedlessDelete
<1>1. KeepInv /\ TypeOK' /\ [Next]_vars /\ [spec'.tmpl = spec.tmpl]_vars => KeepInv'
  BY KeepStep
<1>2. KeepInv /\ TypeOK' /\ [Next]_vars /\ [spec'.tmpl = spec.tmpl]_vars
      => [\A o \in Ordinals : NewlyDeleted(o) => o >= spec.replicas \/ pods[o].rev # spec.tmpl]_vars
  BY KeepStep DEF DeletesSurplus
<1> QED BY <1>1, <1>2, InitKeep, TypeCorrect, PTL DEF Spec, KeepsTemplate, NoNeedlessDelete
=============================================================================
