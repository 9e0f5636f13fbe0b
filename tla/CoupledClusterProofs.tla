-------------------------- MODULE CoupledClusterProofs --------------------------
(***************************************************************************)
(* Proofs about CoupledCluster, for any number of frontends, edits and     *)
(* faults and any sections: the types of its state, and that scaling the   *)
(* frontends implements Membership.                                        *)
(***************************************************************************)
EXTENDS CoupledCluster, TLAPS, FiniteSetTheorems

-----------------------------------------------------------------------------
(* Types of the custom resource and of the operator's memory. *)

Memory == [spec : Spec0, status : [Components -> Statuses], read : 1..MaxFE, seen : 0..MaxEdits]

LEMMA SpecFields ==
    ASSUME NEW s \in Spec0
    PROVE  /\ s.fe \in 1..MaxFE /\ s.ele \in 1..MaxFE /\ s.on \in SUBSET Others /\ s.auto \in BOOLEAN
           /\ s.size \in 1..(MaxEdits + 1)
           /\ s.anno \in [Restartable -> Stamps] /\ s.base \in [Restartable -> Stamps]
BY DEF Spec0

LEMMA SpecEdits ==
    ASSUME NEW s \in Spec0
    PROVE  /\ \A n \in 1..MaxFE : [s EXCEPT !.fe = n] \in Spec0
           /\ \A n \in 1..(MaxEdits + 1) : [s EXCEPT !.size = n] \in Spec0
           /\ \A t \in SUBSET Others, b \in BOOLEAN : [s EXCEPT !.on = t, !.auto = b] \in Spec0
           /\ \A b \in BOOLEAN : [s EXCEPT !.auto = b] \in Spec0
           /\ \A a \in [Restartable -> Stamps] : [s EXCEPT !.anno = a] \in Spec0
           /\ \A a \in [Restartable -> Stamps] : [s EXCEPT !.base = a] \in Spec0
           /\ \A n \in 1..MaxFE, a \in [Restartable -> Stamps], b \in [Restartable -> Stamps] :
                 [s EXCEPT !.fe = n, !.anno = a, !.base = b] \in Spec0
BY DEF Spec0

LEMMA MemoryFields ==
    ASSUME NEW m \in Memory
    PROVE  /\ m.spec \in Spec0 /\ m.status \in [Components -> Statuses]
           /\ m.read \in 1..MaxFE /\ m.seen \in 0..MaxEdits
           /\ \A s \in Spec0 : [m EXCEPT !.spec = s] \in Memory
           /\ \A t \in [Components -> Statuses] : [m EXCEPT !.status = t] \in Memory
BY DEF Memory

LEMMA ReadType ==
    ASSUME NEW c \in Spec0, NEW s \in [Components -> Statuses], NEW n \in 0..MaxEdits
    PROVE  Read(c, s, n) \in Memory
BY SpecFields DEF Read, Memory

LEMMA StatusFields ==
    ASSUME NEW s \in Statuses
    PROVE  /\ s.phase \in {"none", "Initializing", "Restarting", "Reconciling", "Available"}
           /\ s.hash \in 0..(MaxEdits + 1) /\ s.scaler \in BOOLEAN
           /\ \A b \in BOOLEAN : [s EXCEPT !.scaler = b] \in Statuses
           /\ \A p \in {"none", "Initializing", "Restarting", "Reconciling", "Available"} :
                 [s EXCEPT !.phase = p] \in Statuses
           /\ \A h \in 0..(MaxEdits + 1),
                 p \in {"none", "Initializing", "Restarting", "Reconciling", "Available"} :
                 [s EXCEPT !.hash = h, !.phase = p] \in Statuses
BY DEF Statuses

LEMMA NoStatusType == NoStatus \in Statuses
<1>1. 0 \in 0..(MaxEdits + 1)
  BY CoupledAssumption DEF CoupledAssumption
<1> QED BY <1>1 DEF NoStatus, Statuses

LEMMA InitStatusType ==
    ASSUME NEW s \in Statuses
    PROVE  InitStatus(s) \in Statuses /\ [InitStatus(s) EXCEPT !.phase = "Restarting"] \in Statuses
<1>1. PICK p \in {"none", "Initializing", "Restarting", "Reconciling", "Available"} :
         InitStatus(s) = [NoStatus EXCEPT !.phase = p]
  BY StatusFields DEF InitStatus
<1>2. InitStatus(s) \in Statuses
  BY <1>1, NoStatusType, StatusFields
<1> QED BY <1>2, StatusFields

LEMMA AnnotationType ==
    ASSUME TypeOK, NEW c \in Restartable
    PROVE  Annotation(c) \in Stamps
<1>1. c \in Components
  BY DEF Restartable
<1>2. sts[c].rest \in Nat
  BY <1>1 DEF TypeOK, Sets, Stamps
<1>3. dcr.spec.anno[c] \in Nat
  BY SpecFields DEF TypeOK, Stamps
<1> QED BY <1>2, <1>3 DEF Annotation, Later, Stamps

\* A Sync only touches the annotations of the spec and one component's status.
LEMMA RestartedType ==
    ASSUME TypeOK, NEW c \in Restartable, NEW inject \in BOOLEAN
    PROVE  /\ Restarted(c, inject) \in Memory
           /\ Restarted(c, inject).spec.fe = dcr.spec.fe
           /\ Restarted(c, inject).spec.ele = dcr.spec.ele
<1> DEFINE a == Annotation(c)
           b == IF inject THEN a ELSE dcr.spec.base[c]
           t == IF inject \/ ConfigChanged(c)
                THEN [InitStatus(dcr.status[c]) EXCEPT !.phase = "Restarting"]
                ELSE InitStatus(dcr.status[c])
           sp == [[dcr.spec EXCEPT !.anno = [@ EXCEPT ![c] = a]] EXCEPT !.base = [@ EXCEPT ![c] = b]]
           st == [dcr.status EXCEPT ![c] = t]
<1>0. dcr \in Memory
  BY DEF TypeOK, Memory
<1>1. c \in Components
  BY DEF Restartable
<1>2. dcr.spec \in Spec0 /\ dcr.status \in [Components -> Statuses]
  BY <1>0, MemoryFields
<1>3. a \in Stamps /\ b \in Stamps
  BY <1>2, AnnotationType, SpecFields
<1>4. t \in Statuses
  BY <1>1, <1>2, InitStatusType
<1>5. Restarted(c, inject) = [[dcr EXCEPT !.spec = sp] EXCEPT !.status = st]
  <2> HIDE DEF a
  <2>1. Restarted(c, inject) = [dcr EXCEPT !.spec.anno[c] = a, !.spec.base[c] = b, !.status[c] = t]
    BY <1>0, <1>1, <1>2, SpecFields DEF Restarted, a, Memory, Spec0
  <2> HIDE DEF b, t
  <2> QED BY <2>1, <1>0, <1>1, <1>2 DEF Memory, Spec0
<1> HIDE DEF a, b, t
<1>6. sp \in Spec0 /\ sp.fe = dcr.spec.fe /\ sp.ele = dcr.spec.ele
  <2>1. dcr.spec.anno \in [Restartable -> Stamps] /\ dcr.spec.base \in [Restartable -> Stamps]
    BY <1>2, SpecFields
  <2> QED BY <1>2, <1>3, <2>1 DEF Spec0
<1>7. st \in [Components -> Statuses]
  BY <1>2, <1>4
<1> HIDE DEF sp, st
<1>8. [[dcr EXCEPT !.spec = sp] EXCEPT !.status = st] \in Memory
      /\ [[dcr EXCEPT !.spec = sp] EXCEPT !.status = st].spec = sp
  BY <1>0, <1>6, <1>7 DEF Memory
<1> QED BY <1>5, <1>6, <1>8

LEMMA SafeScaleDownType ==
    ASSUME NEW nr \in 1..MaxFE, NEW ele \in 1..MaxFE, NEW or \in 0..MaxFE
    PROVE  SafeScaleDown(nr, ele, or) \in 1..MaxFE
BY CoupledAssumption DEF CoupledAssumption, SafeScaleDown

\* The StatefulSet that an apply leaves behind.
LEMMA BuildType ==
    ASSUME NEW c \in Components, NEW s \in Spec0
    PROVE  Build(c, s) \in Builds
<1>1. 0 \in 0..MaxFE /\ 1 \in 0..MaxFE /\ 0 \in Nat
  BY CoupledAssumption DEF CoupledAssumption
<1>2. s.fe \in 0..MaxFE /\ s.ele \in 0..MaxFE
  BY SpecFields
<1>3. c \in Restartable => s.base[c] \in Nat
  BY SpecFields DEF Stamps
<1> QED BY <1>1, <1>2, <1>3 DEF Build, Builds, Stamps

LEMMA PatchedType ==
    ASSUME NEW c \in Components, NEW old \in Sets, NEW b \in Builds
    PROVE  Patched(c, old, b) \in Sets
<1>1. NoHash \in Builds
  <2>1. 0 \in 0..MaxFE /\ 0 \in Nat
    BY CoupledAssumption DEF CoupledAssumption
  <2> QED BY <2>1 DEF NoHash, Builds, Stamps
<1>2. b.replicas \in 0..MaxFE /\ b.ele \in 0..MaxFE /\ b.rest \in Stamps /\ old.rest \in Stamps
  BY DEF Builds, Sets
<1>3. CASE ~ old.exists
  BY <1>1, <1>2, <1>3 DEF Patched, Sets
<1>4. CASE old.exists /\ old.hash = b
  BY <1>4 DEF Patched
<1>5. CASE old.exists /\ old.hash # b
  <2>1. PICK r \in Stamps : Patched(c, old, b) = [old EXCEPT !.replicas = b.replicas, !.ele = b.ele,
                                                        !.hash = b, !.rest = r]
    BY <1>2, <1>5 DEF Patched
  <2> QED BY <1>2, <2>1 DEF Sets
<1> QED BY <1>3, <1>4, <1>5

LEMMA NoStsType == NoSts \in Sets
<1>1. 0 \in 0..MaxFE /\ 0 \in Nat
  BY CoupledAssumption DEF CoupledAssumption
<1> QED BY <1>1 DEF NoSts, Sets, NoHash, Builds, Stamps

LEMMA ServicesType ==
    ASSUME TypeOK, NEW c \in Components, ApplyServices(c)
    PROVE  svcs' \in [Components -> SUBSET {"internal", "external"}]
BY DEF ApplyServices, Services, TypeOK

LEMMA ApplyStatefulSetType ==
    ASSUME TypeOK, NEW c \in Components, NEW b \in Builds, ApplyStatefulSet(c, b)
    PROVE  sts' \in [Components -> Sets] /\ faults' \in 0..MaxFaults
<1>1. sts \in [Components -> Sets] /\ Patched(c, sts[c], b) \in Sets
  BY PatchedType DEF TypeOK
<1>2. sts' \in [Components -> Sets]
  BY <1>1 DEF ApplyStatefulSet
<1>3. faults' \in 0..MaxFaults
  BY CoupledAssumption DEF CoupledAssumption, ApplyStatefulSet, NoFault, Fault, TypeOK
<1> QED BY <1>2, <1>3

LEMMA DoneType ==
    ASSUME TypeOK, NEW s \in [Components -> Statuses], Done(s)
    PROVE  /\ pc' = "idle" /\ todo' \subseteq Components /\ dcr' \in Memory
           /\ dcr'.spec = cr
<1>1. cr \in Spec0 /\ edits \in 0..MaxEdits
  BY DEF TypeOK
<1> QED BY <1>1, ReadType DEF Done, Read

LEMMA SyncedType ==
    ASSUME TypeOK, NEW c \in Components, Synced(c)
    PROVE  pc' \in {"clear", "sync"} /\ todo' \subseteq Components
BY DEF Synced, TypeOK

LEMMA FaultType ==
    ASSUME TypeOK, Fault \/ NoFault
    PROVE  faults' \in 0..MaxFaults
BY CoupledAssumption DEF CoupledAssumption, Fault, NoFault, TypeOK

\* The status that UpdateComponentStatus gives each component.
LEMMA UpdatedStatusType ==
    ASSUME TypeOK, NEW c \in Components
    PROVE  UpdatedStatus(c) \in Statuses
<1> DEFINE Phases == {"none", "Initializing", "Restarting", "Reconciling", "Available"}
<1>0. dcr.status \in [Components -> Statuses] /\ dcr.spec \in Spec0 /\ dcr.status[c] \in Statuses
  BY DEF TypeOK
<1>1. \A n, p : p \in Phases => Classified(c, n, p) \in Phases
  BY DEF Classified
<1>2. c \in Restartable => conf[c] \in 0..(MaxEdits + 1)
  BY CoupledAssumption DEF CoupledAssumption, TypeOK
<1>3. CASE ~ On(c, dcr.spec)
  BY <1>3, NoStatusType DEF UpdatedStatus
<1>4. CASE On(c, dcr.spec) /\ c = "fe"
  <2>1. c \in Restartable
    BY <1>4 DEF Restartable
  <2>2. Classified(c, dcr.spec.fe, dcr.status[c].phase) \in Phases
    BY <1>0, <1>1, StatusFields
  <2>3. UpdatedStatus(c) = [dcr.status[c] EXCEPT !.hash = conf[c],
                              !.phase = Classified(c, dcr.spec.fe, dcr.status[c].phase)]
    BY <1>4, <1>0 DEF UpdatedStatus, UpdatedFE, Statuses
  <2> HIDE DEF Phases
  <2>4. [dcr.status[c] EXCEPT !.hash = conf[c], !.phase = Classified(c, dcr.spec.fe, dcr.status[c].phase)] \in Statuses
    BY <1>0, <1>2, <2>1, <2>2 DEF Statuses, Phases
  <2> QED BY <2>3, <2>4
<1>5. CASE On(c, dcr.spec) /\ c = "be"
  <2>1. c \in Restartable
    BY <1>5 DEF Restartable
  <2>2. Classified(c, 1, dcr.status[c].phase) \in Phases
    BY <1>0, <1>1, StatusFields
  <2>3. UpdatedStatus(c) = [dcr.status[c] EXCEPT !.hash = conf[c],
                              !.phase = Classified(c, 1, dcr.status[c].phase)]
    BY <1>5, <1>0 DEF UpdatedStatus, UpdatedBE, Statuses
  <2> HIDE DEF Phases
  <2>4. [dcr.status[c] EXCEPT !.hash = conf[c], !.phase = Classified(c, 1, dcr.status[c].phase)] \in Statuses
    BY <1>0, <1>2, <2>1, <2>2 DEF Statuses, Phases
  <2> QED BY <2>3, <2>4
<1>6. CASE On(c, dcr.spec) /\ c = "broker"
  <2> DEFINE p == IF dcr.status[c].phase = "none" THEN "Reconciling" ELSE dcr.status[c].phase
  <2>1. Classified(c, 1, p) \in Phases
    BY <1>0, <1>1, StatusFields
  <2>2. UpdatedStatus(c) = [dcr.status[c] EXCEPT !.phase = Classified(c, 1, p)]
    BY <1>6, <1>0 DEF UpdatedStatus, UpdatedBroker, Statuses
  <2> HIDE DEF p
  <2> QED BY <1>0, <2>1, <2>2, StatusFields
<1>7. CASE On(c, dcr.spec) /\ c \notin {"fe", "be", "broker"}
  <2>1. c = "cn"
    BY <1>7, CoupledAssumption DEF CoupledAssumption, Components
  <2>2. UpdatedStatus(c) = UpdatedCN
    BY <1>7 DEF UpdatedStatus
  <2>3. UpdatedCN.phase \in Phases
    BY <1>1, <2>1 DEF UpdatedCN
  <2>4. 0 \in 0..(MaxEdits + 1) /\ dcr.spec.auto \in BOOLEAN
    BY <1>0, SpecFields, CoupledAssumption DEF CoupledAssumption
  <2> QED BY <2>2, <2>3, <2>4 DEF UpdatedCN, Statuses
<1> QED BY <1>3, <1>4, <1>5, <1>6, <1>7

-----------------------------------------------------------------------------
(* Types of the state. *)

\* Volumes and ConfigMaps have as many versions as there were edits.
WithinEdits == cr.size <= edits + 1 /\ \A c \in Restartable : conf[c] <= edits + 1

LEMMA PodTypes ==
    ASSUME NEW p \in Pod, NEW e \in 0..MaxFE, NEW r \in Stamps, NEW n \in 0..(MaxEdits + 1)
    PROVE  /\ NoPod \in Pod
           /\ [phase |-> "starting", ele |-> e, rest |-> r, conf |-> n] \in Pod
           /\ [phase |-> "ready", ele |-> e, rest |-> r, conf |-> n] \in Pod
           /\ [p EXCEPT !.phase = "ready"] \in Pod
           /\ [p EXCEPT !.phase = "starting", !.conf = n] \in Pod
<1>1. 0 \in 0..(MaxEdits + 1) /\ 0 \in 0..MaxFE /\ 0 \in Nat
  BY CoupledAssumption DEF CoupledAssumption
<1> QED BY <1>1 DEF Pod, NoPod, Stamps

LEMMA ConfigOfType ==
    ASSUME conf \in [Restartable -> 1..(MaxEdits + 1)], NEW c \in Components
    PROVE  ConfigOf(c) \in 0..(MaxEdits + 1)
BY CoupledAssumption DEF CoupledAssumption, ConfigOf

Claim == [size : 0..(MaxEdits + 1), going : BOOLEAN]

LEMMA NoClaimType == NoClaim \in Claim
<1>1. 0 \in 0..(MaxEdits + 1)
  BY CoupledAssumption DEF CoupledAssumption
<1> QED BY <1>1 DEF NoClaim, Claim

LEMMA InitNewType ==
    ASSUME InitNew
    PROVE  /\ status \in [Components -> Statuses] /\ sts \in [Components -> Sets]
           /\ svcs \in [Components -> SUBSET {"internal", "external"}] /\ hpa \in BOOLEAN
           /\ claims \in [Ordinals -> Claim] /\ pods \in [Components -> [Ordinals -> Pod]]
           /\ role \in [Ordinals -> Roles]
<1>1. NoPod \in Pod
  <2>1. 0 \in 0..(MaxEdits + 1) /\ 0 \in 0..MaxFE /\ 0 \in Nat
    BY CoupledAssumption DEF CoupledAssumption
  <2> QED BY <2>1 DEF Pod, NoPod, Stamps
<1> QED BY <1>1, NoStatusType, NoStsType, NoClaimType DEF InitNew, Roles

LEMMA InitRunningType ==
    ASSUME InitRunning, cr \in Spec0, conf \in [Restartable -> 1..(MaxEdits + 1)]
    PROVE  /\ status \in [Components -> Statuses] /\ sts \in [Components -> Sets]
           /\ svcs \in [Components -> SUBSET {"internal", "external"}] /\ hpa \in BOOLEAN
           /\ claims \in [Ordinals -> Claim] /\ pods \in [Components -> [Ordinals -> Pod]]
           /\ role \in [Ordinals -> Roles]
<1> DEFINE n(c) == IF c = "fe" THEN cr.fe ELSE IF c \in cr.on THEN 1 ELSE 0
           e(c) == IF c = "fe" THEN Election ELSE 0
           built(c) == [replicas |-> n(c), ele |-> e(c), rest |-> 0]
<1>0. 0 \in Nat /\ 0 \in 0..(MaxEdits + 1) /\ 1 \in 0..(MaxEdits + 1)
      /\ 0 \in 0..MaxFE /\ 1 \in 0..MaxFE
  BY CoupledAssumption DEF CoupledAssumption
<1>1. cr.fe \in 1..MaxFE /\ cr.auto \in BOOLEAN
  BY SpecFields
<1>2. \A c \in Components : n(c) \in 0..MaxFE /\ e(c) \in 0..MaxFE
  BY <1>0, <1>1, CoupledAssumption DEF CoupledAssumption
<1>3. status \in [Components -> Statuses]
  <2>1. status = [c \in Components |->
                       IF n(c) = 0 THEN NoStatus
                       ELSE [phase |-> "Available", hash |-> IF c \in Restartable THEN 1 ELSE 0,
                             scaler |-> c = "cn" /\ cr.auto]]
    BY DEF InitRunning
  <2>2. \A c \in Components :
          [phase |-> "Available", hash |-> IF c \in Restartable THEN 1 ELSE 0,
           scaler |-> c = "cn" /\ cr.auto] \in Statuses
    <3> TAKE c \in Components
    <3>1. (c = "cn" /\ cr.auto) \in BOOLEAN
      BY Zenon
    <3> QED BY <1>0, <3>1 DEF Statuses
  <2> HIDE DEF n
  <2> QED BY <2>1, <2>2, NoStatusType
<1>4. sts \in [Components -> Sets]
  <2>1. sts = [c \in Components |-> IF n(c) = 0 THEN NoSts
                    ELSE [replicas |-> n(c), ele |-> e(c), rest |-> 0, hash |-> built(c), exists |-> TRUE]]
    BY DEF InitRunning
  <2> HIDE DEF n, e
  <2>2. \A c \in Components :
          [replicas |-> n(c), ele |-> e(c), rest |-> 0, hash |-> built(c), exists |-> TRUE] \in Sets
    BY <1>0, <1>2 DEF Sets, Builds, Stamps
  <2> QED BY <2>1, <2>2, NoStsType
<1>5. svcs \in [Components -> SUBSET {"internal", "external"}]
  BY DEF InitRunning, Services
<1>6. hpa \in BOOLEAN
  BY Zenon DEF InitRunning
<1>7. claims \in [Ordinals -> Claim]
  <2>1. [size |-> 1, going |-> FALSE] \in Claim
    BY <1>0 DEF Claim
  <2> QED BY <2>1, NoClaimType DEF InitRunning
<1>8. pods \in [Components -> [Ordinals -> Pod]]
  <2>1. pods = [c \in Components |-> [o \in Ordinals |->
                     IF o < n(c) THEN [phase |-> "ready", ele |-> e(c), rest |-> 0, conf |-> ConfigOf(c)]
                     ELSE NoPod]]
    BY DEF InitRunning
  <2>2. NoPod \in Pod
    BY <1>0 DEF NoPod, Pod, Stamps
  <2> HIDE DEF n, e
  <2>3. \A c \in Components :
          [phase |-> "ready", ele |-> e(c), rest |-> 0, conf |-> ConfigOf(c)] \in Pod
    BY <1>0, <1>2, ConfigOfType DEF Pod, Stamps
  <2> QED BY <2>1, <2>2, <2>3
<1>9. role \in [Ordinals -> Roles]
  BY DEF InitRunning, Roles
<1> QED BY <1>3, <1>4, <1>5, <1>6, <1>7, <1>8, <1>9

LEMMA TypeInit == Init => TypeOK /\ WithinEdits
<1> SUFFICES ASSUME Init PROVE TypeOK /\ WithinEdits
  OBVIOUS
<1>0. /\ 0 \in Nat /\ 0 \in 0..MaxEdits /\ 0 \in 0..MaxFaults
      /\ 1 \in 1..(MaxEdits + 1)
  BY CoupledAssumption DEF CoupledAssumption
<1>1. PICK k \in Clusters :
         /\ may = k.may /\ edits = MaxEdits - k.edits
         /\ cr = [fe |-> k.fe, ele |-> Election, on |-> k.on, auto |-> k.auto, size |-> 1,
                  anno |-> [c \in Restartable |-> 0], base |-> [c \in Restartable |-> 0]]
  BY DEF Init
<1>2. /\ k.fe \in 1..MaxFE /\ k.on \in SUBSET Others /\ k.auto \in BOOLEAN /\ k.may \in SUBSET Kinds
      /\ k.edits \in 0..MaxEdits /\ Election \in 1..MaxFE
  BY CoupledAssumption DEF CoupledAssumption
<1>3. cr \in Spec0 /\ cr.size = 1 /\ may \subseteq Kinds
  BY <1>0, <1>1, <1>2 DEF Spec0, Stamps
<1>4. conf \in [Restartable -> 1..(MaxEdits + 1)] /\ \A c \in Restartable : conf[c] = 1
  BY <1>0 DEF Init
<1>5. /\ status \in [Components -> Statuses] /\ sts \in [Components -> Sets]
      /\ svcs \in [Components -> SUBSET {"internal", "external"}] /\ hpa \in BOOLEAN
      /\ claims \in [Ordinals -> Claim] /\ pods \in [Components -> [Ordinals -> Pod]]
      /\ role \in [Ordinals -> Roles]
  BY <1>3, <1>4, InitNewType, InitRunningType DEF Init
<1>6. pc = "idle" /\ todo = {} /\ faults = 0 /\ ask = cr.fe /\ leaked = {}
  BY DEF Init
<1>e. edits \in 0..MaxEdits /\ 1 <= edits + 1
  <2>1. edits = MaxEdits - k.edits /\ MaxEdits \in Nat
    BY <1>1, CoupledAssumption DEF CoupledAssumption
  <2> QED BY <1>2, <2>1
<1>7. dcr \in Memory
  BY <1>e, <1>3, <1>5, ReadType DEF Init
<1>8. WithinEdits
  BY <1>e, <1>3, <1>4 DEF WithinEdits
<1>9. ask \in 1..MaxFE /\ edits \in 0..MaxEdits /\ faults \in 0..MaxFaults
  BY <1>0, <1>e, <1>3, <1>6, SpecFields
<1> QED BY <1>3, <1>4, <1>5, <1>6, <1>7, <1>8, <1>9 DEF TypeOK, Memory, Claim

\* Every way of ending or leaving a reconcile.
LEMMA EndTypes ==
    ASSUME TypeOK, Reconcile \/ Crash \/ RevertFails \/ UpdateStatus \/ SyncPanics
    PROVE  TypeOK'
<1>1. dcr' \in Memory /\ todo' \subseteq Components /\ pc' \in {"idle", "sync"}
  <2>1. status \in [Components -> Statuses] /\ dcr.status \in [Components -> Statuses] /\ cr \in Spec0
        /\ edits \in 0..MaxEdits
    BY DEF TypeOK
  <2>2. CASE Reconcile
    BY <2>1, <2>2, ReadType DEF Reconcile
  <2>3. CASE Crash \/ RevertFails \/ SyncPanics
    BY <2>1, <2>3, DoneType DEF Crash, RevertFails, SyncPanics
  <2>4. CASE UpdateStatus
    <3>1. status' \in [Components -> Statuses] /\ Done(status')
      BY <2>1, <2>4 DEF UpdateStatus
    <3> QED BY <3>1, DoneType
  <2> QED BY <2>2, <2>3, <2>4
<1>2. status' \in [Components -> Statuses]
  BY DEF TypeOK, Reconcile, Crash, RevertFails, UpdateStatus, SyncPanics
<1>3. faults' \in 0..MaxFaults
  BY FaultType DEF Reconcile, Crash, RevertFails, UpdateStatus, SyncPanics, NoFault
<1>4. UNCHANGED <<user, env>>
  BY DEF Reconcile, Crash, RevertFails, UpdateStatus, SyncPanics
<1> QED BY <1>1, <1>2, <1>3, <1>4 DEF TypeOK, Memory, user, env

LEMMA PrepareClaimsTypes == ASSUME TypeOK, PrepareClaims PROVE TypeOK'
<1>1. claims' \in [Ordinals -> Claim]
  <2>1. PICK done \in SUBSET (Misfits(dcr.spec) \cup Missing(dcr.spec)) :
          claims' = [o \in Ordinals |->
                     IF o \notin done THEN claims[o]
                     ELSE [size |-> IF o \in Bound /\ o \notin Misfits(dcr.spec) THEN claims[o].size
                                    ELSE dcr.spec.size,
                           going |-> claims[o].going]]
    BY DEF PrepareClaims
  <2>2. claims \in [Ordinals -> Claim] /\ dcr.spec.size \in 0..(MaxEdits + 1)
    BY SpecFields, CoupledAssumption DEF CoupledAssumption, TypeOK, Claim
  <2>3. \A o \in Ordinals : claims[o] \in Claim /\ claims[o].size \in 0..(MaxEdits + 1) /\ claims[o].going \in BOOLEAN
    BY <2>2 DEF Claim
  <2> QED BY <2>1, <2>2, <2>3 DEF Claim
<1>2. dcr' \in Memory
  BY RestartedType DEF PrepareClaims, Restartable, Components
<1>3. "fe" \in Components /\ ApplyServices("fe") /\ Synced("fe")
  BY DEF PrepareClaims, Components
<1>4. /\ svcs' \in [Components -> SUBSET {"internal", "external"}]
      /\ pc' \in {"clear", "sync"} /\ todo' \subseteq Components
  BY <1>3, ServicesType, SyncedType
<1>5. faults' \in 0..MaxFaults
  BY FaultType DEF PrepareClaims
<1>6. UNCHANGED <<user, status, sts, hpa, pods, role>>
  BY DEF PrepareClaims
<1> QED BY <1>1, <1>2, <1>4, <1>5, <1>6 DEF TypeOK, Memory, Claim, user

\* SyncFE puts the replicas it works towards into memory, and leaves the election
\* number alone.
LEMMA SyncFEMemory ==
    ASSUME TypeOK, SyncFE
    PROVE  /\ dcr' \in Memory /\ dcr'.spec.fe = Wanted(dcr.spec) /\ Wanted(dcr.spec) \in 1..MaxFE
           /\ dcr'.spec.ele = dcr.spec.ele
<1> DEFINE r == Restarted("fe", Injects("fe") /\ sts["fe"].exists /\ ~ Shrinks(dcr.spec))
           w == Wanted(dcr.spec)
<1>1. dcr' = [r EXCEPT !.spec.fe = w]
  BY DEF SyncFE
<1>2. w \in 1..MaxFE
  <2>1. dcr.spec.fe \in 1..MaxFE /\ dcr.spec.ele \in 1..MaxFE /\ sts["fe"].replicas \in 0..MaxFE
    BY SpecFields DEF TypeOK, Sets, Components
  <2> QED BY <2>1, SafeScaleDownType DEF Wanted
<1>3. r \in Memory /\ r.spec.ele = dcr.spec.ele
  <2>1. "fe" \in Restartable
    BY DEF Restartable, Components
  <2>2. (Injects("fe") /\ sts["fe"].exists /\ ~ Shrinks(dcr.spec)) \in BOOLEAN
    BY Zenon
  <2> QED BY <2>1, <2>2, RestartedType
<1> HIDE DEF r, w
<1>4. dcr' = [r EXCEPT !.spec = [r.spec EXCEPT !.fe = w]]
  BY <1>1
<1>5. /\ r.spec \in Spec0 /\ [r.spec EXCEPT !.fe = w] \in Spec0
      /\ [r.spec EXCEPT !.fe = w].fe = w /\ [r.spec EXCEPT !.fe = w].ele = dcr.spec.ele
  <2>1. r.spec \in Spec0
    BY <1>3, MemoryFields
  <2>2. PICK x \in Spec0 : x = r.spec
    BY <2>1
  <2>3. [x EXCEPT !.fe = w] \in Spec0 /\ [x EXCEPT !.fe = w].fe = w /\ [x EXCEPT !.fe = w].ele = x.ele
    BY <1>2 DEF Spec0
  <2> QED BY <1>3, <2>2, <2>3
<1>6. dcr' \in Memory /\ dcr'.spec = [r.spec EXCEPT !.fe = w]
  BY <1>3, <1>4, <1>5 DEF Memory
<1> QED BY <1>2, <1>5, <1>6 DEF w

LEMMA SyncFETypes == ASSUME TypeOK, SyncFE PROVE TypeOK'
<1>1. dcr' \in Memory
  BY SyncFEMemory
<1>2. pc' \in {"feDrop", "feApply"}
  BY DEF SyncFE
<1>3. svcs' \in [Components -> SUBSET {"internal", "external"}]
  BY ServicesType DEF SyncFE, Components
<1>4. UNCHANGED <<user, status, sts, hpa, claims, pods, role, todo, faults>>
  BY DEF SyncFE
<1> QED BY <1>1, <1>2, <1>3, <1>4 DEF TypeOK, Memory, user

\* A Sync that returns an error.
LEMMA ServicesFailTypes ==
    ASSUME TypeOK, NEW c \in Components, ApplyServicesFails(c)
    PROVE  TypeOK'
<1>1. svcs' \in [Components -> SUBSET {"internal", "external"}]
  BY DEF ApplyServicesFails, TypeOK
<1>2. status \in [Components -> Statuses] /\ Done(status)
  BY DEF ApplyServicesFails, TypeOK
<1>3. pc' = "idle" /\ todo' \subseteq Components /\ dcr' \in Memory
  BY <1>2, DoneType
<1>4. faults' \in 0..MaxFaults
  BY FaultType DEF ApplyServicesFails
<1>5. UNCHANGED <<user, status, sts, hpa, claims, pods, role>>
  BY DEF ApplyServicesFails
<1> QED BY <1>1, <1>3, <1>4, <1>5 DEF TypeOK, Memory, user

LEMMA StatefulSetFailTypes ==
    ASSUME TypeOK, NEW c \in Components, NEW b, ApplyStatefulSetFails(c, b),
           svcs' \in [Components -> SUBSET {"internal", "external"}]
    PROVE  TypeOK'
<1>2. status \in [Components -> Statuses] /\ Done(status)
  BY DEF ApplyStatefulSetFails, TypeOK
<1>3. pc' = "idle" /\ todo' \subseteq Components /\ dcr' \in Memory
  BY <1>2, DoneType
<1>4. faults' \in 0..MaxFaults
  BY FaultType DEF ApplyStatefulSetFails
<1>5. UNCHANGED <<user, status, sts, hpa, claims, pods, role>>
  BY DEF ApplyStatefulSetFails
<1> QED BY <1>3, <1>4, <1>5 DEF TypeOK, Memory, user

LEMMA DropTypes == ASSUME TypeOK, DropObservers \/ DropObserversFails PROVE TypeOK'
<1>1. role' \in [Ordinals -> Roles]
  BY DEF DropObservers, DropObserversFails, DropObserver, TypeOK, Roles
<1>2. CASE DropObservers
  BY <1>1, <1>2, FaultType DEF DropObservers, TypeOK, user
<1>3. CASE DropObserversFails
  <2>1. status \in [Components -> Statuses] /\ Done(status)
    BY <1>3 DEF DropObserversFails, TypeOK
  <2>2. pc' = "idle" /\ todo' \subseteq Components /\ dcr' \in Memory
    BY <2>1, DoneType
  <2>3. faults' \in 0..MaxFaults
    BY <1>3, FaultType DEF DropObserversFails
  <2>4. UNCHANGED <<user, status, sts, svcs, hpa, claims, pods>>
    BY <1>3 DEF DropObserversFails
  <2> QED BY <1>1, <2>2, <2>3, <2>4 DEF TypeOK, Memory, user
<1> QED BY <1>2, <1>3

LEMMA ApplyFETypes == ASSUME TypeOK, ApplyFE \/ ApplyFEFails PROVE TypeOK'
<1>0. "fe" \in Components
  BY DEF Components
<1>1. Build("fe", dcr.spec) \in Builds
  BY <1>0, BuildType DEF TypeOK
<1>2. CASE ApplyFE
  <2>1. sts' \in [Components -> Sets] /\ faults' \in 0..MaxFaults
    BY <1>0, <1>1, <1>2, ApplyStatefulSetType DEF ApplyFE
  <2>2. pc' \in {"clear", "sync"} /\ todo' \subseteq Components
    BY <1>0, <1>2, SyncedType DEF ApplyFE
  <2> QED BY <1>2, <2>1, <2>2 DEF ApplyFE, TypeOK, user
<1>3. CASE ApplyFEFails
  <2>1. svcs' \in [Components -> SUBSET {"internal", "external"}]
    BY <1>3 DEF ApplyFEFails, TypeOK
  <2> QED BY <1>0, <1>3, <2>1, StatefulSetFailTypes DEF ApplyFEFails
<1> QED BY <1>2, <1>3

\* The memory after a Sync of backends, compute nodes or brokers.
LEMMA OtherMemory ==
    ASSUME TypeOK, NEW c \in Others,
           \/ dcr' = (IF c = "be" THEN [dcr EXCEPT !.status[c] = InitStatus(@)] ELSE dcr)
           \/ dcr' = (IF c = "be" THEN Restarted(c, Injects(c)) ELSE dcr)
    PROVE  dcr' \in Memory /\ dcr'.spec.fe = dcr.spec.fe /\ dcr'.spec.ele = dcr.spec.ele
<1>0. dcr \in Memory /\ dcr.status \in [Components -> Statuses] /\ c \in Components
  BY DEF TypeOK, Memory, Components
<1>1. CASE dcr' = dcr
  BY <1>0, <1>1
<1>2. CASE c = "be" /\ dcr' = [dcr EXCEPT !.status[c] = InitStatus(@)]
  <2>1. InitStatus(dcr.status[c]) \in Statuses
    BY <1>0, InitStatusType
  <2> DEFINE t == [dcr.status EXCEPT ![c] = InitStatus(dcr.status[c])]
  <2>2. t \in [Components -> Statuses]
    BY <1>0, <2>1
  <2>3. dcr' = [dcr EXCEPT !.status = t]
    BY <1>2
  <2> HIDE DEF t
  <2> QED BY <1>0, <2>2, <2>3 DEF Memory
<1>3. CASE c = "be" /\ dcr' = Restarted(c, Injects(c))
  <2>1. c \in Restartable
    BY <1>0, <1>3 DEF Restartable
  <2>2. Injects(c) \in BOOLEAN
    BY Zenon DEF Injects
  <2> QED BY <1>3, <2>1, <2>2, RestartedType
<1> QED BY <1>1, <1>2, <1>3

LEMMA SyncWaitsTypes == ASSUME TypeOK, NEW c \in Others, SyncWaits(c) PROVE TypeOK'
<1>1. dcr' \in Memory
  BY OtherMemory DEF SyncWaits
<1>2. pc' \in {"clear", "sync"} /\ todo' \subseteq Components
  BY SyncedType DEF SyncWaits, Components
<1> QED BY <1>1, <1>2 DEF SyncWaits, TypeOK, Memory, user, env

LEMMA SyncAppliesTypes == ASSUME TypeOK, NEW c \in Others, SyncApplies(c) PROVE TypeOK'
<1>0. c \in Components
  BY DEF Components
<1>1. dcr' \in Memory
  BY OtherMemory DEF SyncApplies
<1>2. pc' \in {"clear", "sync"} /\ todo' \subseteq Components
  BY <1>0, SyncedType DEF SyncApplies
<1>3. svcs' \in [Components -> SUBSET {"internal", "external"}]
  BY <1>0, ServicesType DEF SyncApplies
<1> DEFINE b == Build(c, dcr'.spec)
<1>4. b \in Builds
  BY <1>0, <1>1, BuildType, MemoryFields
<1>5. /\ \/ ApplyStatefulSet(c, b)
         \/ sts' = [sts EXCEPT ![c] = Patched(c, @, b)] /\ Fault
      /\ hpa' \in BOOLEAN
  <2>1. hpa \in BOOLEAN
    BY DEF TypeOK
  <2>2. \/ ApplyStatefulSet(c, b) /\ hpa' = (hpa \/ (c = "cn" /\ dcr.spec.auto))
        \/ sts' = [sts EXCEPT ![c] = Patched(c, @, b)] /\ hpa' = hpa /\ Fault
    BY DEF SyncApplies
  <2> HIDE DEF b
  <2>3. (hpa \/ (c = "cn" /\ dcr.spec.auto)) \in BOOLEAN
    BY Zenon
  <2> QED BY <2>1, <2>2, <2>3
<1> HIDE DEF b
<1>6. sts' \in [Components -> Sets] /\ faults' \in 0..MaxFaults
  <2>1. CASE ApplyStatefulSet(c, b)
    BY <1>0, <1>4, <2>1, ApplyStatefulSetType
  <2>2. CASE sts' = [sts EXCEPT ![c] = Patched(c, @, b)] /\ Fault
    <3>1. sts \in [Components -> Sets] /\ Patched(c, sts[c], b) \in Sets
      BY <1>0, <1>4, PatchedType DEF TypeOK
    <3> QED BY <2>2, <3>1, FaultType
  <2> QED BY <1>5, <2>1, <2>2
<1>7. UNCHANGED <<user, status, claims, pods, role>>
  BY DEF SyncApplies
<1> QED BY <1>1, <1>2, <1>3, <1>5, <1>6, <1>7 DEF TypeOK, Memory, user

LEMMA SyncFailsTypes == ASSUME TypeOK, NEW c \in Others, SyncFails(c) PROVE TypeOK'
<1>0. c \in Components
  BY DEF Components
<1>1. CASE ApplyServicesFails(c)
  BY <1>0, <1>1, ServicesFailTypes
<1>2. CASE ApplyServices(c) /\ \E b : ApplyStatefulSetFails(c, b)
  BY <1>0, <1>2, ServicesType, StatefulSetFailTypes
<1> QED BY <1>1, <1>2 DEF SyncFails

LEMMA ClearTypes == ASSUME TypeOK, NEW c \in Components, ClearResources(c) PROVE TypeOK'
<1>1. UNCHANGED <<cr, conf, may, ask, edits, status, pods, role, pc>> /\ todo' \subseteq Components
      /\ leaked \subseteq Others
  BY DEF ClearResources, TypeOK
<1>2. CASE c = "fe"
  <2>1. ClearClaims
    BY <1>2 DEF ClearResources
  <2>2. PICK done \in SUBSET Surplus :
           /\ IF done = Surplus THEN NoFault ELSE Fault
           /\ claims' = [o \in Ordinals |-> IF o \notin done THEN claims[o]
                            ELSE IF Exists("fe", o)
                                 THEN [claims[o] EXCEPT !.going = @ \/ claims[o].size # 0]
                            ELSE NoClaim]
    BY <2>1 DEF ClearClaims
  <2>3. \A o \in Ordinals : [claims[o] EXCEPT !.going = @ \/ claims[o].size # 0] \in Claim
    <3> TAKE o \in Ordinals
    <3>1. claims[o] \in Claim /\ (claims[o].going \/ claims[o].size # 0) \in BOOLEAN
      BY DEF TypeOK, Claim
    <3> QED BY <3>1 DEF Claim
  <2>4. claims' \in [Ordinals -> Claim]
    BY <2>2, <2>3, NoClaimType DEF TypeOK, Claim
  <2>5. faults' \in 0..MaxFaults
    BY <2>2, FaultType
  <2> QED BY <1>1, <2>1, <2>4, <2>5 DEF ClearClaims, TypeOK, Claim
<1>3. CASE c = "cn"
  <2>1. ClearScaler
    BY <1>3 DEF ClearResources
  <2>2. hpa' \in BOOLEAN /\ faults' \in 0..MaxFaults
    BY <2>1, FaultType DEF ClearScaler, TypeOK
  <2>3. dcr' \in Memory
    <3>1. dcr \in Memory /\ dcr.status \in [Components -> Statuses]
      BY DEF TypeOK, Memory
    <3> DEFINE t == [dcr.status EXCEPT !["cn"] = [@ EXCEPT !.scaler = FALSE]]
    <3>2. t \in [Components -> Statuses]
      BY <1>3, <3>1, StatusFields
    <3>3. dcr' = dcr \/ dcr' = [dcr EXCEPT !.status = t]
      BY <2>1 DEF ClearScaler
    <3> HIDE DEF t
    <3> QED BY <3>1, <3>2, <3>3, MemoryFields
  <2>4. leaked' \subseteq Others
    BY <1>1, <1>3, <2>1 DEF ClearScaler, Components
  <2> QED BY <1>1, <2>1, <2>2, <2>3, <2>4 DEF ClearScaler, TypeOK, Memory
<1>4. CASE c \notin {"fe", "cn"}
  <2>1. ClearCommon(c)
    BY <1>4 DEF ClearResources
  <2>2. sts' \in [Components -> Sets]
    BY <2>1, NoStsType DEF ClearCommon, TypeOK
  <2>3. svcs' \in [Components -> SUBSET {"internal", "external"}]
    <3>1. svcs \in [Components -> SUBSET {"internal", "external"}]
      BY DEF TypeOK
    <3>2. \/ svcs' = svcs \/ svcs' = [svcs EXCEPT ![c] = {}]
          \/ \E left \in {svcs[c], svcs[c] \ {"internal"}} : svcs' = [svcs EXCEPT ![c] = left]
      BY <2>1 DEF ClearCommon
    <3> QED BY <3>1, <3>2
  <2>4. faults' \in 0..MaxFaults
    BY <2>1, FaultType DEF ClearCommon
  <2>5. leaked' \subseteq Others
    BY <1>1, <1>4, <2>1 DEF ClearCommon, Components
  <2> QED BY <1>1, <2>1, <2>2, <2>3, <2>4, <2>5 DEF ClearCommon, TypeOK
<1> QED BY <1>2, <1>3, <1>4

LEMMA FinishTypes ==
    ASSUME TypeOK, Finish
    PROVE  /\ TypeOK'
           /\ cr'.size = cr.size /\ cr'.ele = cr.ele /\ dcr'.spec = dcr.spec
<1> DEFINE new == [c \in Components |-> UpdatedStatus(c)]
           reverts == dcr.spec.fe # dcr.read /\ Overwrites
           t == [c \in Components |-> IF reverts /\ status[c] # NoStatus THEN status[c] ELSE new[c]]
<1>0. cr \in Spec0 /\ dcr \in Memory /\ dcr.spec \in Spec0
  BY DEF TypeOK, Memory
<1>1. cr' = (IF reverts THEN [cr EXCEPT !.fe = dcr.spec.fe, !.anno = dcr.spec.anno,
                                        !.base = dcr.spec.base] ELSE cr)
      /\ dcr' = [dcr EXCEPT !.status = t]
  BY DEF Finish
<1>2. t \in [Components -> Statuses]
  BY UpdatedStatusType DEF TypeOK
<1> HIDE DEF reverts, t
<1>3. cr' \in Spec0 /\ cr'.size = cr.size /\ cr'.ele = cr.ele
  <2>1. dcr.spec.fe \in 1..MaxFE /\ dcr.spec.anno \in [Restartable -> Stamps]
        /\ dcr.spec.base \in [Restartable -> Stamps]
    BY <1>0, SpecFields
  <2> QED BY <1>0, <1>1, <2>1 DEF Spec0
<1>4. dcr' \in Memory /\ dcr'.spec = dcr.spec
  BY <1>0, <1>1, <1>2 DEF Memory
<1>5. faults' \in 0..MaxFaults
  BY FaultType DEF Finish
<1> QED BY <1>3, <1>4, <1>5 DEF Finish, TypeOK, Memory, env

\* An edit of the custom resource keeps it in its type: the size grows by one
\* per edit at most.
LEMMA EditCRTypes ==
    ASSUME TypeOK, WithinEdits, edits < MaxEdits, NEW kind \in may, EditCR(kind)
    PROVE  cr' \in Spec0 /\ cr'.size <= edits + 2 /\ (cr'.ele = cr.ele \/ cr'.ele \in EditElections)
<1>0. cr \in Spec0 /\ edits \in Nat /\ MaxEdits \in Nat /\ kind \in Kinds
  BY CoupledAssumption DEF CoupledAssumption, TypeOK
<1>1. cr.size \in Nat /\ cr.size >= 1 /\ cr.size <= edits + 1
  BY <1>0, SpecFields DEF WithinEdits
<1>2. CASE kind = "scale"
  <2>0. kind \notin Others
    BY <1>2, CoupledAssumption DEF CoupledAssumption
  <2>1. PICK n \in EditFE, e \in EditElections : cr' = [cr EXCEPT !.fe = n, !.ele = e]
    BY <1>2, <2>0 DEF EditCR
  <2>2. n \in 1..MaxFE /\ e \in 1..MaxFE
    BY CoupledAssumption DEF CoupledAssumption
  <2>3. cr' \in Spec0 /\ cr'.size = cr.size /\ cr'.ele = e
    BY <1>0, <2>1, <2>2 DEF Spec0
  <2> QED BY <1>0, <1>1, <2>3
<1>3. CASE kind \in Others
  <2>1. PICK t \in SUBSET Others : t = IF kind \in cr.on THEN cr.on \ {kind} ELSE cr.on \cup {kind}
    BY <1>0, <1>3, SpecFields
  <2>2. PICK b \in BOOLEAN : b = (cr.auto /\ kind # "cn")
    BY Zenon
  <2>3. kind \notin {"scale", "auto", "volume", "restart", "config"}
    BY <1>3, CoupledAssumption DEF CoupledAssumption
  <2>4. cr' = [cr EXCEPT !.on = IF kind \in @ THEN @ \ {kind} ELSE @ \cup {kind},
                         !.auto = @ /\ kind # "cn"]
    BY <1>3, <2>3 DEF EditCR
  <2>5. cr' = [cr EXCEPT !.on = t, !.auto = b]
    BY <1>0, <2>1, <2>2, <2>4 DEF Spec0
  <2>6. cr' \in Spec0 /\ cr'.size = cr.size /\ cr'.ele = cr.ele
    BY <1>0, <2>5 DEF Spec0
  <2> QED BY <1>0, <1>1, <2>6
<1>4. CASE kind = "auto"
  <2>1. kind \notin Others
    BY <1>4, CoupledAssumption DEF CoupledAssumption
  <2>2. cr' = [cr EXCEPT !.auto = ~ @]
    BY <1>4, <2>1 DEF EditCR
  <2>3. cr' \in Spec0 /\ cr'.size = cr.size /\ cr'.ele = cr.ele
    BY <1>0, <2>2 DEF Spec0
  <2> QED BY <1>0, <1>1, <2>3
<1>5. CASE kind = "volume"
  <2>1. kind \notin Others
    BY <1>5, CoupledAssumption DEF CoupledAssumption
  <2>2. cr' = [cr EXCEPT !.size = @ + 1]
    BY <1>5, <2>1 DEF EditCR
  <2>3. PICK m \in 1..(MaxEdits + 1) : m = cr.size + 1
    BY <1>0, <1>1
  <2>4. cr' \in Spec0 /\ cr'.size = m /\ cr'.ele = cr.ele
    BY <1>0, <2>2, <2>3 DEF Spec0
  <2> QED BY <1>0, <1>1, <2>3, <2>4
<1>6. CASE kind = "restart"
  <2>1. kind \notin Others
    BY <1>6, CoupledAssumption DEF CoupledAssumption
  <2>2. PICK c \in Restartable : cr' = [cr EXCEPT !.anno[c] = Later(sts[c].rest, @)]
    BY <1>6, <2>1 DEF EditCR
  <2>3. cr.anno \in [Restartable -> Nat]
    BY <1>0, SpecFields DEF Stamps
  <2>4. sts[c].rest \in Nat
    BY DEF TypeOK, Sets, Stamps, Restartable
  <2>5. PICK a \in Nat : a = Later(sts[c].rest, cr.anno[c])
    BY <2>3, <2>4 DEF Later
  <2>6. cr' = [cr EXCEPT !.anno = [cr.anno EXCEPT ![c] = a]]
    BY <2>2, <2>5
  <2>7. [cr.anno EXCEPT ![c] = a] \in [Restartable -> Stamps]
    BY <2>3, <2>5 DEF Stamps
  <2>8. cr' \in Spec0 /\ cr'.size = cr.size /\ cr'.ele = cr.ele
    BY <1>0, <2>6, <2>7 DEF Spec0
  <2> QED BY <1>0, <1>1, <2>8
<1>7. CASE kind = "config"
  <2>1. kind \notin Others
    BY <1>7, CoupledAssumption DEF CoupledAssumption
  <2> QED BY <1>7, <2>1 DEF EditCR
<1> QED BY <1>0, <1>2, <1>3, <1>4, <1>5, <1>6, <1>7 DEF Kinds

LEMMA EditTypes == ASSUME TypeOK, WithinEdits, Edit PROVE TypeOK' /\ WithinEdits'
<1>0. cr \in Spec0 /\ edits \in Nat /\ MaxEdits \in Nat /\ edits < MaxEdits /\ edits' = edits + 1
      /\ conf \in [Restartable -> 1..(MaxEdits + 1)]
  BY CoupledAssumption DEF CoupledAssumption, TypeOK, Edit
<1>1. cr.size \in Nat /\ cr.size <= edits + 1
  BY <1>0, SpecFields DEF WithinEdits
<1>2. /\ cr' \in Spec0 /\ cr'.size <= edits + 2
      /\ conf' \in [Restartable -> 1..(MaxEdits + 1)]
      /\ \A c \in Restartable : conf'[c] <= edits + 2
  <2>1. CASE \E kind \in may : EditCR(kind) /\ conf' = conf
    <3>1. cr' \in Spec0 /\ cr'.size <= edits + 2 /\ conf' = conf
      BY <1>0, <2>1, EditCRTypes
    <3> QED BY <1>0, <3>1 DEF WithinEdits
  <2>2. CASE cr' = cr /\ \E c \in Restartable : conf' = [conf EXCEPT ![c] = @ + 1]
    <3> PICK c \in Restartable : conf' = [conf EXCEPT ![c] = @ + 1]
      BY <2>2
    <3>1. PICK m \in 1..(MaxEdits + 1) : m = conf[c] + 1 /\ m <= edits + 2
      BY <1>0 DEF WithinEdits
    <3>2. conf' = [conf EXCEPT ![c] = m]
      BY <3>1
    <3>3. \A d \in Restartable : conf[d] \in Nat /\ conf[d] <= edits + 1
      BY <1>0 DEF WithinEdits
    <3> QED BY <1>0, <1>1, <2>2, <3>1, <3>2, <3>3
  <2> QED BY <2>1, <2>2 DEF Edit
<1>3. ask' \in 1..MaxFE
  BY <1>2, SpecFields DEF Edit, TypeOK
<1>4. edits' \in 0..MaxEdits
  BY <1>0
<1>5. UNCHANGED <<status, may, env, op, faults>> /\ leaked' \subseteq Others
  <2>1. cr.on \subseteq Others /\ leaked \subseteq Others
    BY <1>0, SpecFields DEF TypeOK
  <2> QED BY <2>1 DEF Edit
<1>6. edits' + 1 = edits + 2
  BY <1>0
<1> QED BY <1>2, <1>3, <1>4, <1>5, <1>6 DEF TypeOK, WithinEdits, env, op

LEMMA ExpireTypes == ASSUME TypeOK, NEW c \in Restartable, Expire(c) PROVE TypeOK' /\ cr'.size = cr.size /\ cr'.ele = cr.ele
<1>1. cr \in Spec0 /\ cr.anno \in [Restartable -> Nat]
  BY SpecFields DEF TypeOK, Stamps
<1>2. cr' = [cr EXCEPT !.anno = [cr.anno EXCEPT ![c] = 0]]
  BY DEF Expire
<1>3. [cr.anno EXCEPT ![c] = 0] \in [Restartable -> Stamps]
  BY <1>1 DEF Stamps
<1>4. cr' \in Spec0 /\ cr'.size = cr.size /\ cr'.ele = cr.ele
  BY <1>1, <1>2, <1>3 DEF Spec0
<1> QED BY <1>4 DEF Expire, TypeOK, env, op

LEMMA AutoscaleTypes == ASSUME TypeOK, Autoscale PROVE TypeOK' /\ sts'["fe"] = sts["fe"]
<1>1. PICK n \in 1..MaxCN : sts' = [sts EXCEPT !["cn"].replicas = n]
  BY DEF Autoscale
<1>2. n \in 0..MaxFE
  BY CoupledAssumption DEF CoupledAssumption
<1>3. "cn" \in Components /\ "fe" \in Components /\ sts \in [Components -> Sets]
  BY DEF Autoscale, TypeOK, Components
<1>4. [sts["cn"] EXCEPT !.replicas = n] \in Sets
  BY <1>2, <1>3 DEF Sets
<1>5. sts' = [sts EXCEPT !["cn"] = [sts["cn"] EXCEPT !.replicas = n]]
  BY <1>1
<1>6. sts' \in [Components -> Sets] /\ sts'["fe"] = sts["fe"]
  BY <1>3, <1>4, <1>5
<1> QED BY <1>6 DEF Autoscale, TypeOK, user, op

\* The StatefulSet controller and the kubelet.
LEMMA PodStepTypes ==
    ASSUME TypeOK, NEW c \in Components, NEW o \in Ordinals,
           StsCreatePod(c, o) \/ StsDeletePod(c, o) \/ PodReady(c, o) \/ PodRestarts(c, o)
    PROVE  TypeOK'
<1>0. pods \in [Components -> [Ordinals -> Pod]] /\ pods[c] \in [Ordinals -> Pod] /\ pods[c][o] \in Pod
  BY DEF TypeOK
<1>1. ConfigOf(c) \in 0..(MaxEdits + 1) /\ sts[c].rest \in Stamps /\ sts[c].ele \in 0..MaxFE
  BY ConfigOfType DEF TypeOK, Sets
<1>2. \E p \in Pod : pods' = [pods EXCEPT ![c] = [pods[c] EXCEPT ![o] = p]]
  <2>1. CASE StsCreatePod(c, o)
    BY <1>0, <1>1, <2>1, PodTypes DEF StsCreatePod
  <2>2. CASE StsDeletePod(c, o)
    BY <1>0, <1>1, <2>2, PodTypes DEF StsDeletePod
  <2>3. CASE PodReady(c, o)
    <3>1. pods' = [pods EXCEPT ![c] = [pods[c] EXCEPT ![o] = [pods[c][o] EXCEPT !.phase = "ready"]]]
      BY <2>3 DEF PodReady
    <3> QED BY <1>0, <1>1, <3>1, PodTypes
  <2>4. CASE PodRestarts(c, o)
    <3>1. pods' = [pods EXCEPT ![c] = [pods[c] EXCEPT ![o] =
                     [pods[c][o] EXCEPT !.phase = "starting", !.conf = ConfigOf(c)]]]
      BY <1>0, <2>4 DEF PodRestarts
    <3> QED BY <1>0, <1>1, <3>1, PodTypes
  <2> QED BY <2>1, <2>2, <2>3, <2>4
<1>3. pods' \in [Components -> [Ordinals -> Pod]]
  BY <1>0, <1>2
<1>4. claims' \in [Ordinals -> Claim]
  BY NoClaimType DEF StsCreatePod, StsDeletePod, PodReady, PodRestarts, TypeOK, Claim
<1>5. role' \in [Ordinals -> Roles]
  BY DEF StsCreatePod, StsDeletePod, PodReady, PodRestarts, TypeOK, Roles
<1>6. faults' \in 0..MaxFaults
  BY FaultType DEF StsCreatePod, StsDeletePod, PodReady, PodRestarts, NoFault
<1>7. UNCHANGED <<user, status, sts, svcs, hpa, op>>
  BY DEF StsCreatePod, StsDeletePod, PodReady, PodRestarts
<1> QED BY <1>3, <1>4, <1>5, <1>6, <1>7 DEF TypeOK, user, op, Claim

LEMMA TypeNext == TypeOK /\ WithinEdits /\ [Next]_vars => TypeOK' /\ WithinEdits'
<1> SUFFICES ASSUME TypeOK, WithinEdits, [Next]_vars PROVE TypeOK' /\ WithinEdits'
  OBVIOUS
<1>0. ASSUME UNCHANGED <<conf, edits>>, cr'.size = cr.size PROVE WithinEdits'
  BY <1>0 DEF WithinEdits
<1>1. CASE UNCHANGED vars
  BY <1>1 DEF vars, TypeOK, WithinEdits
<1>2. CASE Reconcile \/ Crash \/ RevertFails \/ UpdateStatus \/ SyncPanics
  BY <1>0, <1>2, EndTypes DEF Reconcile, Crash, RevertFails, UpdateStatus, SyncPanics, user
<1>3. CASE PrepareClaims
  BY <1>0, <1>3, PrepareClaimsTypes DEF PrepareClaims, user
<1>4. CASE SyncFE
  BY <1>0, <1>4, SyncFETypes DEF SyncFE, user
<1>5. CASE SyncFEFails
  BY <1>0, <1>5, ServicesFailTypes DEF SyncFEFails, ApplyServicesFails, user, Components
<1>6. CASE DropObservers \/ DropObserversFails
  BY <1>0, <1>6, DropTypes DEF DropObservers, DropObserversFails, user
<1>7. CASE ApplyFE \/ ApplyFEFails
  BY <1>0, <1>7, ApplyFETypes DEF ApplyFE, ApplyFEFails, ApplyStatefulSetFails, user
<1>8. CASE \E c \in Others : SyncWaits(c)
  BY <1>0, <1>8, SyncWaitsTypes DEF SyncWaits, user
<1>9. CASE \E c \in Others : SyncApplies(c)
  BY <1>0, <1>9, SyncAppliesTypes DEF SyncApplies, user
<1>10. CASE \E c \in Others : SyncFails(c)
  BY <1>0, <1>10, SyncFailsTypes DEF SyncFails, ApplyServicesFails, ApplyStatefulSetFails, user
<1>11. CASE \E c \in Components : ClearResources(c)
  BY <1>0, <1>11, ClearTypes DEF ClearResources
<1>12. CASE Cleared
  BY <1>0, <1>12 DEF Cleared, TypeOK, user, env
<1>13. CASE Finish
  BY <1>0, <1>13, FinishTypes DEF Finish
<1>14. CASE Edit
  BY <1>14, EditTypes
<1>15. CASE Autoscale
  BY <1>0, <1>15, AutoscaleTypes DEF Autoscale, user
<1>16. CASE \E c \in Restartable : Expire(c)
  BY <1>0, <1>16, ExpireTypes DEF Expire
<1>17. CASE \E c \in Components, o \in Ordinals :
              StsCreatePod(c, o) \/ StsDeletePod(c, o) \/ PodReady(c, o) \/ PodRestarts(c, o)
  BY <1>0, <1>17, PodStepTypes DEF StsCreatePod, StsDeletePod, PodReady, PodRestarts, user
<1> QED BY <1>1, <1>2, <1>3, <1>4, <1>5, <1>6, <1>7, <1>8, <1>9, <1>10, <1>11, <1>12, <1>13,
           <1>14, <1>15, <1>16, <1>17 DEF Next, Operator, Environment

\* Every reachable state of a DorisCluster and of the operator at work on it is
\* well typed, for any number of edits, faults and frontends: no Sync, no revert
\* and no scale-down ever leaves the replica counts the cluster may have.
THEOREM CoupledTypeCorrect == Spec => []TypeOK
<1> QED BY TypeInit, TypeNext, PTL DEF Spec

-----------------------------------------------------------------------------
(* Scaling the frontends implements Membership. *)

\* The election number is the same everywhere; followers are below it, observers
\* above.
OneElection ==
    /\ cr.ele = Election /\ dcr.spec.ele = Election
    /\ sts["fe"].exists => sts["fe"].ele = Election
    /\ \A o \in Ordinals : Exists("fe", o) => pods["fe"][o].ele = Election
    /\ \A o \in Ordinals : role[o] = "OBSERVER" => o >= Election
    /\ \A o \in Ordinals : role[o] = "FOLLOWER" => o < Election

\* Between safeScaleDown and the apply, the target is one that takes no
\* follower away.
SafeTarget ==
    /\ pc = "feDrop" => dcr.spec.fe >= Election
    /\ pc = "feApply" => dcr.spec.fe >= Election \/ dcr.spec.fe >= sts["fe"].replicas

\* A StatefulSet of frontends that does not exist has no replicas.
AbsentIsEmpty == sts["fe"].exists \/ sts["fe"].replicas = 0

Inv == TypeOK /\ WithinEdits /\ SafeTarget /\ AbsentIsEmpty /\ OneElection

LEMMA FrontendTypes ==
    ASSUME TypeOK
    PROVE  /\ dcr.spec.fe \in 1..MaxFE /\ dcr.spec.fe \in Nat
           /\ sts["fe"] \in Sets /\ sts["fe"].replicas \in Nat
           /\ Election \in Nat /\ MaxFE \in Nat
           /\ Ordinals \subseteq Nat /\ IsFiniteSet(Ordinals)
           /\ Registered \subseteq Nat /\ IsFiniteSet(Observers) /\ Observers \subseteq Registered
<1>1. dcr.spec.fe \in 1..MaxFE /\ sts["fe"] \in Sets
  BY SpecFields DEF TypeOK, Components
<1>2. Election \in Nat /\ MaxFE \in Nat /\ Ordinals \subseteq Nat /\ IsFiniteSet(Ordinals)
  BY CoupledAssumption, FS_Interval DEF CoupledAssumption, Ordinals
<1>3. Registered \subseteq Ordinals /\ Observers \subseteq Registered
  BY DEF Registered, Observers
<1>4. IsFiniteSet(Observers)
  BY <1>2, <1>3, FS_Subset
<1> QED BY <1>1, <1>2, <1>3, <1>4 DEF Sets

LEMMA TargetInit == Init => SafeTarget /\ AbsentIsEmpty
<1> SUFFICES ASSUME Init PROVE SafeTarget /\ AbsentIsEmpty
  OBVIOUS
<1>1. SafeTarget
  BY DEF Init, SafeTarget
<1>2. "fe" \in Components
  BY DEF Components
<1>3. sts["fe"] = NoSts \/ sts["fe"].exists
  BY <1>2 DEF Init, InitNew, InitRunning
<1>4. NoSts.replicas = 0
  BY DEF NoSts
<1> QED BY <1>1, <1>3, <1>4 DEF AbsentIsEmpty

\* Steps that change neither the frontends' StatefulSet nor, on the way to the
\* apply, the target.
LEMMA OtherTarget ==
    ASSUME SafeTarget, AbsentIsEmpty, sts'["fe"] = sts["fe"],
           pc' \in {"feDrop", "feApply"} => pc' = pc /\ dcr'.spec.fe = dcr.spec.fe
    PROVE  SafeTarget' /\ AbsentIsEmpty'
BY DEF SafeTarget, AbsentIsEmpty

\* The sub controllers of the other components leave the frontends alone.
LEMMA OthersLeaveFrontends ==
    ASSUME TypeOK, TypeOK', NEW c \in Others,
           SyncWaits(c) \/ SyncApplies(c) \/ SyncFails(c)
    PROVE  /\ sts'["fe"] = sts["fe"] /\ role' = role
           /\ pc' \in {"clear", "sync", "idle"}
<1>1. c # "fe" /\ sts \in [Components -> Sets] /\ c \in Components /\ "fe" \in Components
  BY CoupledAssumption DEF CoupledAssumption, TypeOK, Components
<1>2. CASE SyncWaits(c)
  BY <1>2 DEF SyncWaits, Synced, env
<1>3. CASE SyncApplies(c)
  <2>1. sts' = sts \/ \E b : sts' = [sts EXCEPT ![c] = Patched(c, @, b)]
    BY <1>3 DEF SyncApplies, ApplyStatefulSet
  <2>2. sts'["fe"] = sts["fe"]
    BY <1>1, <2>1
  <2> QED BY <1>3, <2>2 DEF SyncApplies, Synced
<1>4. CASE SyncFails(c)
  BY <1>4 DEF SyncFails, ApplyServicesFails, ApplyStatefulSetFails, Done
<1> QED BY <1>2, <1>3, <1>4

LEMMA ClearLeavesFrontends ==
    ASSUME TypeOK, NEW c \in Components, ClearResources(c)
    PROVE  /\ sts'["fe"] = sts["fe"] /\ role' = role /\ dcr'.spec = dcr.spec
           /\ pc' = "clear"
<1>1. pc' = "clear" /\ role' = role
  BY DEF ClearResources
<1>2. CASE c = "fe"
  BY <1>1, <1>2 DEF ClearResources, ClearClaims
<1>3. CASE c = "cn"
  <2>1. dcr \in Memory
    BY DEF TypeOK, Memory
  <2>2. sts' = sts /\ dcr'.spec = dcr.spec
    BY <1>3, <2>1 DEF ClearResources, ClearScaler, Memory
  <2> QED BY <1>1, <2>2
<1>4. CASE c \notin {"fe", "cn"}
  BY <1>1, <1>4 DEF ClearResources, ClearCommon, TypeOK, Components
<1> QED BY <1>2, <1>3, <1>4

\* What an apply does to the replicas of the frontends' StatefulSet.
LEMMA ApplyFEReplicas ==
    ASSUME TypeOK, ApplyFE
    PROVE  /\ sts'["fe"] = sts["fe"] \/ (sts'["fe"].exists /\ sts'["fe"].replicas = dcr.spec.fe)
           /\ pc' \in {"clear", "sync"} /\ UNCHANGED <<role, dcr>>
<1>0. "fe" \in Components /\ sts \in [Components -> Sets] /\ sts["fe"] \in Sets
  BY DEF TypeOK, Components
<1>1. pc' \in {"clear", "sync"} /\ UNCHANGED <<role, dcr>>
  BY DEF ApplyFE, Synced
<1> DEFINE b == Build("fe", dcr.spec)
<1>2. b.replicas = dcr.spec.fe
  BY DEF Build
<1>3. ApplyStatefulSet("fe", b)
  BY DEF ApplyFE
<1> HIDE DEF b
<1>4. \/ Patched("fe", sts["fe"], b) = sts["fe"]
      \/ Patched("fe", sts["fe"], b).exists /\ Patched("fe", sts["fe"], b).replicas = b.replicas
  BY <1>0 DEF Patched, Sets
<1>5. sts'["fe"] = sts["fe"] \/ sts'["fe"] = Patched("fe", sts["fe"], b)
  BY <1>0, <1>3 DEF ApplyStatefulSet
<1> QED BY <1>1, <1>2, <1>4, <1>5

LEMMA TargetNext ==
    ASSUME TypeOK, TypeOK', OneElection, SafeTarget, AbsentIsEmpty, [Next]_vars
    PROVE  SafeTarget' /\ AbsentIsEmpty'
<1>1. CASE UNCHANGED vars
  BY <1>1 DEF vars, SafeTarget, AbsentIsEmpty
<1>2. CASE SyncFE
  <2>1. dcr'.spec.fe = Wanted(dcr.spec) /\ sts' = sts /\ Wanted(dcr.spec) \in Nat
    BY <1>2, SyncFEMemory DEF SyncFE
  <2>2. /\ dcr.spec.fe \in Nat /\ sts["fe"].replicas \in Nat /\ Election \in Nat
        /\ dcr.spec.ele = Election
    BY FrontendTypes DEF OneElection
  <2>3. CASE Shrinks(dcr.spec)
    <3>1. Wanted(dcr.spec) >= Election
      BY <2>2, <2>3 DEF Shrinks, Wanted, SafeScaleDown
    <3> QED BY <2>1, <3>1 DEF SafeTarget, AbsentIsEmpty
  <2>4. CASE ~ Shrinks(dcr.spec)
    <3>1. pc' = "feApply"
      BY <1>2, <2>4 DEF SyncFE
    <3>2. Wanted(dcr.spec) >= sts["fe"].replicas
      BY <2>1, <2>2, <2>4 DEF Shrinks, AbsentIsEmpty
    <3> QED BY <2>1, <3>1, <3>2 DEF SafeTarget, AbsentIsEmpty
  <2> QED BY <2>3, <2>4
<1>3. CASE DropObservers
  BY <1>3 DEF DropObservers, SafeTarget, AbsentIsEmpty
<1>4. CASE ApplyFE
  <2>1. sts'["fe"] = sts["fe"] \/ sts'["fe"].exists
    BY <1>4, ApplyFEReplicas
  <2> QED BY <1>4, <2>1, ApplyFEReplicas DEF SafeTarget, AbsentIsEmpty
<1>5. CASE Reconcile \/ Crash \/ RevertFails \/ UpdateStatus \/ SyncPanics \/ Cleared \/ Finish
           \/ PrepareClaims
  BY <1>5, OtherTarget DEF Reconcile, Crash, RevertFails, UpdateStatus, SyncPanics, Cleared, Finish,
           PrepareClaims, Done, Synced, env
<1>6. CASE SyncFEFails \/ DropObserversFails \/ ApplyFEFails
  BY <1>6, OtherTarget DEF SyncFEFails, DropObserversFails, ApplyFEFails, ApplyServicesFails,
           ApplyStatefulSetFails, Done
<1>7. CASE \E c \in Others : SyncWaits(c) \/ SyncApplies(c) \/ SyncFails(c)
  BY <1>7, OthersLeaveFrontends, OtherTarget
<1>8. CASE \E c \in Components : ClearResources(c)
  BY <1>8, ClearLeavesFrontends, OtherTarget
<1>9. CASE Autoscale
  BY <1>9, AutoscaleTypes, OtherTarget DEF Autoscale, op
<1>10. CASE Edit \/ \E c \in Restartable : Expire(c)
  BY <1>10, OtherTarget DEF Edit, Expire, env, op
<1>11. CASE \E c \in Components, o \in Ordinals :
              StsCreatePod(c, o) \/ StsDeletePod(c, o) \/ PodReady(c, o) \/ PodRestarts(c, o)
  BY <1>11, OtherTarget DEF StsCreatePod, StsDeletePod, PodReady, PodRestarts, op
<1> QED BY <1>1, <1>2, <1>3, <1>4, <1>5, <1>6, <1>7, <1>8, <1>9, <1>10, <1>11
        DEF Next, Operator, Environment

\* Steps that leave the frontends' StatefulSet, their pods and roles alone keep the
\* one election number if the custom resource and the memory do.
LEMMA OtherElection ==
    ASSUME OneElection, sts'["fe"] = sts["fe"], UNCHANGED <<pods, role>>,
           cr'.ele = cr.ele, dcr'.spec.ele = dcr.spec.ele \/ dcr'.spec.ele = cr.ele
    PROVE  OneElection'
BY DEF OneElection, Exists

LEMMA ElectionInit == ASSUME Init, TypeOK PROVE OneElection
<1>1. cr.ele = Election /\ dcr.spec.ele = Election
  BY DEF Init, Read
<1>2. "fe" \in Components /\ Election \in Nat /\ \A o \in Ordinals : o \in Nat
  BY FrontendTypes DEF Components
<1>3. CASE InitNew
  BY <1>1, <1>2, <1>3 DEF InitNew, OneElection, NoSts, NoPod, Exists
<1>4. CASE InitRunning
  <2>1. sts["fe"].exists => sts["fe"].ele = Election
    BY <1>2, <1>4 DEF InitRunning, NoSts
  <2>2. \A o \in Ordinals : Exists("fe", o) => pods["fe"][o].ele = Election
    BY <1>2, <1>4 DEF InitRunning, NoPod, Exists
  <2>3. \A o \in Ordinals : /\ role[o] = "OBSERVER" => o >= Election
                            /\ role[o] = "FOLLOWER" => o < Election
    BY <1>2, <1>4 DEF InitRunning
  <2> QED BY <1>1, <2>1, <2>2, <2>3 DEF OneElection
<1> QED BY <1>3, <1>4 DEF Init

\* The pods of the frontends take the election number of their StatefulSet, and a
\* role by it.
LEMMA PodElection ==
    ASSUME TypeOK, OneElection, NEW c \in Components, NEW o \in Ordinals,
           StsCreatePod(c, o) \/ StsDeletePod(c, o) \/ PodReady(c, o) \/ PodRestarts(c, o)
    PROVE  OneElection'
<1>0. /\ pods \in [Components -> [Ordinals -> Pod]] /\ pods[c] \in [Ordinals -> Pod]
      /\ pods[c][o] \in Pod /\ role \in [Ordinals -> Roles] /\ "fe" \in Components
      /\ Election \in Nat /\ o \in Nat
  BY FrontendTypes DEF TypeOK, Components
<1>1. UNCHANGED <<cr, sts, dcr>>
  BY DEF StsCreatePod, StsDeletePod, PodReady, PodRestarts, user, op
<1>2. \E p \in Pod : /\ pods' = [pods EXCEPT ![c] = [pods[c] EXCEPT ![o] = p]]
                     /\ c = "fe" /\ p.phase # "none" => p.ele = Election
  <2>1. CASE StsCreatePod(c, o)
    <3>1. /\ ConfigOf(c) \in 0..(MaxEdits + 1) /\ sts[c].rest \in Stamps
          /\ sts[c].ele \in 0..MaxFE
      BY ConfigOfType DEF TypeOK, Sets
    <3>2. c = "fe" => sts[c].ele = Election
      BY <2>1 DEF StsCreatePod, OneElection
    <3> DEFINE p == [phase |-> "starting", ele |-> sts[c].ele, rest |-> sts[c].rest,
                     conf |-> ConfigOf(c)]
    <3>3. p \in Pod /\ p.ele = sts[c].ele
      BY <1>0, <3>1, PodTypes
    <3>4. pods' = [pods EXCEPT ![c] = [pods[c] EXCEPT ![o] = p]]
      BY <2>1 DEF StsCreatePod
    <3> HIDE DEF p
    <3> QED BY <3>2, <3>3, <3>4
  <2>2. CASE StsDeletePod(c, o)
    <3>1. NoPod \in Pod /\ NoPod.phase = "none"
      <4>1. 0 \in 0..(MaxEdits + 1) /\ 0 \in 0..MaxFE /\ 0 \in Nat
        BY CoupledAssumption DEF CoupledAssumption
      <4> QED BY <4>1 DEF NoPod, Pod, Stamps
    <3> QED BY <1>0, <2>2, <3>1 DEF StsDeletePod
  <2>3. CASE PodReady(c, o)
    <3>1. pods' = [pods EXCEPT ![c] = [pods[c] EXCEPT ![o] = [pods[c][o] EXCEPT !.phase = "ready"]]]
      BY <2>3 DEF PodReady
    <3>2. c = "fe" => pods[c][o].ele = Election
      BY <2>3 DEF PodReady, OneElection, Exists
    <3> DEFINE p == [pods[c][o] EXCEPT !.phase = "ready"]
    <3>3. p \in Pod /\ p.ele = pods[c][o].ele
      BY <1>0 DEF Pod
    <3> HIDE DEF p
    <3>4. pods' = [pods EXCEPT ![c] = [pods[c] EXCEPT ![o] = p]]
      BY <3>1 DEF p
    <3> QED BY <3>2, <3>3, <3>4
  <2>4. CASE PodRestarts(c, o)
    <3>1. pods' = [pods EXCEPT ![c] = [pods[c] EXCEPT ![o] =
                     [pods[c][o] EXCEPT !.phase = "starting", !.conf = ConfigOf(c)]]]
      BY <1>0, <2>4 DEF PodRestarts
    <3>2. c = "fe" => pods[c][o].ele = Election
      BY <2>4 DEF PodRestarts, Ready, OneElection, Exists
    <3>3. ConfigOf(c) \in 0..(MaxEdits + 1)
      BY ConfigOfType DEF TypeOK
    <3> DEFINE p == [pods[c][o] EXCEPT !.phase = "starting", !.conf = ConfigOf(c)]
    <3>4. p \in Pod /\ p.ele = pods[c][o].ele
      BY <1>0, <3>3 DEF Pod
    <3> HIDE DEF p
    <3>5. pods' = [pods EXCEPT ![c] = [pods[c] EXCEPT ![o] = p]]
      BY <3>1 DEF p
    <3> QED BY <3>2, <3>4, <3>5
  <2> QED BY <2>1, <2>2, <2>3, <2>4
<1>3. \A q \in Ordinals : Exists("fe", q)' => pods'["fe"][q].ele = Election
  <2> TAKE q \in Ordinals
  <2>1. PICK p \in Pod : /\ pods' = [pods EXCEPT ![c] = [pods[c] EXCEPT ![o] = p]]
                         /\ c = "fe" /\ p.phase # "none" => p.ele = Election
    BY <1>2
  <2>2. CASE c = "fe" /\ q = o
    BY <1>0, <2>1, <2>2 DEF Exists
  <2>3. CASE ~ (c = "fe" /\ q = o)
    <3>1. pods'["fe"][q] = pods["fe"][q]
      BY <1>0, <2>1, <2>3
    <3> QED BY <3>1 DEF OneElection, Exists
  <2> QED BY <2>2, <2>3
<1>4. \/ role' = role
      \/ role' = [role EXCEPT ![o] = IF o < Election THEN "FOLLOWER" ELSE "OBSERVER"]
  <2>1. CASE PodReady(c, o)
    <3>1. c = "fe" => pods[c][o].ele = Election
      BY <2>1 DEF PodReady, OneElection, Exists
    <3> QED BY <2>1, <3>1 DEF PodReady
  <2> QED BY <2>1 DEF StsCreatePod, StsDeletePod, PodRestarts
<1>5. \A q \in Ordinals : /\ role'[q] = "OBSERVER" => q >= Election
                          /\ role'[q] = "FOLLOWER" => q < Election
  BY <1>0, <1>4 DEF OneElection
<1> QED BY <1>1, <1>3, <1>5, Zenon DEF OneElection

LEMMA ElectionNext ==
    ASSUME EditElections \subseteq {Election}, TypeOK, TypeOK', WithinEdits, OneElection, [Next]_vars
    PROVE  OneElection'
<1>1. CASE UNCHANGED vars
  BY <1>1 DEF vars, OneElection, Exists
<1>2. CASE Reconcile \/ Crash \/ RevertFails \/ UpdateStatus \/ SyncPanics
  BY <1>2, OtherElection DEF Reconcile, Crash, RevertFails, UpdateStatus, SyncPanics, Done, Read, user, env
<1>3. CASE PrepareClaims
  <2>1. dcr'.spec.ele = dcr.spec.ele
    BY <1>3, RestartedType DEF PrepareClaims, Restartable, Components
  <2> QED BY <1>3, <2>1, OtherElection DEF PrepareClaims, user
<1>4. CASE SyncFE
  BY <1>4, SyncFEMemory, OtherElection DEF SyncFE, user
<1>5. CASE SyncFEFails \/ ApplyFEFails
  BY <1>5, OtherElection DEF SyncFEFails, ApplyFEFails, ApplyServicesFails, ApplyStatefulSetFails,
           Done, Read, user
<1>6. CASE DropObservers \/ DropObserversFails
  <2>1. UNCHANGED <<cr, sts, pods>> /\ (dcr' = dcr \/ dcr'.spec = cr)
    BY <1>6 DEF DropObservers, DropObserversFails, Done, Read, user
  <2>2. \A o \in Ordinals : role'[o] = role[o] \/ role'[o] = "none"
    BY <1>6 DEF DropObservers, DropObserversFails, DropObserver
  <2>3. \A o \in Ordinals : /\ role'[o] = "OBSERVER" => o >= Election
                            /\ role'[o] = "FOLLOWER" => o < Election
    BY <2>2 DEF OneElection
  <2> QED BY <2>1, <2>3 DEF OneElection, Exists
<1>7. CASE ApplyFE
  <2>0. "fe" \in Components /\ sts \in [Components -> Sets] /\ sts["fe"] \in Sets
    BY DEF TypeOK, Components
  <2> DEFINE b == Build("fe", dcr.spec)
  <2>1. b.ele = Election
    BY DEF Build, OneElection
  <2>2. ApplyStatefulSet("fe", b)
    BY <1>7 DEF ApplyFE
  <2> HIDE DEF b
  <2>3. \/ Patched("fe", sts["fe"], b) = sts["fe"]
        \/ Patched("fe", sts["fe"], b).ele = b.ele
    BY <2>0 DEF Patched, Sets
  <2>4. sts'["fe"] = sts["fe"] \/ sts'["fe"] = Patched("fe", sts["fe"], b)
    BY <2>0, <2>2 DEF ApplyStatefulSet
  <2>5. sts'["fe"].exists => sts'["fe"].ele = Election
    BY <2>1, <2>3, <2>4 DEF OneElection
  <2>6. UNCHANGED <<cr, dcr, pods, role>>
    BY <1>7 DEF ApplyFE, user
  <2> QED BY <2>5, <2>6 DEF OneElection, Exists
<1>8. CASE \E c \in Others : SyncWaits(c) \/ SyncApplies(c) \/ SyncFails(c)
  <2> PICK c \in Others : SyncWaits(c) \/ SyncApplies(c) \/ SyncFails(c)
    BY <1>8
  <2>1. sts'["fe"] = sts["fe"] /\ UNCHANGED <<cr, pods, role>>
    BY OthersLeaveFrontends DEF SyncWaits, SyncApplies, SyncFails, ApplyServicesFails,
       ApplyStatefulSetFails, user, env
  <2>2. dcr'.spec.ele = dcr.spec.ele \/ dcr'.spec.ele = cr.ele
    <3>1. CASE SyncWaits(c) \/ SyncApplies(c)
      BY <3>1, OtherMemory DEF SyncWaits, SyncApplies
    <3>2. CASE SyncFails(c)
      BY <3>2 DEF SyncFails, ApplyServicesFails, ApplyStatefulSetFails, Done, Read
    <3> QED BY <3>1, <3>2
  <2> QED BY <2>1, <2>2, OtherElection
<1>9. CASE \E c \in Components : ClearResources(c)
  BY <1>9, ClearLeavesFrontends, OtherElection DEF ClearResources
<1>10. CASE Cleared
  BY <1>10, OtherElection DEF Cleared, user, env
<1>11. CASE Finish
  BY <1>11, FinishTypes, OtherElection DEF Finish, env
<1>12. CASE Autoscale
  BY <1>12, AutoscaleTypes, OtherElection DEF Autoscale, user, op
<1>13. CASE Edit
  <2>1. cr'.ele = cr.ele
    <3>1. CASE \E kind \in may : EditCR(kind)
      BY <1>13, <3>1, EditCRTypes DEF Edit, OneElection
    <3>2. CASE cr' = cr
      BY <3>2
    <3> QED BY <1>13, <3>1, <3>2 DEF Edit
  <2> QED BY <1>13, <2>1, OtherElection DEF Edit, env, op
<1>14. CASE \E c \in Restartable : Expire(c)
  BY <1>14, ExpireTypes, OtherElection DEF Expire, env, op
<1>15. CASE \E c \in Components, o \in Ordinals :
              StsCreatePod(c, o) \/ StsDeletePod(c, o) \/ PodReady(c, o) \/ PodRestarts(c, o)
  BY <1>15, PodElection
<1> QED BY <1>1, <1>2, <1>3, <1>4, <1>5, <1>6, <1>7, <1>8, <1>9, <1>10, <1>11, <1>12, <1>13,
           <1>14, <1>15 DEF Next, Operator, Environment

\* Among the elements of S, all at least e, those with fewer than n greater
\* ones are at least r, if n is at most the number by which S exceeds what fits
\* between e and r.
LEMMA TopElements ==
    ASSUME NEW S \in SUBSET Nat, IsFiniteSet(S),
           NEW e \in Nat, NEW r \in Nat, e <= r,
           \A p \in S : e <= p,
           NEW n \in Int, n <= Cardinality(S) - r + e,
           NEW o \in S, Cardinality({p \in S : p > o}) < n
    PROVE  o >= r
<1> DEFINE Higher == {p \in S : p > o}
           Lower == S \ Higher
<1>1. IsFiniteSet(Higher) /\ Cardinality(Higher) \in Nat /\ Cardinality(S) \in Nat
  BY FS_Subset, FS_CardinalityType
<1>2. Cardinality(Lower) = Cardinality(S) - Cardinality(Higher)
  <2>1. S \cap Higher = Higher
    OBVIOUS
  <2> QED BY <2>1, FS_Difference
<1>3. Lower \subseteq e..o
  <2> SUFFICES ASSUME NEW p \in Lower PROVE p \in e..o
    OBVIOUS
  <2>1. p \in S /\ ~ (p > o)
    OBVIOUS
  <2> QED BY <2>1
<1>4. Cardinality(Lower) <= o - e + 1
  <2>1. IsFiniteSet(e..o) /\ Cardinality(e..o) = o - e + 1
    BY FS_Interval
  <2> QED BY <1>3, <2>1, FS_Subset
<1> HIDE DEF Lower
<1> QED BY <1>1, <1>2, <1>4

\* An observer that a drop takes away is above the target and above everything
\* that stays.
LEMMA DroppedObserver ==
    ASSUME TypeOK, OneElection, SafeTarget, pc = "feDrop",
           NEW n \in Int, n = 0 \/ n <= NeedRemovedAmount,
           NEW d \in FindNeedDeletedObservers(n)
    PROVE  /\ d >= dcr.spec.fe /\ d >= Election
           /\ \A m \in Registered \ FindNeedDeletedObservers(n) : m < d
<1> DEFINE Above(o) == {p \in Observers : p > o}
<1>1. d \in Observers /\ Cardinality(Above(d)) < n
  BY DEF FindNeedDeletedObservers
<1>2. /\ Election \in Nat /\ dcr.spec.fe \in Nat /\ Election <= dcr.spec.fe
      /\ Observers \in SUBSET Nat /\ IsFiniteSet(Observers) /\ Registered \subseteq Nat /\ d \in Nat
  BY <1>1, FrontendTypes DEF SafeTarget
<1>3. \A p \in Observers : Election <= p
  BY <1>2 DEF Observers, OneElection
<1>4. \A o \in Nat : IsFiniteSet(Above(o)) /\ Cardinality(Above(o)) \in Nat
  BY <1>2, FS_Subset, FS_CardinalityType
<1>5. n <= Cardinality(Observers) - dcr.spec.fe + Election
  <2>1. NeedRemovedAmount = Cardinality(Observers) - dcr.spec.fe + Election
    BY DEF NeedRemovedAmount, OneElection
  <2>2. Cardinality(Above(d)) \in Nat
    BY <1>2, <1>4
  <2> QED BY <1>1, <2>1, <2>2
<1>6. d >= dcr.spec.fe
  BY <1>1, <1>2, <1>3, <1>5, TopElements
<1>7. ASSUME NEW m \in Registered \ FindNeedDeletedObservers(n), ~ (m < d) PROVE FALSE
  <2>0. m \in Nat /\ d \in Nat
    BY <1>2
  <2>1. m \in Nat /\ m >= d
    BY <1>7, <2>0
  <2>2. m \in Observers
    <3>1. m \in Ordinals /\ role[m] \in Roles /\ role[m] # "none"
      BY <1>7 DEF Registered, TypeOK
    <3>2. d >= Election
      BY <1>1, <1>2, <1>3
    <3>3. role[m] # "FOLLOWER"
      BY <1>2, <2>1, <3>1, <3>2 DEF OneElection
    <3> QED BY <3>1, <3>3 DEF Observers, Roles
  <2>3. ~ (Cardinality(Above(m)) < n)
    BY <1>7, <2>2 DEF FindNeedDeletedObservers
  <2>4. Above(m) \subseteq Above(d)
    <3> SUFFICES ASSUME NEW p \in Above(m) PROVE p \in Above(d)
      OBVIOUS
    <3>1. p \in Observers /\ p > m /\ p \in Nat
      BY <1>2
    <3> QED BY <2>0, <2>1, <3>1
  <2>5. Cardinality(Above(m)) <= Cardinality(Above(d))
    BY <1>2, <1>4, <2>4, FS_Subset
  <2> HIDE DEF Above
  <2> QED BY <1>1, <1>2, <1>4, <2>1, <2>3, <2>5
<1> QED BY <1>1, <1>2, <1>3, <1>6, <1>7

\* A drop, complete or not, is a Leave of the membership.
LEMMA DropIsLeave ==
    ASSUME TypeOK, TypeOK', OneElection, SafeTarget, pc = "feDrop",
           NEW n \in Int, n = 0 \/ n <= NeedRemovedAmount,
           DropObserver(FindNeedDeletedObservers(n)), sts' = sts
    PROVE  ScalesFrontends!Leave
<1>1. dcr'.spec.fe \in Nat
  BY FrontendTypes, SpecFields, CoupledAssumption DEF TypeOK, CoupledAssumption
<1>2. Registered' = Registered \ FindNeedDeletedObservers(n)
  BY DEF Registered, DropObserver
<1>3. \A d \in Registered \ Registered' :
        /\ d >= dcr.spec.fe /\ d >= Election
        /\ \A m \in Registered' : m < d
  BY <1>2, DroppedObserver
<1> QED BY <1>1, <1>2, <1>3 DEF ScalesFrontends!Leave, Registered

LEMMA StepOfMembership ==
    ASSUME TypeOK, TypeOK', OneElection, SafeTarget, AbsentIsEmpty, [Next]_vars
    PROVE  [ScalesFrontends!MembershipNext]_<<dcr.spec.fe, sts["fe"].replicas, role>>
<1> USE DEF ScalesFrontends!MembershipNext
<1>0. dcr'.spec.fe \in Nat /\ dcr.spec.fe \in Nat /\ sts["fe"].replicas \in Nat /\ Election \in Nat
      /\ Registered' \subseteq Nat
  <2>1. dcr'.spec.fe \in 1..MaxFE /\ Registered' \subseteq Ordinals
    BY SpecFields DEF TypeOK, Registered
  <2> QED BY <2>1, FrontendTypes
<1>1. CASE UNCHANGED vars
  BY <1>1 DEF vars, Registered
<1>2. CASE /\ sts'["fe"] = sts["fe"] /\ role' = role
  <2>1. Registered' = Registered
    BY <1>2 DEF Registered
  <2> QED BY <1>0, <1>2, <2>1 DEF ScalesFrontends!Retarget
<1>3. CASE DropObservers
  <2>1. NeedRemovedAmount \in Int
    BY <1>0, FrontendTypes, FS_CardinalityType DEF NeedRemovedAmount, OneElection
  <2>2. NeedRemovedAmount <= NeedRemovedAmount
    BY <2>1
  <2>3. CASE role' = role
    BY <1>2, <1>3, <2>3 DEF DropObservers
  <2>4. CASE DropObserver(FindNeedDeletedObservers(NeedRemovedAmount))
    BY <1>3, <2>1, <2>2, <2>4, DropIsLeave DEF DropObservers
  <2> QED BY <1>3, <2>3, <2>4 DEF DropObservers
<1>4. CASE DropObserversFails
  <2>1. CASE role' = role
    BY <1>2, <1>4, <2>1 DEF DropObserversFails
  <2>2. CASE role' # role
    <3>1. PICK n \in 0..MaxFE : /\ n = 0 \/ n <= NeedRemovedAmount
                                /\ DropObserver(FindNeedDeletedObservers(n))
      BY <1>4, <2>2 DEF DropObserversFails
    <3>2. n \in Int
      OBVIOUS
    <3> QED BY <1>4, <3>1, <3>2, DropIsLeave DEF DropObserversFails
  <2> QED BY <2>1, <2>2
<1>5. CASE ApplyFE
  <2>1. CASE sts'["fe"] = sts["fe"]
    BY <1>2, <1>5, <2>1, ApplyFEReplicas
  <2>2. CASE sts'["fe"].replicas = dcr.spec.fe
    <3>1. dcr.spec.fe < sts["fe"].replicas => dcr.spec.fe >= Election
      BY <1>0, <1>5 DEF ApplyFE, SafeTarget
    <3>2. UNCHANGED <<dcr, Registered>>
      BY <1>5, ApplyFEReplicas DEF Registered
    <3> QED BY <2>2, <3>1, <3>2 DEF ScalesFrontends!Resize, Registered
  <2> QED BY <1>5, <2>1, <2>2, ApplyFEReplicas
<1>6. CASE Reconcile \/ Crash \/ RevertFails \/ UpdateStatus \/ SyncPanics \/ Cleared \/ Finish
           \/ PrepareClaims \/ SyncFE \/ SyncFEFails \/ ApplyFEFails
  BY <1>2, <1>6 DEF Reconcile, Crash, RevertFails, UpdateStatus, SyncPanics, Cleared, Finish,
           PrepareClaims, SyncFE, SyncFEFails, ApplyFEFails, ApplyServicesFails,
           ApplyStatefulSetFails, env
<1>7. CASE \E c \in Others : SyncWaits(c) \/ SyncApplies(c) \/ SyncFails(c)
  BY <1>2, <1>7, OthersLeaveFrontends
<1>8. CASE \E c \in Components : ClearResources(c)
  BY <1>2, <1>8, ClearLeavesFrontends
<1>9. CASE Autoscale
  BY <1>2, <1>9, AutoscaleTypes DEF Autoscale
<1>10. CASE Edit \/ \E c \in Restartable : Expire(c)
  BY <1>2, <1>10 DEF Edit, Expire, env
<1>11. CASE \E c \in Components, o \in Ordinals :
              StsCreatePod(c, o) \/ StsDeletePod(c, o) \/ PodReady(c, o) \/ PodRestarts(c, o)
  <2> PICK c \in Components, o \in Ordinals :
              StsCreatePod(c, o) \/ StsDeletePod(c, o) \/ PodReady(c, o) \/ PodRestarts(c, o)
    BY <1>11
  <2>1. UNCHANGED <<sts, dcr>>
    BY DEF StsCreatePod, StsDeletePod, PodReady, PodRestarts, op
  <2>2. role \in [Ordinals -> Roles]
    BY DEF TypeOK
  <2>3. role' = role \/ role' = [role EXCEPT ![o] = "FOLLOWER"]
        \/ role' = [role EXCEPT ![o] = "OBSERVER"]
    BY DEF StsCreatePod, StsDeletePod, PodReady, PodRestarts
  <2>4. Registered \subseteq Registered'
    BY <2>2, <2>3 DEF Registered
  <2> QED BY <1>0, <2>1, <2>4 DEF ScalesFrontends!Join, Registered
<1> QED BY <1>1, <1>3, <1>4, <1>5, <1>6, <1>7, <1>8, <1>9, <1>10, <1>11
        DEF Next, Operator, Environment

\* While the election number is not edited and the StatefulSet is read as it is,
\* scaling the frontends of a DorisCluster implements Membership for any number
\* of frontends, sections, other edits and faults: safeScaleDown never lets a
\* StatefulSet shrink into the followers, and dropObserverBySqlClient, complete,
\* broken off or skipped, takes observers out from the top and above the target
\* only.
THEOREM FrontendsKeepVotersCorrect ==
    ASSUME EditElections \subseteq {Election}
    PROVE  Spec => FrontendsKeepVoters
<1>1. Init => Inv
  BY TypeInit, TargetInit, ElectionInit DEF Inv
<1>2. Inv /\ [Next]_vars => Inv'
  BY TypeNext, TargetNext, ElectionNext DEF Inv
<1>3. Inv => ScalesFrontends!MembershipInit
  BY FrontendTypes DEF Inv, ScalesFrontends!MembershipInit
<1>4. Inv /\ Inv' /\ [Next]_vars
      => [ScalesFrontends!MembershipNext]_<<dcr.spec.fe, sts["fe"].replicas,
                                            {o \in Ordinals : role[o] # "none"}>>
  BY StepOfMembership DEF Inv, Registered
<1> QED BY <1>1, <1>2, <1>3, <1>4, PTL DEF Spec, FrontendsKeepVoters, ScalesFrontends!MembershipSpec
=============================================================================
