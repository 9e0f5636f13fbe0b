----------------------------- MODULE FrontendProofs -----------------------------
(***************************************************************************)
(* Proofs about Frontend, for every value of its constants: the types of   *)
(* its state, and that, as long as the election number is not edited, a    *)
(* scale-down drops surplus observers only and implements Membership.      *)
(***************************************************************************)
EXTENDS Frontend, TLAPS, FiniteSetTheorems

-----------------------------------------------------------------------------
(* Types. *)

\* The fields of a feSpec, and the corrected one.
LEMMA CorrectedType ==
    ASSUME NEW s \in FESpec
    PROVE  /\ Corrected(s) \in FESpec
           /\ Corrected(s).election <= Corrected(s).replicas
           /\ Corrected(s).election = s.election
BY FrontendAssumption DEF FrontendAssumption, FESpec, Elections, Corrected

LEMMA StatusTypes ==
    ASSUME NEW s \in FEStatus
    PROVE  /\ InitialFEStatus(s) \in FEStatus
           /\ [s EXCEPT !.phase = "Scaling"] \in FEStatus
           /\ [s EXCEPT !.phase = "ScaleDownFailed"] \in FEStatus
BY DEF FEStatus, InitialFEStatus

LEMMA ComponentStatusType ==
    ASSUME TypeOK
    PROVE  UpdateComponentStatus \in FEStatus
<1>1. cur.phase \in {"Reconciling", "Ready", "Scaling", "ScaleDownFailed"}
  BY DEF TypeOK, FEStatus
<1>2. (cur.available \/ MasterAlive # {}) \in BOOLEAN /\ (cur.feAvailable \/ MasterAlive # {}) \in BOOLEAN
  BY Zenon
<1>3. cur \in FEStatus
  BY DEF TypeOK
<1> QED BY <1>1, <1>2, <1>3 DEF UpdateComponentStatus, FEStatus

\* A pod of the StatefulSet in each of its states.
LEMMA PodTypes ==
    ASSUME NEW p \in Pod, NEW s \in FESpec
    PROVE  /\ NoPod \in Pod
           /\ [phase |-> "starting", election |-> s.election, deleting |-> FALSE] \in Pod
           /\ [p EXCEPT !.phase = "ready"] \in Pod
           /\ [p EXCEPT !.phase = "starting"] \in Pod
           /\ [p EXCEPT !.deleting = TRUE] \in Pod
<1>1. s.election \in 0..MaxReplicas /\ 0 \in 0..MaxReplicas
  BY FrontendAssumption DEF FrontendAssumption, FESpec, Elections
<1> QED BY <1>1 DEF Pod, NoPod

LEMMA TypeInit == Init => TypeOK
<1> SUFFICES ASSUME Init PROVE TypeOK
  OBVIOUS
<1> USE FrontendAssumption DEF FrontendAssumption
<1>1. FESpecInit \in FESpec
  BY DEF FESpecInit, FESpec, Elections
<1>2. pods \in [Ordinals -> Pod]
  <2>0. InitElection \in 0..MaxReplicas /\ 0 \in 0..MaxReplicas
    OBVIOUS
  <2>1. NoPod \in Pod /\ [phase |-> "ready", election |-> InitElection, deleting |-> FALSE] \in Pod
    BY <2>0 DEF Pod, NoPod
  <2> QED BY <2>1 DEF Init
<1>3. role \in [Ordinals -> Roles]
  BY DEF Init, Roles
<1>4. pvcs \in [Ordinals -> {"none", "bound", "deleting"}]
  BY DEF Init
<1>5. status \in FEStatus
  <2>1. \E b \in BOOLEAN, ph \in {"Ready", "Reconciling"} :
           status = [phase |-> ph, available |-> b, feAvailable |-> b]
    BY Zenon DEF Init
  <2> QED BY <2>1 DEF FEStatus
<1>6. /\ spec = FESpecInit /\ sts = FESpecInit /\ cache = FESpecInit /\ rd = spec /\ mem = spec
      /\ edits = 0 /\ faults = 0 /\ ms = TRUE /\ updated = FALSE /\ pc = "idle" /\ cur = status
  BY DEF Init
<1>7. edits \in 0..MaxEdits /\ faults \in 0..MaxFaults
  BY <1>6
<1> QED BY <1>1, <1>2, <1>3, <1>4, <1>5, <1>6, <1>7 DEF TypeOK, PCs

LEMMA TypeNext == TypeOK /\ [Next]_vars => TypeOK'
<1> SUFFICES ASSUME TypeOK, [Next]_vars PROVE TypeOK'
  OBVIOUS
<1> USE FrontendAssumption DEF FrontendAssumption
<1>0. \A kind \in FrontendFaults : Fault(kind) => faults' \in 0..MaxFaults
  BY DEF Fault, TypeOK
<1>1. CASE UNCHANGED vars
  BY <1>1 DEF vars, TypeOK
<1>2. CASE Sync
  <2>1. mem' \in FESpec /\ mem'.election <= mem'.replicas
    BY <1>2, CorrectedType DEF Sync, TypeOK
  <2>2. cur' \in FEStatus
    BY <1>2, StatusTypes DEF Sync, TypeOK
  <2>3. faults' \in 0..MaxFaults
    BY <1>2, <1>0 DEF Sync, NoFault, TypeOK, FrontendFaults
  <2> QED BY <1>2, <2>1, <2>2, <2>3 DEF Sync, TypeOK, PCs
<1>3. CASE SyncWaitsForMS
  BY <1>3 DEF SyncWaitsForMS, TypeOK, PCs, envVars
<1>4. CASE DropFE
  <2>1. cur' \in FEStatus
    BY <1>4, StatusTypes DEF DropFE, TypeOK
  <2>2. role' \in [Ordinals -> Roles]
    BY <1>4 DEF DropFE, DropObserver, TypeOK, Roles
  <2>3. faults' \in 0..MaxFaults
    BY <1>4, <1>0 DEF DropFE, NoFault, TypeOK, FrontendFaults
  <2> QED BY <1>4, <2>1, <2>2, <2>3 DEF DropFE, TypeOK, PCs
<1>5. CASE DropFEFails
  <2>1. cur' \in FEStatus
    BY <1>5, StatusTypes DEF DropFEFails, TypeOK
  <2>2. role' \in [Ordinals -> Roles]
    BY <1>5 DEF DropFEFails, DropObserver, TypeOK, Roles
  <2>3. faults' \in 0..MaxFaults
    BY <1>5, <1>0 DEF DropFEFails, FrontendFaults
  <2> QED BY <1>5, <2>1, <2>2, <2>3 DEF DropFEFails, TypeOK, PCs
<1>6. CASE ApplyStatefulSet
  <2>1. faults' \in 0..MaxFaults
    BY <1>6, <1>0 DEF ApplyStatefulSet, NoFault, TypeOK, FrontendFaults
  <2>2. updated' \in BOOLEAN
    BY <1>6, Zenon DEF ApplyStatefulSet
  <2>3. sts' \in FESpec
    BY <1>6 DEF ApplyStatefulSet, TypeOK
  <2> QED BY <1>6, <2>1, <2>2, <2>3 DEF ApplyStatefulSet, TypeOK, PCs
<1>7. CASE ClearResources
  <2>1. faults' \in 0..MaxFaults
    BY <1>7, <1>0 DEF ClearResources, NoFault, TypeOK, FrontendFaults
  <2>2. pvcs' \in [Ordinals -> {"none", "bound", "deleting"}]
    BY <1>7 DEF ClearResources, TypeOK
  <2> QED BY <1>7, <2>1, <2>2 DEF ClearResources, TypeOK, PCs
<1>8. CASE UpdateObjectORStatus
  <2>1. faults' \in 0..MaxFaults
    BY <1>8, <1>0 DEF UpdateObjectORStatus, NoFault, TypeOK, FrontendFaults
  <2>2. status' \in FEStatus
    BY <1>8, ComponentStatusType DEF UpdateObjectORStatus, TypeOK
  <2>3. spec' \in FESpec
    BY <1>8 DEF UpdateObjectORStatus, TypeOK
  <2> QED BY <1>8, <2>1, <2>2, <2>3 DEF UpdateObjectORStatus, TypeOK, PCs
<1>9. CASE CacheSync
  BY <1>9 DEF CacheSync, TypeOK, opVars
<1>10. CASE EditSpec
  <2>1. spec' \in FESpec
    BY <1>10 DEF EditSpec, FESpec, Elections
  <2>2. edits' \in 0..MaxEdits
    BY <1>10 DEF EditSpec, TypeOK
  <2> QED BY <1>10, <2>1, <2>2 DEF EditSpec, TypeOK, opVars
<1>11. CASE MSDown
  BY <1>11, <1>0 DEF MSDown, TypeOK, opVars, FrontendFaults
<1>12. CASE MSUp
  BY <1>12 DEF MSUp, TypeOK, opVars
<1>13. CASE \E o \in Ordinals : StsCreatePod(o) \/ StsDeletePod(o) \/ PodGone(o)
                                \/ PodReady(o) \/ PodFails(o)
  <2> PICK o \in Ordinals : StsCreatePod(o) \/ StsDeletePod(o) \/ PodGone(o)
                            \/ PodReady(o) \/ PodFails(o)
    BY <1>13
  <2>1. pods[o] \in Pod /\ sts \in FESpec
    BY DEF TypeOK
  <2>2. pods' \in [Ordinals -> Pod]
    BY <2>1, PodTypes DEF StsCreatePod, StsDeletePod, PodGone, PodReady, PodFails, TypeOK
  <2>3. pvcs' \in [Ordinals -> {"none", "bound", "deleting"}]
    BY DEF StsCreatePod, StsDeletePod, PodGone, PodReady, PodFails, TypeOK
  <2>4. role' \in [Ordinals -> Roles]
    BY DEF StsCreatePod, StsDeletePod, PodGone, PodReady, PodFails, TypeOK, Roles
  <2>5. faults' \in 0..MaxFaults
    BY <1>0 DEF StsCreatePod, StsDeletePod, PodGone, PodReady, PodFails, TypeOK, FrontendFaults
  <2>6. UNCHANGED <<spec, edits, ms, sts, cache, status, pc, rd, mem, cur, updated>>
    BY DEF StsCreatePod, StsDeletePod, PodGone, PodReady, PodFails, opVars
  <2> QED BY <2>2, <2>3, <2>4, <2>5, <2>6 DEF TypeOK
<1> QED BY <1>1, <1>2, <1>3, <1>4, <1>5, <1>6, <1>7, <1>8, <1>9, <1>10, <1>11, <1>12, <1>13
        DEF Next, Operator, Environment

\* Every reachable state of the frontends is well typed; in particular the
\* StatefulSet is never applied with fewer replicas than the election number.
THEOREM FrontendTypeCorrect == Spec => []TypeOK
<1> QED BY TypeInit, TypeNext, PTL DEF Spec

-----------------------------------------------------------------------------
(* Which observers a scale-down drops. *)

\* Among the elements of S, all at least e, those with fewer than n greater
\* ones are at least r, if S has at least n elements more than fit below r.
LEMMA TopElements ==
    ASSUME NEW S \in SUBSET Nat, IsFiniteSet(S),
           NEW e \in Nat, NEW r \in Nat, e <= r,
           \A p \in S : e <= p,
           NEW n \in Int, n <= Cardinality(S) - r + e,
           NEW o \in S, Cardinality({p \in S : p > o}) < n
    PROVE  o >= r
<1> DEFINE H == {p \in S : p > o}
           L == S \ H
<1>1. IsFiniteSet(H) /\ Cardinality(H) \in Nat /\ Cardinality(S) \in Nat
  BY FS_Subset, FS_CardinalityType
<1>2. Cardinality(L) = Cardinality(S) - Cardinality(H)
  <2>1. S \cap H = H
    OBVIOUS
  <2> QED BY <2>1, FS_Difference
<1>3. L \subseteq e..o
  <2> SUFFICES ASSUME NEW p \in L PROVE p \in e..o
    OBVIOUS
  <2>1. p \in S /\ ~ (p > o)
    OBVIOUS
  <2> QED BY <2>1
<1>4. IsFiniteSet(e..o) /\ Cardinality(e..o) = o - e + 1
  BY FS_Interval
<1>5. Cardinality(L) <= o - e + 1
  BY <1>3, <1>4, FS_Subset
<1> HIDE DEF L
<1> QED BY <1>1, <1>2, <1>5

\* The election number is the same everywhere, observers are above it and
\* followers below.
OneElection ==
    /\ spec.election = InitElection /\ rd.election = InitElection /\ mem.election = InitElection
    /\ sts.election = InitElection /\ cache.election = InitElection
    /\ \A o \in Ordinals : Exists(o) => pods[o].election = InitElection
    /\ \A o \in Ordinals : role[o] = "OBSERVER" => o >= InitElection
    /\ \A o \in Ordinals : role[o] = "FOLLOWER" => o < InitElection

LEMMA OneElectionInit == Init => OneElection
BY FrontendAssumption DEF FrontendAssumption, Init, OneElection, FESpecInit, Exists, NoPod, Ordinals

LEMMA OneElectionNext ==
    ASSUME EditElections \subseteq {InitElection}, TypeOK, OneElection, [Next]_vars
    PROVE  OneElection'
<1>1. CASE UNCHANGED vars
  BY <1>1 DEF vars, OneElection, Exists
<1>2. CASE Sync
  <2>1. mem'.election = InitElection
    BY <1>2, CorrectedType DEF Sync, TypeOK, OneElection
  <2> QED BY <1>2, <2>1 DEF Sync, OneElection, Exists
<1>3. CASE SyncWaitsForMS
  BY <1>3 DEF SyncWaitsForMS, envVars, OneElection, Exists
<1>4. CASE DropFE
  BY <1>4 DEF DropFE, DropObserver, OneElection, Exists
<1>5. CASE DropFEFails
  BY <1>5 DEF DropFEFails, DropObserver, OneElection, Exists
<1>6. CASE ApplyStatefulSet
  BY <1>6 DEF ApplyStatefulSet, OneElection, Exists
<1>7. CASE ClearResources
  BY <1>7 DEF ClearResources, OneElection, Exists
<1>8. CASE UpdateObjectORStatus
  BY <1>8 DEF UpdateObjectORStatus, OneElection, Exists
<1>9. CASE CacheSync \/ MSDown \/ MSUp
  BY <1>9 DEF CacheSync, MSDown, MSUp, opVars, OneElection, Exists
<1>10. CASE EditSpec
  BY <1>10 DEF EditSpec, opVars, OneElection, Exists
<1>11. CASE \E o \in Ordinals : StsCreatePod(o) \/ StsDeletePod(o) \/ PodGone(o)
                                \/ PodReady(o) \/ PodFails(o)
  <2> PICK o \in Ordinals : StsCreatePod(o) \/ StsDeletePod(o) \/ PodGone(o)
                            \/ PodReady(o) \/ PodFails(o)
    BY <1>11
  <2>1. UNCHANGED <<spec, sts, cache, rd, mem>>
    BY DEF StsCreatePod, StsDeletePod, PodGone, PodReady, PodFails, opVars
  <2>2. \A q \in Ordinals : Exists(q)' => pods'[q].election = InitElection
    BY DEF StsCreatePod, StsDeletePod, PodGone, PodReady, PodFails, OneElection, Exists, Ready,
           TypeOK, Pod, NoPod
  <2>0. ASSUME PodReady(o)
        PROVE  role' = [role EXCEPT ![o] = IF role[o] # "none" THEN role[o]
                                           ELSE IF o < InitElection THEN "FOLLOWER" ELSE "OBSERVER"]
    <3>1. pods[o].election = InitElection
      BY <2>0 DEF PodReady, OneElection, Exists
    <3> QED BY <2>0, <3>1 DEF PodReady
  <2>3. \A q \in Ordinals : role'[q] = "OBSERVER" => q >= InitElection
    <3>1. CASE PodReady(o)
      BY <2>0, <3>1, FrontendAssumption DEF FrontendAssumption, PodReady, OneElection, TypeOK, Ordinals
    <3>2. CASE ~ PodReady(o)
      BY <3>2 DEF StsCreatePod, StsDeletePod, PodGone, PodFails, OneElection
    <3> QED BY <3>1, <3>2
  <2>4. \A q \in Ordinals : role'[q] = "FOLLOWER" => q < InitElection
    <3>1. CASE PodReady(o)
      BY <2>0, <3>1, FrontendAssumption DEF FrontendAssumption, PodReady, OneElection, TypeOK, Ordinals
    <3>2. CASE ~ PodReady(o)
      BY <3>2 DEF StsCreatePod, StsDeletePod, PodGone, PodFails, OneElection
    <3> QED BY <3>1, <3>2
  <2> QED BY <2>1, <2>2, <2>3, <2>4, Zenon DEF OneElection
<1> QED BY <1>1, <1>2, <1>3, <1>4, <1>5, <1>6, <1>7, <1>8, <1>9, <1>10, <1>11
        DEF Next, Operator, Environment

\* What a DROP OBSERVER statement takes out of the metadata is above the replicas.
LEMMA DropStep ==
    ASSUME TypeOK, OneElection, pc = "drop",
           NEW n \in Int, n = 0 \/ n <= NeedRemovedAmount,
           NEW o \in FindNeedDeletedObservers(n)
    PROVE  o >= mem.replicas
<1> USE FrontendAssumption DEF FrontendAssumption
<1>1. Observers \in SUBSET Nat /\ IsFiniteSet(Observers) /\ Cardinality(Observers) \in Nat
  <2>1. IsFiniteSet(Ordinals)
    BY FS_Interval DEF Ordinals
  <2>2. Observers \in SUBSET Ordinals
    BY DEF Observers
  <2>3. IsFiniteSet(Observers)
    BY <2>1, <2>2, FS_Subset
  <2>4. Ordinals \subseteq Nat
    BY DEF Ordinals
  <2> QED BY <2>2, <2>3, <2>4, FS_CardinalityType
<1>2. \A p \in Observers : InitElection <= p
  BY DEF Observers, OneElection, Ordinals
<1>3. o \in Observers /\ Cardinality({p \in Observers : p > o}) < n
  BY DEF FindNeedDeletedObservers
<1>4. Cardinality({p \in Observers : p > o}) \in Nat
  BY <1>1, FS_Subset, FS_CardinalityType
<1>5. n <= Cardinality(Observers) - mem.replicas + InitElection
  BY <1>3, <1>4 DEF NeedRemovedAmount, OneElection
<1>6. mem.replicas \in Nat /\ InitElection \in Nat /\ InitElection <= mem.replicas
  BY DEF TypeOK, FESpec, OneElection
<1> HIDE DEF FrontendAssumption
<1> QED BY <1>1, <1>2, <1>3, <1>5, <1>6, TopElements

LEMMA DropNext ==
    ASSUME TypeOK, OneElection, Next,
           NEW o \in Ordinals, role[o] # "none", role'[o] = "none"
    PROVE  o >= mem.replicas
<1> USE FrontendAssumption DEF FrontendAssumption
<1>1. CASE DropFE
  <2>1. NeedRemovedAmount \in Int
    <3>1. IsFiniteSet(Observers)
      <4>1. IsFiniteSet(Ordinals)
        BY FS_Interval DEF Ordinals
      <4>2. Observers \in SUBSET Ordinals
        BY DEF Observers
      <4> QED BY <4>1, <4>2, FS_Subset
    <3>2. Cardinality(Observers) \in Int
      BY <3>1, FS_CardinalityType
    <3> QED BY <3>2 DEF NeedRemovedAmount, TypeOK, FESpec, Elections
  <2>2. o \in FindNeedDeletedObservers(NeedRemovedAmount)
    BY <1>1 DEF DropFE, DropObserver
  <2>3. NeedRemovedAmount <= NeedRemovedAmount
    BY <2>1
  <2> QED BY <1>1, <2>1, <2>2, <2>3, DropStep DEF DropFE
<1>2. CASE DropFEFails
  <2>1. PICK n \in 0..MaxReplicas : /\ n = 0 \/ n <= NeedRemovedAmount
                                    /\ DropObserver(FindNeedDeletedObservers(n))
    BY <1>2 DEF DropFEFails
  <2>2. o \in FindNeedDeletedObservers(n)
    BY <2>1 DEF DropObserver
  <2>3. n \in Int
    OBVIOUS
  <2> QED BY <1>2, <2>1, <2>2, <2>3, DropStep DEF DropFEFails
<1>3. CASE \E q \in Ordinals : PodReady(q)
  BY <1>3 DEF PodReady, TypeOK
<1>4. CASE UNCHANGED role
  BY <1>4
<1> QED BY <1>1, <1>2, <1>3, <1>4
        DEF Next, Operator, Environment, Sync, SyncWaitsForMS, envVars, ApplyStatefulSet,
            ClearResources, UpdateObjectORStatus, CacheSync, EditSpec, MSDown, MSUp,
            StsCreatePod, StsDeletePod, PodGone, PodFails

\* While the election number is not edited, dropFEBySQLClient takes only pod
\* numbers at or above feSpec.replicas out of the FE's metadata, whatever fails
\* around it and whichever FE has not registered yet.
THEOREM DropCorrect ==
    ASSUME EditElections \subseteq {InitElection}
    PROVE  Spec => DropOnlySurplus
<1>1. Init => TypeOK /\ OneElection
  BY TypeInit, OneElectionInit
<1>2. TypeOK /\ OneElection /\ [Next]_vars => (TypeOK /\ OneElection)'
  BY TypeNext, OneElectionNext
<1>3. TypeOK /\ OneElection /\ [Next]_vars
      => [\A o \in Ordinals : role[o] # "none" /\ role'[o] = "none" => o >= mem.replicas]_vars
  BY DropNext
<1> QED BY <1>1, <1>2, <1>3, PTL DEF Spec, DropOnlySurplus

-----------------------------------------------------------------------------
(* Scaling implements Membership. *)

Members == {o \in Ordinals : role[o] # "none"}

LEMMA MembersNat == Ordinals \subseteq Nat /\ IsFiniteSet(Ordinals) /\ InitElection \in Nat
BY FrontendAssumption, FS_Interval DEF FrontendAssumption, Ordinals

\* What stays in the metadata is below everything that was dropped.
LEMMA DroppedFromTheTop ==
    ASSUME TypeOK, OneElection, NEW n \in Int, pc = "drop", n = 0 \/ n <= NeedRemovedAmount,
           NEW d \in FindNeedDeletedObservers(n),
           NEW m \in Members, m \notin FindNeedDeletedObservers(n)
    PROVE  m < d
<1>1. d \in Nat /\ m \in Nat /\ InitElection \in Nat /\ d \in Observers /\ m \in Ordinals
  BY MembersNat DEF FindNeedDeletedObservers, Observers, Members
<1>2. CASE role[m] = "FOLLOWER"
  <2>1. m < InitElection /\ d >= InitElection
    BY <1>1, <1>2 DEF OneElection, Observers
  <2> QED BY <1>1, <2>1
<1>3. CASE role[m] # "FOLLOWER"
  <2> DEFINE Above(o) == {p \in Observers : p > o}
  <2>1. m \in Observers
    BY <1>1, <1>3 DEF Members, Observers, TypeOK, Roles
  <2>2. Cardinality(Above(d)) < n /\ n <= Cardinality(Observers) /\ ~ (Cardinality(Above(m)) < n)
    BY <2>1 DEF FindNeedDeletedObservers
  <2>3. IsFiniteSet(Above(d)) /\ Above(d) \subseteq Ordinals
    <3>1. Above(d) \subseteq Ordinals
      BY DEF Observers
    <3> QED BY <3>1, MembersNat, FS_Subset
  <2>4. SUFFICES ASSUME ~ (m < d) PROVE FALSE
    OBVIOUS
  <2>5. Above(m) \subseteq Above(d)
    <3> SUFFICES ASSUME NEW p \in Above(m) PROVE p \in Above(d)
      OBVIOUS
    <3>1. p \in Observers /\ p > m /\ p \in Nat
      BY MembersNat DEF Observers
    <3> QED BY <1>1, <2>4, <3>1
  <2>6. IsFiniteSet(Above(m)) /\ Cardinality(Above(m)) <= Cardinality(Above(d))
    BY <2>3, <2>5, FS_Subset
  <2>7. Cardinality(Above(m)) \in Nat /\ Cardinality(Above(d)) \in Nat
    BY <2>3, <2>6, FS_CardinalityType
  <2> QED BY <2>2, <2>6, <2>7
<1> QED BY <1>2, <1>3

\* A drop, complete or not, is a Leave of the membership.
LEMMA DropIsLeave ==
    ASSUME TypeOK, TypeOK', OneElection, pc = "drop",
           NEW n \in Int, n = 0 \/ n <= NeedRemovedAmount,
           DropObserver(FindNeedDeletedObservers(n)), UNCHANGED <<mem, sts>>
    PROVE  ScalesFrontends!Leave
<1>1. Members' = Members \ FindNeedDeletedObservers(n)
  BY DEF Members, DropObserver
<1>2. \A d \in FindNeedDeletedObservers(n) :
        /\ d >= mem.replicas /\ d >= InitElection
        /\ \A m \in Members' : m < d
  <2> TAKE d \in FindNeedDeletedObservers(n)
  <2>1. d >= mem.replicas
    BY DropStep
  <2>2. d >= InitElection
    BY DEF FindNeedDeletedObservers, Observers, OneElection
  <2>3. \A m \in Members' : m < d
    BY <1>1, DroppedFromTheTop
  <2> QED BY <2>1, <2>2, <2>3
<1>3. mem'.replicas \in Nat
  BY FrontendAssumption DEF FrontendAssumption, TypeOK, FESpec
<1> QED BY <1>1, <1>2, <1>3 DEF ScalesFrontends!Leave, Members

LEMMA StepOfMembership ==
    ASSUME TypeOK, TypeOK', OneElection, [Next]_vars
    PROVE  [ScalesFrontends!MembershipNext]_<<mem.replicas, sts.replicas, Members>>
<1> USE DEF ScalesFrontends!MembershipNext
<1>0. mem'.replicas \in Nat /\ mem.replicas \in Nat
  BY FrontendAssumption DEF FrontendAssumption, TypeOK, FESpec
<1>1. CASE UNCHANGED vars
  BY <1>1 DEF vars, Members
<1>2. CASE Sync \/ SyncWaitsForMS
  <2>1. UNCHANGED <<sts, role>>
    BY <1>2 DEF Sync, SyncWaitsForMS, envVars
  <2> QED BY <1>0, <2>1 DEF ScalesFrontends!Retarget
<1>3. CASE DropFE
  <2>1. NeedRemovedAmount \in Int
    <3>1. IsFiniteSet(Observers)
      BY MembersNat, FS_Subset DEF Observers
    <3>2. Cardinality(Observers) \in Int
      BY <3>1, FS_CardinalityType
    <3> QED BY <3>2 DEF NeedRemovedAmount, TypeOK, FESpec, Elections
  <2>2. NeedRemovedAmount <= NeedRemovedAmount
    BY <2>1
  <2>3. CASE DropObserver(FindNeedDeletedObservers(NeedRemovedAmount))
    BY <1>3, <2>1, <2>2, <2>3, DropIsLeave DEF DropFE
  <2>4. CASE role' = role
    BY <1>3, <2>4 DEF DropFE, Members
  <2> QED BY <1>3, <2>3, <2>4 DEF DropFE
<1>4. CASE DropFEFails
  <2>1. PICK n \in 0..MaxReplicas : /\ n = 0 \/ n <= NeedRemovedAmount
                                    /\ DropObserver(FindNeedDeletedObservers(n))
    BY <1>4 DEF DropFEFails
  <2>2. n \in Int
    OBVIOUS
  <2> QED BY <1>4, <2>1, <2>2, DropIsLeave DEF DropFEFails
<1>5. CASE ApplyStatefulSet
  <2>1. mem.election = InitElection /\ mem.election <= mem.replicas /\ UNCHANGED <<mem, role>>
    BY <1>5 DEF ApplyStatefulSet, OneElection, TypeOK
  <2>2. CASE sts' = sts
    BY <2>1, <2>2 DEF Members
  <2>3. CASE sts' = mem
    BY <2>1, <2>3 DEF ScalesFrontends!Resize, Members
  <2> QED BY <1>5, <2>2, <2>3 DEF ApplyStatefulSet
<1>6. CASE UpdateObjectORStatus
  BY <1>0, <1>6 DEF UpdateObjectORStatus, ScalesFrontends!Retarget
<1>7. CASE \E o \in Ordinals : PodReady(o)
  <2> PICK o \in Ordinals : PodReady(o)
    BY <1>7
  <2>1. UNCHANGED <<mem, sts>>
    BY DEF PodReady, opVars
  <2>2. Members \subseteq Members'
    BY DEF PodReady, Members, TypeOK
  <2>3. Members' \subseteq Nat
    BY MembersNat DEF Members
  <2> QED BY <2>1, <2>2, <2>3 DEF ScalesFrontends!Join, Members
<1>8. CASE UNCHANGED <<mem, sts, role>>
  BY <1>8 DEF Members
<1> QED BY <1>1, <1>2, <1>3, <1>4, <1>5, <1>6, <1>7, <1>8
        DEF Next, Operator, Environment, ClearResources, CacheSync, EditSpec, MSDown, MSUp,
            StsCreatePod, StsDeletePod, PodGone, PodFails, opVars

\* While the election number is not edited, the frontends implement Membership
\* for any number of them and under every fault: dropFEBySQLClient takes members
\* out from the top and above the target only, never a follower, and
\* reconcileStatefulset never shrinks the StatefulSet into the followers.
THEOREM KeepsVotersCorrect ==
    ASSUME EditElections \subseteq {InitElection}
    PROVE  Spec => KeepsVoters
<1>1. Init => TypeOK /\ OneElection
  BY TypeInit, OneElectionInit
<1>2. TypeOK /\ OneElection /\ [Next]_vars => (TypeOK /\ OneElection)'
  BY TypeNext, OneElectionNext
<1>3. TypeOK /\ OneElection => ScalesFrontends!MembershipInit
  <2> SUFFICES ASSUME TypeOK PROVE ScalesFrontends!MembershipInit
    OBVIOUS
  <2>1. mem.replicas \in Nat /\ sts.replicas \in Nat
    BY FrontendAssumption DEF FrontendAssumption, TypeOK, FESpec
  <2>2. {o \in Ordinals : role[o] # "none"} \subseteq Nat
    BY MembersNat
  <2> QED BY <2>1, <2>2 DEF ScalesFrontends!MembershipInit
<1>4. TypeOK /\ TypeOK' /\ OneElection /\ [Next]_vars
      => [ScalesFrontends!MembershipNext]_<<mem.replicas, sts.replicas, {o \in Ordinals : role[o] # "none"}>>
  BY StepOfMembership DEF Members
<1> QED BY <1>1, <1>2, <1>3, <1>4, PTL DEF Spec, KeepsVoters, ScalesFrontends!MembershipSpec
=============================================================================
