--------------------------- MODULE CertificatesProofs ---------------------------
(***************************************************************************)
(* Proofs about Certificates, for any number of replicas, certificates and *)
(* faults: the types of its state, that a valid certificate is never       *)
(* replaced, and that no webhook configuration trusts a certificate that   *)
(* the Secret never held.                                                  *)
(***************************************************************************)
EXTENDS Certificates, TLAPS

\* A replica that is about to write a Secret that has not changed since it was
\* read holds the successor of its certificate, which was missing or ending.
StoresSuccessor ==
    \A r \in Replicas :
        pc[r] = "store" /\ current[r] =>
            /\ ~ (BuildCAFromSecret(secret) /\ ValidCA(secret))
            /\ hand[r] = NewCAConfigSecret(r)

\* What a replica is about to write to a configuration was in the Secret once.
HandFromSecret ==
    \A r \in Replicas :
        pc[r] \in {"get", "update"} =>
            hand[r].gen < secret.cert.gen \/ hand[r] = secret.cert

\* A certificate that comes to its end is not the last one of the model.
RoomForSuccessor == secret.ending => BuildCAFromSecret(secret) /\ secret.cert.gen < MaxGen

\* The inductive invariant.
CertificatesInv == TypeOK /\ RoomForSuccessor /\ StoresSuccessor /\ HandFromSecret /\ BundlesFromSecret

-----------------------------------------------------------------------------
(* Certificates. *)

LEMMA NoCertType == NoCert \in Certs /\ NoCert.gen = 0
BY DEF NoCert, Certs

LEMMA CertFields ==
    ASSUME NEW c \in Certs
    PROVE  /\ c.gen \in 0..MaxGen
           /\ c.gen = 0 <=> c = NoCert
BY ConstantsAssumption DEF ConstantsAssumption, Certs, NoCert

\* NewCAConfigSecret makes a certificate, as long as the bound leaves room.
LEMMA SuccessorType ==
    ASSUME TypeOK, RoomForSuccessor, NEW r \in Replicas,
           ~ (BuildCAFromSecret(secret) /\ ValidCA(secret))
    PROVE  NewCAConfigSecret(r) \in Certs /\ NewCAConfigSecret(r).gen = secret.cert.gen + 1
<1>1. secret.cert \in Certs /\ secret.ending \in BOOLEAN
  BY DEF TypeOK
<1>2. secret.cert.gen \in 0..(MaxGen - 1)
  BY <1>1, CertFields, ConstantsAssumption
     DEF ConstantsAssumption, RoomForSuccessor, BuildCAFromSecret, ValidCA
<1>3. secret.cert.gen + 1 \in 1..MaxGen
  BY <1>2, ConstantsAssumption DEF ConstantsAssumption
<1> QED BY <1>3 DEF NewCAConfigSecret, Certs

LEMMA TargetType == \A s \in Stages : Target(s) \in Configurations
BY DEF Target, Configurations

LEMMA InvInit == Init => CertificatesInv
<1> SUFFICES ASSUME Init PROVE CertificatesInv
  OBVIOUS
<1>0. 0 \in 0..MaxFaults
  BY ConstantsAssumption DEF ConstantsAssumption
<1> USE NoCertType DEF Init
<1>1. TypeOK
  <2>1. secret \in [cert : Certs, ending : BOOLEAN] /\ faults \in 0..MaxFaults
    BY <1>0
  <2>2. pc \in [Replicas -> PCs] /\ stage \in [Replicas -> Stages]
    BY DEF PCs, Stages
  <2> QED BY <2>1, <2>2 DEF TypeOK
<1>2. RoomForSuccessor /\ StoresSuccessor /\ HandFromSecret
  BY DEF RoomForSuccessor, StoresSuccessor, HandFromSecret
<1>3. BundlesFromSecret
  BY DEF BundlesFromSecret
<1> QED BY <1>1, <1>2, <1>3 DEF CertificatesInv

-----------------------------------------------------------------------------
(* A replica gives up what it has in hand. *)

\* Leave at a step that neither stores nor writes keeps the invariant.
LEMMA LeaveKeepsInv ==
    ASSUME CertificatesInv, NEW r \in Replicas, NEW p \in PCs \ {"store", "get", "update"},
           Leave(r, p), UNCHANGED <<secret, bundle, mount>>,
           leader' \in Replicas \cup {NoLeader}, queued' \in BOOLEAN, faults' \in 0..MaxFaults
    PROVE  CertificatesInv'
<1> USE DEF Leave
<1>1. TypeOK'
  BY NoCertType DEF CertificatesInv, TypeOK, PCs, Stages
<1>2. \A q \in Replicas : pc'[q] \in {"store", "get", "update"} =>
          q # r /\ pc'[q] = pc[q] /\ hand'[q] = hand[q] /\ current'[q] = current[q]
  BY DEF CertificatesInv, TypeOK
<1>3. RoomForSuccessor' /\ BundlesFromSecret'
  BY DEF CertificatesInv, RoomForSuccessor, BundlesFromSecret, BuildCAFromSecret
<1>4. StoresSuccessor'
  BY <1>2 DEF CertificatesInv, StoresSuccessor, BuildCAFromSecret, ValidCA, NewCAConfigSecret
<1>5. HandFromSecret'
  BY <1>2 DEF CertificatesInv, HandFromSecret
<1> QED BY <1>1, <1>3, <1>4, <1>5 DEF CertificatesInv

LEMMA FinishedType == \A r : Finished(r) \in PCs \ {"store", "get", "update"}
BY DEF Finished, PCs

\* Fail, whichever call it was.
LEMMA FailKeepsInv ==
    ASSUME CertificatesInv, NEW r \in Replicas, Fail(r), faults' \in 0..MaxFaults
    PROVE  CertificatesInv'
<1>1. (queued \/ leader = r) \in BOOLEAN
  BY Zenon
<1>2. leader' \in Replicas \cup {NoLeader} /\ queued' \in BOOLEAN
  BY <1>1 DEF Fail, CertificatesInv, TypeOK
<1> QED BY <1>2, FinishedType, LeaveKeepsInv DEF Fail

LEMMA StopKeepsInv ==
    ASSUME CertificatesInv, NEW r \in Replicas, Stop(r), faults' \in 0..MaxFaults
    PROVE  CertificatesInv'
<1>1. (queued /\ leader # r) \in BOOLEAN
  BY Zenon
<1>2. leader' \in Replicas \cup {NoLeader} /\ queued' \in BOOLEAN
  BY <1>1 DEF Stop, CertificatesInv, TypeOK
<1>3. "off" \in PCs \ {"store", "get", "update"}
  BY DEF PCs
<1> QED BY <1>2, <1>3, LeaveKeepsInv DEF Stop

\* A step that leaves the Secret, the bundles and all hands alone, and starts no
\* write.
LEMMA ProcessKeepsInv ==
    ASSUME CertificatesInv, TypeOK', UNCHANGED <<secret, bundle, hand, current>>,
           \A r \in Replicas : pc'[r] = pc[r] \/ pc'[r] \notin {"store", "get", "update"}
    PROVE  CertificatesInv'
<1>1. RoomForSuccessor' /\ BundlesFromSecret'
  BY DEF CertificatesInv, RoomForSuccessor, BundlesFromSecret, BuildCAFromSecret
<1>2. StoresSuccessor'
  BY DEF CertificatesInv, StoresSuccessor, BuildCAFromSecret, ValidCA, NewCAConfigSecret
<1>3. HandFromSecret'
  BY DEF CertificatesInv, HandFromSecret
<1> QED BY <1>1, <1>2, <1>3 DEF CertificatesInv

LEMMA NotifyType == \A k : Notify(k) => queued' \in BOOLEAN
BY Zenon DEF Notify

-----------------------------------------------------------------------------
(* The steps of a reconciliation. *)

LEMMA ReconcileSecretKeepsInv ==
    ASSUME CertificatesInv, NEW r \in Replicas, ReconcileSecret(r)
    PROVE  CertificatesInv'
<1> USE DEF ReconcileSecret
<1>1. RoomForSuccessor' /\ BundlesFromSecret'
  BY DEF CertificatesInv, RoomForSuccessor, BundlesFromSecret, BuildCAFromSecret
<1>2. CASE BuildCAFromSecret(secret) /\ ValidCA(secret)
  <2>1. TypeOK'
    BY <1>2 DEF CertificatesInv, TypeOK, Stages
  <2>2. UNCHANGED <<secret, bundle, hand, current, pc>>
    BY <1>2
  <2> QED BY <2>1, <2>2, ProcessKeepsInv
<1>3. CASE ~ (BuildCAFromSecret(secret) /\ ValidCA(secret))
  <2>0. NewCAConfigSecret(r) \in Certs
    BY <1>3, SuccessorType DEF CertificatesInv
  <2>1. TypeOK'
    BY <1>3, <2>0 DEF CertificatesInv, TypeOK, PCs
  <2>2. StoresSuccessor'
    <3> SUFFICES ASSUME NEW q \in Replicas, pc'[q] = "store", current'[q]
                 PROVE  /\ ~ (BuildCAFromSecret(secret) /\ ValidCA(secret))
                        /\ hand'[q] = NewCAConfigSecret(q)
      BY <1>3 DEF StoresSuccessor, BuildCAFromSecret, ValidCA, NewCAConfigSecret
    <3>1. CASE q = r
      BY <1>3, <3>1 DEF CertificatesInv, TypeOK
    <3>2. CASE q # r
      BY <1>3, <3>2 DEF CertificatesInv, TypeOK, StoresSuccessor
    <3> QED BY <3>1, <3>2
  <2>3. HandFromSecret'
    BY <1>3 DEF CertificatesInv, TypeOK, HandFromSecret
  <2> QED BY <1>1, <2>1, <2>2, <2>3 DEF CertificatesInv
<1> QED BY <1>2, <1>3

LEMMA StoreSecretKeepsInv ==
    ASSUME CertificatesInv, NEW r \in Replicas, StoreSecret(r)
    PROVE  CertificatesInv'
<1> USE DEF StoreSecret
<1>1. /\ hand[r] = NewCAConfigSecret(r)
      /\ ~ (BuildCAFromSecret(secret) /\ ValidCA(secret))
  BY DEF CertificatesInv, StoresSuccessor
<1>2. hand[r] \in Certs /\ hand[r].gen = secret.cert.gen + 1
  BY <1>1, SuccessorType DEF CertificatesInv
<1>3. secret'.cert = hand[r] /\ secret'.ending = FALSE
  OBVIOUS
<1>4. \A q \in Replicas : current'[q] \in BOOLEAN /\ (current'[q] => pc[q] # "store")
  BY DEF Outdate, Reading, CertificatesInv, TypeOK
<1>5. TypeOK'
  <2>1. current' \in [Replicas -> BOOLEAN]
    BY <1>4 DEF Outdate
  <2>2. queued' \in BOOLEAN
    BY NotifyType
  <2> QED BY <1>2, <2>1, <2>2 DEF CertificatesInv, TypeOK, PCs
<1>6. secret.cert.gen \in Nat
  BY CertFields DEF CertificatesInv, TypeOK
<1>7. \A c \in Certs : c.gen < secret.cert.gen \/ c = secret.cert => c.gen < secret'.cert.gen
  BY <1>2, <1>3, <1>6, CertFields
<1>8. StoresSuccessor'
  <2>1. \A q \in Replicas : pc'[q] = "store" => pc[q] = "store"
    BY DEF CertificatesInv, TypeOK
  <2> QED BY <1>4, <2>1 DEF StoresSuccessor
<1>9. HandFromSecret'
  <2>1. \A q \in Replicas : hand'[q] = hand[q] /\ hand[q] \in Certs
    BY DEF CertificatesInv, TypeOK
  <2>2. \A q \in Replicas : pc'[q] \in {"get", "update"} => q = r \/ pc[q] \in {"get", "update"}
    BY DEF CertificatesInv, TypeOK
  <2> QED BY <1>3, <1>7, <2>1, <2>2 DEF CertificatesInv, HandFromSecret
<1>10. BundlesFromSecret'
  <2>1. \A k \in Configurations : bundle'[k] = bundle[k] /\ bundle[k] \in Certs
    BY DEF CertificatesInv, TypeOK
  <2> QED BY <1>7, <2>1 DEF CertificatesInv, BundlesFromSecret
<1> QED BY <1>3, <1>5, <1>8, <1>9, <1>10 DEF CertificatesInv, RoomForSuccessor

LEMMA UpdateConfigurationKeepsInv ==
    ASSUME CertificatesInv, NEW r \in Replicas, UpdateConfiguration(r)
    PROVE  CertificatesInv'
<1> DEFINE k == Target(stage[r])
           still == IF bundle[k] = hand[r] THEN [current EXCEPT ![r] = FALSE] ELSE Outdate(k)
<1>1. /\ pc[r] = "update" /\ current[r] /\ bundle' = [bundle EXCEPT ![k] = hand[r]]
      /\ Advance(r, still) /\ Notify(k) /\ UNCHANGED <<secret, mount, leader, faults>>
  BY DEF UpdateConfiguration
<1>2. k \in Configurations /\ hand[r] \in Certs
  BY TargetType DEF CertificatesInv, TypeOK
<1>3. hand[r].gen < secret.cert.gen \/ hand[r] = secret.cert
  BY <1>1 DEF CertificatesInv, HandFromSecret
<1>4. still \in [Replicas -> BOOLEAN] /\ \A q \in Replicas : still[q] => current[q]
  <2>1. Outdate(k) \in [Replicas -> BOOLEAN] /\ \A q \in Replicas : Outdate(k)[q] => current[q]
    BY Zenon DEF Outdate
  <2> QED BY <2>1 DEF CertificatesInv, TypeOK
<1> HIDE DEF k, still
<1>5. TypeOK' /\ \A q \in Replicas : /\ pc'[q] \in {"store", "get", "update"}
                                           => hand'[q] = hand[q] /\ (current'[q] => current[q])
                                     /\ pc'[q] = "store" => pc[q] = "store"
                                     /\ pc'[q] \in {"get", "update"} => pc[q] \in {"get", "update"}
  <2>1. queued' \in BOOLEAN
    BY <1>1, NotifyType
  <2>2. CASE stage[r] = "mutating"
    <3>1. Leave(r, Finished(r)) /\ Finished(r) \in PCs \ {"store", "get", "update"}
      BY <1>1, <2>2, FinishedType DEF Advance
    <3>2. bundle' \in [Configurations -> Certs]
      BY <1>1, <1>2 DEF CertificatesInv, TypeOK
    <3>3. TypeOK'
      BY <1>1, <2>1, <3>1, <3>2, NoCertType DEF CertificatesInv, TypeOK, Leave, Stages
    <3>4. \A q \in Replicas : pc'[q] \in {"store", "get", "update"} =>
             pc'[q] = pc[q] /\ hand'[q] = hand[q] /\ current'[q] = current[q]
      BY <3>1 DEF Leave, CertificatesInv, TypeOK
    <3> QED BY <3>3, <3>4
  <2>3. CASE stage[r] # "mutating"
    <3>1. NextStage(stage[r]) \in Stages
      BY DEF NextStage, Stages
    <3> QED BY <1>1, <1>2, <1>4, <2>1, <2>3, <3>1 DEF CertificatesInv, TypeOK, Advance, PCs
  <2> QED BY <2>2, <2>3
<1>6. RoomForSuccessor' /\ StoresSuccessor'
  BY <1>1, <1>5 DEF CertificatesInv, RoomForSuccessor, StoresSuccessor, BuildCAFromSecret, ValidCA,
                    NewCAConfigSecret
<1>7. HandFromSecret'
  BY <1>1, <1>5 DEF CertificatesInv, HandFromSecret
<1>8. BundlesFromSecret'
  BY <1>1, <1>2, <1>3 DEF CertificatesInv, TypeOK, BundlesFromSecret
<1> QED BY <1>5, <1>6, <1>7, <1>8 DEF CertificatesInv

LEMMA GetConfigurationKeepsInv ==
    ASSUME CertificatesInv, NEW r \in Replicas, GetConfiguration(r)
    PROVE  CertificatesInv'
<1> USE DEF GetConfiguration
<1>1. TypeOK'
  BY DEF CertificatesInv, TypeOK, PCs
<1>2. RoomForSuccessor' /\ BundlesFromSecret'
  BY DEF CertificatesInv, RoomForSuccessor, BundlesFromSecret, BuildCAFromSecret
<1>3. StoresSuccessor'
  BY DEF CertificatesInv, TypeOK, StoresSuccessor, BuildCAFromSecret, ValidCA, NewCAConfigSecret
<1>4. HandFromSecret'
  BY DEF CertificatesInv, TypeOK, HandFromSecret
<1> QED BY <1>1, <1>2, <1>3, <1>4 DEF CertificatesInv

LEMMA ReadSecretKeepsInv ==
    ASSUME CertificatesInv, NEW r \in Replicas, ReadSecret(r)
    PROVE  CertificatesInv'
<1> USE DEF ReadSecret
<1>1. TypeOK'
  BY DEF CertificatesInv, TypeOK, PCs
<1>2. RoomForSuccessor' /\ BundlesFromSecret'
  BY DEF CertificatesInv, RoomForSuccessor, BundlesFromSecret, BuildCAFromSecret
<1>3. StoresSuccessor'
  BY DEF CertificatesInv, TypeOK, StoresSuccessor, BuildCAFromSecret, ValidCA, NewCAConfigSecret
<1>4. HandFromSecret'
  BY DEF CertificatesInv, TypeOK, HandFromSecret
<1> QED BY <1>1, <1>2, <1>3, <1>4 DEF CertificatesInv

LEMMA InvNext == CertificatesInv /\ [Next]_vars => CertificatesInv'
<1> SUFFICES ASSUME CertificatesInv, [Next]_vars PROVE CertificatesInv'
  OBVIOUS
<1>1. ASSUME NEW r \in Replicas, Step(r) PROVE CertificatesInv'
  <2>1. CASE Conflict(r)
    BY <2>1, FailKeepsInv DEF Conflict, CertificatesInv, TypeOK
  <2> QED BY <1>1, <2>1, ReconcileSecretKeepsInv, StoreSecretKeepsInv, GetConfigurationKeepsInv,
             UpdateConfigurationKeepsInv, ReadSecretKeepsInv DEF Step
<1>2. ASSUME NEW r \in Replicas, Process(r) PROVE CertificatesInv'
  <2>1. UNCHANGED <<secret, bundle, hand, current>>
    BY <1>2 DEF Process, Boot, CertificatePresent, Elect, ReconcileRequest, KubeletSync
  <2>2. \A q \in Replicas : pc'[q] = pc[q] \/ pc'[q] \notin {"store", "get", "update"}
    BY <1>2 DEF Process, Boot, CertificatePresent, Elect, ReconcileRequest, KubeletSync, Reconcile,
                CertificatesInv, TypeOK
  <2>3. TypeOK'
    BY <1>2 DEF Process, Boot, CertificatePresent, Elect, ReconcileRequest, KubeletSync, Reconcile,
                CertificatesInv, TypeOK, PCs, Stages
  <2> QED BY <2>1, <2>2, <2>3, ProcessKeepsInv
<1>3. ASSUME NEW r \in Replicas, CallFails(r) \/ Crash(r) \/ WaitExpires(r) PROVE CertificatesInv'
  <2>1. faults' \in 0..MaxFaults
    BY <1>3, ConstantsAssumption
       DEF ConstantsAssumption, CallFails, Crash, WaitExpires, CertificatesInv, TypeOK
  <2> QED BY <1>3, <2>1, FailKeepsInv, StopKeepsInv DEF CallFails, Crash, WaitExpires
<1>4. CASE Resync
  <2>1. TypeOK' /\ UNCHANGED <<secret, bundle, hand, current, pc>>
    BY <1>4 DEF Resync, CertificatesInv, TypeOK
  <2> QED BY <2>1, ProcessKeepsInv
<1>5. CASE Expire
  <2>1. /\ secret'.cert = secret.cert /\ secret'.ending = TRUE /\ secret.ending = FALSE
        /\ secret.cert.gen < MaxGen /\ BuildCAFromSecret(secret)
        /\ UNCHANGED <<bundle, mount, pc, stage, hand, current, leader, queued, faults>>
        /\ secret' \in [cert : Certs, ending : BOOLEAN]
    BY <1>5 DEF Expire, CertificatesInv, TypeOK
  <2>2. TypeOK' /\ RoomForSuccessor' /\ BundlesFromSecret'
    BY <2>1 DEF CertificatesInv, TypeOK, RoomForSuccessor, BundlesFromSecret, BuildCAFromSecret
  <2>3. StoresSuccessor' /\ HandFromSecret'
    BY <2>1 DEF CertificatesInv, StoresSuccessor, HandFromSecret, BuildCAFromSecret, ValidCA,
                NewCAConfigSecret
  <2> QED BY <2>2, <2>3 DEF CertificatesInv
<1>6. ASSUME NEW k \in Configurations, OverwriteConfiguration(k) PROVE CertificatesInv'
  <2>1. queued' \in BOOLEAN
    BY <1>6, NotifyType DEF OverwriteConfiguration
  <2>2. current' \in [Replicas -> BOOLEAN] /\ \A q \in Replicas : current'[q] => current[q]
    BY <1>6, Zenon DEF OverwriteConfiguration, Outdate
  <2>3. TypeOK'
    BY <1>6, <2>1, <2>2, NoCertType, ConstantsAssumption
       DEF ConstantsAssumption, OverwriteConfiguration, CertificatesInv, TypeOK
  <2>4. RoomForSuccessor' /\ HandFromSecret'
    BY <1>6 DEF OverwriteConfiguration, CertificatesInv, RoomForSuccessor, HandFromSecret,
                BuildCAFromSecret
  <2>5. StoresSuccessor'
    BY <1>6, <2>2 DEF OverwriteConfiguration, CertificatesInv, StoresSuccessor, BuildCAFromSecret,
                      ValidCA, NewCAConfigSecret
  <2>6. BundlesFromSecret'
    <3>1. secret.cert.gen \in Nat /\ (secret.cert.gen = 0 <=> secret.cert = NoCert)
      BY CertFields DEF CertificatesInv, TypeOK
    <3>2. NoCert.gen < secret.cert.gen \/ NoCert = secret.cert
      BY <3>1, NoCertType
    <3> QED BY <1>6, <3>2 DEF OverwriteConfiguration, CertificatesInv, TypeOK, BundlesFromSecret
  <2> QED BY <2>3, <2>4, <2>5, <2>6 DEF CertificatesInv
<1>7. CASE UNCHANGED vars
  <2>1. TypeOK' /\ UNCHANGED <<secret, bundle, hand, current, pc>>
    BY <1>7 DEF vars, CertificatesInv, TypeOK
  <2> QED BY <2>1, ProcessKeepsInv
<1> QED BY <1>1, <1>2, <1>3, <1>4, <1>5, <1>6, <1>7 DEF Next

-----------------------------------------------------------------------------
(* Theorems. *)

\* The Secret, the configurations and the replicas' memory are well typed; in
\* particular a certificate is never made past the bound of the model.
THEOREM CertificatesTypeCorrect == Spec => []TypeOK
<1>1. CertificatesInv => TypeOK
  BY DEF CertificatesInv
<1> QED BY <1>1, InvInit, InvNext, PTL DEF Spec

\* However many replicas race for the Secret, crash or lose calls, no webhook
\* configuration is given a certificate that the Secret did not hold
\* (WatchSecret.Reconcile returns before the configurations when its Update fails).
THEOREM BundlesCorrect == Spec => []BundlesFromSecret
<1>1. CertificatesInv => BundlesFromSecret
  BY DEF CertificatesInv
<1> QED BY <1>1, InvInit, InvNext, PTL DEF Spec

\* A valid certificate is never replaced, by any replica: the Update carries the
\* version of the Secret whose certificate ValidCA refused.
THEOREM RenewCorrect == Spec => RenewOnlyInvalid
<1>1. CertificatesInv /\ [Next]_vars =>
        [secret'.cert # secret.cert /\ BuildCAFromSecret(secret) => ~ ValidCA(secret)]_vars
  <2> SUFFICES ASSUME CertificatesInv, [Next]_vars, secret'.cert # secret.cert
               PROVE  ~ (BuildCAFromSecret(secret) /\ ValidCA(secret))
    OBVIOUS
  <2>1. \E r \in Replicas : StoreSecret(r)
    BY DEF Next, Step, Process, ReconcileSecret, GetConfiguration, UpdateConfiguration, ReadSecret,
           Conflict, Fail, Boot, CertificatePresent, Elect, ReconcileRequest, KubeletSync, CallFails,
           WaitExpires, Crash, Stop, Resync, Expire, OverwriteConfiguration, vars,
           CertificatesInv, TypeOK
  <2> QED BY <2>1 DEF StoreSecret, CertificatesInv, StoresSuccessor
<1> QED BY <1>1, InvInit, InvNext, PTL DEF Spec, RenewOnlyInvalid
=============================================================================
