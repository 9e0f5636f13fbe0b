----------------------- MODULE DisaggregatedClusterProofs -----------------------
(***************************************************************************)
(* Proofs about DisaggregatedCluster, for any number of groups, replicas,  *)
(* edits and faults: the types of its state, and that a compute group      *)
(* leaves the status only when its services and StatefulSet are gone.      *)
(***************************************************************************)
EXTENDS DisaggregatedCluster, TLAPS, FiniteSetTheorems

-----------------------------------------------------------------------------
(* Types of the status. *)

LEMMA StatusFields ==
    ASSUME NEW s \in Statuses
    PROVE  /\ s.ms \in Component /\ s.fe \in Component
           /\ s.cgs \in [Groups -> Entries]
           /\ s.cgCount \in Nat /\ s.cgAvailable \in Nat
           /\ s.health \in {"Green", "Yellow", "Red"}
BY DEF Statuses

LEMMA EntryFields ==
    ASSUME NEW e \in Entries
    PROVE  /\ e.has \in BOOLEAN /\ e.id \in BOOLEAN /\ e.phase \in {"Reconciling", "Ready"}
           /\ e.replicas \in 0..MaxReplicas /\ e.avail \in 0..MaxReplicas
           /\ \A n \in 0..MaxReplicas : [e EXCEPT !.replicas = n] \in Entries
           /\ \A b \in BOOLEAN : [e EXCEPT !.id = b] \in Entries
           /\ \A n \in 0..MaxReplicas, p \in {"Reconciling", "Ready"} :
                 [e EXCEPT !.avail = n, !.phase = p] \in Entries
BY DEF Entries

LEMMA NoEntryType == NoEntry \in Entries /\ ~ NoEntry.has
<1>1. 0 \in 0..MaxReplicas
  BY ConstantsAssumption DEF ConstantsAssumption
<1> QED BY <1>1 DEF NoEntry, Entries

LEMMA InitMSStatusType == TypeOK => InitMSStatus \in Statuses /\ InitMSStatus.cgs = st.cgs
<1> SUFFICES ASSUME TypeOK PROVE InitMSStatus \in Statuses /\ InitMSStatus.cgs = st.cgs
  OBVIOUS
<1>1. st \in Statuses
  BY DEF TypeOK
<1> QED BY <1>1 DEF InitMSStatus, Statuses, Component

LEMMA InitialFEStatusType == TypeOK => InitialFEStatus \in Statuses /\ InitialFEStatus.cgs = st.cgs
<1> SUFFICES ASSUME TypeOK PROVE InitialFEStatus \in Statuses /\ InitialFEStatus.cgs = st.cgs
  OBVIOUS
<1>1. st \in Statuses
  BY DEF TypeOK
<1> QED BY <1>1 DEF InitialFEStatus, Statuses, Component

\* initialCGStatus gives a group of the custom resource an entry.
LEMMA InitialCGStatusType ==
    ASSUME TypeOK, NEW g \in Groups, NEW n \in 0..MaxReplicas
    PROVE  InitialCGStatus(g, n) \in Entries /\ InitialCGStatus(g, n).has
<1>1. st.cgs[g] \in Entries
  BY StatusFields DEF TypeOK
<1>2. CASE st.cgs[g].has
  <2>1. [st.cgs[g] EXCEPT !.replicas = n].has
    BY <1>1, <1>2 DEF Entries
  <2> QED BY <1>1, <1>2, <2>1, EntryFields DEF InitialCGStatus
<1>3. CASE ~ st.cgs[g].has
  <2>0. 0 \in 0..MaxReplicas
    BY ConstantsAssumption DEF ConstantsAssumption
  <2>1. [NoEntry EXCEPT !.has = TRUE, !.replicas = n] \in Entries
    BY <2>0 DEF NoEntry, Entries
  <2>2. [NoEntry EXCEPT !.has = TRUE, !.replicas = n].has
    BY DEF NoEntry
  <2> QED BY <1>3, <2>1, <2>2 DEF InitialCGStatus
<1> QED BY <1>2, <1>3

\* The status that UpdateComponentStatus and reorganizeStatus compute has the
\* entries of the one in memory, with other contents.
LEMMA ReorganizedType ==
    ASSUME TypeOK, NEW sql \in BOOLEAN
    PROVE  /\ Reorganized(sql) \in Statuses
           /\ \A g \in Groups : Reorganized(sql).cgs[g].has = st.cgs[g].has
<1> DEFINE base == [g \in Groups |-> CGStatus(g, st.cgs[g])]
           cgs == RecordComputeGroupIds(base, sql)
           has == {g \in Groups : cgs[g].has}
           n == IF has = {} THEN st.cgCount ELSE Cardinality(has)
           k == IF has = {} THEN st.cgAvailable ELSE Cardinality({g \in has : cgs[g].avail > 0})
           new == [st EXCEPT !.ms = MSStatus(@), !.fe = FEStatus(@), !.cgs = cgs,
                             !.cgCount = IF has = {} THEN @ ELSE Cardinality(has),
                             !.cgAvailable = IF has = {} THEN @
                                             ELSE Cardinality({g \in has : cgs[g].avail > 0})]
<1>0. st \in Statuses
  BY DEF TypeOK
<1>1. \A g \in Groups : base[g] \in Entries /\ base[g].has = st.cgs[g].has
  <2> SUFFICES ASSUME NEW g \in Groups
               PROVE  CGStatus(g, st.cgs[g]) \in Entries /\ CGStatus(g, st.cgs[g]).has = st.cgs[g].has
    OBVIOUS
  <2>1. st.cgs[g] \in Entries /\ up[g] \in 0..MaxReplicas
    BY <1>0, StatusFields DEF TypeOK
  <2> QED BY <2>1 DEF CGStatus, Entries
<1>2. base \in [Groups -> Entries]
  BY <1>1
<1>3. cgs \in [Groups -> Entries] /\ \A g \in Groups : cgs[g].has = st.cgs[g].has
  <2> HIDE DEF base
  <2>1. \A g \in Groups : listed[g] \in BOOLEAN /\ base[g].has \in BOOLEAN
    BY <1>2, EntryFields DEF TypeOK
  <2>2. \A g \in Groups : /\ [base[g] EXCEPT !.id = base[g].has /\ listed[g]] \in Entries
                          /\ [base[g] EXCEPT !.id = base[g].has /\ listed[g]].has = base[g].has
    BY <1>2, <2>1 DEF Entries
  <2> QED BY <1>1, <1>2, <2>2 DEF RecordComputeGroupIds
<1> HIDE DEF base, cgs
<1>4. n \in Nat /\ k \in Nat
  <2>1. IsFiniteSet(Groups)
    BY ConstantsAssumption DEF ConstantsAssumption
  <2>2. IsFiniteSet(has) /\ IsFiniteSet({g \in has : cgs[g].avail > 0})
    BY <2>1, FS_Subset
  <2> QED BY <1>0, <2>2, FS_CardinalityType, StatusFields
<1>5. MSStatus(st.ms) \in Component /\ FEStatus(st.fe) \in Component
  <2>1. st.ms \in Component /\ st.fe \in Component
    BY <1>0, StatusFields
  <2>2. (st.ms.avail \/ ms.pod # 0) \in BOOLEAN /\ (st.fe.avail \/ fe.ready # "none") \in BOOLEAN
    BY Zenon
  <2> QED BY <2>1, <2>2 DEF MSStatus, FEStatus, Component
<1>6. new = [st EXCEPT !.ms = MSStatus(st.ms), !.fe = FEStatus(st.fe), !.cgs = cgs, !.cgCount = n,
                       !.cgAvailable = k]
  BY Zenon
<1> HIDE DEF n, k, new, has
<1>7. new \in Statuses /\ new.cgs = cgs
  <2>1. cgs \in [Groups -> Entries]
    BY <1>3
  <2>2. PICK m \in Component, f \in Component : m = MSStatus(st.ms) /\ f = FEStatus(st.fe)
    BY <1>5
  <2>3. new = [st EXCEPT !.ms = m, !.fe = f, !.cgs = cgs, !.cgCount = n, !.cgAvailable = k]
    BY <1>6, <2>2, Zenon
  <2> QED BY <1>0, <1>4, <2>1, <2>3 DEF Statuses
<1>8. Health(new) \in {"Green", "Yellow", "Red"}
  BY DEF Health
<1>9. [new EXCEPT !.health = Health(new)] \in Statuses /\ [new EXCEPT !.health = Health(new)].cgs = cgs
  BY <1>7, <1>8 DEF Statuses
<1>10. Reorganized(sql) = [new EXCEPT !.health = Health(new)]
  BY DEF Reorganized, new, has, cgs, base
<1> QED BY <1>3, <1>9, <1>10

-----------------------------------------------------------------------------
(* Types of a computegroups Sync. *)

LEMMA SpecFields ==
    ASSUME NEW s \in Specs
    PROVE  /\ s.ms \in 1..MaxTmpl /\ s.want \in [Groups -> -1..MaxReplicas]
           /\ Defaulted(s) \in Specs
           /\ Wanted(s) \subseteq Groups /\ Wanted(Defaulted(s)) = Wanted(s)
           /\ \A g \in Groups : Defaulted(s).want[g] \in 0..MaxReplicas
<1>1. s.ms \in 1..MaxTmpl /\ s.want \in [Groups -> -1..MaxReplicas] /\ s.valid \in BOOLEAN
  BY DEF Specs
<1>2. \A g \in Groups : (IF s.want[g] = Nil THEN 1 ELSE s.want[g]) \in 0..MaxReplicas
  BY <1>1, ConstantsAssumption DEF ConstantsAssumption, Nil
<1>3. Defaulted(s) = [want |-> [g \in Groups |-> IF s.want[g] = Nil THEN 1 ELSE s.want[g]],
                      valid |-> s.valid, ms |-> s.ms]
  BY DEF Defaulted, Specs
<1>4. \A n \in 0..MaxReplicas : n \in -1..MaxReplicas
  BY ConstantsAssumption DEF ConstantsAssumption
<1>5. Defaulted(s) \in Specs
  BY <1>1, <1>2, <1>3, <1>4 DEF Specs
<1>6. \A g \in Groups : Defaulted(s).want[g] = IF s.want[g] = Nil THEN 1 ELSE s.want[g]
  BY <1>3
<1>7. \A g \in Groups : Defaulted(s).want[g] # 0 <=> s.want[g] # 0
  BY <1>6 DEF Nil
<1> QED BY <1>1, <1>2, <1>5, <1>6, <1>7 DEF Wanted

LEMMA SyncGroupsType ==
    ASSUME TypeOK, NEW bad, NEW p \in Progress, SyncGroups(bad, p)
    PROVE  /\ mem' \in Specs /\ st' \in Statuses
           /\ svc' \in [Groups -> [internal : {"none", "clusterIP", "headless"}, external : BOOLEAN]]
           /\ sts' \in [Groups -> 0..MaxReplicas] /\ claims' \in [Groups -> 0..MaxReplicas]
           /\ upd' \subseteq Groups \cup {"ms"} /\ queued' \in BOOLEAN
           /\ \A g \in Groups : st.cgs[g].has => st'.cgs[g].has
<1> DEFINE n(g) == Defaulted(mem).want[g]
           at(g) == IF g \in bad THEN p ELSE "done"
           on   == Wanted(mem)
           E(g) == IF g \in on THEN InitialCGStatus(g, n(g)) ELSE st.cgs[g]
<1>0. PICK hold \in BOOLEAN :
      /\ mem' = Defaulted(mem)
      /\ st' = [st EXCEPT !.cgs = [g \in Groups |-> E(g)]]
      /\ svc' = [g \in Groups |->
                  IF g \notin on THEN svc[g]
                  ELSE [internal |-> ReconcileInternalService(svc[g].internal, at(g)),
                        external |-> svc[g].external \/ After(at(g), {"sts", "pvc"})]]
      /\ sts' = [g \in Groups |->
                  IF g \in on /\ After(at(g), {"pvc"})
                  THEN ReconcileStatefulset(sts[g], n(g), hold) ELSE sts[g]]
      /\ claims' = [g \in Groups |->
                  IF g \in on /\ at(g) = "done" /\ Provisioner = "Operator"
                  THEN ReconcilePVC(claims[g], n(g)) ELSE claims[g]]
      /\ upd' = upd \cup {g \in on : sts[g] # 0 /\ sts'[g] # sts[g]}
      /\ queued' = (queued \/ <<svc', sts'>> # <<svc, sts>>)
  BY DEF SyncGroups
<1>1. mem \in Specs /\ st \in Statuses
  BY DEF TypeOK
<1>2. \A g \in Groups : n(g) \in 0..MaxReplicas
  BY <1>1, SpecFields
<1>3. on \subseteq Groups
  BY DEF Wanted
<1>4. mem' \in Specs
  BY <1>0, <1>1, SpecFields
<1> HIDE DEF n, on
<1>5. \A g \in Groups : E(g) \in Entries /\ (st.cgs[g].has => E(g).has)
  <2>1. \A g \in Groups : st.cgs[g] \in Entries
    BY <1>1, StatusFields
  <2> QED BY <1>2, <2>1, InitialCGStatusType
<1>6. st' \in Statuses /\ \A g \in Groups : st.cgs[g].has => st'.cgs[g].has
  <2> HIDE DEF E
  <2>1. [g \in Groups |-> E(g)] \in [Groups -> Entries]
    BY <1>5
  <2>2. st'.cgs = [g \in Groups |-> E(g)]
    BY <1>0, <1>1 DEF Statuses
  <2>3. st' \in Statuses
    BY <1>0, <1>1, <2>1 DEF Statuses
  <2> QED BY <1>5, <2>2, <2>3
<1>7. svc' \in [Groups -> [internal : {"none", "clusterIP", "headless"}, external : BOOLEAN]]
  <2>1. \A g \in Groups : /\ svc[g] \in [internal : {"none", "clusterIP", "headless"}, external : BOOLEAN]
                          /\ ReconcileInternalService(svc[g].internal, at(g)) \in {"none", "clusterIP", "headless"}
                          /\ (svc[g].external \/ After(at(g), {"sts", "pvc"})) \in BOOLEAN
    BY DEF TypeOK, ReconcileInternalService
  <2> HIDE DEF at
  <2> QED BY <1>0, <2>1
<1>8. sts' \in [Groups -> 0..MaxReplicas] /\ claims' \in [Groups -> 0..MaxReplicas]
  <2> HIDE DEF at
  <2> QED BY <1>0, <1>2 DEF TypeOK, ReconcileStatefulset, ReconcilePVC
<1>9. upd' \subseteq Groups \cup {"ms"}
  BY <1>0, <1>3 DEF TypeOK
<1>10. queued' \in BOOLEAN
  BY <1>0, Zenon
<1> QED BY <1>4, <1>6, <1>7, <1>8, <1>9, <1>10

-----------------------------------------------------------------------------
(* Types. *)

LEMMA TypeInit == Init => TypeOK
<1> SUFFICES ASSUME Init PROVE TypeOK
  OBVIOUS
<1>0. 0 \in 0..MaxReplicas /\ 1 \in 0..MaxReplicas /\ 0 \in -1..MaxReplicas /\ 1 \in -1..MaxReplicas
      /\ 0 \in 0..MaxTmpl /\ 1 \in 0..MaxTmpl /\ 1 \in 1..MaxTmpl /\ 0 \in 0..MaxEdits /\ 0 \in 0..MaxFaults
  BY ConstantsAssumption DEF ConstantsAssumption
<1> DEFINE g == CHOOSE h \in Groups : TRUE
           n(old) == IF old THEN 1 ELSE 0
           f(x) == [h \in Groups |-> IF h = g THEN x ELSE 0]
           ph(old) == IF old THEN "Ready" ELSE "Reconciling"
           es(old) == [h \in Groups |->
                         IF old /\ h = g
                         THEN [has |-> TRUE, id |-> TRUE, phase |-> "Ready", replicas |-> 1, avail |-> 1]
                         ELSE NoEntry]
<1>1. PICK old \in BOOLEAN, v \in BOOLEAN :
         /\ spec = [want |-> f(1), valid |-> v, ms |-> 1]
         /\ ms = [tmpl |-> n(old), pod |-> n(old)]
         /\ fe = [sts |-> old, ready |-> IF old THEN "all" ELSE "none"]
         /\ sts = f(n(old)) /\ claims = f(n(old)) /\ up = f(n(old))
         /\ svc = [h \in Groups |-> IF old /\ h = g
                                    THEN [internal |-> "clusterIP", external |-> FALSE] ELSE NoSvc]
         /\ listed = [h \in Groups |-> old /\ h = g]
         /\ status = [ms |-> [phase |-> ph(old), avail |-> old],
                      fe |-> [phase |-> ph(old), avail |-> old],
                      cgs |-> es(old), cgCount |-> n(old), cgAvailable |-> n(old),
                      health |-> IF old THEN "Green" ELSE "Red"]
  BY DEF Init
<1>2. /\ queued = TRUE /\ pc = "idle" /\ todo = {} /\ read = spec /\ mem = spec
      /\ st = status /\ upd = {} /\ errs = FALSE /\ edits = 0 /\ faults = 0
  BY DEF Init
<1>3. es(old) \in [Groups -> Entries]
  <2>1. [has |-> TRUE, id |-> TRUE, phase |-> "Ready", replicas |-> 1, avail |-> 1] \in Entries
    BY <1>0 DEF Entries
  <2> QED BY <2>1, NoEntryType
<1>4. n(old) \in 0..MaxReplicas /\ n(old) \in 0..MaxTmpl /\ n(old) \in Nat
  BY <1>0
<1>5. f(1) \in [Groups -> -1..MaxReplicas] /\ f(n(old)) \in [Groups -> 0..MaxReplicas]
  BY <1>0, <1>4
<1>6. svc \in [Groups -> [internal : {"none", "clusterIP", "headless"}, external : BOOLEAN]]
  <2>1. [internal |-> "clusterIP", external |-> FALSE] \in [internal : {"none", "clusterIP", "headless"}, external : BOOLEAN]
        /\ NoSvc \in [internal : {"none", "clusterIP", "headless"}, external : BOOLEAN]
    BY DEF NoSvc
  <2> HIDE DEF g
  <2> QED BY <1>1, <2>1
<1>7. listed \in [Groups -> BOOLEAN]
  <2>1. \A h : (old /\ h = g) \in BOOLEAN
    BY Zenon
  <2> QED BY <1>1, <2>1, Zenon
<1> HIDE DEF es, n, f, g
<1>8. status \in Statuses
  <2>1. ph(old) \in {"Reconciling", "Ready"}
    OBVIOUS
  <2> HIDE DEF ph
  <2> QED BY <1>1, <1>3, <1>4, <2>1 DEF Statuses, Component
<1>9. spec \in Specs
  BY <1>0, <1>1, <1>5 DEF Specs
<1>10. ms \in [tmpl : 0..MaxTmpl, pod : 0..MaxTmpl] /\ fe \in [sts : BOOLEAN, ready : {"none", "some", "all"}]
  BY <1>1, <1>4
<1>11. sts \in [Groups -> 0..MaxReplicas] /\ claims \in [Groups -> 0..MaxReplicas] /\ up \in [Groups -> 0..MaxReplicas]
  BY <1>1, <1>5
<1> QED BY <1>0, <1>2, <1>6, <1>7, <1>8, <1>9, <1>10, <1>11 DEF TypeOK, PCs

LEMMA FaultType == TypeOK /\ Fault => faults' \in 0..MaxFaults
BY ConstantsAssumption DEF ConstantsAssumption, TypeOK, Fault

\* What a Sync leaves alone, and the next step.
LEMMA SyncDoneType ==
    ASSUME TypeOK, NEW c, SyncDone(c)
    PROVE  /\ todo' \subseteq Subs /\ pc' \in PCs
           /\ UNCHANGED <<spec, status, read, edits>>
BY DEF SyncDone, TypeOK, PCs

LEMMA TypeSync ==
    ASSUME TypeOK, SyncMS \/ SyncMSFails \/ SyncFE \/ SyncFEFails \/ SyncCGReturns \/ SyncCG
    PROVE  TypeOK'
<1>0. /\ todo' \subseteq Subs /\ pc' \in PCs
      /\ UNCHANGED <<spec, status, read, edits>>
  BY SyncDoneType DEF SyncMS, SyncMSFails, SyncFE, SyncFEFails, SyncCGReturns, SyncCG
<1>1. CASE SyncMS
  <2>1. st' \in Statuses
    BY <1>1, InitMSStatusType DEF SyncMS
  <2>2. mem.ms \in 0..MaxTmpl
    BY SpecFields, ConstantsAssumption DEF ConstantsAssumption, TypeOK
  <2>3. ms' \in [tmpl : 0..MaxTmpl, pod : 0..MaxTmpl]
    BY <1>1, <2>2 DEF SyncMS, TypeOK
  <2>4. queued' \in BOOLEAN
    BY <1>1, Zenon DEF SyncMS
  <2> QED BY <1>0, <1>1, <2>1, <2>3, <2>4 DEF SyncMS, TypeOK
<1>2. CASE SyncMSFails \/ SyncFEFails
  <2>1. st' \in Statuses /\ faults' \in 0..MaxFaults /\ errs' = TRUE /\ UNCHANGED <<k8sVars, mem, upd, queued>>
    BY <1>2, InitMSStatusType, InitialFEStatusType, FaultType DEF SyncMSFails, SyncFEFails
  <2> QED BY <1>0, <2>1 DEF TypeOK, k8sVars
<1>3. CASE SyncFE
  <2>1. st' \in Statuses
    BY <1>3, InitialFEStatusType DEF SyncFE, TypeOK
  <2>2. queued' \in BOOLEAN
    <3>1. queued' = queued \/ queued' = (queued \/ ~ fe.sts)
      BY <1>3 DEF SyncFE
    <3> QED BY <3>1, Zenon DEF TypeOK
  <2>3. fe' \in [sts : BOOLEAN, ready : {"none", "some", "all"}]
    BY <1>3 DEF SyncFE, TypeOK
  <2> QED BY <1>0, <1>3, <2>1, <2>2, <2>3 DEF SyncFE, TypeOK
<1>4. CASE SyncCG
  <2>1. UNCHANGED <<ms, fe, up, listed>>
    BY <1>4 DEF SyncCG
  <2>3. CASE SyncGroups({}, "done") /\ UNCHANGED <<errs, faults>>
    <3>1. "done" \in Progress
      BY DEF Progress
    <3> QED BY <1>0, <2>1, <2>3, <3>1, SyncGroupsType DEF TypeOK
  <2>4. ASSUME NEW g \in Wanted(mem), NEW p \in Progress, Fault, SyncGroups({g}, p), errs' = TRUE
        PROVE  TypeOK'
    BY <1>0, <2>1, <2>4, SyncGroupsType, FaultType DEF TypeOK
  <2> QED BY <1>4, <2>3, <2>4 DEF SyncCG
<1>5. CASE SyncCGReturns
  <2>1. UNCHANGED <<k8sVars, upd, st, queued, mem, faults>>
    BY <1>5 DEF SyncCGReturns
  <2>2. errs' \in BOOLEAN
    <3>1. errs' = (errs \/ (Wanted(mem) # {} /\ FeAvailable))
      BY <1>5 DEF SyncCGReturns
    <3> QED BY <3>1, Zenon
  <2> QED BY <1>0, <2>1, <2>2 DEF TypeOK, k8sVars
<1> QED BY <1>1, <1>2, <1>3, <1>4, <1>5

LEMMA TypeClear ==
    ASSUME TypeOK,
           ClearCGInDorisMeta \/ ClearSvcs \/ ClearStatefulsets \/ ClearStatefulsetUnusedPVCs
    PROVE  TypeOK'
<1>1. CASE ClearCGInDorisMeta
  <2>1. pc' \in PCs /\ faults' \in 0..MaxFaults /\ UNCHANGED <<claims, st>>
    BY <1>1, FaultType DEF ClearCGInDorisMeta, ClearFails, PCs, TypeOK
  <2>2. listed' \in [Groups -> BOOLEAN]
    <3> DEFINE drop(D) == [g \in Groups |-> listed[g] /\ ~ (g \in D /\ st.cgs[g].id)]
    <3>1. \A D : drop(D) \in [Groups -> BOOLEAN]
      BY Zenon
    <3>2. listed' = listed \/ \E D : listed' = drop(D)
      BY <1>1, Zenon DEF ClearCGInDorisMeta
    <3> QED BY <3>1, <3>2 DEF TypeOK
  <2> QED BY <1>1, <2>1, <2>2 DEF ClearCGInDorisMeta, TypeOK
<1>2. CASE ClearSvcs
  <2>1. pc' \in PCs /\ faults' \in 0..MaxFaults /\ UNCHANGED <<claims, st>>
    BY <1>2, FaultType DEF ClearSvcs, ClearFails, PCs, TypeOK
  <2>2. svc' \in [Groups -> [internal : {"none", "clusterIP", "headless"}, external : BOOLEAN]]
    <3> DEFINE T == [internal : {"none", "clusterIP", "headless"}, external : BOOLEAN]
    <3>1. svc \in [Groups -> T] /\ NoSvc \in T
      BY DEF TypeOK, NoSvc
    <3>2. \A g \in Groups : [svc[g] EXCEPT !.external = FALSE] \in T
      BY <3>1
    <3>3. \/ svc' = svc
          \/ svc' = [g \in Groups |-> IF g \in Removed THEN NoSvc ELSE svc[g]]
          \/ \E g \in Groups : svc' = [svc EXCEPT ![g] = [svc[g] EXCEPT !.external = FALSE]]
      BY <1>2 DEF ClearSvcs, Removed
    <3> HIDE DEF T
    <3>4. svc' \in [Groups -> T]
      BY <3>1, <3>2, <3>3
    <3> QED BY <3>4 DEF T
  <2>3. queued' \in BOOLEAN
    BY <1>2, Zenon DEF ClearSvcs
  <2> QED BY <1>2, <2>1, <2>2, <2>3 DEF ClearSvcs, TypeOK
<1>3. CASE ClearStatefulsets
  <2>1. pc' \in PCs /\ faults' \in 0..MaxFaults /\ UNCHANGED <<claims, st>>
    BY <1>3, FaultType DEF ClearStatefulsets, ClearFails, PCs, TypeOK
  <2>2. sts' \in [Groups -> 0..MaxReplicas]
    BY <1>3, ConstantsAssumption DEF ConstantsAssumption, ClearStatefulsets, TypeOK
  <2>3. queued' \in BOOLEAN
    BY <1>3, Zenon DEF ClearStatefulsets
  <2> QED BY <1>3, <2>1, <2>2, <2>3 DEF ClearStatefulsets, TypeOK
<1>4. CASE ClearStatefulsetUnusedPVCs
  <2>1. pc' \in PCs /\ faults' \in 0..MaxFaults
    BY <1>4, FaultType DEF ClearStatefulsetUnusedPVCs, PCs, TypeOK
  <2>2. claims' \in [Groups -> 0..MaxReplicas]
    BY <1>4 DEF ClearStatefulsetUnusedPVCs, TypeOK
  <2>3. st' \in Statuses
    BY <1>4, StatusFields, NoEntryType DEF ClearStatefulsetUnusedPVCs, TypeOK, Statuses
  <2> QED BY <1>4, <2>1, <2>2, <2>3 DEF ClearStatefulsetUnusedPVCs, TypeOK
<1> QED BY <1>1, <1>2, <1>3, <1>4

LEMMA TypeWrite ==
    ASSUME TypeOK, BeginReconcile \/ ReorganizeStatus \/ UpdateObjectORStatus \/ UpdateFails
    PROVE  TypeOK'
<1>1. CASE BeginReconcile
  BY <1>1 DEF BeginReconcile, TypeOK, PCs, k8sVars
<1>2. CASE ReorganizeStatus
  <2>1. st' \in Statuses /\ faults' \in 0..MaxFaults
    BY <1>2, ReorganizedType, FaultType DEF ReorganizeStatus, FeAvailable, TypeOK
  <2> QED BY <1>2, <2>1 DEF ReorganizeStatus, TypeOK, PCs, k8sVars
<1>3. CASE UpdateObjectORStatus \/ UpdateFails
  <2>1. spec' \in Specs /\ status' \in Statuses
    BY <1>3 DEF UpdateObjectORStatus, UpdateFails, TypeOK
  <2>2. faults' \in 0..MaxFaults
    BY <1>3, FaultType DEF UpdateObjectORStatus, UpdateFails, TypeOK
  <2>3. queued' \in BOOLEAN
    BY <1>3, Zenon DEF UpdateObjectORStatus, UpdateFails
  <2>4. Over
    BY <1>3 DEF UpdateObjectORStatus, UpdateFails
  <2> QED BY <2>1, <2>2, <2>3, <2>4 DEF Over, TypeOK, PCs, k8sVars
<1> QED BY <1>1, <1>2, <1>3

LEMMA TypeEnvironment ==
    ASSUME TypeOK, \/ EditSpec \/ RollMS \/ FEUp \/ FEDown \/ Resync
                   \/ \E g \in Groups : PodUp(g) \/ PodDown(g)
    PROVE  TypeOK'
<1>0. queued' = TRUE /\ UNCHANGED <<status, pc, todo, read, mem, st, upd, errs>>
  BY DEF EditSpec, RollMS, FEUp, FEDown, Resync, PodUp, PodDown, Event, opVars
<1>1. CASE EditSpec
  <2>1. spec' \in Specs
    <3>1. CASE \E g \in Groups, n \in -1..MaxReplicas, v \in BOOLEAN :
                 spec' = [spec EXCEPT !.want[g] = n, !.valid = v]
      <4>1. PICK g \in Groups, n \in -1..MaxReplicas, v \in BOOLEAN :
                 spec' = [spec EXCEPT !.want[g] = n, !.valid = v]
        BY <3>1
      <4>2. spec' = [want |-> [spec.want EXCEPT ![g] = n], valid |-> v, ms |-> spec.ms]
        BY <4>1 DEF TypeOK, Specs
      <4>3. spec.want \in [Groups -> -1..MaxReplicas] /\ spec.ms \in 1..MaxTmpl
        BY DEF TypeOK, Specs
      <4>4. [spec.want EXCEPT ![g] = n] \in [Groups -> -1..MaxReplicas]
        BY <4>3
      <4> QED BY <4>2, <4>3, <4>4 DEF Specs
    <3>2. CASE \E t \in 1..MaxTmpl : spec' = [spec EXCEPT !.ms = t]
      BY <3>2 DEF TypeOK, Specs
    <3> QED BY <1>1, <3>1, <3>2 DEF EditSpec
  <2>2. edits' \in 0..MaxEdits
    <3>1. edits < MaxEdits /\ edits' = edits + 1 /\ edits \in 0..MaxEdits
      BY <1>1 DEF EditSpec, TypeOK
    <3> QED BY <3>1, ConstantsAssumption DEF ConstantsAssumption
  <2> QED BY <1>0, <1>1, <2>1, <2>2 DEF EditSpec, TypeOK, k8sVars
<1>2. CASE RollMS
  <2>1. ms' \in [tmpl : 0..MaxTmpl, pod : 0..MaxTmpl]
    BY <1>2, ConstantsAssumption DEF ConstantsAssumption, RollMS, TypeOK
  <2> QED BY <1>0, <1>2, <2>1 DEF RollMS, TypeOK
<1>3. CASE FEUp
  BY <1>0, <1>3 DEF FEUp, TypeOK
<1>4. CASE FEDown
  BY <1>0, <1>4, FaultType DEF FEDown, TypeOK
<1>5. CASE Resync
  BY <1>0, <1>5 DEF Resync, TypeOK, k8sVars
<1>6. ASSUME NEW g \in Groups, PodUp(g) PROVE TypeOK'
  <2>1. up' = [up EXCEPT ![g] = up[g] + 1] /\ up[g] < sts[g]
    BY <1>6 DEF PodUp
  <2>2. up[g] \in 0..MaxReplicas /\ sts[g] \in 0..MaxReplicas
    BY DEF TypeOK
  <2>3. up[g] + 1 \in 0..MaxReplicas
    BY <2>1, <2>2, ConstantsAssumption DEF ConstantsAssumption
  <2>4. up' \in [Groups -> 0..MaxReplicas] /\ up'[g] \in 0..MaxReplicas
    BY <2>1, <2>3 DEF TypeOK
  <2>5. claims' \in [Groups -> 0..MaxReplicas]
    BY <1>6, <2>4 DEF PodUp, TypeOK, ReconcilePVC
  <2>6. listed' \in [Groups -> BOOLEAN]
    BY <1>6 DEF PodUp, TypeOK
  <2> QED BY <1>0, <1>6, <2>4, <2>5, <2>6 DEF PodUp, TypeOK
<1>7. ASSUME NEW g \in Groups, PodDown(g) PROVE TypeOK'
  <2>1. up[g] - 1 \in 0..MaxReplicas
    BY <1>7, ConstantsAssumption DEF ConstantsAssumption, PodDown, TypeOK
  <2> QED BY <1>0, <1>7, <2>1 DEF PodDown, TypeOK
<1> QED BY <1>1, <1>2, <1>3, <1>4, <1>5, <1>6, <1>7

LEMMA TypeNext == TypeOK /\ [Next]_vars => TypeOK'
<1> SUFFICES ASSUME TypeOK, [Next]_vars PROVE TypeOK'
  OBVIOUS
<1>1. CASE UNCHANGED vars
  BY <1>1 DEF vars, k8sVars, opVars, TypeOK
<1>2. CASE Next
  BY <1>2, TypeSync, TypeClear, TypeWrite, TypeEnvironment DEF Next, Operator
<1> QED BY <1>1, <1>2

\* Every reachable state of the reconciler and of its cluster is well typed: in
\* particular replicas that were not set are completed before they are used.
THEOREM ClusterTypeCorrect == Spec => []TypeOK
BY TypeInit, TypeNext, PTL DEF Spec

-----------------------------------------------------------------------------
(* Clearing. *)

\* As far as ClearResources has got, nothing is left of the removed groups; until
\* then the status in memory has every entry of the stored one.
KnownUntilCleared ==
    /\ pc \in {"sync", "drop", "svcs", "stss", "claims"} =>
         \A g \in Groups : status.cgs[g].has => st.cgs[g].has
    /\ pc \in {"stss", "claims"} => \A g \in Removed : svc[g] = NoSvc
    /\ pc = "claims" => \A g \in Removed : sts[g] = 0
    /\ pc \in {"status", "write"} =>
         \A g \in Groups : status.cgs[g].has /\ ~ st.cgs[g].has => svc[g] = NoSvc /\ sts[g] = 0

LEMMA KnownInit == Init => KnownUntilCleared
BY DEF Init, KnownUntilCleared

LEMMA KnownNext == TypeOK /\ KnownUntilCleared /\ [Next]_vars => KnownUntilCleared'
<1> SUFFICES ASSUME TypeOK, KnownUntilCleared, [Next]_vars PROVE KnownUntilCleared'
  OBVIOUS
<1>1. CASE BeginReconcile
  BY <1>1 DEF BeginReconcile, KnownUntilCleared
<1>2. CASE SyncMS \/ SyncMSFails \/ SyncFE \/ SyncFEFails \/ SyncCGReturns
  <2>1. pc = "sync" /\ pc' \in {"sync", "drop"} /\ status' = status /\ st'.cgs = st.cgs
    BY <1>2, InitMSStatusType, InitialFEStatusType
       DEF SyncMS, SyncMSFails, SyncFE, SyncFEFails, SyncCGReturns, SyncDone
  <2> QED BY <2>1 DEF KnownUntilCleared
<1>3. CASE SyncCG
  <2>1. pc = "sync" /\ pc' \in {"sync", "drop"} /\ status' = status
    BY <1>3 DEF SyncCG, SyncDone
  <2>2. \A g \in Groups : st.cgs[g].has => st'.cgs[g].has
    <3>1. "done" \in Progress
      BY DEF Progress
    <3> QED BY <1>3, <3>1, SyncGroupsType DEF SyncCG
  <2> QED BY <2>1, <2>2 DEF KnownUntilCleared
<1>4. CASE ClearCGInDorisMeta
  <2>1. pc = "drop" /\ pc' \in {"svcs", "status"} /\ UNCHANGED <<status, st, svc, sts, mem>>
    BY <1>4 DEF ClearCGInDorisMeta, ClearFails
  <2> QED BY <2>1 DEF KnownUntilCleared, Removed
<1>5. CASE ClearSvcs
  <2>1. pc = "svcs" /\ UNCHANGED <<status, st, sts, mem>>
    BY <1>5 DEF ClearSvcs, ClearFails
  <2>2. CASE pc' = "status"
    BY <2>1, <2>2 DEF KnownUntilCleared
  <2>3. CASE pc' = "stss" /\ svc' = [g \in Groups |-> IF g \in Removed THEN NoSvc ELSE svc[g]]
    BY <2>1, <2>3 DEF KnownUntilCleared, Removed
  <2> QED BY <1>5, <2>2, <2>3 DEF ClearSvcs, ClearFails
<1>6. CASE ClearStatefulsets
  <2>1. pc = "stss" /\ UNCHANGED <<status, st, svc, mem>>
    BY <1>6 DEF ClearStatefulsets, ClearFails
  <2>2. CASE pc' = "status"
    BY <2>1, <2>2 DEF KnownUntilCleared
  <2>3. CASE pc' = "claims" /\ sts' = [g \in Groups |-> IF g \in Removed THEN 0 ELSE sts[g]]
    BY <2>1, <2>3 DEF KnownUntilCleared, Removed
  <2> QED BY <1>6, <2>2, <2>3 DEF ClearStatefulsets, ClearFails
<1>7. CASE ClearStatefulsetUnusedPVCs
  <2>1. pc = "claims" /\ pc' = "status" /\ UNCHANGED <<status, svc, sts, mem>>
    BY <1>7 DEF ClearStatefulsetUnusedPVCs
  <2>2. \A g \in Groups \ Removed : st'.cgs[g] = st.cgs[g]
    BY <1>7, StatusFields DEF ClearStatefulsetUnusedPVCs, TypeOK, Statuses
  <2> QED BY <2>1, <2>2 DEF KnownUntilCleared, Removed
<1>8. CASE ReorganizeStatus
  <2>1. pc = "status" /\ pc' = "write" /\ UNCHANGED <<status, svc, sts, mem>>
    BY <1>8 DEF ReorganizeStatus, k8sVars
  <2>2. \A g \in Groups : st'.cgs[g].has = st.cgs[g].has
    BY <1>8, ReorganizedType DEF ReorganizeStatus, FeAvailable
  <2> QED BY <2>1, <2>2 DEF KnownUntilCleared
<1>9. CASE UpdateObjectORStatus \/ UpdateFails
  BY <1>9 DEF UpdateObjectORStatus, UpdateFails, Over, KnownUntilCleared
<1>10. CASE UNCHANGED <<status, st, pc, mem, svc, sts>>
  BY <1>10 DEF KnownUntilCleared, Removed
<1> QED BY <1>1, <1>2, <1>3, <1>4, <1>5, <1>6, <1>7, <1>8, <1>9, <1>10
        DEF Next, Operator, EditSpec, RollMS, FEUp, FEDown, Resync, PodUp, PodDown, Event, k8sVars,
            opVars, vars

\* A compute group that was removed leaves the status only when its services and
\* its StatefulSet are gone, whichever calls of ClearResources fail and whatever
\* the user edits meanwhile: the status is what the clearing is resumed from.
THEOREM ForgetCorrect == Spec => ForgetOnlyCleared
<1>1. TypeOK /\ KnownUntilCleared /\ [Next]_vars =>
        [\A g \in Groups : status.cgs[g].has /\ ~ status'.cgs[g].has => svc[g] = NoSvc /\ sts[g] = 0]_vars
  <2> SUFFICES ASSUME TypeOK, KnownUntilCleared, [Next]_vars, NEW g \in Groups,
                      status.cgs[g].has, ~ status'.cgs[g].has
               PROVE  svc[g] = NoSvc /\ sts[g] = 0
    OBVIOUS
  <2>1. status' # status
    OBVIOUS
  <2>2. pc = "write" /\ status' = st
    BY <2>1 DEF Next, Operator, BeginReconcile, SyncMS, SyncMSFails, SyncFE, SyncFEFails,
                SyncCGReturns, SyncCG, SyncDone,
                ClearCGInDorisMeta, ClearSvcs, ClearStatefulsets, ClearStatefulsetUnusedPVCs,
                ReorganizeStatus, UpdateObjectORStatus, UpdateFails, EditSpec, RollMS, FEUp, FEDown,
                Resync, PodUp, PodDown, Event, vars
  <2> QED BY <2>2 DEF KnownUntilCleared
<1> QED BY <1>1, TypeInit, TypeNext, KnownInit, KnownNext, PTL DEF Spec, ForgetOnlyCleared
=============================================================================
