-------------------------- MODULE PodTemplatesProofs --------------------------
(***************************************************************************)
(* What holds of the objects of PodTemplates for every set of specs, start *)
(* configurations and components.                                          *)
(***************************************************************************)
EXTENDS PodTemplates, TLAPS

LEMMA ReadsType ==
  ASSUME NEW c, NEW s, NEW own, NEW other, NEW lost
  PROVE  LET r == Reads(c, s, own, other, lost)
         IN  /\ r.sync \in {EmptyConf, own} /\ r.grace \in {EmptyConf, own}
             /\ r.box \in {EmptyConf, own} /\ r.peer \in {EmptyConf, other}
<1> DEFINE r == Reads(c, s, own, other, lost)
<1>1. /\ r.sync \in {EmptyConf, own} /\ r.grace \in {EmptyConf, own} /\ r.box \in {EmptyConf, own}
  BY DEF Reads
<1>2. r.peer \in {EmptyConf, other}
  BY DEF Reads
<1> QED
  BY <1>1, <1>2

LEMMA StoredFields ==
  ASSUME NEW o, NEW h, NEW built, NEW r
  PROVE  DOMAIN Stored(o, h, built, r) =
           {"selector", "template", "claims", "replicas", "hash", "wants", "torn"}
  BY DEF Stored

LEMMA CreatedFields ==
  ASSUME NEW c, NEW built, NEW r
  PROVE  DOMAIN Create(c, built, r) =
           {"selector", "template", "claims", "replicas", "hash", "wants", "torn"}
  BY StoredFields DEF Create

LEMMA UpdatedIs ==
  ASSUME NEW c, NEW built, NEW old, NEW r
  PROVE  \/ Update(c, built, old, r) = old
         \/ \E o, h : Update(c, built, old, r) = Stored(o, h, built, r)
  BY DEF Update

-----------------------------------------------------------------------------
(* Lists. *)

LEMMA ConcatSet ==
  ASSUME NEW a, NEW b, IsSequence(a), IsSequence(b)
  PROVE  IsSequence(a \o b) /\ ToSet(a \o b) = ToSet(a) \cup ToSet(b)
<1>1. a \in Seq(ToSet(a)) /\ b \in Seq(ToSet(b))
  BY DEF IsSequence
<1> DEFINE S == ToSet(a) \cup ToSet(b)
<1>2. a \in Seq(S) /\ b \in Seq(S)
  BY <1>1
<1>3. a \o b \in Seq(S) /\ Len(a \o b) = Len(a) + Len(b)
  BY <1>2
<1>4. ASSUME NEW i \in DOMAIN (a \o b) PROVE (a \o b)[i] \in S
  BY <1>3, <1>4
<1>5. ASSUME NEW i \in DOMAIN a PROVE a[i] \in ToSet(a \o b)
  <2>1. i \in DOMAIN (a \o b) /\ (a \o b)[i] = a[i]
    BY <1>2, <1>3, <1>5
  <2> QED
    BY <2>1 DEF ToSet
<1>6. ASSUME NEW i \in DOMAIN b PROVE b[i] \in ToSet(a \o b)
  <2>1. Len(a) + i \in DOMAIN (a \o b) /\ (a \o b)[Len(a) + i] = b[i]
    BY <1>2, <1>3, <1>6
  <2> QED
    BY <2>1 DEF ToSet
<1>7. ToSet(a \o b) = S
  BY <1>4, <1>5, <1>6 DEF ToSet
<1> QED
  BY <1>3, <1>7 DEF IsSequence

\* A list computed from another, element by element.
LEMMA MappedSequence ==
  ASSUME NEW a, IsSequence(a), NEW b, DOMAIN b = DOMAIN a, b = [i \in DOMAIN b |-> b[i]]
  PROVE  IsSequence(b)
<1>1. Len(a) \in Nat /\ DOMAIN a = 1..Len(a)
  BY DEF IsSequence
<1>2. \A i \in DOMAIN b : b[i] \in ToSet(b)
  BY DEF ToSet
<1> QED
  BY <1>1, <1>2 DEF IsSequence

LEMMA SingletonSequence ==
  ASSUME NEW x
  PROVE  IsSequence(<<x>>) /\ ToSet(<<x>>) = {x}
  BY DEF IsSequence, ToSet

LEMMA EmptySequence == IsSequence(<<>>) /\ ToSet(<<>>) = {}
  BY DEF IsSequence, ToSet

-----------------------------------------------------------------------------
(* Every variable has its type. *)

LEMMA InitType == Init => TypeOK
<1> SUFFICES ASSUME Init PROVE TypeOK
  OBVIOUS
<1>1. 0 \in 0..MaxEdits /\ 0 \in 0..MaxFaults
  BY ConstantsAssumption
<1>2. sts = <<>> \/ \E i : sts = <<LegacyStatefulSet(comp, i)>>
  BY DEF Init
<1>3. ASSUME NEW i, sts = <<LegacyStatefulSet(comp, i)>>
      PROVE  /\ IsSequence(sts) /\ Len(sts) <= 1
             /\ DOMAIN sts[1] = {"selector", "template", "claims", "replicas", "hash", "wants", "torn"}
  <2>1. DOMAIN LegacyStatefulSet(comp, i) =
          {"selector", "template", "claims", "replicas", "hash", "wants", "torn"}
    BY CreatedFields DEF LegacyStatefulSet, LegacyStored
  <2> QED
    BY <2>1, <1>3, SingletonSequence
<1>4. /\ IsSequence(sts) /\ Len(sts) <= 1
      /\ sts # <<>> =>
           DOMAIN sts[1] = {"selector", "template", "claims", "replicas", "hash", "wants", "torn"}
  BY <1>2, <1>3, EmptySequence
<1>5. IsSequence(svc) /\ Len(svc) <= 1 /\ round \in 0..1
  BY EmptySequence DEF Init
<1> QED
  BY <1>1, <1>4, <1>5 DEF Init, TypeOK

LEMMA ReconcileType ==
  ASSUME TypeOK, NEW lost, NEW applies, Reconcile(lost, applies)
  PROVE  /\ comp' = comp /\ spec' = spec /\ conf' = conf /\ peer' = peer /\ edits' = edits
         /\ IsSequence(svc') /\ Len(svc') <= 1 /\ IsSequence(sts') /\ Len(sts') <= 1
         /\ sts' # <<>> =>
              DOMAIN sts'[1] = {"selector", "template", "claims", "replicas", "hash", "wants", "torn"}
<1> DEFINE r == Reads(comp, spec, conf, peer, lost)
           built == NewStatefulSet(comp, spec, r)
           Fields == {"selector", "template", "claims", "replicas", "hash", "wants", "torn"}
<1>1. /\ comp' = comp /\ spec' = spec /\ conf' = conf /\ peer' = peer /\ edits' = edits
      /\ svc' = svc \/ svc' = ApplyServices(Services(comp, spec, r.sync), svc)
      /\ sts' = sts \/ sts' = ApplyStatefulSet(comp, built, sts, r)
  BY DEF Reconcile
<1>2. IsSequence(svc') /\ Len(svc') <= 1
  <2>1. ASSUME NEW new, svc' = ApplyServices(new, svc) PROVE IsSequence(svc') /\ Len(svc') <= 1
    <3>1. svc' = svc \/ \E o, h : svc' = <<[object |-> o, hash |-> h]>>
      BY <2>1 DEF ApplyServices
    <3>2. ASSUME NEW x, svc' = <<x>> PROVE IsSequence(svc') /\ Len(svc') <= 1
      BY <3>2, SingletonSequence
    <3> QED
      BY <3>1, <3>2 DEF TypeOK
  <2> QED
    BY <1>1, <2>1 DEF TypeOK
<1>3. CASE sts' = sts
  BY <1>1, <1>2, <1>3 DEF TypeOK
<1>4. CASE sts' = ApplyStatefulSet(comp, built, sts, r)
  <2> HIDE DEF built, r
  <2>1. CASE sts = <<>>
    <3>1. sts' = <<Create(comp, built, r)>>
      BY <1>4, <2>1 DEF ApplyStatefulSet
    <3> QED
      BY <1>1, <1>2, <3>1, CreatedFields, SingletonSequence
  <2>2. CASE sts # <<>>
    <3>1. sts' = <<Update(comp, built, sts[1], r)>>
      BY <1>4, <2>2 DEF ApplyStatefulSet
    <3>2. DOMAIN Update(comp, built, sts[1], r) = Fields
      <4>1. CASE Update(comp, built, sts[1], r) = sts[1]
        BY <2>2, <4>1 DEF TypeOK
      <4>2. ASSUME NEW o, NEW h, Update(comp, built, sts[1], r) = Stored(o, h, built, r)
            PROVE  DOMAIN Update(comp, built, sts[1], r) = Fields
        BY <4>2, StoredFields
      <4> QED
        BY <4>1, <4>2, UpdatedIs
    <3> QED
      BY <1>1, <1>2, <3>1, <3>2, SingletonSequence
  <2> QED
    BY <2>1, <2>2
<1> QED
  BY <1>1, <1>3, <1>4

LEMMA NextType == TypeOK /\ [Next]_vars => TypeOK'
<1> SUFFICES ASSUME TypeOK, [Next]_vars PROVE TypeOK'
  OBVIOUS
<1>1. CASE EditSpec
  <2>1. edits' \in 0..MaxEdits
    BY <1>1, ConstantsAssumption DEF TypeOK, EditSpec
  <2> QED
    BY <1>1, <2>1 DEF TypeOK, EditSpec
<1>2. CASE EditConf
  <2>1. edits' \in 0..MaxEdits
    BY <1>2, ConstantsAssumption DEF TypeOK, EditConf
  <2> QED
    BY <1>2, <2>1 DEF TypeOK, EditConf
<1>3. CASE Sync
  <2>1. round' \in 0..1
    BY <1>3 DEF Sync, NextRound, TypeOK
  <2> QED
    BY <1>3, <2>1, ReconcileType DEF Sync, TypeOK
<1>4. CASE SyncFaulty
  <2>1. faults' \in 0..MaxFaults /\ round' = round
    BY <1>4, ConstantsAssumption DEF SyncFaulty, TypeOK
  <2>2. PICK lost, applies : Reconcile(lost, applies)
    BY <1>4 DEF SyncFaulty
  <2> QED
    BY <2>1, <2>2, ReconcileType DEF TypeOK
<1>5. CASE UNCHANGED vars
  BY <1>5 DEF TypeOK, vars
<1> QED
  BY <1>1, <1>2, <1>3, <1>4, <1>5 DEF Next

\* Every variable keeps its type: there is never a second StatefulSet or a
\* second set of services, and what is stored has all its parts.
THEOREM PodTemplatesTypeCorrect == Spec => []TypeOK
<1>1. Init => TypeOK
  BY InitType
<1>2. TypeOK /\ [Next]_vars => TypeOK'
  BY NextType
<1> QED
  BY <1>1, <1>2, PTL DEF Spec

-----------------------------------------------------------------------------
(* The lists of ports. *)

LEMMA PortsOfOne ==
  ASSUME NEW cf, NEW k
  PROVE  PortsOf(cf, <<k>>) = <<GetPort(cf, k)>>
  BY DEF PortsOf

LEMMA PortsOfFour ==
  ASSUME NEW cf, NEW k, NEW l, NEW m, NEW n
  PROVE  PortsOf(cf, <<k, l, m, n>>) =
           <<GetPort(cf, k), GetPort(cf, l), GetPort(cf, m), GetPort(cf, n)>>
  BY DEF PortsOf

\* Four ports with the optional one.
LEMMA FourPorts ==
  ASSUME NEW cf, NEW k, NEW l, NEW m, NEW n
  PROVE  LET ports == PortsOf(cf, <<k, l, m, n>>) \o ArrowFlight(cf)
         IN  /\ IsSequence(ports)
             /\ {GetPort(cf, k), GetPort(cf, l), GetPort(cf, m), GetPort(cf, n)} \subseteq ToSet(ports)
<1> DEFINE four == PortsOf(cf, <<k, l, m, n>>)
<1>1. IsSequence(four)
      /\ {GetPort(cf, k), GetPort(cf, l), GetPort(cf, m), GetPort(cf, n)} \subseteq ToSet(four)
  <2> DEFINE P == <<GetPort(cf, k), GetPort(cf, l), GetPort(cf, m), GetPort(cf, n)>>
  <2>1. four = P
    BY PortsOfFour
  <2>2. P[1] \in ToSet(P) /\ P[2] \in ToSet(P) /\ P[3] \in ToSet(P) /\ P[4] \in ToSet(P)
    BY DEF ToSet
  <2>3. P \in Seq(ToSet(P))
    BY <2>2
  <2> QED
    BY <2>1, <2>2, <2>3 DEF IsSequence
<1>2. IsSequence(ArrowFlight(cf))
  BY EmptySequence, SingletonSequence DEF ArrowFlight
<1> QED
  BY <1>1, <1>2, ConcatSet

\* A service forwards to the ports it is made from, and to no other.
LEMMA ExposedPorts ==
  ASSUME NEW ports, NEW node
  PROVE  {p.port : p \in ToSet(Exposed(ports, node))} = ToSet(ports)
<1> DEFINE E == Exposed(ports, node)
<1>1. DOMAIN E = DOMAIN ports
  BY DEF Exposed
<1>2. \A i \in DOMAIN ports : E[i].port = ports[i]
  BY DEF Exposed
<1>3. ToSet(E) = {E[i] : i \in DOMAIN E} /\ ToSet(ports) = {ports[i] : i \in DOMAIN ports}
  BY DEF ToSet
<1> HIDE DEF E
<1>4. ASSUME NEW q \in ToSet(E) PROVE q.port \in ToSet(ports)
  BY <1>1, <1>2, <1>3, <1>4
<1>5. ASSUME NEW x \in ToSet(ports) PROVE \E q \in ToSet(E) : q.port = x
  BY <1>1, <1>2, <1>3, <1>5
<1>6. {q.port : q \in ToSet(E)} = ToSet(ports)
  BY <1>4, <1>5
<1> QED
  BY <1>6 DEF E

LEMMA ExternalPorts ==
  ASSUME NEW s, NEW cf
  PROVE  LET PortsIn(service) == {p.port : p \in ToSet(service.external)}
         IN  /\ PortsIn(BuildExternalService("fe", s, cf)) = ToSet(getFeServicePorts(cf))
             /\ PortsIn(BuildExternalService("be", s, cf)) = ToSet(getBeServicePorts(cf))
             /\ PortsIn(BuildExternalService("broker", s, cf)) = {}
             /\ PortsIn(newFEService(s, cf)) = ToSet(getFeServicePorts(cf))
             /\ PortsIn(newExternalService(s, cf)) = ToSet(getBeServicePorts(cf))
             /\ PortsIn(newMSService(s, cf)) = {GetPort(cf, "brpc_listen_port")}
<1> DEFINE PortsIn(service) == {p.port : p \in ToSet(service.external)}
<1>1. ASSUME NEW ports, NEW node, NEW t, NEW a
      PROVE  PortsIn(Service(Exposed(ports, node), t, a)) = ToSet(ports)
  BY ExposedPorts DEF Service
<1>2. ASSUME NEW ports PROVE PortsIn(constructServiceSpec(s, ports)) = ToSet(ports)
  BY <1>1 DEF constructServiceSpec
<1>3. /\ BuildExternalService("fe", s, cf) = constructServiceSpec(s, getFeServicePorts(cf))
      /\ BuildExternalService("be", s, cf) = constructServiceSpec(s, getBeServicePorts(cf))
      /\ BuildExternalService("broker", s, cf) = Service(<<>>, "", "")
  BY DEF BuildExternalService
<1>4. PortsIn(Service(<<>>, "", "")) = {}
  BY EmptySequence DEF Service
<1>5. PortsIn(newFEService(s, cf)) = ToSet(getFeServicePorts(cf))
  BY <1>1 DEF newFEService, newFEServicePorts, Mapped, getFeServicePorts
<1>6. PortsIn(newExternalService(s, cf)) = ToSet(getBeServicePorts(cf))
  BY <1>1 DEF newExternalService, newComputeServicePorts, Mapped, getBeServicePorts
<1>7. PortsIn(newMSService(s, cf)) = ToSet(PortsOf(cf, <<"brpc_listen_port">>))
  BY <1>1 DEF newMSService, newMSServicePorts, Mapped
<1>8. ToSet(PortsOf(cf, <<"brpc_listen_port">>)) = {GetPort(cf, "brpc_listen_port")}
  BY PortsOfOne, SingletonSequence
<1> QED
  BY <1>2, <1>3, <1>4, <1>5, <1>6, <1>7, <1>8

\* The variables of env tell at most these ports of a peer.
Tells(env, ports) ==
  /\ IsSequence(env)
  /\ \A e \in ToSet(env) : e.n \in {"FE_QUERY_PORT", "MS_ENDPOINT"} => e.v \in ports

LEMMA TellsConcat ==
  ASSUME NEW a, NEW b, NEW ports, Tells(a, ports), Tells(b, ports)
  PROVE  Tells(a \o b, ports)
  BY ConcatSet DEF Tells

LEMMA TellsEmpty == ASSUME NEW ports PROVE Tells(<<>>, ports)
  BY EmptySequence DEF Tells

\* A list in which no variable is one of the two.
LEMMA TellsNothing ==
  ASSUME NEW env, NEW ports, IsSequence(env),
         \A e \in ToSet(env) : e.n \notin {"FE_QUERY_PORT", "MS_ENDPOINT"}
  PROVE  Tells(env, ports)
  BY DEF Tells

LEMMA TellsSingle ==
  ASSUME NEW n, NEW v, NEW ports, n \in {"FE_QUERY_PORT", "MS_ENDPOINT"} => v \in ports
  PROVE  Tells(<<Env(n, v)>>, ports)
  BY SingletonSequence DEF Tells, Env

LEMMA PeerAddress ==
  ASSUME NEW s, NEW cf, s.address = <<>>
  PROVE  Tells(GetConfigFEAddrForAccess(s, cf), {GetPort(cf, "query_port")})
<1> DEFINE t == <<Env("FE_ADDR", 1), Env("FE_QUERY_PORT", GetPort(cf, "query_port"))>>
<1>1. GetConfigFEAddrForAccess(s, cf) = t
  BY DEF GetConfigFEAddrForAccess
<1>2. IsSequence(t)
  BY DEF IsSequence, ToSet
<1>3. \A e \in ToSet(t) : e.n \in {"FE_QUERY_PORT", "MS_ENDPOINT"} => e.v = GetPort(cf, "query_port")
  BY DEF ToSet, Env
<1> QED
  BY <1>1, <1>2, <1>3 DEF Tells

LEMMA OtherVariables ==
  ASSUME NEW c, NEW s, NEW cf, NEW ports, IsSequence(s.cpu)
  PROVE  /\ Tells(AdminEnv(s), ports) /\ Tells(WorkloadEnv(s), ports)
         /\ Tells(LimitEnv(s), ports) /\ Tells(KerberosEnv(c, s, cf), ports)
<1>1. Tells(AdminEnv(s), ports)
  <2> DEFINE t == <<Env("USER", 2), Env("PASSWD", 2)>>
  <2>1. IsSequence(t)
    BY DEF IsSequence, ToSet
  <2>2. \A e \in ToSet(t) : e.n \notin {"FE_QUERY_PORT", "MS_ENDPOINT"}
    BY DEF ToSet, Env
  <2>3. Tells(t, ports)
    BY <2>1, <2>2, TellsNothing
  <2> QED
    BY <2>3, TellsEmpty DEF AdminEnv, When
<1>2. Tells(WorkloadEnv(s), ports)
  BY TellsSingle, TellsEmpty DEF WorkloadEnv, When
<1>3. Tells(LimitEnv(s), ports)
  <2> DEFINE t == [i \in DOMAIN s.cpu |-> Env("BE_CPU_LIMIT", s.cpu[i])]
  <2>1. IsSequence(t)
    BY MappedSequence
  <2>2. \A e \in ToSet(t) : e.n \notin {"FE_QUERY_PORT", "MS_ENDPOINT"}
    <3>1. \A i \in DOMAIN t : t[i].n = "BE_CPU_LIMIT"
      BY DEF Env
    <3>2. ToSet(t) = {t[i] : i \in DOMAIN t}
      BY DEF ToSet
    <3> HIDE DEF t
    <3> QED
      BY <3>1, <3>2
  <2>3. Tells(t, ports)
    BY <2>1, <2>2, TellsNothing
  <2>4. Tells(When(s.skip, <<Env("SKIP_CHECK_ULIMIT", 1)>>), ports)
    BY TellsSingle, TellsEmpty DEF When
  <2> QED
    BY <2>3, <2>4, TellsConcat DEF LimitEnv
<1>4. Tells(KerberosEnv(c, s, cf), ports)
  <2> DEFINE t == <<Env("KRB5_MOUNT_PATH", 1), Env("KRB5_CONFIG", Krb5Conf(c, cf)),
                    Env("KEYTAB_MOUNT_PATH", 1), Env("KEYTAB_FINAL_USED_PATH", 1)>>
  <2>1. IsSequence(t)
    BY DEF IsSequence, ToSet
  <2>2. \A e \in ToSet(t) : e.n \notin {"FE_QUERY_PORT", "MS_ENDPOINT"}
    BY DEF ToSet, Env
  <2>3. Tells(t, ports)
    BY <2>1, <2>2, TellsNothing
  <2> QED
    BY <2>3, TellsEmpty DEF KerberosEnv, When
<1> QED
  BY <1>1, <1>2, <1>3, <1>4

LEMMA ContainerTells ==
  ASSUME NEW c \in Coupled \cup {"dfe", "dbe", "dms"}, NEW s, NEW cf, NEW other,
         IsSequence(s.cpu), s.address = <<>>
  PROVE  Tells(ContainerEnv(c, s, cf, other),
               {CASE c = "fe" -> GetPort(cf, "query_port")
                  [] c = "dfe" -> GetPort(other, "brpc_listen_port")
                  [] OTHER -> GetPort(other, "query_port")})
<1>1. CASE c = "fe"
  <2> DEFINE ports == {GetPort(cf, "query_port")}
  <2>1. ContainerEnv(c, s, cf, other) = feContainer(s, cf)
    BY <1>1 DEF ContainerEnv
  <2>2. Tells(feContainer(s, cf), ports)
    BY PeerAddress, TellsSingle, TellsConcat DEF feContainer
  <2> QED
    BY <1>1, <2>1, <2>2
<1>2. CASE c \in {"be", "cn", "broker", "dbe"}
  <2> DEFINE ports == {GetPort(other, "query_port")}
  <2>1. CASE c = "be"
    <3>1. ContainerEnv(c, s, cf, other) = beContainer(s, other)
      BY <2>1 DEF ContainerEnv
    <3>2. Tells(beContainer(s, other), ports)
      BY PeerAddress, OtherVariables, TellsConcat DEF beContainer
    <3> QED
      BY <2>1, <3>1, <3>2
  <2>2. CASE c = "cn"
    <3>1. ContainerEnv(c, s, cf, other) = cnContainer(s, other)
      BY <2>2 DEF ContainerEnv
    <3>2. Tells(cnContainer(s, other), ports)
      BY PeerAddress, TellsSingle, TellsConcat DEF cnContainer
    <3> QED
      BY <2>2, <3>1, <3>2
  <2>3. CASE c = "broker"
    <3>1. ContainerEnv(c, s, cf, other) = brokerContainer(s, other)
      BY <2>3 DEF ContainerEnv
    <3> QED
      BY <2>3, <3>1, PeerAddress DEF brokerContainer
  <2>4. CASE c = "dbe"
    <3> DEFINE t == <<Env("STATEFULSET_NAME", 1), Env("COMPUTE_GROUP_NAME", 1), Env("HOST_TYPE", 1),
                      Env("FE_ADDR", 1), Env("FE_QUERY_PORT", GetPort(other, "query_port"))>>
    <3>1. ContainerEnv(c, s, cf, other) = NewCGContainer(s, other) \o KerberosEnv(c, s, cf)
      BY <2>4 DEF ContainerEnv
    <3>2. IsSequence(t)
      BY DEF IsSequence, ToSet
    <3>3. \A e \in ToSet(t) :
            e.n \in {"FE_QUERY_PORT", "MS_ENDPOINT"} => e.v = GetPort(other, "query_port")
      BY DEF ToSet, Env
    <3>4. Tells(t, ports)
      BY <3>2, <3>3 DEF Tells
    <3> HIDE DEF t
    <3>5. Tells(NewCGContainer(s, other), ports)
      <4>1. Tells(t \o AdminEnv(s), ports)
        BY <3>4, OtherVariables, TellsConcat
      <4>2. Tells((t \o AdminEnv(s)) \o WorkloadEnv(s), ports)
        BY <4>1, OtherVariables, TellsConcat
      <4>3. Tells(((t \o AdminEnv(s)) \o WorkloadEnv(s)) \o LimitEnv(s), ports)
        BY <4>2, OtherVariables, TellsConcat
      <4> QED
        BY <4>3 DEF t, NewCGContainer
    <3>6. Tells(NewCGContainer(s, other) \o KerberosEnv(c, s, cf), ports)
      BY <3>5, OtherVariables, TellsConcat
    <3> QED
      BY <2>4, <3>1, <3>6
  <2> QED
    BY <1>2, <2>1, <2>2, <2>3, <2>4
<1>3. CASE c = "dfe"
  <2> DEFINE ports == {GetPort(other, "brpc_listen_port")}
             t == <<Env("MS_ENDPOINT", GetPort(other, "brpc_listen_port")), Env("CLUSTER_ID", 1),
                    Env("STATEFULSET_NAME", 1), Env("DNS_READY_TIMEOUT", 1),
                    Env("DNS_READY_INTERVAL", 1), Env("FE_ADDR", 1), Env("ELECT_NUMBER", 1)>>
  <2>1. ContainerEnv(c, s, cf, other) = NewFEContainer(s, other) \o KerberosEnv(c, s, cf)
    BY <1>3 DEF ContainerEnv
  <2>2. IsSequence(t)
    BY DEF IsSequence, ToSet
  <2>3. \A e \in ToSet(t) :
          e.n \in {"FE_QUERY_PORT", "MS_ENDPOINT"} => e.v = GetPort(other, "brpc_listen_port")
    BY DEF ToSet, Env
  <2>4. Tells(t, ports)
    BY <2>2, <2>3 DEF Tells
  <2>5. Tells(NewFEContainer(s, other), ports)
    BY <2>4, OtherVariables, TellsConcat DEF NewFEContainer
  <2>6. Tells(NewFEContainer(s, other) \o KerberosEnv(c, s, cf), ports)
    BY <2>5, OtherVariables, TellsConcat
  <2> QED
    BY <1>3, <2>1, <2>6
<1>4. CASE c = "dms"
  <2>1. ContainerEnv(c, s, cf, other) = NewMSContainer(s, other)
    BY <1>4 DEF ContainerEnv
  <2>2. NewMSContainer(s, other) \in {<<>>, <<Env("FDB_ENDPOINT", other["cluster_file"])>>}
    BY DEF NewMSContainer, When
  <2>3. Tells(NewMSContainer(s, other), {GetPort(other, "query_port")})
    BY <2>2, TellsSingle, TellsEmpty
  <2> QED
    BY <1>4, <2>1, <2>3
<1> QED
  BY <1>1, <1>2, <1>3, <1>4 DEF Coupled

LEMMA AskedPorts ==
  ASSUME NEW c \in Coupled \cup {"dfe", "dbe", "dms"}, NEW s, NEW cf
  PROVE  /\ ToSet(Services(c, s, cf).internal) \subseteq ToSet(ListensAt(c, cf))
         /\ {p.port : p \in ToSet(Services(c, s, cf).external)} \subseteq ToSet(ListensAt(c, cf))
         /\ {AliveProbe(c, cf).port, ReadyProbe(c, cf).port} \ {0} \subseteq ToSet(ListensAt(c, cf))
<1> DEFINE declared == ToSet(ListensAt(c, cf))
<1>1. Services(c, s, cf).internal = getInternalServicePort(c, cf)
      /\ Services(c, s, cf).external = ExternalService(c, s, cf).external
  BY DEF Services
<1>2. CASE c \in {"fe", "dfe"}
  <2>1. ListensAt(c, cf) = getFeContainerPorts(cf)
    BY <1>2 DEF ListensAt, ContainerPorts
  <2>2. getFeContainerPorts(cf) = getFeServicePorts(cf)
    BY DEF getFeContainerPorts, getFeServicePorts
  <2>3. GetPort(cf, "query_port") \in declared /\ GetPort(cf, "http_port") \in declared
    BY <2>1, FourPorts DEF getFeContainerPorts
  <2>4. getInternalServicePort(c, cf) = <<GetPort(cf, "query_port")>>
    BY <1>2, PortsOfOne DEF getInternalServicePort
  <2>5. {p.port : p \in ToSet(ExternalService(c, s, cf).external)} = declared
    <3>1. ExternalService(c, s, cf) = IF c = "fe" THEN BuildExternalService("fe", s, cf)
                                                 ELSE newFEService(s, cf)
      BY <1>2 DEF ExternalService, Coupled
    <3> QED
      BY <1>2, <2>1, <2>2, <3>1, ExternalPorts
  <2>6. AliveProbe(c, cf).port \in {0, GetPort(cf, "query_port")}
    BY <1>2 DEF AliveProbe, Coupled
  <2>7. ReadyProbe(c, cf).port \in {0, GetPort(cf, "http_port")}
    <3>1. CASE c = "fe"
      BY <3>1 DEF ReadyProbe, Coupled
    <3>2. CASE c = "dfe"
      BY <3>2 DEF ReadyProbe, AliveProbe, Coupled
    <3> QED
      BY <1>2, <3>1, <3>2
  <2> HIDE DEF declared
  <2>8. ToSet(getInternalServicePort(c, cf)) \subseteq declared
    BY <2>3, <2>4, SingletonSequence
  <2> QED
    BY <1>1, <2>3, <2>5, <2>6, <2>7, <2>8 DEF declared
<1>3. CASE c \in {"be", "cn", "dbe"}
  <2>1. ListensAt(c, cf) = getBeContainerPorts(cf)
    BY <1>3 DEF ListensAt, ContainerPorts
  <2>2. getBeContainerPorts(cf) = getBeServicePorts(cf)
    BY DEF getBeContainerPorts, getBeServicePorts
  <2>3. GetPort(cf, "heartbeat_service_port") \in declared /\ GetPort(cf, "webserver_port") \in declared
    BY <2>1, FourPorts DEF getBeContainerPorts
  <2>4. getInternalServicePort(c, cf) = <<GetPort(cf, "heartbeat_service_port")>>
    BY <1>3, PortsOfOne DEF getInternalServicePort
  <2>5. {p.port : p \in ToSet(ExternalService(c, s, cf).external)} = declared
    <3>1. ExternalService(c, s, cf) = IF c = "dbe" THEN newExternalService(s, cf)
                                                 ELSE BuildExternalService("be", s, cf)
      BY <1>3 DEF ExternalService, BuildExternalService, Coupled
    <3> QED
      BY <1>3, <2>1, <2>2, <3>1, ExternalPorts
  <2>6. AliveProbe(c, cf).port \in {0, GetPort(cf, "heartbeat_service_port")}
    BY <1>3 DEF AliveProbe, Coupled
  <2>7. ReadyProbe(c, cf).port \in {0, GetPort(cf, "webserver_port")}
    <3>1. CASE c \in {"be", "cn"}
      BY <3>1 DEF ReadyProbe, Coupled
    <3>2. CASE c = "dbe"
      BY <3>2 DEF ReadyProbe, AliveProbe, Coupled
    <3> QED
      BY <1>3, <3>1, <3>2
  <2> HIDE DEF declared
  <2>8. ToSet(getInternalServicePort(c, cf)) \subseteq declared
    BY <2>3, <2>4, SingletonSequence
  <2> QED
    BY <1>1, <2>3, <2>5, <2>6, <2>7, <2>8 DEF declared
<1>4. CASE c = "broker"
  <2>1. ListensAt(c, cf) = <<GetPort(cf, "broker_ipc_port")>>
    BY <1>4, PortsOfOne DEF ListensAt, ContainerPorts, getBrokerContainerPorts
  <2>2. getInternalServicePort(c, cf) = <<GetPort(cf, "broker_ipc_port")>>
    BY <1>4, PortsOfOne DEF getInternalServicePort
  <2>3. {p.port : p \in ToSet(ExternalService(c, s, cf).external)} = {}
    <3>1. ExternalService(c, s, cf) = BuildExternalService("broker", s, cf)
      BY <1>4 DEF ExternalService, Coupled
    <3> QED
      BY <3>1, ExternalPorts
  <2>4. AliveProbe(c, cf).port = GetPort(cf, "broker_ipc_port")
    BY <1>4 DEF AliveProbe, Coupled
  <2>5. ReadyProbe(c, cf) = AliveProbe(c, cf)
    BY <1>4 DEF ReadyProbe
  <2>6. declared = {GetPort(cf, "broker_ipc_port")}
    BY <2>1, SingletonSequence
  <2> QED
    BY <1>1, <2>1, <2>2, <2>3, <2>4, <2>5, <2>6
<1>5. CASE c = "dms"
  <2>1. ListensAt(c, cf) = <<GetPort(cf, "brpc_listen_port")>>
    BY <1>5, PortsOfOne DEF ListensAt
  <2>2. getInternalServicePort(c, cf) = <<>>
    BY <1>5 DEF getInternalServicePort, PortsOf
  <2>3. {p.port : p \in ToSet(ExternalService(c, s, cf).external)} = {GetPort(cf, "brpc_listen_port")}
    <3>1. ExternalService(c, s, cf) = newMSService(s, cf)
      BY <1>5 DEF ExternalService, Coupled
    <3> QED
      BY <3>1, ExternalPorts
  <2>4. AliveProbe(c, cf).port = 0
    BY <1>5 DEF AliveProbe, Coupled
  <2>5. ReadyProbe(c, cf) = AliveProbe(c, cf)
    BY <1>5 DEF ReadyProbe, Coupled
  <2>6. declared = {GetPort(cf, "brpc_listen_port")}
    BY <2>1, SingletonSequence
  <2> HIDE DEF declared
  <2> QED
    BY <1>1, <2>2, <2>3, <2>4, <2>5, <2>6, EmptySequence DEF declared
<1> QED
  BY <1>2, <1>3, <1>4, <1>5 DEF Coupled

LEMMA PortsAgreeAlways == TypeOK => PortsAgree
<1> SUFFICES ASSUME TypeOK PROVE PortsAgree
  OBVIOUS
<1> DEFINE cf == Intact.sync
           s == Services(comp, spec, cf)
           asked == ToSet(s.internal) \cup {p.port : p \in ToSet(s.external)}
                      \cup ({AliveProbe(comp, cf).port, ReadyProbe(comp, cf).port} \ {0})
           peerPorts == IF comp = "dfe" THEN newMSService(spec, peer).external
                        ELSE BuildExternalService("fe", spec, IF comp = "fe" THEN cf ELSE peer).external
           told == CASE comp = "fe" -> GetPort(cf, "query_port")
                     [] comp = "dfe" -> GetPort(peer, "brpc_listen_port")
                     [] OTHER -> GetPort(peer, "query_port")
<1>1. comp \in Coupled \cup {"dfe", "dbe", "dms"} /\ IsSequence(spec.cpu)
  BY ConstantsAssumption DEF TypeOK
<1>2. asked \subseteq ToSet(ListensAt(comp, cf))
  <2> HIDE DEF cf
  <2> QED
    BY <1>1, AskedPorts
<1>3. told \in {p.port : p \in ToSet(peerPorts)}
  <2>1. ASSUME NEW f
        PROVE  GetPort(f, "query_port") \in ToSet(getFeServicePorts(f))
    BY FourPorts DEF getFeServicePorts
  <2>2. ASSUME NEW f
        PROVE  /\ {p.port : p \in ToSet(BuildExternalService("fe", spec, f).external)}
                    = ToSet(getFeServicePorts(f))
               /\ {p.port : p \in ToSet(newMSService(spec, f).external)}
                    = {GetPort(f, "brpc_listen_port")}
    BY ExternalPorts
  <2> HIDE DEF cf
  <2>3. CASE comp = "fe"
    BY <2>1, <2>2, <2>3
  <2>4. CASE comp = "dfe"
    BY <2>2, <2>4
  <2>5. CASE comp \notin {"fe", "dfe"}
    BY <2>1, <2>2, <2>5
  <2> QED
    BY <2>3, <2>4, <2>5
<1>4. spec.address = <<>> => Tells(ContainerEnv(comp, spec, cf, peer), {told})
  <2> HIDE DEF cf
  <2> QED
    BY <1>1, ContainerTells
<1> HIDE DEF told
<1>5. spec.address = <<>> =>
        \A e \in ToSet(ContainerEnv(comp, spec, cf, peer)) :
          e.n \in {"FE_QUERY_PORT", "MS_ENDPOINT"} => e.v \in {p.port : p \in ToSet(peerPorts)}
  BY <1>3, <1>4 DEF Tells
<1> QED
  BY <1>2, <1>5 DEF PortsAgree

\* Whatever the specs and the start configurations, the process of a component
\* listens at the ports that its services and probes use, and the port its pods
\* are told is one its peer's service has.
THEOREM PortsCorrect == Spec => []PortsAgree
  BY PodTemplatesTypeCorrect, PortsAgreeAlways, PTL

-----------------------------------------------------------------------------
(* The mounts of one build. *)

\* Every mount of the template has its volume or its claim.
Backed(template, claims) ==
  \A m \in ToSet(template.box.mounts) :
    \/ m.name \in Names(claims)
    \/ \E v \in ToSet(template.volumes) : v.name = m.name /\ ~v.claim

LEMMA PairSequence ==
  ASSUME NEW x, NEW y
  PROVE  IsSequence(<<x, y>>)
  BY DEF IsSequence, ToSet

LEMMA WhenSequence ==
  ASSUME NEW condition, NEW a, IsSequence(a)
  PROVE  IsSequence(When(condition, a))
  BY EmptySequence DEF When

LEMMA SupportSequence ==
  ASSUME NEW c \in Components, NEW s \in Specs(c) \cup {BaseSpec(c)}
  PROVE  IsSequence(SupportStores(c, s))
<1>1. IsSequence(ConfigMapStores(s)) /\ IsSequence(SecretStores(s))
  BY ConstantsAssumption, MappedSequence DEF ConfigMapStores, SecretStores, Referenced
<1>2. IsSequence(PodInfoStores) /\ IsSequence(GracefulStores)
  BY SingletonSequence DEF PodInfoStores, GracefulStores
<1>3. IsSequence(AuthStores(s)) /\ IsSequence(KerberosStores(s))
  BY SingletonSequence, PairSequence, WhenSequence DEF AuthStores, KerberosStores
<1>4. IsSequence(SharedStores(c, s))
  BY StoresAssumption
<1>5. IsSequence(When(c # "dms", AuthStores(s) \o KerberosStores(s)))
  BY <1>3, ConcatSet, WhenSequence
<1>6. IsSequence(When(c = "dbe", GracefulStores))
  BY <1>2, WhenSequence
<1>7. IsSequence(PodInfoStores \o ConfigMapStores(s))
  BY <1>1, <1>2, ConcatSet
<1>8. IsSequence(PodInfoStores \o ConfigMapStores(s) \o SecretStores(s))
  BY <1>1, <1>7, ConcatSet
<1>9. IsSequence(PodInfoStores \o ConfigMapStores(s) \o SecretStores(s)
                   \o When(c # "dms", AuthStores(s) \o KerberosStores(s)))
  BY <1>5, <1>8, ConcatSet
<1>10. IsSequence(PodInfoStores \o ConfigMapStores(s) \o SecretStores(s)
                    \o When(c # "dms", AuthStores(s) \o KerberosStores(s))
                    \o When(c = "dbe", GracefulStores))
  BY <1>6, <1>9, ConcatSet
<1> QED
  BY <1>4, <1>10, ConcatSet DEF SupportStores

LEMMA DefaultSequence ==
  ASSUME NEW c \in Coupled
  PROVE  IsSequence(DefaultVolumes(c))
  BY SingletonSequence, EmptySequence DEF DefaultVolumes, Coupled

LEMMA VolumesOf ==
  ASSUME NEW stores, NEW isClaim, IsSequence(stores)
  PROVE  /\ IsSequence(AsVolumes(stores, isClaim))
         /\ \A x \in ToSet(stores) : [name |-> x.name, claim |-> isClaim] \in ToSet(AsVolumes(stores, isClaim))
<1> DEFINE volumes == AsVolumes(stores, isClaim)
<1>1. DOMAIN volumes = DOMAIN stores
      /\ \A i \in DOMAIN stores : volumes[i] = [name |-> stores[i].name, claim |-> isClaim]
  BY DEF AsVolumes
<1>2. IsSequence(volumes)
  BY MappedSequence DEF AsVolumes
<1> HIDE DEF volumes
<1>3. ASSUME NEW x \in ToSet(stores) PROVE [name |-> x.name, claim |-> isClaim] \in ToSet(volumes)
  BY <1>1, <1>3 DEF ToSet
<1> QED
  BY <1>2, <1>3 DEF volumes

LEMMA MountsOf ==
  ASSUME NEW stores
  PROVE  \A m \in ToSet(AsMounts(stores)) : \E x \in ToSet(stores) : m.name = x.name
<1> DEFINE mounts == AsMounts(stores)
<1>1. DOMAIN mounts = DOMAIN stores /\ \A i \in DOMAIN stores : mounts[i].name = stores[i].name
  BY DEF AsMounts
<1> HIDE DEF mounts
<1>2. \A m \in ToSet(mounts) : \E x \in ToSet(stores) : m.name = x.name
  BY <1>1 DEF ToSet
<1> QED
  BY <1>2 DEF mounts

\* The volume mounts, the volumes and the claim templates are made by three
\* functions, which agree when they are given the same configuration.
LEMMA BuildBacked ==
  ASSUME NEW c \in Components, NEW s \in Specs(c) \cup {BaseSpec(c)},
         NEW cf \in Confs(c) \cup {EmptyConf}, NEW m \in ToSet(Mounts(c, s, cf))
  PROVE  \/ m.name \in Names(PersistentStores(c, s, cf))
         \/ \E v \in ToSet(Volumes(c, s, cf)) : v.name = m.name /\ ~v.claim
<1> DEFINE stores == IF c \in Coupled THEN buildVolumeMounts(c, s, cf) ELSE BuildStores(s, cf, Type(c))
           claims == PersistentStores(c, s, cf)
           support == SupportStores(c, s)
           data == DataVolumes(c, s, cf)
           volumes == Volumes(c, s, cf)
<1>1. IsSequence(claims) /\ IsSequence(support)
  BY StoresAssumption, SupportSequence
<1>2. IsSequence(stores)
  <2>1. CASE c \in Coupled
    BY <1>1, <2>1, DefaultSequence DEF buildVolumeMounts
  <2>2. CASE c \notin Coupled
    BY <2>2, StoresAssumption
  <2> QED
    BY <2>1, <2>2
<1>3. IsSequence(data)
  <2>1. CASE c \in Coupled
    <3>1. IsSequence(When(c \in {"fe", "be"}, claims))
      BY <1>1, WhenSequence
    <3> QED
      BY <2>1, <3>1, DefaultSequence, VolumesOf DEF DataVolumes, newVolumesFromBaseSpec
  <2>2. CASE c \notin Coupled
    BY <2>2, StoresAssumption, VolumesOf DEF DataVolumes
  <2> QED
    BY <2>1, <2>2
<1>4. volumes = data \o AsVolumes(support, FALSE)
  BY DEF Volumes
<1>5. ToSet(volumes) = ToSet(data) \cup ToSet(AsVolumes(support, FALSE))
  BY <1>1, <1>3, <1>4, VolumesOf, ConcatSet
<1>6. PICK x \in ToSet(stores) \cup ToSet(support) : m.name = x.name
  <2>1. Mounts(c, s, cf) = AsMounts(stores \o support)
    BY DEF Mounts
  <2> HIDE DEF stores, support
  <2> QED
    BY <1>1, <1>2, <2>1, MountsOf, ConcatSet
<1>7. CASE x \in ToSet(support)
  <2>1. [name |-> x.name, claim |-> FALSE] \in ToSet(volumes)
    BY <1>1, <1>5, <1>7, VolumesOf
  <2> QED
    BY <1>6, <2>1
<1>8. CASE x \in ToSet(stores)
  <2>1. x \in ToSet(claims) => m.name \in Names(claims)
    BY <1>6 DEF Names
  <2>2. CASE c \in Coupled /\ s.pvs # <<>>
    <3>1. stores = claims
      BY <2>2 DEF buildVolumeMounts
    <3> QED
      BY <1>8, <2>1, <3>1
  <2>3. CASE c \in Coupled /\ s.pvs = <<>>
    <3>1. claims = <<>> /\ stores = DefaultVolumes(c)
      BY <2>3, StoresAssumption DEF buildVolumeMounts
    <3>2. data = AsVolumes(stores, FALSE)
      BY <2>3, <3>1 DEF DataVolumes, newVolumesFromBaseSpec, When
    <3>3. [name |-> x.name, claim |-> FALSE] \in ToSet(volumes)
      BY <1>2, <1>5, <1>8, <3>2, VolumesOf
    <3> QED
      BY <1>6, <3>3
  <2>4. CASE c \notin Coupled /\ HasClaims(s)
    <3>1. stores = claims
      BY <2>4 DEF PersistentStores, When
    <3> QED
      BY <1>8, <2>1, <3>1
  <2>5. CASE c \notin Coupled /\ ~HasClaims(s)
    <3>1. data = AsVolumes(stores, FALSE)
      BY <2>5 DEF DataVolumes, HasClaims
    <3>2. [name |-> x.name, claim |-> FALSE] \in ToSet(volumes)
      BY <1>2, <1>5, <1>8, <3>1, VolumesOf
    <3> QED
      BY <1>6, <3>2
  <2> QED
    BY <2>2, <2>3, <2>4, <2>5
<1> QED
  BY <1>6, <1>7, <1>8

-----------------------------------------------------------------------------
(* What applying a StatefulSet leaves alone. *)

\* The parts of the object that is built, as far as they are mentioned here.
HasParts(o) ==
  /\ {"selector", "template", "claims", "replicas"} \subseteq DOMAIN o
  /\ {"labels", "affinity", "inits", "volumes", "grace", "box"} \subseteq DOMAIN o.template
  /\ {"env", "mounts"} \subseteq DOMAIN o.template.box

\* The second object has the storage of the first.
SameStorage(o, p) ==
  /\ HasParts(p)
  /\ p.claims = o.claims
  /\ p.template.volumes = o.template.volumes
  /\ p.template.box.mounts = o.template.box.mounts

LEMMA TemplateNames ==
  ASSUME NEW stores
  PROVE  Names(ClaimTemplates(stores)) = Names(stores)
<1> DEFINE T == ClaimTemplates(stores)
<1>1. DOMAIN T = DOMAIN stores /\ \A i \in DOMAIN stores : T[i].name = stores[i].name
  BY DEF ClaimTemplates
<1>2. ToSet(T) = {T[i] : i \in DOMAIN T} /\ ToSet(stores) = {stores[i] : i \in DOMAIN stores}
  BY DEF ToSet
<1> HIDE DEF T
<1>3. ASSUME NEW x \in ToSet(T) PROVE \E y \in ToSet(stores) : x.name = y.name
  BY <1>1, <1>2, <1>3
<1>4. ASSUME NEW y \in ToSet(stores) PROVE \E x \in ToSet(T) : x.name = y.name
  BY <1>1, <1>2, <1>4
<1>5. Names(T) = Names(stores)
  BY <1>3, <1>4 DEF Names
<1> QED
  BY <1>5 DEF T

LEMMA BuiltParts ==
  ASSUME NEW c, NEW s, NEW r
  PROVE  LET o == NewStatefulSet(c, s, r)
         IN  /\ HasParts(o)
             /\ Names(o.claims) = Names(PersistentStores(c, s, r.sync))
             /\ o.template.volumes = Volumes(c, s, r.sync)
             /\ o.template.box.mounts = Mounts(c, s, r.box)
<1> DEFINE o == NewStatefulSet(c, s, r)
<1>1. /\ HasParts(o) /\ o.claims = ClaimTemplates(PersistentStores(c, s, r.sync))
      /\ o.template.volumes = Volumes(c, s, r.sync)
      /\ o.template.box.mounts = Mounts(c, s, r.box)
  BY DEF HasParts, NewStatefulSet, NewPodTemplateSpec, Container
<1> HIDE DEF o
<1>2. Names(o.claims) = Names(PersistentStores(c, s, r.sync))
  BY <1>1, TemplateNames
<1> QED
  BY <1>1, <1>2 DEF o

LEMMA InitImageKeepsStorage ==
  ASSUME NEW o, HasParts(o)
  PROVE  SameStorage(o, [o EXCEPT !.template = UseNewDefaultInitContainerImage(@)])
<1>1. ASSUME NEW t, NEW inits, {"labels", "affinity", "inits", "volumes", "grace", "box"} \subseteq DOMAIN t
      PROVE  LET u == [t EXCEPT !.inits = inits]
             IN  DOMAIN u = DOMAIN t /\ u.volumes = t.volumes /\ u.box = t.box
  BY <1>1
<1> DEFINE u == UseNewDefaultInitContainerImage(o.template)
<1>2. DOMAIN u = DOMAIN o.template /\ u.volumes = o.template.volumes /\ u.box = o.template.box
  BY <1>1 DEF HasParts, UseNewDefaultInitContainerImage
<1> HIDE DEF u
<1>3. SameStorage(o, [o EXCEPT !.template = u])
  BY <1>2 DEF HasParts, SameStorage
<1> QED
  BY <1>3 DEF u

LEMMA LegacyEnvKeepsStorage ==
  ASSUME NEW o, NEW old, HasParts(o)
  PROVE  SameStorage(o, WithLegacyEnv(o, old))
<1> DEFINE env == LegacyEnv(o.template.box.env, old.template.box.env)
           p == [o EXCEPT !.template.box.env = env]
<1>1. WithLegacyEnv(o, old) = p
  BY DEF WithLegacyEnv
<1> HIDE DEF env
<1>2. SameStorage(o, p)
  BY DEF HasParts, SameStorage
<1> QED
  BY <1>1, <1>2

LEMMA SentKeepsStorage ==
  ASSUME NEW c, NEW o, NEW old, HasParts(o)
  PROVE  SameStorage(o, ToSend(c, o, old))
<1> DEFINE kept == IF c \in Coupled /\ OnlyLegacyEnvDiffers(o, old) THEN WithLegacyEnv(o, old) ELSE o
<1>1. SameStorage(o, kept)
  BY LegacyEnvKeepsStorage DEF SameStorage
<1>2. ToSend(c, o, old) = IF c \in {"be", "dbe"}
                          THEN [kept EXCEPT !.template = UseNewDefaultInitContainerImage(@)] ELSE kept
  BY DEF ToSend
<1> HIDE DEF kept
<1>3. SameStorage(kept, [kept EXCEPT !.template = UseNewDefaultInitContainerImage(@)])
  BY <1>1, InitImageKeepsStorage DEF SameStorage
<1> QED
  BY <1>1, <1>2, <1>3 DEF SameStorage

\* A patch keeps the new volumes and mounts.
LEMMA PatchKeepsMounts ==
  ASSUME NEW new, NEW old, HasParts(new)
  PROVE  LET p == Patched(new, old)
         IN  /\ p.template.volumes = new.template.volumes
             /\ p.template.box.mounts = new.template.box.mounts
<1>1. Patched(new, old).template = PatchedTemplate(new.template, old.template)
  BY DEF Patched, HasParts
<1> QED
  BY <1>1 DEF PatchedTemplate

\* A build of one configuration backs its mounts.
LEMMA NewBacked ==
  ASSUME NEW c \in Components, NEW s \in Specs(c) \cup {BaseSpec(c)}, NEW r,
         r.sync \in Confs(c) \cup {EmptyConf}, Whole(r), NEW claims,
         Names(PersistentStores(c, s, r.sync)) \subseteq Names(claims),
         NEW t, t.volumes = Volumes(c, s, r.sync), t.box.mounts = Mounts(c, s, r.box)
  PROVE  Backed(t, claims)
<1>1. r.box = r.sync
  BY DEF Whole
<1> QED
  BY <1>1, BuildBacked DEF Backed

\* What MountsBacked says of one StatefulSet.
StoredBacked(c, o) ==
  (o.torn \/ (c # "dbe" /\ ~(Names(o.wants) \subseteq Names(o.claims)))) \/ Backed(o.template, o.claims)

LEMMA StoredIs ==
  ASSUME NEW o, NEW h, NEW built, NEW r
  PROVE  LET st == Stored(o, h, built, r)
         IN  /\ st.template = o.template /\ st.claims = o.claims
             /\ st.wants = built.claims /\ (~Whole(r) => st.torn)
  BY DEF Stored

LEMMA CreateBacked ==
  ASSUME NEW c \in Components, NEW s \in Specs(c) \cup {BaseSpec(c)}, NEW r,
         r.sync \in Confs(c) \cup {EmptyConf}, NEW built,
         SameStorage(NewStatefulSet(c, s, r), built)
  PROVE  StoredBacked(c, Create(c, built, r))
<1> DEFINE sent == IF c \in {"be", "dbe"}
                   THEN [built EXCEPT !.template = UseNewDefaultInitContainerImage(@)] ELSE built
<1>1. SameStorage(built, sent)
  BY InitImageKeepsStorage DEF SameStorage
<1>2. \E h : Create(c, built, r) = Stored(sent, h, built, r)
  BY DEF Create
<1> HIDE DEF sent
<1>3. PICK h : Create(c, built, r) = Stored(sent, h, built, r)
  BY <1>2
<1>4. /\ Names(sent.claims) = Names(PersistentStores(c, s, r.sync))
      /\ sent.template.volumes = Volumes(c, s, r.sync)
      /\ sent.template.box.mounts = Mounts(c, s, r.box)
  BY <1>1, BuiltParts DEF SameStorage
<1>5. Whole(r) => Backed(sent.template, sent.claims)
  BY <1>4, NewBacked
<1> QED
  BY <1>3, <1>5, StoredIs DEF StoredBacked

\* Claim templates are never replaced: the mounts of an update are backed by
\* the old ones if these have the names the build asked for.
LEMMA UpdateBacked ==
  ASSUME NEW c \in Components, NEW s \in Specs(c) \cup {BaseSpec(c)}, NEW r,
         r.sync \in Confs(c) \cup {EmptyConf}, NEW old, StoredBacked(c, old)
  PROVE  StoredBacked(c, Update(c, NewStatefulSet(c, s, r), old, r))
<1> DEFINE built == NewStatefulSet(c, s, r)
           new == KeepClaims(c, built, old)
           sent == ToSend(c, new, old)
           result == IF c = "cn" THEN sent ELSE Patched(sent, old)
<1>1. /\ HasParts(built)
      /\ Names(built.claims) = Names(PersistentStores(c, s, r.sync))
      /\ built.template.volumes = Volumes(c, s, r.sync)
      /\ built.template.box.mounts = Mounts(c, s, r.box)
  BY BuiltParts
<1>2. \/ Update(c, built, old, r) = old
      \/ /\ Update(c, built, old, r) = Stored(result, <<HashObject(new)>>, built, r)
         /\ ~(c = "dbe" /\ built.claims # old.claims) /\ Accepted(result, old)
  BY DEF Update
<1> HIDE DEF built
<1>3. HasParts(new) /\ new.template = built.template
  BY <1>1 DEF KeepClaims, HasParts
<1> HIDE DEF new
<1>4. HasParts(sent) /\ sent.template.volumes = built.template.volumes
      /\ sent.template.box.mounts = built.template.box.mounts
  BY <1>3, SentKeepsStorage DEF SameStorage
<1> HIDE DEF sent
<1>5. result.template.volumes = built.template.volumes
      /\ result.template.box.mounts = built.template.box.mounts
  BY <1>4, PatchKeepsMounts
<1> HIDE DEF result
<1>6. CASE Update(c, built, old, r) = old
  BY <1>6 DEF built
<1>7. CASE /\ Update(c, built, old, r) = Stored(result, <<HashObject(new)>>, built, r)
           /\ ~(c = "dbe" /\ built.claims # old.claims) /\ Accepted(result, old)
  <2>1. result.claims = old.claims
    BY <1>7 DEF Accepted
  <2>2. c = "dbe" => built.claims = result.claims
    BY <1>7, <2>1
  <2>3. Whole(r) /\ Names(built.claims) \subseteq Names(result.claims)
          => Backed(result.template, result.claims)
    BY <1>1, <1>5, NewBacked
  <2>4. StoredBacked(c, Stored(result, <<HashObject(new)>>, built, r))
    BY <2>2, <2>3, StoredIs DEF StoredBacked
  <2> QED
    BY <1>7, <2>4 DEF built
<1> QED
  BY <1>2, <1>6, <1>7

\* What an older release left behind differs in the environment alone.
LEMMA LegacyBacked ==
  ASSUME NEW c \in Components, NEW i
  PROVE  StoredBacked(c, LegacyStatefulSet(c, i))
<1> DEFINE r == Reads(c, BaseSpec(c), EmptyConf, EmptyConf, {})
           o == NewStatefulSet(c, BaseSpec(c), r)
           built == LegacyBuild(c, i, r)
           stored == Create(c, built, r)
<1>1. HasParts(o)
  BY BuiltParts
<1>2. \E env : built = [o EXCEPT !.template.box.env = env]
  BY DEF LegacyBuild
<1>3. \E h : LegacyStatefulSet(c, i) = [stored EXCEPT !.hash = h]
  BY DEF LegacyStatefulSet, LegacyStored
<1>4. r.sync \in Confs(c) \cup {EmptyConf}
  BY ReadsType
<1> HIDE DEF o, built, r
<1>5. SameStorage(o, built)
  <2>1. PICK env : built = [o EXCEPT !.template.box.env = env]
    BY <1>2
  <2> QED
    BY <1>1, <2>1 DEF HasParts, SameStorage
<1>6. StoredBacked(c, stored)
  BY <1>4, <1>5, CreateBacked DEF o
<1>7. DOMAIN stored = {"selector", "template", "claims", "replicas", "hash", "wants", "torn"}
  BY CreatedFields
<1> HIDE DEF stored
<1>8. PICK h : LegacyStatefulSet(c, i) = [stored EXCEPT !.hash = h]
  BY <1>3
<1>9. /\ LegacyStatefulSet(c, i).template = stored.template
      /\ LegacyStatefulSet(c, i).claims = stored.claims
      /\ LegacyStatefulSet(c, i).wants = stored.wants
      /\ LegacyStatefulSet(c, i).torn = stored.torn
  BY <1>7, <1>8
<1> QED
  BY <1>6, <1>9 DEF StoredBacked

-----------------------------------------------------------------------------
(* Every mount of the stored template is backed. *)

LEMMA MountsBackedIs ==
  MountsBacked <=> \A st \in ToSet(sts) : StoredBacked(comp, st)
  BY DEF MountsBacked, StoredBacked, Backed

LEMMA InitBacked == Init => MountsBacked
<1> SUFFICES ASSUME Init PROVE \A st \in ToSet(sts) : StoredBacked(comp, st)
  BY MountsBackedIs
<1>1. comp \in Components
  BY DEF Init
<1>2. sts = <<>> \/ \E i : sts = <<LegacyStatefulSet(comp, i)>>
  BY DEF Init
<1>3. CASE sts = <<>>
  BY <1>3, EmptySequence
<1>4. ASSUME NEW i, sts = <<LegacyStatefulSet(comp, i)>>
      PROVE  \A st \in ToSet(sts) : StoredBacked(comp, st)
  BY <1>1, <1>4, SingletonSequence, LegacyBacked
<1> QED
  BY <1>2, <1>3, <1>4

LEMMA ReconcileBacked ==
  ASSUME TypeOK, MountsBacked, NEW lost, NEW applies, Reconcile(lost, applies)
  PROVE  MountsBacked'
<1> DEFINE r == Reads(comp, spec, conf, peer, lost)
           built == NewStatefulSet(comp, spec, r)
<1>1. /\ comp' = comp
      /\ sts' = sts \/ sts' = ApplyStatefulSet(comp, built, sts, r)
  BY DEF Reconcile
<1>2. comp \in Components /\ spec \in Specs(comp) \cup {BaseSpec(comp)}
  BY DEF TypeOK
<1>3. r.sync \in Confs(comp) \cup {EmptyConf}
  BY ReadsType DEF TypeOK
<1> HIDE DEF r
<1>4. CASE sts' = sts
  BY <1>1, <1>4 DEF MountsBacked
<1>5. CASE sts' = ApplyStatefulSet(comp, built, sts, r)
  <2>1. CASE sts = <<>>
    <3>1. sts' = <<Create(comp, built, r)>>
      BY <1>5, <2>1 DEF ApplyStatefulSet
    <3>2. SameStorage(built, built)
      BY BuiltParts DEF SameStorage
    <3>3. StoredBacked(comp, Create(comp, built, r))
      BY <1>2, <1>3, <3>2, CreateBacked
    <3>4. \A st \in ToSet(sts') : StoredBacked(comp', st)
      BY <1>1, <3>1, <3>3, SingletonSequence
    <3> QED
      BY <3>4 DEF MountsBacked, StoredBacked, Backed
  <2>2. CASE sts # <<>>
    <3>1. sts' = <<Update(comp, built, sts[1], r)>>
      BY <1>5, <2>2 DEF ApplyStatefulSet
    <3>2. StoredBacked(comp, sts[1])
      <4>1. 1 \in DOMAIN sts
        BY <2>2 DEF TypeOK, IsSequence
      <4>2. sts[1] \in ToSet(sts)
        BY <4>1 DEF ToSet
      <4> QED
        BY <4>2, MountsBackedIs
    <3>3. StoredBacked(comp, Update(comp, built, sts[1], r))
      BY <1>2, <1>3, <3>2, UpdateBacked
    <3>4. \A st \in ToSet(sts') : StoredBacked(comp', st)
      BY <1>1, <3>1, <3>3, SingletonSequence
    <3> QED
      BY <3>4 DEF MountsBacked, StoredBacked, Backed
  <2> QED
    BY <2>1, <2>2
<1> QED
  BY <1>1, <1>4, <1>5

LEMMA NextBacked == TypeOK /\ MountsBacked /\ [Next]_vars => MountsBacked'
<1> SUFFICES ASSUME TypeOK, MountsBacked, [Next]_vars PROVE MountsBacked'
  OBVIOUS
<1>1. CASE EditSpec
  BY <1>1 DEF EditSpec, MountsBacked
<1>2. CASE EditConf
  BY <1>2 DEF EditConf, MountsBacked
<1>3. CASE Sync
  BY <1>3, ReconcileBacked DEF Sync
<1>4. CASE SyncFaulty
  BY <1>4, ReconcileBacked DEF SyncFaulty
<1>5. CASE UNCHANGED vars
  BY <1>5 DEF MountsBacked, vars
<1> QED
  BY <1>1, <1>2, <1>3, <1>4, <1>5 DEF Next

\* Whatever the user edits, whichever reads fail and whatever an older release
\* left, the mounts of a stored template have their volume or their claim.
THEOREM MountsCorrect == Spec => []MountsBacked
<1>1. Init => MountsBacked
  BY InitBacked
<1>2. TypeOK /\ MountsBacked /\ [Next]_vars => MountsBacked'
  BY NextBacked
<1> QED
  BY <1>1, <1>2, PodTemplatesTypeCorrect, PTL DEF Spec
-----------------------------------------------------------------------------
(* A reconcile that only changes the size keeps the template. *)

IsFunction(f) == f = [x \in DOMAIN f |-> f[x]]

\* The parts of a template that a patch looks into.
IsTemplate(t) ==
  /\ IsFunction(t) /\ DOMAIN t = {"labels", "affinity", "inits", "volumes", "grace", "box"}
  /\ IsFunction(t.labels) /\ IsFunction(t.affinity)
  /\ IsFunction(t.box) /\ {"env", "image"} \subseteq DOMAIN t.box

LEMMA MergeMaps ==
  ASSUME NEW f, NEW g, IsFunction(f)
  PROVE  /\ IsFunction(AddLabel(f, g)) /\ AddLabel(f, f) = f
         /\ AddLabel(f, AddLabel(f, g)) = AddLabel(f, g)
  BY DEF AddLabel, IsFunction

\* A patch applied twice changes nothing more, and neither does one with what is
\* there already.
LEMMA PatchTwice ==
  ASSUME NEW nt, NEW ot, IsTemplate(nt)
  PROVE  /\ PatchedTemplate(nt, PatchedTemplate(nt, ot)) = PatchedTemplate(nt, ot)
         /\ PatchedTemplate(nt, nt) = nt
<1> DEFINE p == PatchedTemplate(nt, ot)
<1>1. /\ p.labels = AddLabel(nt.labels, ot.labels)
      /\ p.affinity = [f \in DOMAIN nt.affinity |-> Nonempty(nt.affinity[f], ot.affinity[f])]
      /\ p.inits = Nonempty(nt.inits, ot.inits)
      /\ p.grace = IF nt.grace = 0 THEN ot.grace ELSE nt.grace
  BY DEF PatchedTemplate
<1>2. PatchedTemplate(nt, p) =
           [labels |-> AddLabel(nt.labels, p.labels),
            affinity |-> [f \in DOMAIN nt.affinity |-> Nonempty(nt.affinity[f], p.affinity[f])],
            inits |-> Nonempty(nt.inits, p.inits), volumes |-> nt.volumes,
            grace |-> IF nt.grace = 0 THEN p.grace ELSE nt.grace, box |-> nt.box]
  BY DEF PatchedTemplate
<1> HIDE DEF p
<1>3. AddLabel(nt.labels, p.labels) = p.labels
  BY <1>1, MergeMaps DEF IsTemplate
<1>4. Nonempty(nt.inits, p.inits) = p.inits
  BY <1>1 DEF Nonempty
<1>5. [f \in DOMAIN nt.affinity |-> Nonempty(nt.affinity[f], p.affinity[f])] = p.affinity
  <2>1. \A f \in DOMAIN nt.affinity : Nonempty(nt.affinity[f], p.affinity[f]) = Nonempty(nt.affinity[f], ot.affinity[f])
    BY <1>1 DEF Nonempty
  <2> QED
    BY <1>1, <2>1
<1>6. (IF nt.grace = 0 THEN p.grace ELSE nt.grace) = p.grace
  BY <1>1
<1>7. PatchedTemplate(nt, p) = p
  <2>1. PatchedTemplate(nt, p) =
           [labels |-> p.labels, affinity |-> p.affinity, inits |-> p.inits, volumes |-> nt.volumes,
            grace |-> p.grace, box |-> nt.box]
    BY <1>2, <1>3, <1>4, <1>5, <1>6
  <2>2. p = [labels |-> p.labels, affinity |-> p.affinity, inits |-> p.inits, volumes |-> nt.volumes,
            grace |-> p.grace, box |-> nt.box]
    BY <1>1 DEF p, PatchedTemplate
  <2> QED
    BY <2>1, <2>2
<1>8. PatchedTemplate(nt, nt) = nt
  <2>1. AddLabel(nt.labels, nt.labels) = nt.labels
    BY MergeMaps DEF IsTemplate
  <2>2. [f \in DOMAIN nt.affinity |-> Nonempty(nt.affinity[f], nt.affinity[f])] = nt.affinity
    <3>1. \A x : Nonempty(x, x) = x
      BY DEF Nonempty
    <3> QED
      BY <3>1 DEF IsTemplate, IsFunction
  <2>3. Nonempty(nt.inits, nt.inits) = nt.inits
    BY DEF Nonempty
  <2>4. (IF nt.grace = 0 THEN nt.grace ELSE nt.grace) = nt.grace
    OBVIOUS
  <2>5. PatchedTemplate(nt, nt) =
           [labels |-> AddLabel(nt.labels, nt.labels),
            affinity |-> [f \in DOMAIN nt.affinity |-> Nonempty(nt.affinity[f], nt.affinity[f])],
            inits |-> Nonempty(nt.inits, nt.inits), volumes |-> nt.volumes,
            grace |-> IF nt.grace = 0 THEN nt.grace ELSE nt.grace, box |-> nt.box]
    BY DEF PatchedTemplate
  <2>6. PatchedTemplate(nt, nt) =
           [labels |-> nt.labels, affinity |-> nt.affinity, inits |-> nt.inits, volumes |-> nt.volumes,
            grace |-> nt.grace, box |-> nt.box]
    BY <2>1, <2>2, <2>3, <2>4, <2>5
  <2> QED
    BY <2>6 DEF IsTemplate, IsFunction
<1> QED
  BY <1>7, <1>8 DEF p

LEMMA ImageTemplate ==
  ASSUME NEW t, IsTemplate(t)
  PROVE  LET u == UseNewDefaultInitContainerImage(t) IN IsTemplate(u) /\ u.box = t.box
<1>1. ASSUME NEW inits
      PROVE  LET u == [t EXCEPT !.inits = inits] IN IsTemplate(u) /\ u.box = t.box
  BY DEF IsTemplate, IsFunction
<1> QED
  BY <1>1 DEF UseNewDefaultInitContainerImage

LEMMA EnvTemplate ==
  ASSUME NEW t, IsTemplate(t), NEW env
  PROVE  LET u == [t EXCEPT !.box.env = env]
         IN  IsTemplate(u) /\ u.box.env = env /\ (t.box.env = env => u = t)
<1> DEFINE b == [t.box EXCEPT !.env = env]
           u == [t EXCEPT !.box = b]
<1>1. IsFunction(b) /\ {"env", "image"} \subseteq DOMAIN b /\ b.env = env /\ (t.box.env = env => b = t.box)
  BY DEF IsTemplate, IsFunction
<1> HIDE DEF b
<1>2. IsTemplate(u) /\ u.box = b /\ (b = t.box => u = t)
  BY <1>1 DEF IsTemplate, IsFunction
<1>3. [t EXCEPT !.box.env = env] = u
  BY DEF b
<1> QED
  BY <1>1, <1>2, <1>3

\* The template with other variables.
WithEnv(t, env) == [t EXCEPT !.box.env = env]

LEMMA WithEnvIs ==
  ASSUME NEW t, IsTemplate(t), NEW env
  PROVE  /\ IsTemplate(WithEnv(t, env)) /\ WithEnv(t, env).box.env = env
         /\ WithEnv(t, t.box.env) = t
  BY EnvTemplate DEF WithEnv

LEMMA EnvTwice ==
  ASSUME NEW t, IsTemplate(t), NEW env, NEW env2
  PROVE  WithEnv(WithEnv(t, env), env2) = WithEnv(t, env2)
<1> DEFINE u == [t EXCEPT !.box.env = env]
<1>1. u = [t EXCEPT !.box = [t.box EXCEPT !.env = env]]
  OBVIOUS
<1>2. [u EXCEPT !.box.env = env2] = [u EXCEPT !.box = [u.box EXCEPT !.env = env2]]
  OBVIOUS
<1>3. [t EXCEPT !.box.env = env2] = [t EXCEPT !.box = [t.box EXCEPT !.env = env2]]
  OBVIOUS
<1>4. u.box = [t.box EXCEPT !.env = env]
  BY <1>1 DEF IsTemplate
<1> HIDE DEF u
<1>5. [u.box EXCEPT !.env = env2] = [t.box EXCEPT !.env = env2]
  BY <1>4 DEF IsTemplate
<1> DEFINE box == [t.box EXCEPT !.env = env2]
<1> HIDE DEF box
<1>6. [u EXCEPT !.box = box] = [t EXCEPT !.box = box]
  BY <1>1 DEF IsTemplate
<1> QED
  BY <1>2, <1>3, <1>5, <1>6 DEF u, box, WithEnv

\* An object as it is built.
IsObject(o) ==
  /\ IsFunction(o) /\ DOMAIN o = {"selector", "template", "claims", "replicas"}
  /\ IsTemplate(o.template)

LEMMA BuiltObject ==
  ASSUME NEW c, NEW s, NEW r
  PROVE  IsObject(NewStatefulSet(c, s, r))
<1>1. IsFunction(PodLabels(c, s))
  BY DEF PodLabels, AddLabel, IsFunction
<1>2. IsFunction(Affinity(c, s))
  <2>1. IsFunction(constructAffinity(c, s))
    BY DEF constructAffinity, IsFunction
  <2>2. ASSUME NEW a, IsFunction(a)
        PROVE  /\ IsFunction(addFeAffinity(a)) /\ IsFunction(addFeAntiAffinity(a))
               /\ IsFunction(addDefaultBorkerPodAffinity(a))
    BY <2>2 DEF IsFunction, addFeAffinity, addFeAntiAffinity, addDefaultBorkerPodAffinity
  <2> DEFINE a == constructAffinity(c, s)
  <2>3. Affinity(c, s) \in {a, addFeAffinity(a), addFeAntiAffinity(a), addDefaultBorkerPodAffinity(a)}
    BY DEF Affinity
  <2> QED
    BY <2>1, <2>2, <2>3
<1>3. LET b == Container(c, s, r.box, r.peer) IN IsFunction(b) /\ {"env", "image"} \subseteq DOMAIN b
  BY DEF Container, IsFunction
<1>4. IsTemplate(NewPodTemplateSpec(c, s, r))
  <2> DEFINE labels == PodLabels(c, s)
             affinity == Affinity(c, s)
             b == Container(c, s, r.box, r.peer)
  <2> HIDE DEF labels, affinity, b
  <2>1. ASSUME NEW inits, NEW volumes, NEW grace
        PROVE  IsTemplate([labels |-> labels, affinity |-> affinity, inits |-> inits,
                           volumes |-> volumes, grace |-> grace, box |-> b])
    BY <1>1, <1>2, <1>3 DEF labels, affinity, b, IsTemplate, IsFunction
  <2> QED
    BY <2>1 DEF NewPodTemplateSpec, labels, affinity, b
<1> QED
  BY <1>4 DEF NewStatefulSet, IsObject, IsFunction

LEMMA KeptObject ==
  ASSUME NEW c, NEW o, IsObject(o), NEW old
  PROVE  LET k == KeepClaims(c, o, old)
         IN  IsObject(k) /\ k.template = o.template /\ k.replicas = o.replicas
  BY DEF KeepClaims, IsObject, IsFunction

\* The variables of an older release change nothing else, and nothing at all
\* if they are those that are there.
LEMMA LegacyObject ==
  ASSUME NEW o, IsObject(o), NEW env
  PROVE  LET l == [o EXCEPT !.template.box.env = env]
         IN  /\ IsObject(l) /\ l.replicas = o.replicas /\ l.template.box.env = env
             /\ o.template.box.env = env => l = o
<1> DEFINE t == [o.template EXCEPT !.box.env = env]
           l == [o EXCEPT !.template = t]
<1>1. IsTemplate(t) /\ t.box.env = env /\ (o.template.box.env = env => t = o.template)
  BY EnvTemplate DEF IsObject
<1>2. [o EXCEPT !.template.box.env = env] = l
  OBVIOUS
<1> HIDE DEF t
<1>3. IsObject(l) /\ l.replicas = o.replicas /\ l.template = t /\ (t = o.template => l = o)
  BY <1>1 DEF IsObject, IsFunction
<1> QED
  BY <1>1, <1>2, <1>3

\* The template that is sent of a build.
SentTemplate(c, t) == IF c \in {"be", "dbe"} THEN UseNewDefaultInitContainerImage(t) ELSE t

LEMMA SentIsTemplate ==
  ASSUME NEW c, NEW t, IsTemplate(t)
  PROVE  IsTemplate(SentTemplate(c, t)) /\ SentTemplate(c, t).box = t.box
  BY ImageTemplate DEF SentTemplate

LEMMA SentObject ==
  ASSUME NEW c, NEW o, IsObject(o)
  PROVE  LET sent == IF c \in {"be", "dbe"}
                     THEN [o EXCEPT !.template = UseNewDefaultInitContainerImage(@)] ELSE o
         IN  IsObject(sent) /\ sent.template = SentTemplate(c, o.template) /\ sent.replicas = o.replicas
<1> DEFINE u == UseNewDefaultInitContainerImage(o.template)
<1>1. IsTemplate(u)
  BY ImageTemplate DEF IsObject
<1> HIDE DEF u
<1>2. LET p == [o EXCEPT !.template = u] IN IsObject(p) /\ p.template = u /\ p.replicas = o.replicas
  BY <1>1 DEF IsObject, IsFunction
<1> QED
  BY <1>2 DEF u, SentTemplate

\* The template of c that is stored when t is sent to where ot is stored.
Resent(c, t, ot) ==
  IF c = "cn" THEN SentTemplate(c, t) ELSE PatchedTemplate(SentTemplate(c, t), ot)

\* Sent twice, a template changes nothing more.
LEMMA ResentTwice ==
  ASSUME NEW c, NEW t, IsTemplate(t), NEW ot
  PROVE  /\ Resent(c, t, Resent(c, t, ot)) = Resent(c, t, ot)
         /\ Resent(c, t, SentTemplate(c, t)) = SentTemplate(c, t)
<1>1. IsTemplate(SentTemplate(c, t))
  BY SentIsTemplate
<1> QED
  BY <1>1, PatchTwice DEF Resent

LEMMA ResentTemplate ==
  ASSUME NEW c, NEW t, IsTemplate(t), NEW ot
  PROVE  IsTemplate(Resent(c, t, ot)) /\ Resent(c, t, ot).box = t.box
<1> DEFINE u == SentTemplate(c, t)
           p == PatchedTemplate(u, ot)
<1>1. IsTemplate(u) /\ u.box = t.box
  BY SentIsTemplate
<1> HIDE DEF u
<1>2. IsFunction(AddLabel(u.labels, ot.labels))
  BY <1>1, MergeMaps DEF IsTemplate
<1>3. /\ IsFunction(p) /\ DOMAIN p = {"labels", "affinity", "inits", "volumes", "grace", "box"}
      /\ p.labels = AddLabel(u.labels, ot.labels) /\ IsFunction(p.affinity) /\ p.box = u.box
  BY DEF PatchedTemplate, IsFunction
<1> HIDE DEF p
<1>4. IsTemplate(p) /\ p.box = t.box
  BY <1>1, <1>2, <1>3 DEF IsTemplate
<1> QED
  BY <1>1, <1>4 DEF u, p, Resent

\* Other variables in what is sent are other variables in what is stored, and
\* nothing else.
LEMMA ResentEnv ==
  ASSUME NEW c, NEW t, IsTemplate(t), NEW ot, NEW env
  PROVE  Resent(c, WithEnv(t, env), ot) = WithEnv(Resent(c, t, ot), env)
<1> DEFINE e == [t EXCEPT !.box.env = env]
           box == [t.box EXCEPT !.env = env]
           u == SentTemplate(c, t)
<1>1. e = [t EXCEPT !.box = box]
  OBVIOUS
<1>2. box.image = t.box.image
  BY DEF IsTemplate
<1>3. IsTemplate(u) /\ u.box = t.box
  BY SentIsTemplate
<1>4. SentTemplate(c, e) = [u EXCEPT !.box = box]
  <2>1. /\ IsFunction(t) /\ DOMAIN t = {"labels", "affinity", "inits", "volumes", "grace", "box"}
    BY DEF IsTemplate
  <2> HIDE DEF box, e
  <2>2. e.inits = t.inits /\ e.box = box
    BY <1>1, <2>1
  <2>3. ASSUME NEW inits PROVE [e EXCEPT !.inits = inits] = [[t EXCEPT !.inits = inits] EXCEPT !.box = box]
    BY <1>1, <2>1
  <2>4. UseNewDefaultInitContainerImage(e) = [UseNewDefaultInitContainerImage(t) EXCEPT !.box = box]
    <3> DEFINE inits == [i \in DOMAIN t.inits |->
                 IF t.inits[i].image = DEFAULT_INIT_IMAGE
                 THEN [t.inits[i] EXCEPT !.image = t.box.image] ELSE t.inits[i]]
    <3>1. UseNewDefaultInitContainerImage(t) = [t EXCEPT !.inits = inits]
      BY DEF UseNewDefaultInitContainerImage
    <3>2. UseNewDefaultInitContainerImage(e) = [e EXCEPT !.inits = inits]
      BY <1>2, <2>2 DEF UseNewDefaultInitContainerImage
    <3> QED
      BY <2>3, <3>1, <3>2
  <2> QED
    BY <1>1, <2>4 DEF SentTemplate
<1> HIDE DEF e, u
<1>5. ASSUME NEW p, IsTemplate(p), p.box = t.box
      PROVE  [p EXCEPT !.box.env = env] = [p EXCEPT !.box = box]
  BY <1>5 DEF IsTemplate
<1>6. PatchedTemplate([u EXCEPT !.box = box], ot) = [PatchedTemplate(u, ot) EXCEPT !.box = box]
  <2> HIDE DEF box
  <2> DEFINE v == [u EXCEPT !.box = box]
  <2>1. /\ v.labels = u.labels /\ v.affinity = u.affinity /\ v.inits = u.inits
        /\ v.volumes = u.volumes /\ v.grace = u.grace /\ v.box = box
    BY <1>3 DEF IsTemplate
  <2> HIDE DEF v
  <2>2. PatchedTemplate(v, ot) = [PatchedTemplate(u, ot) EXCEPT !.box = box]
    <3> DEFINE p == PatchedTemplate(u, ot)
               q == PatchedTemplate(v, ot)
               fields == {"labels", "affinity", "inits", "volumes", "grace", "box"}
    <3>1. /\ p.labels = AddLabel(u.labels, ot.labels) /\ q.labels = AddLabel(u.labels, ot.labels)
          /\ p.affinity = q.affinity /\ p.inits = q.inits /\ p.grace = q.grace
          /\ p.volumes = q.volumes /\ q.box = box
      BY <2>1 DEF PatchedTemplate
    <3>2. /\ p = [f \in fields |-> p[f]] /\ DOMAIN p = fields
          /\ q = [f \in fields |-> q[f]] /\ DOMAIN q = fields
      BY DEF PatchedTemplate
    <3> HIDE DEF p, q
    <3>3. q = [p EXCEPT !.box = box]
      BY <3>1, <3>2
    <3> QED
      BY <3>3 DEF p, q
  <2> QED
    BY <2>2 DEF v
<1> HIDE DEF box
<1>7. Resent(c, e, ot) = [Resent(c, t, ot) EXCEPT !.box = box]
  BY <1>4, <1>6 DEF Resent, u
<1> QED
  BY <1>5, <1>7, ResentTemplate DEF e, WithEnv

\* A stored StatefulSet of the coupled component c has the size it was hashed
\* with, and sending the hashed template once more would change its variables
\* to the hashed ones and nothing else.
Settled(c, o) ==
  /\ IsTemplate(o.template)
  /\ o.hash = <<>> \/
       \E h : /\ o.hash = <<h>> /\ h.replicas = o.replicas /\ IsTemplate(h.template)
              /\ Resent(c, h.template, o.template) = WithEnv(o.template, h.template.box.env)

LEMMA CreateSettled ==
  ASSUME NEW c, NEW built, IsObject(built), NEW r
  PROVE  LET o == Create(c, built, r)
         IN  Settled(c, o) /\ Settled(c, [o EXCEPT !.hash = <<HashObject(built)>>])
<1> DEFINE sent == IF c \in {"be", "dbe"}
                   THEN [built EXCEPT !.template = UseNewDefaultInitContainerImage(@)] ELSE built
           hash == IF c \in {"cn", "dfe", "dms"} THEN <<>> ELSE <<HashObject(built)>>
           o == Create(c, built, r)
           st == [o EXCEPT !.hash = <<HashObject(built)>>]
           H == HashObject(built)
<1>1. sent.template = SentTemplate(c, built.template) /\ sent.replicas = built.replicas
  BY SentObject
<1>2. o = Stored(sent, hash, built, r)
  BY DEF Create
<1> HIDE DEF sent, hash
<1>3. /\ o.template = sent.template /\ o.replicas = sent.replicas /\ o.hash = hash
      /\ st.template = sent.template /\ st.replicas = sent.replicas /\ st.hash = <<H>>
  BY <1>2 DEF Stored
<1>4. H.template = built.template /\ H.replicas = built.replicas
  BY DEF HashObject
<1>5. /\ IsTemplate(built.template) /\ IsTemplate(sent.template)
      /\ Resent(c, built.template, sent.template) = sent.template
  BY <1>1, SentIsTemplate, ResentTwice DEF IsObject
<1>6. WithEnv(sent.template, built.template.box.env) = sent.template
  <2>1. sent.template.box = built.template.box
    BY <1>1, <1>5, SentIsTemplate
  <2> QED
    BY <1>5, <2>1, WithEnvIs
<1>7. hash \in {<<>>, <<H>>}
  BY DEF hash
<1> HIDE DEF o, st, H
<1>8. ASSUME NEW x, x.template = sent.template, x.replicas = sent.replicas, x.hash \in {<<>>, <<H>>}
      PROVE  Settled(c, x)
  BY <1>1, <1>4, <1>5, <1>6, <1>8 DEF Settled
<1> QED
  BY <1>3, <1>7, <1>8 DEF o, st, H

\* What an update makes of the template and the size.
LEMMA UpdateIs ==
  ASSUME NEW c, NEW built, IsObject(built), NEW old, NEW r
  PROVE  LET o == Update(c, built, old, r)
             new == KeepClaims(c, built, old)
             kept == IF c \in Coupled /\ OnlyLegacyEnvDiffers(new, old)
                     THEN WithLegacyEnv(new, old) ELSE new
         IN  \/ o = old
             \/ /\ o.hash = <<HashObject(new)>> /\ o.replicas = built.replicas
                /\ o.template = Resent(c, kept.template, old.template)
<1> DEFINE o == Update(c, built, old, r)
           new == KeepClaims(c, built, old)
           kept == IF c \in Coupled /\ OnlyLegacyEnvDiffers(new, old)
                   THEN WithLegacyEnv(new, old) ELSE new
           sent == ToSend(c, new, old)
           result == IF c = "cn" THEN sent ELSE Patched(sent, old)
<1>1. o = old \/ o = Stored(result, <<HashObject(new)>>, built, r)
  BY DEF Update
<1>2. IsObject(new) /\ new.replicas = built.replicas
  BY KeptObject
<1>3. sent = IF c \in {"be", "dbe"}
             THEN [kept EXCEPT !.template = UseNewDefaultInitContainerImage(@)] ELSE kept
  BY DEF ToSend
<1> HIDE DEF new
<1>4. IsObject(kept) /\ kept.replicas = new.replicas
  BY <1>2, LegacyObject DEF WithLegacyEnv
<1> HIDE DEF kept, sent
<1>5. IsObject(sent) /\ sent.template = SentTemplate(c, kept.template) /\ sent.replicas = kept.replicas
  BY <1>3, <1>4, SentObject
<1>6. /\ result.replicas = sent.replicas
      /\ result.template = IF c = "cn" THEN sent.template ELSE PatchedTemplate(sent.template, old.template)
  BY <1>5 DEF Patched, IsObject
<1> HIDE DEF result, o
<1>7. o = old \/ (o.hash = <<HashObject(new)>> /\ o.template = result.template /\ o.replicas = result.replicas)
  BY <1>1 DEF Stored
<1> QED
  BY <1>2, <1>4, <1>5, <1>6, <1>7 DEF o, new, kept, Resent

\* What is sent is the build with some variables.
LEMMA KeptIs ==
  ASSUME NEW new, IsObject(new), NEW old, NEW kept \in {new, WithLegacyEnv(new, old)}
  PROVE  IsTemplate(kept.template)
         /\ kept.template = WithEnv(new.template, kept.template.box.env)
         /\ new.template = WithEnv(kept.template, new.template.box.env)
<1>1. IsTemplate(new.template) /\ DOMAIN new = {"selector", "template", "claims", "replicas"}
  BY DEF IsObject
<1>2. PICK env : kept.template = WithEnv(new.template, env)
  <2>1. CASE kept = new
    BY <1>1, <2>1, WithEnvIs
  <2>2. CASE kept = WithLegacyEnv(new, old)
    <3> DEFINE env == LegacyEnv(new.template.box.env, old.template.box.env)
    <3>1. kept = [new EXCEPT !.template.box.env = env]
      BY <2>2 DEF WithLegacyEnv
    <3> HIDE DEF env
    <3>2. kept.template = WithEnv(new.template, env)
      BY <1>1, <3>1 DEF WithEnv
    <3> QED
      BY <3>2
  <2> QED
    BY <2>1, <2>2
<1>3. IsTemplate(kept.template) /\ kept.template.box.env = env
  BY <1>1, <1>2, WithEnvIs
<1>4. new.template = WithEnv(kept.template, new.template.box.env)
  BY <1>1, <1>2, EnvTwice, WithEnvIs
<1> QED
  BY <1>2, <1>3, <1>4

LEMMA UpdateSettled ==
  ASSUME NEW c, NEW built, IsObject(built), NEW old, Settled(c, old), NEW r
  PROVE  Settled(c, Update(c, built, old, r))
<1> DEFINE o == Update(c, built, old, r)
           new == KeepClaims(c, built, old)
           kept == IF c \in Coupled /\ OnlyLegacyEnvDiffers(new, old)
                   THEN WithLegacyEnv(new, old) ELSE new
           H == HashObject(new)
<1> SUFFICES ASSUME o # old PROVE Settled(c, o)
  OBVIOUS
<1>1. /\ o.hash = <<H>> /\ o.replicas = built.replicas
      /\ o.template = Resent(c, kept.template, old.template)
  BY UpdateIs
<1>2. IsObject(new) /\ new.replicas = built.replicas
  BY KeptObject
<1>3. H.template = new.template /\ H.replicas = new.replicas
  BY DEF HashObject
<1> HIDE DEF new, o, H
<1>4. /\ IsTemplate(kept.template)
      /\ new.template = WithEnv(kept.template, new.template.box.env)
  BY <1>2, KeptIs
<1> HIDE DEF kept
<1>5. IsTemplate(o.template) /\ IsTemplate(new.template)
  BY <1>1, <1>2, <1>4, ResentTemplate DEF IsObject
<1>6. Resent(c, kept.template, o.template) = o.template
  <2>1. \A ot : Resent(c, kept.template, Resent(c, kept.template, ot)) = Resent(c, kept.template, ot)
    BY <1>4, ResentTwice
  <2> QED
    BY <1>1, <2>1
<1>7. Resent(c, new.template, o.template) = WithEnv(o.template, new.template.box.env)
  BY <1>4, <1>6, ResentEnv
<1> QED
  BY <1>1, <1>2, <1>3, <1>5, <1>7 DEF Settled

\* The invariant under which UpgradeKeepsPods is a property of every step.
AllSettled == comp \in Coupled => \A o \in ToSet(sts) : Settled(comp, o)

LEMMA InitSettled == Init => AllSettled
<1> SUFFICES ASSUME Init PROVE \A o \in ToSet(sts) : Settled(comp, o)
  BY DEF AllSettled
<1>1. ASSUME NEW i PROVE Settled(comp, LegacyStatefulSet(comp, i))
  <2> DEFINE r == Reads(comp, BaseSpec(comp), EmptyConf, EmptyConf, {})
             built == LegacyBuild(comp, i, r)
  <2>1. IsObject(built)
    BY BuiltObject, LegacyObject DEF LegacyBuild
  <2>2. LegacyStatefulSet(comp, i) = [Create(comp, built, r) EXCEPT !.hash = <<HashObject(built)>>]
    BY DEF LegacyStatefulSet, LegacyStored
  <2> HIDE DEF built, r
  <2> QED
    BY <2>1, <2>2, CreateSettled
<1>2. sts = <<>> \/ \E i : sts = <<LegacyStatefulSet(comp, i)>>
  BY DEF Init
<1> QED
  BY <1>1, <1>2, EmptySequence, SingletonSequence

LEMMA ReconcileSettled ==
  ASSUME TypeOK, AllSettled, NEW lost, NEW applies, Reconcile(lost, applies)
  PROVE  AllSettled'
<1> DEFINE r == Reads(comp, spec, conf, peer, lost)
           built == NewStatefulSet(comp, spec, r)
<1>1. /\ comp' = comp
      /\ sts' = sts \/ sts' = ApplyStatefulSet(comp, built, sts, r)
  BY DEF Reconcile
<1>2. IsObject(built)
  BY BuiltObject
<1> HIDE DEF built, r
<1> SUFFICES ASSUME comp \in Coupled, sts' = ApplyStatefulSet(comp, built, sts, r)
             PROVE  \A o \in ToSet(sts') : Settled(comp, o)
  BY <1>1 DEF AllSettled, Settled
<1>3. CASE sts = <<>>
  <2>1. sts' = <<Create(comp, built, r)>>
    BY <1>3 DEF ApplyStatefulSet
  <2>2. Settled(comp, Create(comp, built, r))
    BY <1>2, CreateSettled
  <2> QED
    BY <2>1, <2>2, SingletonSequence
<1>4. CASE sts # <<>>
  <2>1. sts' = <<Update(comp, built, sts[1], r)>>
    BY <1>4 DEF ApplyStatefulSet
  <2>2. sts[1] \in ToSet(sts)
    BY <1>4 DEF TypeOK, IsSequence, ToSet
  <2> QED
    BY <1>2, <2>1, <2>2, UpdateSettled, SingletonSequence DEF AllSettled
<1> QED
  BY <1>3, <1>4

LEMMA NextSettled == TypeOK /\ AllSettled /\ [Next]_vars => AllSettled'
<1> SUFFICES ASSUME TypeOK, AllSettled, [Next]_vars PROVE AllSettled'
  OBVIOUS
<1>1. CASE EditSpec
  BY <1>1 DEF EditSpec, AllSettled, Settled
<1>2. CASE EditConf
  BY <1>2 DEF EditConf, AllSettled, Settled
<1>3. CASE Sync
  BY <1>3, ReconcileSettled DEF Sync
<1>4. CASE SyncFaulty
  BY <1>4, ReconcileSettled DEF SyncFaulty
<1>5. CASE UNCHANGED vars
  BY <1>5 DEF AllSettled, Settled, vars
<1> QED
  BY <1>1, <1>2, <1>3, <1>4, <1>5 DEF Next

\* What a step that only changes the size may make of a template.
KeepsTemplate(old, new) ==
  \/ new.template = old.template
  \/ /\ HashedWithout(old)
     /\ new.template = [old.template EXCEPT !.box.env = new.template.box.env]

\* An update with a build that was only scaled keeps the template, or changes
\* variables that are not the hashed ones.
LEMMA ScaledKeeps ==
  ASSUME NEW c \in Coupled, NEW built, IsObject(built), NEW old, Settled(c, old), NEW r,
         NEW h \in ToSet(old.hash),
         NEW b \in {KeepClaims(c, built, old), WithLegacyEnv(KeepClaims(c, built, old), old)},
         h = [HashObject(b) EXCEPT !.replicas = h.replicas]
  PROVE  KeepsTemplate(old, Update(c, built, old, r))
<1> DEFINE o == Update(c, built, old, r)
           new == KeepClaims(c, built, old)
           alike == WithLegacyEnv(new, old)
           kept == IF OnlyLegacyEnvDiffers(new, old) THEN alike ELSE new
<1>1. IsObject(new)
  BY KeptObject
<1>2. o = old \/ o.template = Resent(c, kept.template, old.template)
  BY UpdateIs
<1> HIDE DEF new
<1>3. IsObject(alike)
  BY <1>1, LegacyObject DEF WithLegacyEnv
<1>4. b \in {new, alike} /\ kept \in {new, alike}
  BY DEF new
<1>5. /\ old.hash = <<h>> /\ h.replicas = old.replicas
      /\ IsTemplate(old.template) /\ IsTemplate(h.template)
      /\ Resent(c, h.template, old.template) = WithEnv(old.template, h.template.box.env)
  <2>1. old.hash # <<>>
    BY EmptySequence
  <2>2. PICK g : /\ old.hash = <<g>> /\ g.replicas = old.replicas /\ IsTemplate(g.template)
                 /\ Resent(c, g.template, old.template) = WithEnv(old.template, g.template.box.env)
    BY <2>1 DEF Settled
  <2>3. g = h
    BY <2>2, SingletonSequence
  <2> QED
    BY <2>2, <2>3 DEF Settled
<1>6. h.template = b.template
  BY DEF HashObject
<1>7. ASSUME NEW x \in {new, alike}
      PROVE  /\ x.template = WithEnv(h.template, x.template.box.env)
             /\ IsTemplate(x.template)
  <2>1. ASSUME NEW y \in {new, alike}
        PROVE  /\ IsTemplate(y.template)
               /\ y.template = WithEnv(new.template, y.template.box.env)
               /\ new.template = WithEnv(y.template, new.template.box.env)
    BY <1>1, KeptIs
  <2> HIDE DEF alike
  <2>2. new.template = WithEnv(b.template, new.template.box.env)
    BY <1>4, <2>1
  <2>3. x.template = WithEnv(new.template, x.template.box.env) /\ IsTemplate(x.template)
    BY <2>1
  <2>4. IsTemplate(b.template)
    BY <1>4, <2>1
  <2> QED
    BY <1>6, <2>2, <2>3, <2>4, EnvTwice
<1>8. OnlyLegacyEnvDiffers(new, old) => h.template = alike.template
  <2>1. ASSUME OnlyLegacyEnvDiffers(new, old)
        PROVE  old.hash = <<HashObject([alike EXCEPT !.replicas = old.replicas])>>
    BY <2>1 DEF OnlyLegacyEnvDiffers
  <2> HIDE DEF alike
  <2>2. HashObject([alike EXCEPT !.replicas = old.replicas]).template = alike.template
    BY <1>3 DEF HashObject, IsObject
  <2> QED
    BY <1>5, <2>1, <2>2
<1>9. ASSUME b = alike, h.template.box.env = old.template.box.env
      PROVE  OnlyLegacyEnvDiffers(new, old)
  <2> HIDE DEF alike
  <2>1. SameEnv(alike.template.box.env, old.template.box.env)
    <3>1. alike.template.box.env = old.template.box.env
      BY <1>6, <1>9
    <3>2. \A env : SameEnv(env, env)
      BY DEF SameEnv
    <3> QED
      BY <3>1, <3>2
  <2>2. h = HashObject([alike EXCEPT !.replicas = old.replicas])
    <3>1. h = [HashObject(alike) EXCEPT !.replicas = old.replicas]
      BY <1>5, <1>9
    <3>2. [HashObject(alike) EXCEPT !.replicas = old.replicas] =
            [selector |-> alike.selector, template |-> alike.template, claims |-> alike.claims,
             replicas |-> old.replicas]
      BY DEF HashObject
    <3>3. HashObject([alike EXCEPT !.replicas = old.replicas]) =
            [selector |-> alike.selector, template |-> alike.template, claims |-> alike.claims,
             replicas |-> old.replicas]
      BY <1>3 DEF HashObject, IsObject
    <3> QED
      BY <3>1, <3>2, <3>3
  <2> QED
    BY <1>5, <2>1, <2>2 DEF OnlyLegacyEnvDiffers, alike
<1>10. h.template.box.env = old.template.box.env => kept.template.box.env = old.template.box.env
  <2> HIDE DEF alike
  <2> QED
    BY <1>4, <1>6, <1>8, <1>9
<1> HIDE DEF alike, kept, o
<1>11. CASE o = old
  BY <1>11 DEF o, KeepsTemplate
<1>12. CASE o.template = Resent(c, kept.template, old.template)
  <2> DEFINE env == kept.template.box.env
  <2>1. kept.template = WithEnv(h.template, env) /\ IsTemplate(kept.template)
    BY <1>4, <1>7
  <2> HIDE DEF env
  <2>2. o.template = WithEnv(WithEnv(old.template, h.template.box.env), env)
    BY <1>5, <1>12, <2>1, ResentEnv
  <2>3. o.template = WithEnv(old.template, env)
    BY <1>5, <2>2, EnvTwice
  <2>4. o.template.box.env = env /\ (old.template.box.env = env => o.template = old.template)
    BY <1>5, <2>3, WithEnvIs
  <2>5. CASE h.template.box.env = old.template.box.env
    BY <1>10, <2>4, <2>5 DEF env, o, KeepsTemplate
  <2>6. CASE h.template.box.env # old.template.box.env
    <3>1. HashedWithout(old)
      BY <1>5, <2>6, SingletonSequence DEF HashedWithout
    <3> QED
      BY <2>3, <2>4, <3>1 DEF o, WithEnv, KeepsTemplate
  <2> QED
    BY <2>5, <2>6
<1> QED
  BY <1>2, <1>11, <1>12

LEMMA OneStored ==
  ASSUME TypeOK, NEW old \in ToSet(sts)
  PROVE  sts = <<old>> /\ sts # <<>> /\ sts[1] = old
<1>1. sts \in Seq(ToSet(sts)) /\ Len(sts) <= 1
  BY DEF TypeOK, IsSequence
<1>2. PICK i \in DOMAIN sts : sts[i] = old
  BY DEF ToSet
<1>3. i = 1 /\ Len(sts) = 1
  <2>1. Len(sts) \in Nat /\ DOMAIN sts = 1..Len(sts)
    BY <1>1
  <2> QED
    BY <1>1, <1>2, <2>1
<1>4. sts = <<sts[1]>>
  BY <1>1, <1>3
<1> QED
  BY <1>2, <1>3, <1>4

LEMMA ReconcileKeepsScaled ==
  ASSUME TypeOK, AllSettled, NEW lost, NEW applies, Reconcile(lost, applies), comp \in Coupled,
         lost = {} \/ (conf = EmptyConf /\ peer = EmptyConf),
         NEW old \in ToSet(sts), NEW new \in ToSet(sts'), OnlyScaled(old)
  PROVE  KeepsTemplate(old, new)
<1> DEFINE r == Reads(comp, spec, conf, peer, lost)
<1>1. sts' = sts \/ sts' = ApplyStatefulSet(comp, NewStatefulSet(comp, spec, r), sts, r)
  BY DEF Reconcile
<1>2. r = Intact
  BY DEF Reads, Intact
<1>3. Built = NewStatefulSet(comp, spec, r)
  BY <1>2 DEF Built
<1>4. IsObject(Built)
  BY BuiltObject DEF Built
<1>5. PICK h \in ToSet(old.hash),
           b \in {KeepClaims(comp, Built, old), WithLegacyEnv(KeepClaims(comp, Built, old), old)} :
        h = [HashObject(b) EXCEPT !.replicas = h.replicas]
  BY DEF OnlyScaled
<1>6. sts = <<old>> /\ sts # <<>> /\ sts[1] = old
  BY OneStored
<1>7. Settled(comp, old)
  BY DEF AllSettled
<1> HIDE DEF r
<1>8. CASE sts' = sts
  BY <1>6, <1>8, SingletonSequence DEF KeepsTemplate
<1>9. CASE sts' = ApplyStatefulSet(comp, Built, sts, r)
  <2>1. new = Update(comp, Built, old, r)
    BY <1>6, <1>9, SingletonSequence DEF ApplyStatefulSet
  <2>2. KeepsTemplate(old, Update(comp, Built, old, r))
    BY <1>4, <1>5, <1>7, ScaledKeeps
  <2> QED
    BY <2>1, <2>2
<1> QED
  BY <1>1, <1>3, <1>8, <1>9

LEMMA NextKeepsScaled ==
  ASSUME TypeOK, AllSettled, [Next]_vars, NEW old \in ToSet(sts), NEW new \in ToSet(sts'),
         comp \in Coupled, OnlyScaled(old),
         faults' = faults \/ (conf = EmptyConf /\ peer = EmptyConf)
  PROVE  KeepsTemplate(old, new)
<1>1. CASE sts' = sts
  <2>1. sts = <<old>>
    BY OneStored
  <2> QED
    BY <1>1, <2>1, SingletonSequence DEF KeepsTemplate
<1>2. CASE Sync
  BY <1>2, ReconcileKeepsScaled DEF Sync
<1>3. CASE SyncFaulty
  <2>1. faults' # faults
    BY <1>3, ConstantsAssumption DEF SyncFaulty, TypeOK
  <2> QED
    BY <1>3, <2>1, ReconcileKeepsScaled DEF SyncFaulty
<1> QED
  BY <1>1, <1>2, <1>3 DEF Next, EditSpec, EditConf, vars

\* For every set of specs and configurations: a reconcile that lost no
\* configuration keeps the template of a StatefulSet of which only the size
\* was changed, the one an older release left included, until a resize has
\* stored the hash of the build without the repeated variables; then it may
\* take the repetition out, and changes nothing else.
THEOREM UpgradeCorrect == Spec => UpgradeKeepsPods
<1>1. Init => AllSettled
  BY InitSettled
<1>2. TypeOK /\ AllSettled /\ [Next]_vars => AllSettled'
  BY NextSettled
<1>3. TypeOK /\ AllSettled /\ [Next]_vars =>
        [\A old \in ToSet(sts), new \in ToSet(sts') :
           (/\ comp \in Coupled /\ OnlyScaled(old)
            /\ faults' = faults \/ (conf = EmptyConf /\ peer = EmptyConf))
             => \/ new.template = old.template
                \/ /\ HashedWithout(old)
                   /\ new.template = [old.template EXCEPT !.box.env = new.template.box.env]]_vars
  BY NextKeepsScaled DEF KeepsTemplate
<1> QED
  BY <1>1, <1>2, <1>3, PodTemplatesTypeCorrect, PTL DEF Spec, UpgradeKeepsPods
=============================================================================
