---------------------------- MODULE PodTemplates ----------------------------
(***************************************************************************)
(* What the operator makes of a component's part of the custom resource    *)
(* and of its start configuration: the services, the StatefulSet and its   *)
(* pod template, and how a reconcile brings the stored objects to them.    *)
(* When a reconcile gets that far is the subject of the modules of the     *)
(* reconcilers (CoupledCluster, DisaggregatedCluster, ComputeGroup,        *)
(* Frontend).                                                              *)
(*                                                                         *)
(* "fe", "be", "cn" and "broker" are the components of a DorisCluster,     *)
(* "dfe", "dbe" and "dms" the frontend, a compute group and the            *)
(* metaservice of a DorisDisaggregatedCluster.  The ConfigMaps and the     *)
(* custom resource are edited at any time; reads of a ConfigMap and        *)
(* requests to the API server may fail.                                    *)
(***************************************************************************)
EXTENDS Integers, Sequences, FiniteSets, SequencesExt, Storage

CONSTANTS
  Components,        \* the components whose objects are followed
  Specs(_),          \* the specs a user may give a component
  BaseSpec(_),       \* the one it starts with
  Confs(_),          \* the start configurations its ConfigMap may hold
  PeerConfs(_),      \* and those of the component its pods connect to
  MaxEdits,          \* bound on edits of specs and ConfigMaps
  MaxFaults          \* bound on failed reads and requests

VARIABLES
  comp,              \* the component
  spec,              \* its spec in the custom resource
  conf,              \* its start configuration in the ConfigMap
  peer,              \* the start configuration of its peer
  svc,               \* << >> or <<the stored services>>
  sts,               \* << >> or <<the stored StatefulSet>>
  round,             \* the parity of the reconciles without a fault
  edits, faults      \* how often the user, the environment acted

vars == <<comp, spec, conf, peer, svc, sts, round, edits, faults>>

Coupled == {"fe", "be", "cn", "broker"}
Type(c) == CASE c = "dfe" -> "fe" [] c = "dbe" -> "be" [] c = "dms" -> "ms" [] OTHER -> c

EmptyConf == [k \in {} |-> 0]

IsSequence(x) == x \in Seq(ToSet(x))

ASSUME ConstantsAssumption ==
  /\ Components \subseteq Coupled \cup {"dfe", "dbe", "dms"}
  /\ MaxEdits \in Nat /\ MaxFaults \in Nat
  /\ \A c \in Components : \A s \in Specs(c) \cup {BaseSpec(c)} :
       IsSequence(s.cpu) /\ IsSequence(s.cms) /\ IsSequence(s.secrets)

NoAffinity == [required |-> <<>>, anti |-> <<>>, pod |-> <<>>]

\* The spec of a component of a DorisCluster in which nothing optional is
\* set, with the fields of the cluster's own spec that concern its pods.
BaseSpecOf(image) ==
  [replicas |-> 1, image |-> image, labels |-> EmptyConf, cms |-> <<>>, secrets |-> <<>>,
   env |-> <<>>, init |-> <<>>, affinity |-> NoAffinity, export |-> <<>>,
   times |-> [live |-> 0, start |-> 0, period |-> 0], pvs |-> <<>>, address |-> <<>>,
   shared |-> <<>>, auth |-> FALSE, krb |-> FALSE, admin |-> FALSE,
   skip |-> FALSE, workload |-> FALSE, cpu |-> <<>>, near |-> FALSE]

\* And of one of a DorisDisaggregatedCluster; pv is the deprecated
\* PersistentVolume, address the one of FoundationDB, fdb whether the ConfigMap
\* that FoundationDB's operator writes is named.
CommonSpecOf(image) ==
  [replicas |-> 1, image |-> image, labels |-> EmptyConf, cms |-> <<>>, secrets |-> <<>>,
   env |-> <<>>, init |-> <<>>, affinity |-> NoAffinity, export |-> <<>>,
   times |-> [live |-> 0, start |-> 0, period |-> 0], pvs |-> <<>>, address |-> <<>>,
   fdb |-> TRUE, pv |-> <<>>, logNotStore |-> FALSE, auth |-> FALSE, krb |-> FALSE, admin |-> FALSE,
   skip |-> FALSE, workload |-> FALSE, cpu |-> <<>>]

-----------------------------------------------------------------------------
(* Ports.  A value that is no number is Unparsable. *)

Unparsable == -2

defMap ==
  [http_port |-> 8030, rpc_port |-> 9020, query_port |-> 9030, edit_log_port |-> 9010,
   be_port |-> 9060, webserver_port |-> 8040, heartbeat_service_port |-> 9050,
   brpc_port |-> 8060, broker_ipc_port |-> 8000, brpc_listen_port |-> 5000,
   arrow_flight_sql_port |-> -1]

GetPort(cf, key) ==
  IF key \in DOMAIN cf /\ cf[key] # Unparsable THEN cf[key] ELSE defMap[key]

IsSet(cf, key) == key \in DOMAIN cf /\ cf[key]

\* A configuration that was not found starts the frontends by their names.
GetStartMode(cf) ==
  IF DOMAIN cf = {} \/ IsSet(cf, "enable_fqdn_mode") THEN "FQDN" ELSE "IP"

PortsOf(cf, keys) == [i \in DOMAIN keys |-> GetPort(cf, keys[i])]

\* The port of Arrow Flight is open only where it is configured.
ArrowFlight(cf) ==
  IF GetPort(cf, "arrow_flight_sql_port") = -1 THEN <<>> ELSE <<GetPort(cf, "arrow_flight_sql_port")>>

\* Mutant of getFeContainerPorts: the optional port is left to the service.
getFixedFeContainerPorts(cf) ==
  PortsOf(cf, <<"http_port", "rpc_port", "query_port", "edit_log_port">>)

getFeContainerPorts(cf) ==
  PortsOf(cf, <<"http_port", "rpc_port", "query_port", "edit_log_port">>) \o ArrowFlight(cf)
getBeContainerPorts(cf) ==
  PortsOf(cf, <<"be_port", "webserver_port", "heartbeat_service_port", "brpc_port">>) \o ArrowFlight(cf)
getBrokerContainerPorts(cf) == PortsOf(cf, <<"broker_ipc_port">>)
getMetaServiceContainerPorts(cf) == PortsOf(cf, <<"broker_ipc_port">>)

\* GetContainerPorts, GetDisaggregatedContainerPorts: the ports a container
\* declares.  A compute node's declares none.
ContainerPorts(c, cf) ==
  CASE c \in {"fe", "dfe"} -> getFeContainerPorts(cf)
    [] c \in {"be", "dbe"} -> getBeContainerPorts(cf)
    [] c = "broker" -> getBrokerContainerPorts(cf)
    [] c = "dms" -> getMetaServiceContainerPorts(cf)
    [] c = "cn" -> <<>>

-----------------------------------------------------------------------------
(* Services.  spec.export is << >> or <<[type, node]>>, node a function    *)
(* from target ports to node ports.                                        *)

Exposed(ports, node) ==
  [i \in DOMAIN ports |->
     [port |-> ports[i], node |-> IF ports[i] \in DOMAIN node THEN node[ports[i]] ELSE 0]]

IsType(s, type) == s.export # <<>> /\ s.export[1].type = type

\* A disaggregated component maps its ports only for a NodePort service.
Mapped(ports, s) == Exposed(ports, IF IsType(s, "NodePort") THEN s.export[1].node ELSE EmptyConf)

getFeServicePorts(cf) ==
  PortsOf(cf, <<"http_port", "rpc_port", "query_port", "edit_log_port">>) \o ArrowFlight(cf)
getBeServicePorts(cf) ==
  PortsOf(cf, <<"be_port", "webserver_port", "heartbeat_service_port", "brpc_port">>) \o ArrowFlight(cf)
newFEServicePorts(cf, s) ==
  Mapped(PortsOf(cf, <<"http_port", "rpc_port", "query_port", "edit_log_port">>) \o ArrowFlight(cf), s)
newComputeServicePorts(cf, s) ==
  Mapped(PortsOf(cf, <<"be_port", "webserver_port", "heartbeat_service_port", "brpc_port">>)
           \o ArrowFlight(cf), s)
newMSServicePorts(cf, s) == Mapped(PortsOf(cf, <<"brpc_listen_port">>), s)

\* The type the user names; an empty one is left to the API server.
ServiceType(s, default) ==
  IF s.export = <<>> \/ IsType(s, "") THEN default ELSE s.export[1].type

SessionAffinity(s, default) == IF IsType(s, "LoadBalancer") THEN "None" ELSE default

Service(ports, type, affinity) == [external |-> ports, type |-> type, affinity |-> affinity]

constructServiceSpec(s, ports) ==
  Service(Exposed(ports, IF s.export = <<>> THEN EmptyConf ELSE s.export[1].node),
          ServiceType(s, "ClusterIP"), SessionAffinity(s, "ClientIP"))

\* The service clients use; a broker has none.
BuildExternalService(c, s, cf) ==
  CASE c = "fe" -> constructServiceSpec(s, getFeServicePorts(cf))
    [] c \in {"be", "cn"} -> constructServiceSpec(s, getBeServicePorts(cf))
    [] c = "broker" -> Service(<<>>, "", "")
newFEService(s, cf) ==
  Service(newFEServicePorts(cf, s), ServiceType(s, ""), SessionAffinity(s, "ClientIP"))
newExternalService(s, cf) ==
  Service(newComputeServicePorts(cf, s), ServiceType(s, ""), SessionAffinity(s, "ClientIP"))
newMSService(s, cf) ==
  Service(newMSServicePorts(cf, s), ServiceType(s, ""), SessionAffinity(s, ""))

\* The ports of the headless service, which the metaservice does without.
getInternalServicePort(c, cf) ==
  PortsOf(cf, CASE c \in {"fe", "dfe"} -> <<"query_port">>
                [] c \in {"be", "cn", "dbe"} -> <<"heartbeat_service_port">>
                [] c = "broker" -> <<"broker_ipc_port">>
                [] c = "dms" -> <<>>)

ExternalService(c, s, cf) ==
  CASE c \in Coupled -> BuildExternalService(c, s, cf)
    [] c = "dfe" -> newFEService(s, cf)
    [] c = "dbe" -> newExternalService(s, cf)
    [] c = "dms" -> newMSService(s, cf)

Services(c, s, cf) ==
  LET e == ExternalService(c, s, cf)
  IN  [internal |-> getInternalServicePort(c, cf),
       external |-> e.external, type |-> e.type, affinity |-> e.affinity]

-----------------------------------------------------------------------------
(* Volumes and mounts.  The order of a list is kept where the code depends *)
(* on it; everything else is in the order of this module.                  *)

Etc(name) == << <<"etc">>, name >>
ConfigEnvPath == Etc(<<"doris">>)

\* ConfigMaps and Secrets without a path of their own are mounted where the
\* entrypoint looks for the start configuration.
Referenced(objects) ==
  [i \in DOMAIN objects |->
     Store(objects[i].name, IF objects[i].path = <<>> THEN ConfigEnvPath ELSE objects[i].path, 0)]

ConfigMapStores(s) == Referenced(s.cms)
SecretStores(s) == Referenced(s.secrets)

When(condition, stores) == IF condition THEN stores ELSE <<>>

SharedStores(c, s) == When(c \in Coupled, BuildSharedVolumes(s.shared, c))
SharedPaths(c, s) == {v.path : v \in ToSet(SharedStores(c, s))}

PodInfoStores == <<Store(<<"podinfo">>, Etc(<<"podinfo">>), 0)>>
KerberosStores(s) ==
  When(s.krb, <<Store(<<"krb5">>, Etc(<<"krb5">>), 0), Store(<<"keytab">>, Etc(<<"keytab">>), 0)>>)
AuthStores(s) == When(s.auth, <<Store(<<"basic", "auth">>, Etc(<<"basic_auth">>), 0)>>)
GracefulStores == <<Store(<<"graceful">>, << <<"var">>, <<"run">>, <<"doris", "operator">> >>, 0)>>

\* The volumes that hold no data of Doris, with their mounts.
SupportStores(c, s) ==
  PodInfoStores \o ConfigMapStores(s) \o SecretStores(s)
    \o When(c # "dms", AuthStores(s) \o KerberosStores(s))
    \o When(c = "dbe", GracefulStores)
    \o SharedStores(c, s)

\* The persistent volumes of a component, hence its claim templates.
PersistentStores(c, s, cf) ==
  IF c \in Coupled THEN GenerateEveryoneMountPath(s.pvs, SharedPaths(c, s), cf, c)
  ELSE When(HasClaims(s), BuildStores(s, cf, Type(c)))

\* What is recursive in the computation of the stores comes out as a list, and
\* a DorisCluster's component without volumes has none.
ASSUME StoresAssumption ==
  \A c \in Components : \A s \in Specs(c) \cup {BaseSpec(c)}, cf \in Confs(c) \cup {EmptyConf} :
    /\ IsSequence(PersistentStores(c, s, cf)) /\ IsSequence(SharedStores(c, s))
    /\ c \in Coupled /\ s.pvs = <<>> => PersistentStores(c, s, cf) = <<>>
    /\ c \notin Coupled => IsSequence(BuildStores(s, cf, Type(c)))

\* A claim template has a name and a size; where it is mounted is up to the
\* container.
ClaimTemplates(stores) == [i \in DOMAIN stores |-> [name |-> stores[i].name, size |-> stores[i].size]]

AsVolumes(stores, isClaim) ==
  [i \in DOMAIN stores |-> [name |-> stores[i].name, claim |-> isClaim]]

\* The volumes of the pod.  The claims of a compute node and of a broker are
\* left to the StatefulSet controller.
newVolumesFromBaseSpec(c, claims) ==
  IF claims = <<>> THEN AsVolumes(DefaultVolumes(c), FALSE) ELSE AsVolumes(claims, TRUE)

DataVolumes(c, s, cf) ==
  IF c \in Coupled
  THEN newVolumesFromBaseSpec(c, When(c \in {"fe", "be"}, PersistentStores(c, s, cf)))
  ELSE AsVolumes(BuildStores(s, cf, Type(c)), HasClaims(s))

Volumes(c, s, cf) == DataVolumes(c, s, cf) \o AsVolumes(SupportStores(c, s), FALSE)

\* Mutant of buildVolumeMounts: a data directory is mounted under the name of
\* the volume it was unfolded from.
MountsUnderListedName(c, s, cf) ==
  IF s.pvs = <<>> THEN DefaultVolumes(c)
  ELSE LET stores == PersistentStores(c, s, cf)
           NameOf(n) == CHOOSE m \in {v.name : v \in ToSet(s.pvs)} : IsPrefix(m, n)
       IN  [i \in DOMAIN stores |-> [stores[i] EXCEPT !.name = NameOf(@)]]

buildVolumeMounts(c, s, cf) ==
  IF s.pvs = <<>> THEN DefaultVolumes(c) ELSE PersistentStores(c, s, cf)

AsMounts(stores) == [i \in DOMAIN stores |-> [name |-> stores[i].name, path |-> stores[i].path]]

Mounts(c, s, cf) ==
  AsMounts((IF c \in Coupled THEN buildVolumeMounts(c, s, cf) ELSE BuildStores(s, cf, Type(c)))
             \o SupportStores(c, s))

-----------------------------------------------------------------------------
(* Environment variables.  The value v is a port, 1 or more for a text and *)
(* 0 for a reference to a field of the pod, whose Value is empty.          *)

Env(n, v) == [n |-> n, v |-> v]
ConfigEnv == Env("CONFIGMAP_MOUNT_PATH", 1)

buildEnvFromPod ==
  <<Env("POD_NAME", 0), Env("POD_IP", 0), Env("HOST_IP", 0), Env("POD_NAMESPACE", 0),
    ConfigEnv, Env("DNS_READY_TIMEOUT", 1), Env("DNS_READY_INTERVAL", 1)>>

\* Where krb5.conf is: in the options of the Java machine a frontend is
\* started with, whose paths a configuration lists, or under a key of its own.
GetKrb5ConfFromJavaOpts(cf) ==
  LET Of(key) == IF key \in DOMAIN cf THEN cf[key] ELSE <<>>
      paths == Of("java_opts_for_jdk_17") \o Of("java_opts")
  IN  IF paths = <<>> THEN 1 ELSE Head(paths)

Krb5Conf(c, cf) ==
  CASE Type(c) = "fe" -> GetKrb5ConfFromJavaOpts(cf)
    [] Type(c) \in {"be", "cn"} ->
         IF "kerberos_krb5_conf_path" \in DOMAIN cf THEN cf["kerberos_krb5_conf_path"] ELSE 1
    [] OTHER -> 0

KerberosEnv(c, s, cf) ==
  When(s.krb, <<Env("KRB5_MOUNT_PATH", 1), Env("KRB5_CONFIG", Krb5Conf(c, cf)),
                Env("KEYTAB_MOUNT_PATH", 1), Env("KEYTAB_FINAL_USED_PATH", 1)>>)

AdminEnv(s) == When(s.admin, <<Env("USER", 2), Env("PASSWD", 2)>>)
WorkloadEnv(s) == When(s.workload, <<Env("ENABLE_WORKLOAD_GROUP", 1)>>)

\* For backends and compute nodes: start_be.sh checks no limits, and the
\* processors it may use.
LimitEnv(s) ==
  When(s.skip, <<Env("SKIP_CHECK_ULIMIT", 1)>>)
    \o [i \in DOMAIN s.cpu |-> Env("BE_CPU_LIMIT", s.cpu[i])]

buildBaseEnvs(s) ==
  buildEnvFromPod \o (IF s.admin THEN AdminEnv(s) ELSE <<Env("USER", 1), Env("DORIS_ROOT", 1)>>)

\* A variable of the user replaces the operator's of that name.
mergeEnvs(src, dst) ==
  dst \o SelectSeq(src, LAMBDA e : \A i \in DOMAIN dst : dst[i].n # e.n)

BaseMainEnv(c, s, cf) ==
  mergeEnvs(buildBaseEnvs(s) \o KerberosEnv(c, s, cf), s.env)
    \o When(c \in {"be", "cn"}, LimitEnv(s))

\* Where the frontends are: the address the user names, or their service and
\* the port in their configuration.
GetConfigFEAddrForAccess(s, feConf) ==
  IF s.address = <<>> THEN <<Env("FE_ADDR", 1), Env("FE_QUERY_PORT", GetPort(feConf, "query_port"))>>
  ELSE <<Env("FE_ADDR", 2), Env("FE_QUERY_PORT", s.address[1])>>

\* What the container of each component adds to its environment.
feContainer(s, cf) == GetConfigFEAddrForAccess(s, cf) \o <<Env("ELECT_NUMBER", 1)>>
beContainer(s, feConf) == GetConfigFEAddrForAccess(s, feConf) \o WorkloadEnv(s)
cnContainer(s, feConf) == GetConfigFEAddrForAccess(s, feConf) \o <<Env("COMPONENT_TYPE", 1)>>
brokerContainer(s, feConf) == GetConfigFEAddrForAccess(s, feConf)

NewFEContainer(s, msConf) ==
  <<Env("MS_ENDPOINT", GetPort(msConf, "brpc_listen_port")), Env("CLUSTER_ID", 1),
    Env("STATEFULSET_NAME", 1), Env("DNS_READY_TIMEOUT", 1), Env("DNS_READY_INTERVAL", 1),
    Env("FE_ADDR", 1), Env("ELECT_NUMBER", 1)>> \o AdminEnv(s)
NewCGContainer(s, feConf) ==
  <<Env("STATEFULSET_NAME", 1), Env("COMPUTE_GROUP_NAME", 1), Env("HOST_TYPE", 1),
    Env("FE_ADDR", 1), Env("FE_QUERY_PORT", GetPort(feConf, "query_port"))>>
    \o AdminEnv(s) \o WorkloadEnv(s) \o LimitEnv(s)

\* The address of FoundationDB the user gives or else the one in the ConfigMap
\* the spec names; without either, and whenever a ConfigMap that is named
\* cannot be read, the variable is left out.
NewMSContainer(s, fdbConf) ==
  IF s.fdb /\ "cluster_file" \notin DOMAIN fdbConf THEN <<>>
  ELSE IF s.address # <<>> THEN <<Env("FDB_ENDPOINT", s.address[1])>>
  ELSE When(s.fdb, <<Env("FDB_ENDPOINT", fdbConf["cluster_file"])>>)

ContainerEnv(c, s, cf, peerConf) ==
  CASE c = "fe" -> feContainer(s, cf)
    [] c = "be" -> beContainer(s, peerConf)
    [] c = "cn" -> cnContainer(s, peerConf)
    [] c = "broker" -> brokerContainer(s, peerConf)
    [] c = "dfe" -> NewFEContainer(s, peerConf) \o KerberosEnv(c, s, cf)
    [] c = "dbe" -> NewCGContainer(s, peerConf) \o KerberosEnv(c, s, cf)
    [] c = "dms" -> NewMSContainer(s, peerConf)
-----------------------------------------------------------------------------
(* The pod template.                                                       *)

DEFAULT_INIT_IMAGE == "alpine"

\* spec.init is << >> or <<the user's image, "" for none>>.
InitImage(s) == IF s.init \in {<<>>, <<"">>} THEN DEFAULT_INIT_IMAGE ELSE s.init[1]

\* The operator's own init container comes before the user's.
InitContainers(c, s) ==
  When(c \in {"be", "cn", "dbe"} /\ ~s.skip, <<[name |-> "default-init", image |-> InitImage(s)]>>)
    \o When(s.init # <<>>, <<[name |-> "init", image |-> InitImage(s)]>>)

UseNewDefaultInitContainerImage(t) ==
  [t EXCEPT !.inits = [i \in DOMAIN @ |->
     IF @[i].image = DEFAULT_INIT_IMAGE THEN [@[i] EXCEPT !.image = t.box.image] ELSE @[i]]]

\* The terms of an affinity name the component they refer to; pods of a
\* component stay apart.
constructAffinity(c, s) == [s.affinity EXCEPT !.anti = <<c>> \o @]

addFeAffinity(a) == [a EXCEPT !.pod = Append(@, "fe")]
addFeAntiAffinity(a) == [a EXCEPT !.anti = Append(@, "fe")]
addDefaultBorkerPodAffinity(a) == [a EXCEPT !.pod = Append(@, "be")]

\* spec.near is EnableFeAffinity of the backends, KickOffAffinityBe of the
\* brokers.
Affinity(c, s) ==
  LET a == constructAffinity(c, s)
  IN  CASE c = "be" /\ s.near -> addFeAffinity(a)
        [] c = "be" /\ ~s.near -> addFeAntiAffinity(a)
        [] c = "broker" /\ s.near -> addDefaultBorkerPodAffinity(a)
        [] OTHER -> a

\* 0 leaves the period to the API server.
TerminationGracePeriod(c, cf) ==
  IF c \in {"broker", "dms"} THEN 0
  ELSE IF "grace_shutdown_wait_seconds" \in DOMAIN cf /\ cf["grace_shutdown_wait_seconds"] > 0
  THEN cf["grace_shutdown_wait_seconds"]
  ELSE IF Type(c) = "fe" THEN 330 ELSE 200

\* The probes: how the kubelet asks, and at which port (0 inside a script).
\* spec.times holds the user's timeouts and period, 0 for none.
AliveProbe(c, cf) ==
  CASE c \in Coupled \ {"broker"} ->
         [how |-> "tcp", port |-> GetPort(cf, IF c = "fe" THEN "query_port" ELSE "heartbeat_service_port")]
    [] c = "broker" -> [how |-> "script", port |-> GetPort(cf, "broker_ipc_port")]
    [] OTHER -> [how |-> "script", port |-> 0]

livenessProbe(s) == IF s.times.live < 1 THEN 180 ELSE s.times.live
startupProbe(s) == (IF s.times.start < 360 THEN 360 ELSE s.times.start) \div 5
applyReadinessProbePolicy(s) == IF s.times.period > 0 THEN s.times.period ELSE 5

\* A frontend or backend that has a name is asked by it, and one with TLS with
\* certificates, which only a script can present.
ReadyProbe(c, cf) ==
  LET tls == IsSet(cf, "enable_tls")
  IN  IF c \notin Coupled \ {"broker"} THEN AliveProbe(c, cf)
      ELSE [how |-> IF GetStartMode(cf) = "FQDN" THEN (IF tls THEN "fqdn-tls" ELSE "fqdn")
                    ELSE IF tls THEN "tls" ELSE "http",
            port |-> GetPort(cf, IF c = "fe" THEN "http_port" ELSE "webserver_port")]

\* NewBaseMainContainer, NewContainerWithCommonSpec.
Container(c, s, cf, peerConf) ==
  [image |-> s.image,
   env |-> (IF c \in Coupled THEN BaseMainEnv(c, s, cf) ELSE s.env \o buildEnvFromPod)
             \o ContainerEnv(c, s, cf, peerConf),
   mounts |-> Mounts(c, s, cf),
   ports |-> ContainerPorts(c, cf),
   live |-> AliveProbe(c, cf), ready |-> ReadyProbe(c, cf),
   times |-> <<livenessProbe(s), startupProbe(s), applyReadinessProbePolicy(s)>>,
   privileged |-> c \in {"be", "dbe"} /\ s.workload]

-----------------------------------------------------------------------------
(* The StatefulSet.  r holds what each place of the code that reads a      *)
(* start configuration was given: Sync, the grace period, the container    *)
(* and the container's look at its peer.                                   *)

PodSelector(c) == "component" :> c

\* Labels of the first are added to the second and replace them.
AddLabel(label, l) ==
  [k \in DOMAIN label \cup DOMAIN l |-> IF k \in DOMAIN label THEN label[k] ELSE l[k]]

\* AddLabel of a compute group and of the metaservice writes the user's
\* labels to the map that is the selector.
Selector(c, s) == IF c \in {"dbe", "dms"} THEN AddLabel(s.labels, PodSelector(c)) ELSE PodSelector(c)

PodLabels(c, s) ==
  AddLabel(s.labels,
           AddLabel(IF c \in Coupled THEN "cluster" :> "doris" ELSE EmptyConf, PodSelector(c)))

NewPodTemplateSpec(c, s, r) ==
  [labels |-> PodLabels(c, s), affinity |-> Affinity(c, s), inits |-> InitContainers(c, s),
   volumes |-> Volumes(c, s, r.sync), grace |-> TerminationGracePeriod(c, r.grace),
   box |-> Container(c, s, r.box, r.peer)]

NewStatefulSet(c, s, r) ==
  [selector |-> Selector(c, s), template |-> NewPodTemplateSpec(c, s, r),
   claims |-> ClaimTemplates(PersistentStores(c, s, r.sync)), replicas |-> s.replicas]

\* Only these read their configuration more than once in a reconcile.
ReadSites(c) ==
  CASE c = "be" -> {"sync", "grace", "box", "peer"}
    [] c \in {"cn", "broker"} -> {"sync", "box", "peer"}
    [] c \in {"dfe", "dbe", "dms"} -> {"sync", "peer"}
    [] c = "fe" -> {"sync"}

\* A read that fails is logged and its caller goes on without values.  With
\* no ConfigMap in the spec nothing is read.
Reads(c, s, own, other, lost) ==
  LET configured == IF s.cms = <<>> THEN EmptyConf ELSE own
      site(name) == IF name \in ReadSites(c) THEN name ELSE "sync"
      read(name) == IF site(name) \in lost THEN EmptyConf ELSE configured
  IN  [sync |-> read("sync"), grace |-> read("grace"), box |-> read("box"),
       peer |-> IF "peer" \in lost THEN EmptyConf ELSE other]

\* The reads of one build saw the same configuration.
Whole(r) == r.sync = r.grace /\ r.sync = r.box
-----------------------------------------------------------------------------
(* Applying a StatefulSet.  A stored one is the object with its hash, << >> *)
(* or <<what was hashed>>; wants and torn remember the claims its last     *)
(* build asked for and whether that build was of different reads.          *)

\* Mutant of HashObject: the environment is not hashed.
HashWithoutEnv(o) ==
  [selector |-> o.selector, template |-> [o.template EXCEPT !.box.env = <<>>],
   claims |-> o.claims, replicas |-> o.replicas]

\* statefulSetHashObject: what the hash covers.
HashObject(o) ==
  [selector |-> o.selector, template |-> o.template, claims |-> o.claims, replicas |-> o.replicas]

\* RestrictConditionsEqual: claim templates, once there, are never replaced.
\* The controller of the brokers does without it.
KeepClaims(c, new, old) ==
  IF c = "broker" \/ old.claims = <<>> THEN new ELSE [new EXCEPT !.claims = old.claims]

IsConfigEnv(e) == e.n = ConfigEnv.n

\* The new variables with the variable of the configuration's path at the
\* places the old ones have it: releases 1.4.1 to 1.6.1 wrote it repeatedly.
LegacyEnv(new, old) ==
  LET bare == SelectSeq(new, LAMBDA e : ~IsConfigEnv(e))
      InsertConfigEnv(env, i) ==
        IF i > Len(env) THEN Append(env, ConfigEnv) ELSE InsertAt(env, i, ConfigEnv)
      places == SelectSeq([i \in DOMAIN old |-> i], LAMBDA i : IsConfigEnv(old[i]))
  IN  FoldLeft(InsertConfigEnv, bare, places)

SameEnv(new, old) ==
  /\ Len(new) = Len(old)
  /\ \A i \in DOMAIN new : new[i].n = old[i].n /\ new[i].v \in {0, old[i].v}

WithLegacyEnv(new, old) ==
  [new EXCEPT !.template.box.env = LegacyEnv(@, old.template.box.env)]

\* clear_config_env_path_numbers_alwaysEquals: whether old is new but for the
\* repeated variable, whatever the number of replicas.
OnlyLegacyEnvDiffers(new, old) ==
  LET alike == WithLegacyEnv(new, old)
  IN  /\ SameEnv(alike.template.box.env, old.template.box.env)
      /\ old.hash = <<HashObject([alike EXCEPT !.replicas = old.replicas])>>

StatefulSetDeepEqual(c, new, old) ==
  \/ old.hash = <<HashObject(new)>>
  \/ c \in Coupled /\ new.replicas = old.replicas /\ OnlyLegacyEnvDiffers(new, old)

\* Mutant of ToSend: the check compares a copy of the object.
ToSendUnchanged(c, new, old) ==
  IF c \in {"be", "dbe"} THEN [new EXCEPT !.template = UseNewDefaultInitContainerImage(@)] ELSE new

\* The object that is sent: the compatibility check has replaced the
\* variables of one that is only scaled.
ToSend(c, new, old) ==
  LET kept == IF c \in Coupled /\ OnlyLegacyEnvDiffers(new, old) THEN WithLegacyEnv(new, old) ELSE new
  IN  IF c \in {"be", "dbe"} THEN [kept EXCEPT !.template = UseNewDefaultInitContainerImage(@)]
      ELSE kept

Nonempty(new, old) == IF new = <<>> THEN old ELSE new

\* A JSON merge patch with the whole object: maps are merged, a field that
\* is empty in the new object is not sent and stays.
PatchedTemplate(new, old) ==
  [labels |-> AddLabel(new.labels, old.labels), inits |-> Nonempty(new.inits, old.inits),
   affinity |-> [f \in DOMAIN new.affinity |-> Nonempty(new.affinity[f], old.affinity[f])],
   grace |-> IF new.grace = 0 THEN old.grace ELSE new.grace,
   volumes |-> new.volumes, box |-> new.box]

Patched(new, old) ==
  [new EXCEPT
     !.selector = AddLabel(@, old.selector),
     !.claims = Nonempty(@, old.claims),
     !.template = PatchedTemplate(@, old.template)]

\* The API server: selector and claim templates are immutable.
Accepted(new, old) == new.selector = old.selector /\ new.claims = old.claims

Stored(o, hash, built, r) ==
  [selector |-> o.selector, template |-> o.template, claims |-> o.claims,
   replicas |-> o.replicas, hash |-> hash, wants |-> built.claims, torn |-> ~Whole(r)]

\* Three controllers create the object themselves and without a hash.
Create(c, built, r) ==
  LET sent == IF c \in {"be", "dbe"}
              THEN [built EXCEPT !.template = UseNewDefaultInitContainerImage(@)] ELSE built
  IN  Stored(sent, IF c \in {"cn", "dfe", "dms"} THEN <<>> ELSE <<HashObject(built)>>, built, r)

\* A compute node is updated, not patched.
Update(c, built, old, r) ==
  LET new == KeepClaims(c, built, old)
      sent == ToSend(c, new, old)
      result == IF c = "cn" THEN sent ELSE Patched(sent, old)
  IN  IF \/ c = "dbe" /\ built.claims # old.claims
         \/ StatefulSetDeepEqual(c, new, old)
         \/ ~Accepted(result, old)
      THEN old
      ELSE Stored(result, <<HashObject(new)>>, built, r)

\* Mutant of ApplyStatefulSet: a second object is made.
ApplySecondStatefulSet(c, built, old, r) == Append(old, Create(c, built, r))

ApplyStatefulSet(c, built, old, r) ==
  <<IF old = <<>> THEN Create(c, built, r) ELSE Update(c, built, old[1], r)>>

\* ApplyService: created without a hash, compared by it, and patched.
ServiceHash(o) == [internal |-> o.internal, external |-> o.external, type |-> o.type]

ApplyServices(new, old) ==
  IF old = <<>> THEN <<[object |-> new, hash |-> <<>>]>>
  ELSE IF old[1].hash = <<ServiceHash(new)>> THEN old
  ELSE LET was == old[1].object
           OrWas(f) == IF new[f] = "" THEN was[f] ELSE new[f]
       IN  <<[object |-> [new EXCEPT !.type = OrWas("type"), !.affinity = OrWas("affinity")],
              hash |-> <<ServiceHash(new)>>]>>
-----------------------------------------------------------------------------
(* The state machine. *)

Intact == Reads(comp, spec, conf, peer, {})

\* The StatefulSet an older release left behind, the variable of the
\* configuration's path a second time at place i.
LegacyBuild(c, i, r) ==
  [NewStatefulSet(c, BaseSpec(c), r) EXCEPT !.template.box.env = InsertAt(@, i, ConfigEnv)]
LegacyStored(c, built, r) == [Create(c, built, r) EXCEPT !.hash = <<HashObject(built)>>]
LegacyStatefulSet(c, i) ==
  LET r == Reads(c, BaseSpec(c), EmptyConf, EmptyConf, {})
  IN  LegacyStored(c, LegacyBuild(c, i, r), r)

Init ==
  /\ comp \in Components
  /\ spec = BaseSpec(comp)
  /\ conf = EmptyConf /\ peer = EmptyConf
  /\ svc = <<>>
  /\ \/ sts = <<>>
     \/ /\ comp \in Coupled
        /\ \E i \in {1, 8} : sts = <<LegacyStatefulSet(comp, i)>>
  /\ round = 0 /\ edits = 0 /\ faults = 0

EditSpec ==
  /\ edits < MaxEdits
  /\ \E s \in Specs(comp) \cup {BaseSpec(comp)} : spec' = s
  /\ edits' = edits + 1
  /\ UNCHANGED <<comp, conf, peer, svc, sts, round, faults>>

EditConf ==
  /\ edits < MaxEdits
  /\ \/ (\E cf \in Confs(comp) : conf' = cf) /\ UNCHANGED peer
     \/ (\E cf \in PeerConfs(comp) : peer' = cf) /\ UNCHANGED conf
  /\ edits' = edits + 1
  /\ UNCHANGED <<comp, spec, svc, sts, round, faults>>

\* The part of a component's Sync from reading its start configuration to
\* applying the StatefulSet.  A compute node's gives up when the first read
\* fails.
Reconcile(lost, applies) ==
  LET r == Reads(comp, spec, conf, peer, lost)
  IN  /\ IF comp = "cn" /\ "sync" \in lost THEN UNCHANGED <<svc, sts>>
         ELSE /\ svc' = ApplyServices(Services(comp, spec, r.sync), svc)
              /\ sts' = IF applies
                        THEN ApplyStatefulSet(comp, NewStatefulSet(comp, spec, r), sts, r) ELSE sts
      /\ UNCHANGED <<comp, spec, conf, peer, edits>>

NextRound == round' = 1 - round

Sync == Reconcile({}, TRUE) /\ NextRound /\ UNCHANGED faults

\* A reconcile in which some of the reads fail, the API server being away for
\* a moment or the ConfigMap being replaced, or the request for the
\* StatefulSet does.
SyncFaulty ==
  /\ faults < MaxFaults
  /\ \E lost \in SUBSET ReadSites(comp), applies \in BOOLEAN :
       (lost = {} => ~applies) /\ Reconcile(lost, applies)
  /\ faults' = faults + 1
  /\ UNCHANGED round

Next == EditSpec \/ EditConf \/ Sync \/ SyncFaulty

\* Every reconcile is followed by another, at the latest by the resync: weak
\* fairness of Sync, which is always enabled and alone changes the round.
Spec == Init /\ [][Next]_vars /\ WF_round(NextRound)

-----------------------------------------------------------------------------
(* Properties. *)

Built == NewStatefulSet(comp, spec, Intact)
Paths(stores) == {v.path : v \in ToSet(stores)}
Names(stores) == {v.name : v \in ToSet(stores)}

\* Every variable has its type; a StatefulSet always has its container.
TypeOK ==
  /\ comp \in Components
  /\ spec \in Specs(comp) \cup {BaseSpec(comp)}
  /\ conf \in Confs(comp) \cup {EmptyConf} /\ peer \in PeerConfs(comp) \cup {EmptyConf}
  /\ IsSequence(svc) /\ Len(svc) <= 1 /\ IsSequence(sts) /\ Len(sts) <= 1
  /\ round \in 0..1 /\ edits \in 0..MaxEdits /\ faults \in 0..MaxFaults
  /\ sts # <<>> => DOMAIN sts[1] = {"selector", "template", "claims", "replicas", "hash", "wants", "torn"}

\* Every mount of the stored pod template names a volume of the pod or a
\* claim the StatefulSet controller makes: the template's three lists are
\* computed by different functions at different times (NewPodTemplateSpec,
\* NewBaseMainContainer, NewStatefulSet).  Left out are a template of torn
\* reads, and one of a spec whose storage changed after the claim templates
\* were fixed, which a compute group refuses.
MountsBacked ==
  \A st \in ToSet(sts) :
    (st.torn \/ (comp # "dbe" /\ ~(Names(st.wants) \subseteq Names(st.claims)))) \/
      \A m \in ToSet(st.template.box.mounts) :
        \/ m.name \in Names(st.claims)
        \/ \E v \in ToSet(st.template.volumes) : v.name = m.name /\ ~v.claim

\* The directories that must survive a restart of the container, as far as
\* the spec has a volume for them.
MustMount ==
  LET t == Type(comp)
      cf == Intact.sync
      noLog == spec.logNotStore \/ \E v \in ToSet(spec.pv \o spec.pvs) : v.logNotStore
  IN  IF comp = "broker" THEN {}
      ELSE IF comp \in Coupled
      THEN IF spec.pvs = <<>> THEN {DataDefaultPath(t)}
           ELSE IF \E v \in ToSet(spec.pvs) : v.path = <<>> THEN ToSet(DataPaths(cf, t)) ELSE {}
      ELSE IF spec.pvs # <<>> /\ spec.pv = <<>> /\ \A v \in ToSet(spec.pvs) : v.paths # <<>> THEN {}
      ELSE Paths(NamedDataPaths(cf, t)) \cup (IF noLog THEN {} ELSE {GetLogPath(cf, t)})

\* The paths the user asks for in a form whose function does not sort out
\* repetitions: volumes of a DorisCluster beside the data directories of a
\* template or, without any volume, shared claims beside the default one; the
\* data directories and the log of a disaggregated component that lists no
\* volumes in the new form.
AskedPaths ==
  LET t == Type(comp)
      cf == Intact.sync
      listed == SelectSeq(spec.pvs, LAMBDA v : v.path # <<>>)
  IN  IF comp \in Coupled
      THEN IF spec.pvs = <<>> THEN PathsOf(DefaultVolumes(comp) \o SharedStores(comp, spec))
           ELSE PathsOf(listed)
                  \o When(comp # "broker" /\ Len(listed) < Len(spec.pvs), DataPaths(cf, t))
      ELSE When(spec.pvs = <<>> \/ spec.pv # <<>>, PathsOf(EmptyDirStores(cf, t)))

PlacesOf(paths, p) == {i \in DOMAIN paths : paths[i] = p}
Repeated(paths, p) == Cardinality(PlacesOf(paths, p)) > 1

\* Each of them is mounted, and no path is mounted twice, which makes a pod
\* that the API server refuses, unless the user asks for it twice in a form
\* that does not sort that out: a volume at a path that a shared claim has, a
\* path that is listed and configured or two cache directories of one name
\* must not meet in the same pod, nor must one of them be lost over it
\* (GenerateEveryoneMountPathDorisPersistentVolume,
\* BuildVolumesVolumeMountsAndPVCs).
DataMountedOnce ==
  LET mounted == PathsOf(Mounts(comp, spec, Intact.sync))
  IN  /\ MustMount \subseteq ToSet(mounted)
      /\ \A p \in ToSet(mounted) : Repeated(mounted, p) => Repeated(AskedPaths, p)

\* The ports of the process in the container: those the container declares,
\* but for two components whose container does not declare them.  A compute
\* node is a backend and declares none, the metaservice declares the port of a
\* broker.
ListensAt(c, cf) ==
  CASE c = "cn" -> getBeContainerPorts(cf)
    [] c = "dms" -> PortsOf(cf, <<"brpc_listen_port">>)
    [] OTHER -> ContainerPorts(c, cf)

\* A port that a service forwards to or a probe asks at is one the process
\* listens at, and the port the pods are told to reach their peer at is one of
\* the peer's service: every function that makes a list of ports reads the
\* configuration on its own.
PortsAgree ==
  LET cf == Intact.sync
      s == Services(comp, spec, cf)
      asked == ToSet(s.internal) \cup {p.port : p \in ToSet(s.external)}
                 \cup ({AliveProbe(comp, cf).port, ReadyProbe(comp, cf).port} \ {0})
      peerPorts == IF comp = "dfe" THEN newMSService(spec, peer).external
                   ELSE BuildExternalService("fe", spec, IF comp = "fe" THEN cf ELSE peer).external
  IN  /\ asked \subseteq ToSet(ListensAt(comp, cf))
      /\ spec.address = <<>> =>
           \A e \in ToSet(ContainerEnv(comp, spec, cf, peer)) :
             e.n \in {"FE_QUERY_PORT", "MS_ENDPOINT"} => e.v \in {p.port : p \in ToSet(peerPorts)}

\* What an intact reconcile sends, the repeated variable of an older release
\* tolerated.
ToSendIntact(old) ==
  LET new == WithLegacyEnv(KeepClaims(comp, Built, old), old)
  IN  IF comp \in {"be", "dbe"}
      THEN [new EXCEPT !.template = UseNewDefaultInitContainerImage(@)] ELSE new

\* The API server, or the check of a compute group, refuses the change.
Refused(old) ==
  LET sent == ToSendIntact(old)
  IN  \/ ~Accepted(IF comp = "cn" THEN sent ELSE Patched(sent, old), old)
      \/ comp = "dbe" /\ Built.claims # old.claims

\* The stored object has all that the spec asks for.  What the user took out of
\* the spec may still be there: a merge patch does not say that a label, a
\* kind of affinity or the init containers are to go.
RolledOut(old) ==
  LET new == ToSendIntact(old).template
      has == old.template
  IN  /\ old.replicas = spec.replicas
      /\ has.volumes = new.volumes /\ has.box = new.box
      /\ \A k \in DOMAIN new.labels : k \in DOMAIN has.labels /\ has.labels[k] = new.labels[k]
      /\ \A f \in DOMAIN new.affinity : new.affinity[f] \in {<<>>, has.affinity[f]}
      /\ new.inits \in {<<>>, has.inits} /\ new.grace \in {0, has.grace}
      /\ comp = "cn" => has = new

ServicesUpToDate(o) ==
  LET new == Services(comp, spec, Intact.sync)
  IN  /\ o.internal = new.internal /\ o.external = new.external
      /\ o.type = new.type \/ new.type = ""

\* Once the user and the faults stop, the stored StatefulSet and services have
\* all that the spec and the configurations, their peers' included, ask for:
\* no change is hidden by the hash, by the compatibility check for older
\* releases or by a build of unread configurations that came before.  Except
\* where the change is refused: it is one of the selector or of the claim
\* templates, which the user edited or which were made when the configuration
\* could not be read.
TemplateRollsOut ==
  <>[](/\ \E st \in ToSet(sts) : Refused(st) \/ RolledOut(st)
       /\ \E sv \in ToSet(svc) : ServicesUpToDate(sv.object))

\* Nothing but the size has changed since the stored hash was computed, of the
\* build or of the build with the variables of an older release.
OnlyScaled(old) ==
  LET new == KeepClaims(comp, Built, old)
  IN  \E h \in ToSet(old.hash), b \in {new, WithLegacyEnv(new, old)} :
        h = [HashObject(b) EXCEPT !.replicas = h.replicas]

\* The stored variables are not the ones that were hashed: an older release
\* repeated one, and the first resize since sent them with the hash of the
\* build without the repetition.
HashedWithout(old) == \A h \in ToSet(old.hash) : h.template.box.env # old.template.box.env

\* An upgrade of the operator restarts no pods, and neither does scaling, as
\* long as nothing but the size is changed: the StatefulSet of an older
\* release, its variables repeated, keeps its template when it is reconciled
\* and when it is resized (clear_config_env_path_numbers_alwaysEquals).  With
\* one exception: the second resize after the upgrade compares with a hash
\* that no longer has the repetition and sends the variables without it, so
\* that the pods are restarted; even then nothing else of the template
\* changes.  Unless the reconcile lost a configuration.
UpgradeKeepsPods ==
  [][\A old \in ToSet(sts), new \in ToSet(sts') :
       (/\ comp \in Coupled /\ OnlyScaled(old)
        /\ faults' = faults \/ (conf = EmptyConf /\ peer = EmptyConf))
         => \/ new.template = old.template
            \/ /\ HashedWithout(old)
               /\ new.template = [old.template EXCEPT !.box.env = new.template.box.env]]_vars
=============================================================================
