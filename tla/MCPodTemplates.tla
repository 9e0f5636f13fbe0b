---------------------------- MODULE MCPodTemplates ----------------------------
(* Small sets of specs and start configurations for PodTemplates. *)
EXTENDS PodTemplates

MCComponents == {"fe", "be", "cn", "broker", "dfe", "dbe", "dms"}

Core == [name |-> <<"core">>, path |-> <<>>]

MCBaseSpec(c) ==
  [(IF c \in Coupled THEN BaseSpecOf("v1") ELSE CommonSpecOf("v1")) EXCEPT !.cms = <<Core>>]

\* The data directory of a component, and one more.
Data(c) == IF c \in Coupled THEN DataDefaultPath(c)
           ELSE IF c = "dfe" THEN GetFEMetaPath(EmptyConf) ELSE GetCachePaths(EmptyConf)[1]
Extra == << <<"mnt">>, <<"disk_1">> >>

\* A template volume and a volume of its own, in the form of the component.
Volume(name, path) == [name |-> <<name>>, path |-> path, size |-> 1]
Template(c) ==
  IF c \in Coupled THEN Volume("data", <<>>) ELSE [paths |-> <<>>, logNotStore |-> FALSE, size |-> 1]
Listed(c, p) ==
  IF c \in Coupled THEN Volume("listed", p) ELSE [paths |-> <<p>>, logNotStore |-> FALSE, size |-> 2]

Shared(p, comps) == <<[name |-> <<"shared">>, path |-> p, comps |-> comps]>>

StorageSpecs(c) ==
  LET b == MCBaseSpec(c)
  IN  {[b EXCEPT !.pvs = <<Template(c)>>],
       [b EXCEPT !.pvs = <<Listed(c, Data(c))>>]}
      \cup IF c \in Coupled
           THEN {[b EXCEPT !.pvs = <<Template(c), Listed(c, Extra)>>],
                 [b EXCEPT !.pvs = <<Template(c), Listed(c, Data(c))>>],
                 [b EXCEPT !.pvs = <<Template(c), Listed(c, Append(Extra, <<>>))>>,
                           !.shared = Shared(Append(Extra, <<>>), {c})],
                 [b EXCEPT !.pvs = <<Template(c)>>, !.shared = Shared(Data(c), {})]}
           ELSE {[b EXCEPT !.pvs = <<Template(c), Listed(c, Extra)>>, !.logNotStore = TRUE],
                 [b EXCEPT !.pv = <<[Template(c) EXCEPT !.paths = <<Extra, Data(c)>>]>>]}

MCSpecs(c) ==
  LET b == MCBaseSpec(c)
  IN  StorageSpecs(c) \cup
      {[b EXCEPT !.replicas = 2],
       [b EXCEPT !.replicas = 2, !.image = "v2", !.init = <<"">>],
       [b EXCEPT !.labels = "team" :> "a", !.auth = TRUE, !.krb = TRUE,
                 !.affinity = [NoAffinity EXCEPT !.required = <<"zone">>, !.pod = <<"zone">>]],
       [b EXCEPT !.skip = TRUE, !.admin = TRUE, !.cms = <<>>, !.init = <<"own">>, !.cpu = <<8>>,
                 !.workload = TRUE, !.times = [live |-> 60, start |-> 600, period |-> 10],
                 !.secrets = <<[name |-> <<"tls">>, path |-> Etc(<<"tls">>)]>>],
       [b EXCEPT !.env = <<Env("USER", 3), Env("TZ", 1)>>,
                 !.address = IF c \in Coupled \cup {"dms"} THEN <<9031>> ELSE <<>>,
                 !.export = <<[type |-> "NodePort", node |-> (9030 :> 30030) @@ (9050 :> 30050)]>>],
       [b EXCEPT !.export = <<[type |-> "LoadBalancer", node |-> EmptyConf]>>]}
      \cup (IF c \in Coupled THEN {[b EXCEPT !.near = TRUE]} ELSE {})
      \cup (IF c = "dms" THEN {[b EXCEPT !.fdb = FALSE, !.address = <<4501>>]} ELSE {})

\* Two data directories, the second named after the parent of the last.
Two == << << <<"data1">>, <<"doris">> >>, << <<"data2">>, <<"doris">>, <<>> >> >>

MCConfs(c) ==
  {[query_port |-> 9031, heartbeat_service_port |-> 9051, broker_ipc_port |-> 8001,
    arrow_flight_sql_port |-> 9091, enable_fqdn_mode |-> TRUE, enable_tls |-> TRUE],
   [http_port |-> Unparsable, webserver_port |-> Unparsable, brpc_listen_port |-> 5001,
    grace_shutdown_wait_seconds |-> 60, java_opts |-> <<2>>, kerberos_krb5_conf_path |-> 3],
   [storage_root_path |-> Two, file_cache_path |-> <<Two[1], Two[1], TrimSlash(Two[2])>>,
    meta_dir |-> IF c \in Coupled THEN <<Two[2]>> ELSE Two[1],
    sys_log_dir |-> << <<"logs">> >>]}

MCPeerConfs(c) == {[query_port |-> 9032, brpc_listen_port |-> 5002, cluster_file |-> 4500]}
===============================================================================
