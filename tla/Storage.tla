------------------------------- MODULE Storage -------------------------------
(***************************************************************************)
(* Where the pods of a component keep their data: the volumes, mounts and  *)
(* claim templates that the operator derives from the persistent volumes a *)
(* user lists and from the directories the component's start configuration *)
(* names.  Pure operators, for both kinds of cluster.                      *)
(*                                                                         *)
(* A name is the sequence of words that "-" separates.  A path is the      *)
(* sequence of its segments, each again a sequence of words; a trailing    *)
(* "/" is a last segment that is empty.  The words "." and "," are the     *)
(* characters at which Doris' own options start.  A start configuration is *)
(* a function from the keys it sets.                                       *)
(***************************************************************************)
EXTENDS Naturals, Sequences, SequencesExt

\* The words of the model with a "_" in them, as a name may not have one.
Underscored ==
  ("file_cache" :> <<"file", "cache">>) @@ ("disk_1" :> <<"disk", "1">>)
    @@ ("apache_hdfs_broker" :> <<"apache", "hdfs", "broker">>)

\* strings.ReplaceAll(name, "_", "-").
Dashed(name) ==
  FlattenSeq([i \in DOMAIN name |->
    IF name[i] \in DOMAIN Underscored THEN Underscored[name[i]] ELSE <<name[i]>>])

\* One place of a component's data: the volume's name, the path it is mounted
\* at, and the size its claim asks for.
Store(name, path, size) == [name |-> name, path |-> path, size |-> size]

DefaultRoot == << <<"opt">>, <<"apache", "doris">> >>

\* $DORIS_HOME of a component's image.
DorisHome(t) ==
  DefaultRoot \o
    CASE t = "fe" -> << <<"fe">> >>
      [] t \in {"be", "cn"} -> << <<"be">> >>
      [] t = "ms" -> << <<"ms">> >>
      [] t = "broker" -> << <<"apache_hdfs_broker">> >>

TrimSlash(p) == IF p # <<>> /\ Last(p) = <<>> THEN Front(p) ELSE p

-----------------------------------------------------------------------------
(* Names for paths. *)

\* The shortest sequence of last segments of p that no earlier path is named
\* by; all of them when every one is taken.
NameOfPath(p, taken) ==
  LET segments == SelectSeq(p, LAMBDA s : s # <<>>)
      tail(k) == FlattenSeq(SubSeq(segments, Len(segments) - k + 1, Len(segments)))
      free == {k \in DOMAIN segments : tail(k) \notin taken}
  IN  IF free = {} THEN tail(Len(segments))
      ELSE tail(CHOOSE k \in free : \A l \in free : k <= l)

\* The name of every path of a sequence, the paths taken in their order; a
\* path that occurs again is named again, and its first name stays taken.
GetNameOfEachPath(paths) ==
  LET Given(known, p, name) == [taken |-> known.taken \cup {name}, names |-> (p :> name) @@ known.names]
      Named(known, p) == Given(known, p, NameOfPath(p, known.taken))
  IN  FoldLeft(Named, [taken |-> {}, names |-> [p \in {} |-> <<>>]], paths).names

-----------------------------------------------------------------------------
(* The coupled cluster: a list of volumes [name, path, size], of which the *)
(* one without a path is the template for the data directories.            *)

\* A data directory of the start configuration, without the options that
\* follow it and without a trailing slash.
ParseSinglePath(p) ==
  LET isOption(w) == w \in {".", ","}
      cut == SelectInSeq(p, LAMBDA s : \E i \in DOMAIN s : isOption(s[i]))
      kept == SubSeq(p[cut], 1, SelectInSeq(p[cut], isOption) - 1)
  IN  TrimSlash(IF cut = 0 THEN p ELSE SubSeq(p, 1, cut - 1) \o <<kept>>)

ResolveStorageRootPath(value) ==
  SelectSeq([i \in DOMAIN value |-> ParseSinglePath(value[i])], LAMBDA p : p # <<>>)

\* The configuration's key for the data directories, and their default.
DataPathKey(t) == IF t = "fe" THEN "meta_dir" ELSE "storage_root_path"

DataDefaultPath(t) ==
  DorisHome(t) \o << IF t = "fe" THEN <<"doris", "meta">> ELSE <<"storage">> >>

DataPaths(conf, t) ==
  IF DataPathKey(t) \in DOMAIN conf THEN ResolveStorageRootPath(conf[DataPathKey(t)])
                                   ELSE <<DataDefaultPath(t)>>

\* One volume for each of the paths; a single one keeps the template's name.
Unfolded(template, paths) ==
  LET names == GetNameOfEachPath(paths)
  IN  [i \in DOMAIN paths |->
         [template EXCEPT !.path = paths[i],
                          !.name = IF Len(paths) = 1 THEN @ ELSE @ \o Dashed(names[paths[i]])]]

\* The volumes of a component with a template unfolded to one volume for each
\* data directory; a shared claim wins over a volume at its path.
GenerateEveryoneMountPath(pvs, exclude, conf, t) ==
  LET explicit == SelectSeq(pvs, LAMBDA v : v.path # <<>> /\ TrimSlash(v.path) \notin exclude)
      templates == SelectSeq(pvs, LAMBDA v : v.path = <<>>)
  IN  IF templates = <<>> \/ t = "broker" THEN explicit
      ELSE explicit \o SelectSeq(Unfolded(Last(templates), DataPaths(conf, t)),
                                 LAMBDA v : v.path \notin exclude)

\* The claims of the cluster that t shares with other components.
BuildSharedVolumes(shared, t) ==
  LET Expanded(p) == IF p # <<>> /\ Head(p) = <<"$DORIS_HOME">> THEN DorisHome(t) \o Tail(p) ELSE p
      mine == SelectSeq(shared, LAMBDA s : s.comps = {} \/ t \in s.comps)
  IN  [i \in DOMAIN mine |-> Store(mine[i].name, TrimSlash(Expanded(mine[i].path)), 0)]

\* The volume of a component without any persistent volume.
DefaultVolumes(t) ==
  CASE t = "fe" -> <<Store(<<"fe", "meta">>, DataDefaultPath(t), 0)>>
    [] t \in {"be", "cn"} -> <<Store(<<"be", "storage">>, DataDefaultPath(t), 0)>>
    [] t = "broker" -> <<>>

-----------------------------------------------------------------------------
(* The disaggregated cluster: one volume [paths, logNotStore, size] in the *)
(* old form, a sequence of them in the new one.                            *)

\* The configuration was read by viper, whose keys are lowercase: "LOG_DIR"
\* is not one of them, whatever the file says.
GetLogPath(conf, t) ==
  IF "LOG_DIR" \in DOMAIN conf THEN conf["LOG_DIR"]
  ELSE IF "sys_log_dir" \in DOMAIN conf THEN conf["sys_log_dir"]
  ELSE DorisHome(t) \o << <<"log">> >>

GetFEMetaPath(conf) ==
  IF "meta_dir" \in DOMAIN conf THEN conf["meta_dir"] ELSE DataDefaultPath("fe")

\* The paths of file_cache_path; a text that is no JSON has none.
GetCachePaths(conf) ==
  IF "file_cache_path" \in DOMAIN conf THEN conf["file_cache_path"]
                                      ELSE <<DorisHome("be") \o << <<"file_cache">> >> >>

LogStoreName(t) == <<t, "log">>

\* BECacheStorePreName followed by the decimal number i.
CacheStoreName(i) == <<"be", "storage" \o ToString(i)>>

\* The data directories of a component and the names the old form gives them.
NamedDataPaths(conf, t) ==
  LET caches == GetCachePaths(conf)
  IN  CASE t = "ms" -> <<>>
        [] t = "fe" -> <<Store(<<"fe", "meta">>, GetFEMetaPath(conf), 0)>>
        [] t = "be" -> [i \in DOMAIN caches |-> Store(CacheStoreName(i - 1), caches[i], 0)]

\* getEmptyDirVolumesVolumeMounts: no persistent volume at all.
EmptyDirStores(conf, t) ==
  <<Store(LogStoreName(t), GetLogPath(conf, t), 0)>> \o NamedDataPaths(conf, t)

\* The stores with the volume's own paths, where they are new, numbered after
\* the ones that hold no log.
WithListedPaths(stores, logs, paths) ==
  LET Add(all, p) ==
        IF \E i \in DOMAIN all : all[i].path = p THEN all
        ELSE Append(all, Store(CacheStoreName(Len(all) - Len(logs)), p, 0))
  IN  FoldLeft(Add, stores, paths)

\* pathName is a map: the last name given to a path is the one used.
LastNamed(stores, size) ==
  [i \in DOMAIN stores |->
     LET last == SelectLastInSeq(stores, LAMBDA s : s.path = stores[i].path)
     IN  Store(stores[last].name, stores[i].path, size)]

LogStores(noLog, conf, t) ==
  IF noLog THEN <<>> ELSE <<Store(LogStoreName(t), GetLogPath(conf, t), 0)>>

\* The old form: the log, the data directories and, for a compute group, the
\* volume's own paths.
PersistentVolumeStores(cs, conf, t) ==
  LET pv == cs.pv[1]
      log == LogStores(pv.logNotStore \/ cs.logNotStore, conf, t)
  IN  LastNamed(WithListedPaths(log \o NamedDataPaths(conf, t), log,
                                IF t = "be" THEN pv.paths ELSE <<>>), pv.size)

PathsOf(stores) == [i \in DOMAIN stores |-> stores[i].path]

\* The paths that need a volume: the configuration's, every volume's, the log.
RequiredPaths(cs, conf, t) ==
  PathsOf(NamedDataPaths(conf, t))
    \o FlattenSeq([i \in DOMAIN cs.pvs |-> cs.pvs[i].paths])
    \o PathsOf(LogStores(cs.logNotStore \/ \E i \in DOMAIN cs.pvs : cs.pvs[i].logNotStore, conf, t))

\* Each of the paths once, the last one first.  A path no volume lists takes
\* the last volume without paths as its template, and is left out when there
\* is none.
ArrayStores(pvs, required) ==
  LET names == GetNameOfEachPath(required)
      Owner(p) == SelectLastInSeq(pvs, LAMBDA v : p \in ToSet(v.paths))
      template == SelectLastInSeq(pvs, LAMBDA v : v.paths = <<>>)
      Add(stores, p) ==
        LET v == IF Owner(p) # 0 THEN Owner(p) ELSE template
        IN  IF v = 0 \/ \E i \in DOMAIN stores : stores[i].path = p THEN stores
            ELSE Append(stores, Store(Dashed(names[p]), p, pvs[v].size))
  IN  FoldLeft(Add, <<>>, Reverse(required))

\* Mutant of PersistentVolumeArrayStores: a path is not looked for among the
\* ones that have a claim already.
EveryPathStored(cs, conf, t) ==
  LET required == RequiredPaths(cs, conf, t)
      names == GetNameOfEachPath(required)
  IN  [i \in DOMAIN required |-> Store(Dashed(names[required[i]]), required[i], 1)]

\* The new form.
PersistentVolumeArrayStores(cs, conf, t) == ArrayStores(cs.pvs, RequiredPaths(cs, conf, t))

\* BuildVolumesVolumeMountsAndPVCs: the stores, and whether they are claims.
HasClaims(cs) == cs.pv # <<>> \/ cs.pvs # <<>>

BuildStores(cs, conf, t) ==
  IF ~HasClaims(cs) THEN EmptyDirStores(conf, t)
  ELSE IF cs.pv # <<>> THEN PersistentVolumeStores(cs, conf, t)
  ELSE PersistentVolumeArrayStores(cs, conf, t)
==============================================================================
