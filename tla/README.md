# A TLA+ verification of the Doris operator

The Doris operator keeps Apache Doris clusters on Kubernetes in the state that a
custom resource asks for. This directory models the parts of it that carry the
risk, checks them with TLC on small instances, and proves some of their
properties with TLAPS for every instance. The modules are translated from the Go
source; `PROJECT.json` maps every definition to its lines.

## 1. Inventory

### The parts and their state

| Part | Source | State | Operations | Module |
|---|---|---|---|---|
| Disaggregated cluster reconciler | `pkg/controller/disaggregated_cluster_controller.go` | the `DorisDisaggregatedCluster` read at the start of a reconcile; its status and health | `Reconcile`: every sub controller's `Sync`, then `ClearResources`, then `UpdateComponentStatus`, in map order; write-back of resource and status; requeue | `DisaggregatedCluster` |
| Compute group | `sub_controller/disaggregated_cluster/computegroups` | a StatefulSet of BE pods with the graceful-action annotation and the spec hash; phase and id of the group in the status | `reconcileStatefulset`, `preApplyStatefulSet`, the graceful state machine, `updateCGStatus`; `ClearResources` of removed groups | `ComputeGroup`, `Decommission`; `DisaggregatedCluster` |
| Frontend (FE) | `.../disaggregated_fe` | a StatefulSet of FE pods, their claims, the FE part of the status | `Sync`, `dropFEBySQLClient`, `ClearResources`, `UpdateComponentStatus` | `Frontend` |
| Meta service | `.../metaservice` | a StatefulSet; availability in the status | `Sync`, status | `DisaggregatedCluster` |
| Coupled cluster | `doriscluster_controller.go`, `sub_controller/{fe,be,cn,broker}`, `sub_controller.go` | StatefulSets, services, claims and autoscaler of a `DorisCluster`, phases and config hashes in its status | the same three calls per sub controller, rolling restart, `safeScaleDown`, claims the operator provisions, autoscaling of CN | `CoupledCluster` |
| Builders | `pkg/common/utils/resource`, the `statefulset.go`, `service.go`, `pod.go` files of the sub controllers | none: functions of spec and ConfigMaps | pod templates, services, claim templates, ports, hashes and comparisons | `Storage`, `PodTemplates` |
| Webhook certificates, operator process | `unnamedwatches`, `utils/certificate`, `cmd/operator` | a Secret with the certificate, two webhook configurations, the mounted file | start, election, renewal | `Certificates` |
| Doris itself (external) | FE metadata through `pkg/common/utils/mysql` | backends and frontends with role, generation, decommission progress | SHOW, DROP, DECOMMISSION statements, heartbeats | in the modules that use it |
| Kubernetes (external) | API server, informer cache, StatefulSet controller, kubelet | objects with resource versions, pods | create, delete and roll pods, restart containers | in the modules that use it |

The parts interact only through Kubernetes objects and the FE's SQL port. The
operator reads objects from an informer cache that may lag behind its own writes,
patches with a resource version, ignores conflicts on the last patch of a
reconcile, and keeps nothing in memory between two reconciles: whatever a later
reconcile has to know is in an annotation, in the status, or in the FE's lists.

### What is hard, and what makes each part correct

* **Compute group.** A rollout is a state machine (TriggerDrain, WaitDrain,
  DeletePod, WaitPodReady, WaitBEAlive, Done) whose state is an annotation written
  at the end of each reconcile. Every reconcile may be lost, repeated or run from
  an old copy, while the StatefulSet controller, the kubelet and the FE's
  heartbeat act on the same pods. Correct means: a BE is drained before its pod is
  deleted, one pod at a time, none twice, Kubernetes does not roll pods on its own
  while an action is stored, and the edit is reached in the end.
* **Scale-down of backends.** The operator counts what `SHOW BACKENDS` lists to
  find out how far a decommission has got. Correct means: a backend that still has
  tablets is never dropped, and a decommission ends.
* **Frontends, of both kinds of cluster.** The number of observers to drop comes
  from a count, the pods from ordinals; statements may fail half-way; clearing of
  claims and status run even after an error. Correct means: only surplus observers
  leave the metadata, from the top; no follower ever does; the StatefulSet never
  shrinks into the followers; the edit is reached in the end.
* **The reconcilers.** Sub controllers run in any order, go on after one another's
  errors, gate each other by the status that they write themselves, and what is to
  be cleared is known from the status alone. Correct means: an entry leaves the
  status only when its objects are gone, and the cluster converges to what was
  asked and to a truthful status whatever single calls fail.
* **Certificates.** Every replica of the operator renews before it is elected; the
  three objects are written one by one. Correct means: one certificate wins, the
  bundles never hold another, and in the end all copies agree.
* **Builders.** Volumes, mounts, claims, ports and environment of one pod are made
  by different functions that each read the configuration again; a hash, with a
  compatibility rule for older releases, decides whether the result is applied.
  Correct means: the lists fit each other, no change is lost, none restarts pods
  without need.

The hazards are listed with their lines in `PROJECT.json`.

## 2. Modules

| Module | Contents |
|---|---|
| `Decommission` | the pure part of taking backends out: the counters and phases of `decommission.go`, `getScaledOutBENode` |
| `ComputeGroup` | one compute group, its operator and its surroundings |
| `RollingReplacement` | what a rollout promises: the abstract specification of `ComputeGroup` |
| `Frontend` | the frontends of a disaggregated cluster, their operator and their surroundings |
| `Membership` | what scaling of frontends promises: the abstract specification of `Frontend` and `CoupledCluster` |
| `DisaggregatedCluster` | the reconciler over meta service, FE and several compute groups |
| `CoupledCluster` | the reconciler over fe, be, cn and broker |
| `Certificates` | the webhook certificate and the operator's processes |
| `Storage` | pure: names, volumes, mounts and claim templates |
| `PodTemplates` | the objects the builders make, and when they are applied |
| `ComputeGroupProofs`, `ScaleDownProofs`, `RolloutProofs` | theorems about `ComputeGroup` |
| `FrontendProofs`, `DisaggregatedClusterProofs`, `CoupledClusterProofs`, `CertificatesProofs`, `PodTemplatesProofs` | theorems about the module of that name |
| `MC...` | the modules the `.cfg` files are run on |

### ComputeGroup

A reconcile is a sequence of steps, named by `pc`, at the points where the code
reads or writes shared state:

    idle      PreApplyStatefulSet   read the StatefulSet (est), build the new one (st),
                                    drop or decommission backends
    graceful  one handler of the state machine, or none
    finalize  FinalizeGracefulAction: remove the annotation by a patch of its own
    clear     ClearStatefulSetRollingUpdate: remove the rollingUpdate block
    apply     ApplyStatefulSet: merge patch with the cached resource version
    status    UpdateCGStatus (statusUpdated: this reconcile changed the StatefulSet)

`sts` is the object in the API server, `cache` the informer's copy, `fresh` says
that both have the same resource version. A pod template is a number (its
revision); the spec hash is the pair of template and replicas. A BE process is
numbered per ordinal (`starts`); `be[o].gen`, the number the FE last saw, stands
for the start time it reports. `pods[o].sentinel` is the terminating sentinel
file, `draining` says that `stop_be.sh --grace` reached the pod. Time is not
modelled: a deadline may pass whenever it is waited for.

Around the operator: the informer, other writers, the user, the StatefulSet
controller (Parallel pod management; RollingUpdate from the highest ordinal down),
the kubelet, and the FE's heartbeat and tablet migration. Those actions are marked
external in the map.

`Faults` selects what may go wrong: `stale`, `conflict`, `lag`, `crash`, `exec`,
`sql`, `api`, `deadline`, `overlap` (see the comment in the module).

### RollingReplacement

Three variables: the version asked for, the version each member runs, and the
members that serve; five steps: `Ask`, `Stop`, `Remove`, `Create`, `Start`. It knows
no reconcile, annotation, cache, restart or heartbeat. The mapping is
`ComputeGroup!ReplacesPods`: the version asked for is the template of the
StatefulSet, a member that is not there runs version 0, and a member serves when the
pod is ready and not on its way out and the FE has it alive in its present
generation (`Serving`). The members are the pods the group starts with: those that a
scale-up adds serve some time later, which is not a replacement.

### Frontend

`Sync` (or `SyncWaitsForMS`), `DropFE` or `DropFEFails`, `ApplyStatefulSet`,
`ClearResources`, `UpdateObjectORStatus`. The election number is an environment
variable of the pod template, so it doubles as the revision of a pod. `role` is
the FE's metadata: a pod that starts and is not in it joins as follower or
observer according to its number; a role survives restarts. Every fault consumes
one unit of `MaxFaults`, so that liveness means "once the faults are over".
Assumed: host names (FQDN start mode), persistent volumes provisioned by the
StatefulSet. `UpdateObjectORStatus` includes the write-back of a corrected spec
in the cluster reconciler.

### Membership

Three variables: the count the operator works towards, the StatefulSet's, and the
FE's metadata; four steps: `Retarget`, `Join`, `Leave`, `Resize`. The refinement
mappings are `Frontend!ScalesFrontends` and `CoupledCluster!ScalesFrontends`.

### DisaggregatedCluster

    idle    BeginReconcile    take the request, read the resource
    sync    SyncMS, SyncFE, SyncCG, in any order; each may fail
    drop, svcs, stss, claims  ClearResources of the compute groups: metadata in
                              the FE, services, StatefulSets, unused claims
    status  ReorganizeStatus  component status, counts, health
    write   UpdateObjectORStatus, UpdateFails

A group is here the replicas of its StatefulSet, its services, the number of its
claims, its ready pods and whether the FE lists backends of it: what happens
inside a rollout is `ComputeGroup`'s. `SyncCG` may therefore hold a scale-down
back, for as long as it likes: nothing is assumed about when it lets go, and
`ClusterConverges` accepts a group that is still larger than asked for.
`SyncCGReturns` is the early return of `validateComputeGroup` while the ids of the
groups are rejected (`spec.valid` is false). `spec.want[g] = -1` is a group without `replicas`,
which the code defaults and writes back. `queued` is the work queue: what an
error, a requeue, an event or only the resync leads to is told apart.

### CoupledCluster

`Reconcile` reads, then per component `PrepareClaims`, `SyncFE`, `DropObservers`,
`ApplyFE` for the frontends and `SyncWaits`, `SyncApplies`, `SyncFails`,
`SyncPanics` for the others; `ClearResources`, `Finish` (status, and the revert of a
refused scale-down), `UpdateStatus`. Both the replicas and the election number of the
frontends are fields that the user may edit (`EditFE`, `EditElections`); the election
number is in the pod template, and `role` is the FE's metadata as in `Frontend`.
`leaked` is a history variable: the components whose deletion failed, or that were
removed before they had a status to show it. Reads are current: the informer cache is
not modelled here. Restart annotations are numbers, a ConfigMap
is its version, its hash the same number. Claims of the frontends are provisioned
by the operator and listed one by one, since `patchPVCs` and `deletePVCs` count
them. The StatefulSet controller, the kubelet, the autoscaler and Doris are external.

### Certificates

Every replica is a process (`off`, `secret`, `store`, `get`, `update`, `await`,
`idle`) that walks the three watches one call at a time; `current` says that the
object read last has not changed since, so a write with an old resource version is
a `Conflict`. A certificate is who made it and how many there were before; whether
it is within ten minutes of its end is one bit, set by `Expire`.

### Storage and PodTemplates

Paths and names are sequences of words, so that names made of path segments can
collide as they do in the code. `PodTemplates` builds for each of the seven
components (`fe`, `be`, `cn`, `broker`, `dfe`, `dbe`, `dms`) the container, volumes,
environment, affinity, init containers, probes, labels, ports, services and claim
templates from a spec, its ConfigMap and its peer's. A reconcile (`Sync`) compares
hashes and patches services and StatefulSet as each component's `apply` does; in
`SyncFaulty` any of the separate reads of the ConfigMap may fail, which the code
takes for an empty one. `Accepted` is the API server's rule that selector and claim
templates are immutable, `Patched` what a merge patch keeps of the old object.

## 3. Runs

### Passing

* `rolling_update` - three ordinals, three templates, two edits (template and
  scale-up), every interleaving, kubelet restarts inside draining pods, no faults.
  Pods are drained before deletion (`DrainBeforeDelete`), one out of service at a
  time (`OneOutOfService`), none deleted without need (`NoNeedlessDelete`), a pod
  is left only for a live replacement (`AdvancesOnReplacement`), pods are replaced
  in turn (`ReplacesInTurn`, the refinement of `RollingReplacement`), and every edit
  is reached (`Converges`).
* `rollout_reedited` - the second edit comes at any moment of the first rollout or
  of the creation (`overlap`): `ReadyIsTruthful`, `Converges`.
* `drain_exec_failures` - any exec may fail, so drains do not start, sentinels are
  missing and BEs come back inside a pod: `Converges` by way of the deadline.
* `group_faults` - two edits of template and replicas (up and down, by DROPP) while
  writes conflict or are refused, deadlines expire and the new revision is
  published late: `OnDeleteWhileGraceful`.
* `scale_down_faults` - three to one by decommission while the operator stops at any
  step and any SQL fails: `NoNeedlessDelete`, `GracefulShrink`,
  `DropOnlyEmptyBackends`.
* `decommission_ends` - scale-down by decommission without faults:
  `DecommissionEnds`.
* `frontend_scaling` - four frontends, two of them followers, two edits (one below
  the election number, which Sync corrects) and any three faults: `DropOnlySurplus`,
  `KeepsVoters` (the refinement of `Membership`), `FEConverges`.
* `cluster_groups` - two groups, new or left by an older version with a service of
  the old kind, one edit (resize, unset, add or remove a group, ids that are rejected
  or no longer are, a new meta service template) and two faults at any call: a group
  is forgotten only when cleared (`ForgetOnlyCleared`); removed groups are cleared in
  the end and, if the ids are accepted, the groups run with all the replicas asked for,
  more only while a scale-down is held back, and the health is Green
  (`ClusterConverges`).
* `coupled_cluster` - four clusters (two followers and an observer; two followers and
  backends; a frontend with autoscaled compute nodes; one with brokers), new or running,
  up to two edits and one fault at any call. `FrontendsKeepVoters` is the refinement of
  `Membership`, with the election number as it was at the start. `CoupledConverges`:
  the cluster runs what was asked for and of a removed section nothing is left; a
  deletion that failed is excused (`Orphaned`), and three states that stop the operator
  for good are named (`CNStuck`, `ClaimsGap`, `RunsDropped`). `ConfigRolledOut`: a new
  core ConfigMap of an Available component reaches its pods; its premise leaves out the
  cases in which the code loses the restart, which are among the observations.
* `webhook_certificates` - two replicas, a certificate that ends once, and two
  faults among refused calls, crashes and a foreign write: `RenewOnlyInvalid`,
  `BundlesFromSecret`, `WebhooksTrusted`.
* `pod_templates` - the seven components, two edits of spec or ConfigMaps out of a
  dozen specs and three configurations each, one reconcile with any of its reads or
  its patch failing, new or with a StatefulSet that an older release left.
  `MountsBacked`: mounts have their volumes. `DataMountedOnce`: data directories are
  mounted, and no path twice unless it was asked for twice. `PortsAgree`: ports of
  services, probes and peers are ports the process listens at, of all seven components.
  `TemplateRollsOut`: the stored objects have all that the spec asks for, unless the API
  server or the compute group refuses the change; what the spec no longer asks for may
  stay. `UpgradeKeepsPods`: neither an upgrade nor a resize restarts pods, with the
  second resize after an upgrade as the one exception.

### Violation: the code against its own comment

* `scale_down_revert` (`NoReplicaRevert`) - `afterPodDeleted` lowers the replicas
  "to prevent StatefulSet from recreating the deleted pod"; the apply at the end
  of the same reconcile writes the count that was read before, and the pod comes
  back until a later reconcile takes it down again.

### Further observations

Met while modelling, or found by exploring the same modules with other fault sets
and properties; no run is kept for them.

Compute group:

* `lag` is called a fault here, but that a StatefulSet controller publishes
  `status.updateRevision` some time after the template was written is ordinary in
  Kubernetes. The runs `rolling_update`, `rollout_reedited` and `drain_exec_failures`,
  and the theorems with `Faults = {}`, do not have that delay, and what they say does
  not hold with it: a rollout that reads the revision before the StatefulSet
  controller has published the new one finds no outdated pod and finishes; the next
  apply restores RollingUpdate and Kubernetes deletes undrained pods.
* With a kept ordinal not registered, the live backends alone equal the amount to
  keep and count as "decommissioned": backends with tablets are dropped.
* `stale` + `exec`: a reconcile that reads a StatefulSet from before its own last
  write and finds the sentinel unsupported applies RollingUpdate over a stored
  action (this is why theorem `OnDeleteCorrect` excludes `stale`).
* `sql`: when the FE cannot be asked at drain time, the generation stays empty and
  the drained process itself passes as its replacement in `WaitBEAlive`.
* `WaitPodReady` takes the drained pod, still Ready while it terminates, for its
  replacement; `WaitBEAlive` makes up for that unless the generation is empty.
* `api`: an error of the state machine lets the apply go on with the replicas the
  user asked for: Kubernetes then removes the remaining surplus pods at once.
* `lag` with `exec` and `overlap`: an action can be stored as Done while pods of the
  old revision are left; `shouldFinalizeGracefulAction` then waits for their drain,
  which a Done action never starts, and the rollout stands still.
* `overlap` with decommission: replicas edited during a decommission can match no
  phase of the counters (`Unknown`), and the group waits forever.
* An error of the drop that follows a decommission is ignored: the pods go and dead
  backends stay in the metadata. A scale-down taken back after its backends were
  dropped leaves pods whose BE registers again only with a restart.
* `exec`, template and replicas edited together: a rolling update can choose a pod
  that the lower replica count has just removed and wait for it for good.

Frontend:

* The claims are cleared by the replicas asked for, not by those of the
  StatefulSet: when the SQL fails, claims of running pods are deleted.
* Raising the election number while scaling down drops observers whose pods stay.
* An error in mapping observers to pods is swallowed
  (`disaggregated_fe/controller.go:398-402`): the StatefulSet shrinks with nothing
  dropped, and the observers stay in the metadata until a later scale-down.
* `overlap`: an edit made during a reconcile that corrects the replicas is
  overwritten; a scale-down taken back after its observers were dropped leaves pods
  that are not registered.
* `pod`: a dropped observer that restarts before the apply joins again and stays in
  the metadata; a terminating pod that is still ready makes up for one that is not
  when the phase becomes Ready; availability is not taken back.

Disaggregated cluster:

* The error of `ClearResources` is dropped: a failed clearing is retried by the next
  event or resync only.
* Claims of removed groups stay, although a comment in
  `computegroups/controller.go` says that they are cleared; backends stay in the
  FE's metadata when a group is removed before its id was recorded, and
  `recordComputeGroupIds` can blank ids it has recorded before.
* `computeGroupCount` is not brought back to zero when the last entry goes.
* The write-back of a corrected spec carries the newest resource version and so
  overwrites an edit made during the reconcile; a refused status write that turned
  the health Green is not requeued; the requeue that `reorganizeStatus` decides is
  overwritten by its caller.
* An edit of the meta service makes the health Red for one reconcile, since
  `ReturnStatefulsetUpdatedGeneration` looks the annotation up under another key.

Coupled cluster:

* A CN section that is removed makes `cn/controller.go` dereference a nil spec; the
  panic is recovered and repeated by every later reconcile, although a comment in
  `doriscluster_controller.go` says that the resources of CN are then deleted.
* Claims are counted and named from 0: one that was not created or deleted because
  of one failed call is never come back to (`ClaimsGap`).
* A failed deletion of a removed BE's, broker's or autoscaler's objects is not
  retried, although `doriscluster_controller.go:191`, `be/controller.go:127` and
  `sub_controller.go:346` say that they are deleted: the error is ignored and the status
  that asks for the deletion is dropped. The same holds for what was created by a
  reconcile that a fault kept from writing the first status of the section. Without
  `Orphaned`, TLC violates `CoupledConverges`.
* The election number is protected by no webhook, and the event of `safeScaleDown`
  advises to lower it (`fe/prepare_modify.go:91`, `:95`). Lowered together with the
  replicas, it lets the scale-down pass, there is no observer to drop, and the
  StatefulSet shrinks into the followers, which stay in the metadata. With
  `EditElections = {1}` TLC violates `FrontendsKeepVoters` in this way.
* A config change while the component is not Available, the FE is down, claims are
  missing, or the annotation's patch conflicts is recorded as rolled out; a refused
  status write restarts twice. So is one that comes while a scale-down of the frontends
  is pending: `prepareStatefulsetApply` returns before the restart is injected
  (`fe/prepare_modify.go:53-58`), the hash is recorded all the same
  (`fe/controller.go:60`), and the restart that `types.go:54` promises never comes.
  `ConfigRolledOut` states the case that works; without `Shrinks` in its premise TLC
  violates it.
* An error in mapping observers to pods is swallowed (`fe/prepare_modify.go:160-181`):
  the StatefulSet shrinks with nothing dropped.
* A scale-down that is taken back after its SQL and before its StatefulSet leaves a
  frontend that runs and is not registered until it is restarted (`RunsDropped`).
* A resize of volumes together with a scale-down below the election number deletes
  claims of running followers before the scale-down is refused.
* Replicas set by an autoscaler stay when its policy is removed; `RetryOnConflict`
  sends the same object again; `ApplyService` treats every error of its Get as "not
  found"; the creation webhook does not check replicas against the election number.

Certificates:

* The watches of the configurations compare an object's name with the watch's own,
  so their events are never queued; nothing is scheduled for the end of the
  certificate. Both are repaired by the resync only, ten hours by default.
* A slow replica can write an older bundle over a newer one (same repair).

Builders:

* Volume names made from paths can coincide ("_" and "-"; "/x/doris" before
  "/doris"); a path listed twice changes its own name.
* Viper's keys are lower case, so `LOG_DIR` is never found; `meta_dir` is cut at a
  "." that belongs to a directory name.
* Storage edited after creation keeps the old claim templates while mounts use new
  names (`MountsBacked` excludes it: a comment in `sub_controller.go` leaves this to
  the webhook, which does not look at it); a StatefulSet created while the ConfigMap
  could not be read keeps the default claims for good, and a compute group's then
  refuses every later template as well, since its claims differ.
* The broker's controller does not keep the old claim templates
  (`broker/controller.go:85-88` has no `RestrictConditionsEqual`): a changed one is sent,
  refused by the API server, and blocks every later update of the broker.
* A failed read of a ConfigMap rolls out default ports and paths (the next reconcile
  rolls them back), and without the FoundationDB ConfigMap the endpoint variable.
* Labels of compute groups and meta service enter the immutable selector, so an
  edit of labels blocks every later update; labels, affinity and init containers that
  are taken out of the spec are kept by the merge patch (`client.go:173`; CN uses Update).
* After an upgrade the first resize keeps the pods, the second restarts them: the first
  sends the repeated variables with the hash of the build without them.
* A path that is asked for twice is mounted twice, which the API server refuses in a
  pod: repeated cache paths of a compute group without volumes, and a data path that a
  DorisCluster lists beside a template volume.
* ConfigMaps and Secrets without a path are all mounted at one; a shared claim at
  the default path without persistent volumes mounts it twice.
* CN declares no container ports; the meta service declares 8000 and serves 5000
  (`PortsAgree` therefore compares with the ports the process listens at);
  `loadBalancerIP` is not part of the service's hash.
* Viper and `DORIS_HOME` are global to the process and shared by reconciles that
  run at the same time.

### Bounds

Two ordinals show every interaction of a pod that is worked on with one that must
be left alone; a third gives a pod between the two and a scale-down by more than
one. Two templates make one rollout; a third allows an edit in the middle of it.
In the runs of the rollout `MaxStarts` is one more than the starts that many edits
need, so that restarts are not cut off; `MaxRestarts` of 1 covers a container restart
before the pod is deleted. Runs with many faults have exactly the starts they need
and `MaxRestarts` 0 to stay within minutes: restarts are explored by the runs of the
rollout itself. For the frontends, four ordinals with two followers leave two
observers, so that one, both or none of them are surplus, and three faults cover a
failure of the retry and of the retry after it.

`cluster_groups`: two groups, because clearing one must leave the other alone; two
replicas, so that a resize is told from a removal; two faults, so that a repair can
fail too. Claims are the operator's there, the case with code of its own.
`coupled_cluster`: three frontends, two of them followers, so that one observer
can be surplus and both "scale to the followers" and "scale below them" can be
asked; components that share nothing are spread over four clusters. Two edits where
they depend on each other (scale and ConfigMap of the frontends), one elsewhere, and
one fault, which meet at every step. `EditElections` is the election number itself: the
properties of the run are those of a cluster whose election number stays. `webhook_certificates`: two
replicas for the race, two certificates for one renewal. `pod_templates`: specs and
configurations differ from the base by one feature or by features that do not
touch, and two edits go from any of them to any other.

### Fairness

Weak fairness for every step of the operator: it requeues (after 5 or 10 seconds)
until the cluster is healthy and is woken by pod and StatefulSet events. Weak
fairness for the informer and its resync, the StatefulSet controller, the kubelet
and the FE's heartbeat, which retry for ever. In `PodTemplates` it is written
`WF_round(NextRound)`: a reconcile that changes nothing still has to be forced, and
`Sync`, always enabled, is the only action that changes `round`. Strong fairness where
a step is enabled again and again but not all the time: `WaitDrainOver` (while
`handleWaitDrain` may wait, its deadline is a fixed time), in `DisaggregatedCluster`
the meta service's pod becoming ready, in `Certificates` the taking of a lease that others may hold. Container
restarts, edits and faults are never forced. Liveness is not claimed under
conflicts, crashes or failing SQL of a compute group, where nothing bounds the
number of faults; the other modules bound them by `MaxFaults`.

## 4. Proofs

Every theorem holds for all values of the constants, bounds included, that satisfy
the named assumptions of its module; TLC evaluates those in every run.

### Compute group

* `ComputeGroupProofs!TypeCorrect` - `Spec => []TypeOK`. The type of an action
  says that past TriggerDrain it names an ordinal, which the handlers rely on when
  they look the pod up. The one fact that is not local is that `Highest` of a
  nonempty set of ordinals is a member of it (`GreatestOrdinal`, by
  well-foundedness).
* `ComputeGroupProofs!OnDeleteCorrect` - if `stale` is not among the faults,
  `Spec => []OnDeleteWhileGraceful`. The property is not inductive: a reconcile
  decides on what it read, and writes later. The invariant adds that the cache is
  the object or is known to be old (`FreshCache`), that the annotation a reconcile
  read is still the stored one until its own write (`ReadIsCurrent`), and that a
  StatefulSet about to be applied without an action comes with OnDelete or finds
  no stored action (`ApplyKeepsOnDelete`).
* `ComputeGroupProofs!ReadyCorrect` - without `stale` and `lag`, `Spec =>
  ReadyIsTruthful`, under the other seven faults. `ReadyInv` adds to the above that
  the published revision is that of the template, or none is published yet. TLC violates the property
  under `lag` alone: the StatefulSet controller has not published the revision of a new
  template, so the pods of the old one count as updated. `stale` is excluded
  because the argument needs the StatefulSet that was read to be the stored one; TLC
  found no violation under `stale` alone in the 13 million states it reached
  with three replicas and two edits, which is not all of them.
* `ScaleDownProofs!ShrinkCorrect` - without `stale`, `api`, `exec` and `overlap`,
  `Spec => GracefulShrink`. The invariant `ShrinkInv` follows the number of replicas
  through a reconcile: a stored scale-down goes to what the user asks for and works
  on the pod at the edge of the replicas (`SoundAction`), a reconcile has read the
  replicas that are stored (`ReadReplicas`), and what it is about to finalize or to
  apply does not shrink them (`FinalizeKeeps`, `ApplyKeeps`). None of the four faults can
  be allowed: with four replicas and two edits TLC violates the property under each
  of them alone.
* `ScaleDownProofs!DropOnceCorrect` - with at most one edit and without `overlap`,
  `Spec => DropOnlyEmptyBackends`, under all other faults. This is the case of the run
  `scale_down_faults`. The core is a counting argument (`DropsOnlyDone`): if the
  backends to keep are listed and not marked (`Kept`) and the counters say
  Decommissioned, then those above are all done, because the kept ones account for
  every backend that is not marked. `OneEditInv`: nothing is scaled down yet, or the
  edits are used up and `Kept` holds.
* `ScaleDownProofs!DropEmptyCorrect` - the same property for any number of edits,
  without `stale`, `sql`, `crash` and `overlap`. The invariant `DropInv` says
  that `Kept` holds as long as the group may be taken down, that marks are gone before
  anything is applied and until then the StatefulSet is larger than asked
  (`MarksWhileLarge`), and bounds the replicas a reconcile holds by the stored and the
  asked ones (`ReadsCurrent`, `HeldReplicas`). What the exclusions stand for: TLC violates the
  property with three edits under `stale`, under `overlap`, under `sql` with `exec` and under
  `sql` with `conflict` (the drop after a decommission ignores its error,
  `prepare_modify.go:104`; the mark that stays behind is counted in the next
  scale-down, and a backend that still has tablets is dropped for it). `sql` alone and
  `crash`, with or without `exec`, `api` and `conflict`, pass on the instances tried (two
  replicas, three edits). `crash` is excluded because it breaks `MarksWhileLarge`:
  an operator that stops before each status update leaves the phase Decommissioning to a
  group whose StatefulSet is small already, and a backend that registers again before
  its pod is deleted is then marked a second time. That such a mark is gone before the
  group settles depends on the pods, which the invariant does not describe.
* `ScaleDownProofs!KeepCorrect` - without `stale` and `overlap`,
  `Spec /\ KeepsTemplate => NoNeedlessDelete`: a group that is only scaled, up and
  down, by either way of taking backends out, loses no pod that the user asks for. This
  is the case of the run `scale_down_faults`, and it covers the error path of the state
  machine, which applies the replicas asked for at once. Invariant `KeepInv`: there is
  one template, so a rolling update finds no pod (`OneTemplate`); a scale-down that is
  stored, held or about to be applied works at or above the replicas asked for
  (`StaysAbove`); and every pod asked for lies below the replicas of the StatefulSet,
  now (`KeepsStored`) and after the apply that is under way (`KeepsApplied`), so the
  StatefulSet controller does not take it either. `overlap` cannot be allowed: TLC shows
  an edit back up while the pod it asks for is being deleted. `stale` is excluded
  because the argument follows the stored StatefulSet; TLC found no violation
  under it alone in the 12 million states it reached with three replicas and two edits,
  which is not all of them.
* `RolloutProofs!DrainCorrect`, `NoNeedlessDeleteCorrect`, `OneOutOfServiceCorrect`
  and `AdvancesCorrect` - with `Faults = {}`, `Spec /\ NeverShrinks` implies
  `DrainBeforeDelete`, `NoNeedlessDelete`, `[]OneOutOfService` and
  `AdvancesOnReplacement`, for any number of replicas, templates and edits. This is the
  run `rolling_update` without its bounds: the operator's steps interleave with
  the StatefulSet controller, the kubelet, the FE's heartbeats, the cache and the
  user, who makes the next edit once the last has settled (any other edit is the fault
  `overlap`).

  The four share one inductive invariant, `RolloutInv`. `BaseInv` holds the types, the
  OnDelete argument and that the replicas only grow. `OperatorInv` follows what a
  reconcile reads and holds: the hash and revision of the StatefulSet are those
  of its template (`Written`), the state machine works on the stored action
  (`ReadsWritten`), and what is in memory, to be finalized or to be applied is what the user asks
  for (`HoldsSpec`, `Finalizes`, `Applies`). `PodsInv` ties the action to the pods:
  `Stage` says for each phase which generation the pod and the FE's entry
  for its backend have, with the action that is *in force*, which is the stored one or the one
  a reconcile is about to store; every other pod serves (`OthersServe`); no
  pod is outdated without an action that will find it (`NoneOutdated`). The
  properties are not inductive without it: that the alive backend the FE reports is the
  replacement's, say, follows from the generation recorded before the drain, four
  phases and several reconciles earlier.

  `Faults = {}` cannot be weakened: with three replicas and two edits, TLC violates each of the four
  properties under each of the nine faults alone (see the observations for the
  ones worth knowing). Nor can `NeverShrinks` for `DrainBeforeDelete`, which a scale-down
  breaks by way of the replicas that `scale_down_revert` shows.
* `RolloutProofs!ReplacesInTurnCorrect` - under the same assumptions
  `Spec /\ NeverShrinks => ReplacesInTurn`: `ComputeGroup` implements
  `RollingReplacement`. The invariant `TurnInv` adds to `RolloutInv` that a pod is being
  deleted only while it runs another template than the StatefulSet's
  (`DeletedOutdated`), which makes its disappearance a `Remove`, and that a group
  nobody has edited has no rollout (`Untouched`). `StepOfReplacement` maps the steps:
  `TriggerDrain` to `Stop`, the apply of a changed template to `Ask`, the steps of the
  StatefulSet controller, the kubelet and the FE to `Create`, `Start`, `Remove` or none
  (`PodTurn`: a pod that is being drained does not come back into service, since the
  sentinel keeps the kubelet's restart from serving), and all others to
  none. This is more than the four properties above: each of them speaks of one moment,
  the refinement of their order. It too fails in TLC under each of the nine faults alone
  and with scale-downs.

### Frontends

* `FrontendProofs!FrontendTypeCorrect` - `Spec => []TypeOK`, which includes that
  the StatefulSet is never applied below the election number.
* `FrontendProofs!DropCorrect` - if the election number is not edited,
  `Spec => DropOnlySurplus`. Invariant `OneElection`: every copy of the election
  number agrees, every observer is at or above it and every follower below. Then
  (`TopElements`) at most `replicas - election` observers lie below `replicas`, so
  the `observers - (replicas - election)` highest ones do not. Without the
  assumption the theorem is false (see the observations).
* `FrontendProofs!KeepsVotersCorrect` - under the same assumption
  `Spec => KeepsVoters`: `Frontend` implements `Membership` for any number of
  frontends and every fault. `DroppedFromTheTop` says that what a drop leaves is
  below what it takes, `DropIsLeave` that a drop is therefore a `Leave`, and
  `StepOfMembership` maps every action to one step of `Membership` or to none.
* `CoupledClusterProofs!CoupledTypeCorrect` - `Spec => []TypeOK`, inductive with
  `WithinEdits`: volumes and ConfigMaps have at most one version more than there were
  edits.
* `CoupledClusterProofs!FrontendsKeepVotersCorrect` - if the election number is not
  edited, `Spec => FrontendsKeepVoters`: the coupled cluster's frontends implement
  `Membership` too, under all other edits and every fault of the model, as long as reads of
  the StatefulSet are current, which the model assumes. Without the assumption on
  the election number the theorem is false (see the observations). `OneElection` says that
  every copy of the election number agrees and that the roles follow it; `Inv` adds
  that the count a reconcile works towards is never below the followers
  (`SafeTarget`: `safeScaleDown` refuses, and the revert follows) and that a
  component that is not there has no members (`AbsentIsEmpty`).

### The other parts

* `DisaggregatedClusterProofs!ClusterTypeCorrect` - `Spec => []TypeOK` for any finite
  set of groups.
* `DisaggregatedClusterProofs!ForgetCorrect` - `Spec => ForgetOnlyCleared`.
  Invariant `KnownUntilCleared`: as far as `ClearResources` has got, nothing is left
  of the removed groups, and until it is over the status in memory has every entry
  of the stored one, whatever calls failed and whatever was edited since.
* `CertificatesProofs!CertificatesTypeCorrect`, `BundlesCorrect`, `RenewCorrect` - for
  any number of replicas, renewals and faults. `CertificatesInv`: a
  replica about to store a Secret that has not changed since it was read replaces a
  certificate that is missing or ending, by its successor (`StoresSuccessor`), and what
  it is about to write to a configuration was in the Secret once (`HandFromSecret`).
* `PodTemplatesProofs!PodTemplatesTypeCorrect` - `Spec => []TypeOK`.
* `PodTemplatesProofs!PortsCorrect` - `Spec => []PortsAgree` for every spec and start
  configuration of all seven components: one argument per list of ports (`AskedPorts`)
  and per environment (`ContainerTells`). For `cn` and `dms` the ports are compared with
  those the process listens at, since their containers do not declare them.
* `PodTemplatesProofs!MountsCorrect` - `Spec => []MountsBacked`. `BuildBacked` shows of one
  build that the functions making mounts, volumes and claims agree when they are
  given one configuration; `UpdateBacked` that the hash, the compatibility rule,
  the merge patch and the immutable claim templates preserve it. It rests on
  `StoresAssumption`: the lists of stores, which folds and selections compute, are
  sequences, and a component of a DorisCluster without volumes has no claims.
  Both follow from the definitions by induction over the lists, which is
  out of reach here; TLC evaluates them for every spec and configuration of the run.
* `PodTemplatesProofs!UpgradeCorrect` - `Spec => UpgradeKeepsPods`, for every
  spec and configuration. Invariant `AllSettled`: a stored StatefulSet has the size it
  was hashed with, and where its environment variables are the hashed ones,
  another merge patch with the hashed template leaves its template as it is
  (`Settled`). The second part is needed because a merge patch keeps what the new
  object leaves empty, so the stored template is not the one that was sent. `PatchTwice`
  says that a merge patch is idempotent, `UpdateIs` what an update sends and
  keeps, `UpdateSettled` that it settles, whichever of the two hashes it compares;
  `ScaledKeeps` that an update which changes only the size then keeps the template, or,
  where the stored variables are no longer the hashed ones (`HashedWithout`: the second
  resize after an upgrade), changes nothing but the variables. What
  `LegacyEnv` computes is not needed: the property compares hashes of whatever it makes.

The inductive invariants were checked with TLC before they were proved.

### Only model-checked

Everything about liveness (`Converges`, `DecommissionEnds`, `FEConverges`,
`ClusterConverges`, `CoupledConverges`, `ConfigRolledOut`, `WebhooksTrusted`,
`TemplateRollsOut`), which is out of the prover's reach; and `DataMountedOnce`, which
needs to know what the folds of `Storage` compute for every list, an induction over
data.

## 5. Not modelled

* Creation of a compute group's StatefulSet in `ComputeGroup` (it starts right after
  it; `DisaggregatedCluster` has it) and deletion of a cluster, which owner
  references do; `GracefulActionDelete`, declared in the API and never created.
* Start mode IP of the frontends, where hosts are pod addresses; in `Frontend`, the
  creation of the StatefulSet and the default of unset replicas.
* Stale reads in `DisaggregatedCluster` and `CoupledCluster`. In the latter they
  matter: if the user lowers the replicas of a cluster with three new frontends to
  one, and in the next reconcile the cache does not have the StatefulSet yet when
  `prepareStatefulsetApply` asks (`fe/prepare_modify.go:39`) but has it when
  `ApplyStatefulSet` does, `safeScaleDown` is passed over and the StatefulSet shrinks
  into the followers. This is read from the code, not checked.
* In the builders: resources, tolerations, annotations, security contexts, the
  scripts of probes and hooks, which are copied from the spec or constant.
* The metrics and behaviour of the autoscaler object; the webhooks' validations,
  which compare two fields of one request; events and logging; TLS of the SQL
  connection.
* `dorisctl`, a read-only client; the generated clientset and deep copies; flags
  and manifests.

## 6. Plan

1. `ComputeGroup`, `Decommission`, `Frontend` and their first proofs (done).
2. `DisaggregatedCluster`, `CoupledCluster`, `Membership` with its two refinements,
   `Certificates`, `Storage` and `PodTemplates`; the refinement by `Frontend` proved
   (done).
3. Proofs: type correctness of every module; `BundlesFromSecret`, `RenewOnlyInvalid`,
   `ForgetOnlyCleared`, `FrontendsKeepVoters`; `GracefulShrink` and
   `DropOnlyEmptyBackends` of the compute group; `PortsAgree` and `MountsBacked` (done).
4. Proofs about the rollout: `ReadyIsTruthful`; `DrainBeforeDelete`, `NoNeedlessDelete`,
   `OneOutOfService` and `AdvancesOnReplacement` for a group that is not scaled down (done).
5. `RollingReplacement` and its refinement by `ComputeGroup`; `NoNeedlessDelete` of a group
   that is scaled, under faults; `UpgradeKeepsPods` (done).
6. Open: `OneOutOfService` with scale-downs; `DropOnlyEmptyBackends` under `crash` for any
   number of edits; the part of `DataMountedOnce` that does not depend on the folds.
