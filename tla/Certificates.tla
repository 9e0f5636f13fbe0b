------------------------------ MODULE Certificates ------------------------------
(***************************************************************************)
(* The certificate of the operator's admission webhooks                    *)
(* (pkg/controller/unnamedwatches, pkg/common/utils/certificate and the    *)
(* start of cmd/operator): a self-signed certificate lives in a Secret,    *)
(* the mutating and the validating webhook configuration carry a copy of   *)
(* it as their CA bundle, and the kubelet mounts the Secret into every     *)
(* operator pod, which serves the webhooks with it.                        *)
(*                                                                         *)
(* Every replica of the operator runs the reconciliation once before it is *)
(* elected (WResource.Init); the leader runs it again for every event of   *)
(* the Secret.  The three objects are read and written one by one, and a   *)
(* write is refused when the object changed since it was read.             *)
(***************************************************************************)
EXTENDS Naturals, FiniteSets

CONSTANTS Replicas,       \* the operator's pods
          NoLeader,       \* no replica
          MaxGen,         \* bound: certificates stored in the Secret one after another
          MaxFaults       \* bound: refused calls, restarts, foreign writes

ASSUME ConstantsAssumption ==
    /\ NoLeader \notin Replicas /\ MaxGen \in Nat \ {0}
    /\ MaxFaults \in Nat

VARIABLES
    secret,      \* the Secret: its certificate, and whether that is about to end
    bundle,      \* configuration -> the CA bundle of its webhooks
    mount,       \* replica -> the certificate in the directory the kubelet mounts
    pc,          \* replica -> next step of its process
    stage,       \* replica -> the watch whose Reconcile runs
    hand,        \* replica -> the certificate it is about to write
    current,     \* replica -> the object it read last has not changed since
    leader,      \* the elected replica, or NoLeader
    queued,      \* the leader's work queue holds the request
    faults       \* faults and foreign writes so far

vars == <<secret, bundle, mount, pc, stage, hand, current, leader, queued, faults>>

-----------------------------------------------------------------------------
(* Certificates are told apart by who made them and by how many the Secret   *)
(* held before; generation 0 is a Secret without a usable certificate.       *)

Configurations == {"mutating", "validating"}
NoCert   == [gen |-> 0, by |-> NoLeader]
Certs    == [gen : 1..MaxGen, by : Replicas] \cup {NoCert}

PCs    == {"off", "secret", "store", "get", "update", "await", "idle"}
Stages == {"renew mutating", "renew validating", "validating", "mutating"}

\* The Secret, the configurations and the operator's replicas.
TypeOK ==
    /\ secret \in [cert : Certs, ending : BOOLEAN]
    /\ bundle \in [Configurations -> Certs]
    /\ mount \in [Replicas -> Certs] /\ hand \in [Replicas -> Certs]
    /\ pc \in [Replicas -> PCs] /\ stage \in [Replicas -> Stages]
    /\ current \in [Replicas -> BOOLEAN]
    /\ leader \in Replicas \cup {NoLeader} /\ queued \in BOOLEAN
    /\ faults \in 0..MaxFaults

\* A Secret that holds a certificate and its key can be parsed.
BuildCAFromSecret(s) == s.cert # NoCert

\* Valid until UpdateCABefore (ten minutes) before the certificate's end.
ValidCA(s) == ~ s.ending

\* A new key and a certificate signed with it.
NewCAConfigSecret(r) == [gen |-> secret.cert.gen + 1, by |-> r]

\* The name that the watch of an object compares the object's name with: for the
\* configurations it is the watch's own name, which no object has.
WatchedName == [secret |-> "secret", mutating |-> "mutating-watch", validating |-> "validating-watch"]

\* The event of an object is queued only if its watch knows the name.
ToReconcileRequest(object) == object = WatchedName[object]

\* The leader's handlers receive an event of an object.
Notify(object) == queued' = (queued \/ (leader # NoLeader /\ ToReconcileRequest(object)))

-----------------------------------------------------------------------------
(* ReconcileResource: the watches of the Secret, of the validating and of    *)
(* the mutating configuration, in this order; the first error ends it.       *)

\* The configuration that a stage reads and writes.
Target(s) == IF s \in {"renew mutating", "mutating"} THEN "mutating" ELSE "validating"

\* ReconcileResource is over: Init goes on to wait for the mounted file,
\* the controller takes the next request.
Finished(r) == IF leader = r THEN "idle" ELSE "await"

\* What a reconciliation of r held in memory is gone; r goes on at step p.
Leave(r, p) ==
    /\ pc' = [pc EXCEPT ![r] = p]
    /\ stage' = [stage EXCEPT ![r] = "renew mutating"]
    /\ hand' = [hand EXCEPT ![r] = NoCert]
    /\ current' = [current EXCEPT ![r] = FALSE]

\* An error: the controller puts the request back; Init only logs it.
Fail(r) ==
    /\ Leave(r, Finished(r))
    /\ queued' = (queued \/ leader = r)
    /\ UNCHANGED <<secret, bundle, mount, leader>>

\* A call to the API server fails.
CallFails(r) ==
    /\ pc[r] \in {"secret", "store", "get", "update"} /\ faults < MaxFaults
    /\ faults' = faults + 1
    /\ Fail(r)

\* Mutant of ReconcileSecret: the old certificate's owner is kept for the new one.
ReconcileSecretSameOwner(r) ==
    /\ pc[r] = "secret" /\ stage[r] = "renew mutating"
    /\ IF BuildCAFromSecret(secret) /\ ValidCA(secret)
       THEN /\ stage' = [stage EXCEPT ![r] = "validating"]
            /\ UNCHANGED <<pc, hand, current>>
       ELSE /\ pc' = [pc EXCEPT ![r] = "store"]
            /\ hand' = [hand EXCEPT ![r] = [secret.cert EXCEPT !.gen = @ + 1]]
            /\ current' = [current EXCEPT ![r] = TRUE]
            /\ stage' = stage
    /\ UNCHANGED <<secret, bundle, mount, leader, queued, faults>>

\* WatchSecret.Reconcile reads the Secret.  A valid certificate leads on to the
\* next watch, any other to a new one.
ReconcileSecret(r) ==
    /\ pc[r] = "secret" /\ stage[r] = "renew mutating"
    /\ IF BuildCAFromSecret(secret) /\ ValidCA(secret)
       THEN /\ stage' = [stage EXCEPT ![r] = "validating"]
            /\ UNCHANGED <<pc, hand, current>>
       ELSE /\ pc' = [pc EXCEPT ![r] = "store"]
            /\ hand' = [hand EXCEPT ![r] = NewCAConfigSecret(r)]
            /\ current' = [current EXCEPT ![r] = TRUE]
            /\ stage' = stage
    /\ UNCHANGED <<secret, bundle, mount, leader, queued, faults>>

\* The object that r read last and writes next.
Reading(r) == IF pc[r] = "store" THEN "secret" ELSE IF pc[r] = "update" THEN Target(stage[r]) ELSE "none"

\* Nobody's copy of object k is current any more.
Outdate(k) == [r \in Replicas |-> current[r] /\ Reading(r) # k]

\* Mutant of StoreSecret: the Secret is written whatever it holds by now.
StoreSecretBlindly(r) ==
    /\ pc[r] = "store"
    /\ secret' = [cert |-> hand[r], ending |-> FALSE]
    /\ current' = Outdate("secret")
    /\ pc' = [pc EXCEPT ![r] = "get"]
    /\ Notify("secret")
    /\ UNCHANGED <<bundle, mount, stage, hand, leader, faults>>

\* Update of the Secret with the new certificate; the event reaches the leader.
StoreSecret(r) ==
    /\ pc[r] = "store" /\ current[r]
    /\ secret' = [cert |-> hand[r], ending |-> FALSE]
    /\ current' = Outdate("secret")
    /\ pc' = [pc EXCEPT ![r] = "get"]
    /\ Notify("secret")
    /\ UNCHANGED <<bundle, mount, stage, hand, leader, faults>>

\* Get of the configuration of this stage.
GetConfiguration(r) ==
    /\ pc[r] = "get"
    /\ current' = [current EXCEPT ![r] = TRUE]
    /\ pc' = [pc EXCEPT ![r] = "update"]
    /\ UNCHANGED <<secret, bundle, mount, stage, hand, leader, queued, faults>>

\* The step after a stage.  Renewing handles both configurations itself; the
\* watches of the configurations follow it, each from its own read of the Secret.
NextStage(s) ==
    CASE s = "renew mutating"   -> "renew validating"
      [] s = "renew validating" -> "validating"
      [] OTHER                  -> "mutating"

\* Mutant of Advance: Reconcile returns after renewing, without the other watches.
AdvanceNoWatches(r, still) ==
    IF stage[r] = "renew mutating"
    THEN /\ pc' = [pc EXCEPT ![r] = "get"]
         /\ stage' = [stage EXCEPT ![r] = NextStage(@)]
         /\ current' = still /\ hand' = hand
    ELSE Leave(r, Finished(r))

\* Replica r goes on after a written configuration; still: copies that stay current.
Advance(r, still) ==
    IF stage[r] = "mutating"
    THEN Leave(r, Finished(r))
    ELSE /\ pc' = [pc EXCEPT ![r] = IF stage[r] = "renew mutating" THEN "get" ELSE "secret"]
         /\ stage' = [stage EXCEPT ![r] = NextStage(@)]
         /\ current' = still /\ hand' = hand

\* Update of the configuration.  A write that changes nothing is no new version.
UpdateConfiguration(r) ==
    LET k == Target(stage[r]) IN
    /\ pc[r] = "update" /\ current[r]
    /\ bundle' = [bundle EXCEPT ![k] = hand[r]]
    /\ Advance(r, IF bundle[k] = hand[r] THEN [current EXCEPT ![r] = FALSE] ELSE Outdate(k))
    /\ Notify(k)
    /\ UNCHANGED <<secret, mount, leader, faults>>

\* Mutant of Conflict: after a lost race for the Secret the bundles are still written.
ConflictGoesOn(r) ==
    /\ pc[r] \in {"store", "update"} /\ ~ current[r] /\ faults' = faults
    /\ IF pc[r] = "store"
       THEN /\ pc' = [pc EXCEPT ![r] = "get"]
            /\ UNCHANGED <<secret, bundle, mount, stage, hand, current, leader, queued>>
       ELSE Fail(r)

\* The object changed since it was read.
Conflict(r) ==
    /\ pc[r] \in {"store", "update"} /\ ~ current[r]
    /\ Fail(r) /\ faults' = faults

\* The watch of a configuration reads the Secret; its certificate is the bundle.
ReadSecret(r) ==
    /\ pc[r] = "secret" /\ stage[r] \in Configurations
    /\ hand' = [hand EXCEPT ![r] = secret.cert]
    /\ pc' = [pc EXCEPT ![r] = "get"]
    /\ UNCHANGED <<secret, bundle, mount, stage, current, leader, queued, faults>>

-----------------------------------------------------------------------------
(* The operator's process. *)

\* ReconcileResource starts with the watch of the Secret.
Reconcile(r) ==
    /\ pc' = [pc EXCEPT ![r] = "secret"]
    /\ stage' = [stage EXCEPT ![r] = "renew mutating"]

\* The container starts; Init forces a first reconciliation.
Boot(r) ==
    /\ pc[r] = "off" /\ Reconcile(r)
    /\ UNCHANGED <<secret, bundle, mount, hand, current, leader, queued, faults>>

\* main finds the certificate file and starts the manager.
CertificatePresent(r) ==
    /\ pc[r] = "await" /\ mount[r] # NoCert
    /\ pc' = [pc EXCEPT ![r] = "idle"]
    /\ UNCHANGED <<secret, bundle, mount, stage, hand, current, leader, queued, faults>>

\* The process ends.
Stop(r) ==
    /\ Leave(r, "off")
    /\ leader' = IF leader = r THEN NoLeader ELSE leader
    /\ queued' = (queued /\ leader # r)
    /\ UNCHANGED <<secret, bundle, mount>>

\* The wait for the file expires and main exits.
WaitExpires(r) == pc[r] = "await" /\ mount[r] = NoCert /\ Stop(r) /\ faults' = faults

\* The process ends anywhere else.
Crash(r) == pc[r] # "off" /\ faults < MaxFaults /\ faults' = faults + 1 /\ Stop(r)

\* The controller starts with the lease; the first list delivers the Secret.
Elect(r) ==
    /\ leader = NoLeader /\ pc[r] = "idle"
    /\ leader' = r /\ queued' = TRUE
    /\ UNCHANGED <<secret, bundle, mount, pc, stage, hand, current, faults>>

\* The controller takes the request.
ReconcileRequest(r) ==
    /\ leader = r /\ pc[r] = "idle" /\ queued
    /\ queued' = FALSE /\ Reconcile(r)
    /\ UNCHANGED <<secret, bundle, mount, hand, current, leader, faults>>

\* The informer's periodic resync delivers the Secret again.
Resync ==
    /\ leader # NoLeader /\ ~ queued /\ queued' = TRUE
    /\ UNCHANGED <<secret, bundle, mount, pc, stage, hand, current, leader, faults>>

-----------------------------------------------------------------------------
(* Around the operator. *)

\* The kubelet refreshes the mounted Secret.
KubeletSync(r) ==
    /\ mount[r] # secret.cert /\ mount' = [mount EXCEPT ![r] = secret.cert]
    /\ UNCHANGED <<secret, bundle, pc, stage, hand, current, leader, queued, faults>>

\* The certificate comes within UpdateCABefore of its end.  No event follows.
Expire ==
    /\ ~ secret.ending /\ BuildCAFromSecret(secret) /\ secret.cert.gen < MaxGen
    /\ secret' = [secret EXCEPT !.ending = TRUE]
    /\ UNCHANGED <<bundle, mount, pc, stage, hand, current, leader, queued, faults>>

\* Somebody applies a webhook configuration without a bundle.
OverwriteConfiguration(k) ==
    /\ faults < MaxFaults /\ faults' = faults + 1
    /\ bundle[k] # NoCert
    /\ bundle' = [bundle EXCEPT ![k] = NoCert]
    /\ current' = Outdate(k)
    /\ Notify(k)
    /\ UNCHANGED <<secret, mount, pc, stage, hand, leader>>

Init ==
    /\ secret = [cert |-> NoCert, ending |-> FALSE]
    /\ bundle = [k \in Configurations |-> NoCert]
    /\ mount = [r \in Replicas |-> NoCert] /\ hand = mount
    /\ pc = [r \in Replicas |-> "off"]
    /\ stage = [r \in Replicas |-> "renew mutating"]
    /\ current = [r \in Replicas |-> FALSE]
    /\ leader = NoLeader /\ queued = FALSE /\ faults = 0

\* The steps of a running reconciliation.
Step(r) ==
    \/ ReconcileSecret(r) \/ StoreSecret(r) \/ GetConfiguration(r)
    \/ UpdateConfiguration(r) \/ ReadSecret(r) \/ Conflict(r)

Process(r) == Boot(r) \/ CertificatePresent(r) \/ Elect(r) \/ ReconcileRequest(r) \/ KubeletSync(r)

Next ==
    \/ \E r \in Replicas : Step(r) \/ Process(r) \/ CallFails(r) \/ WaitExpires(r) \/ Crash(r)
    \/ Resync \/ Expire
    \/ \E k \in Configurations : OverwriteConfiguration(k)

Spec == Init /\ [][Next]_vars

\* The process runs, a pod is restarted, the lease is taken, the informer resyncs
\* (SyncPeriod, ten hours by default) and the kubelet syncs.
Fairness ==
    /\ WF_vars(Resync)
    /\ \A r \in Replicas :
         /\ WF_vars(Step(r)) /\ WF_vars(KubeletSync(r))
         /\ WF_vars(Boot(r) \/ CertificatePresent(r) \/ WaitExpires(r) \/ ReconcileRequest(r)) /\ SF_vars(Elect(r))

FairSpec == Spec /\ Fairness

-----------------------------------------------------------------------------
(* Properties. *)

\* A certificate is replaced only once it is not valid any more, however many
\* replicas start at the same time: the Update of WatchSecret.Reconcile carries the
\* version that ValidCA has refused.
RenewOnlyInvalid == [][secret'.cert # secret.cert /\ BuildCAFromSecret(secret) => ~ ValidCA(secret)]_vars

\* No configuration trusts a certificate that the Secret never held: one that
\* lost the race is not written to a bundle (WatchSecret.Reconcile returns first).
BundlesFromSecret ==
    \A k \in Configurations :
       bundle[k].gen < secret.cert.gen \/ bundle[k] = secret.cert

\* Whatever fails on the way, the Secret ends up valid, both configurations
\* trust its certificate and every pod serves it (ReconcileResource runs the
\* watches of the configurations after that of the Secret).
WebhooksTrusted ==
    <>[](/\ BuildCAFromSecret(secret) /\ ValidCA(secret)
         /\ \A k \in Configurations : bundle[k] = secret.cert
         /\ \A r \in Replicas : mount[r] = secret.cert)
=============================================================================
