-------------------------- MODULE RollingReplacement --------------------------
(***************************************************************************)
(* What the graceful rollout of a compute group promises, whatever the     *)
(* order of reconciles, pod events and heartbeats: members are replaced in *)
(* turn.  The next one stops serving only when all the others serve, what  *)
(* is removed is outdated, what replaces it is as asked for, and something *)
(* else is asked for only after the last member has been replaced.         *)
(* ComputeGroup implements it.                                             *)
(***************************************************************************)
CONSTANTS Members,   \* the ordinals
          None       \* the version of a member that is not there

VARIABLES wanted,    \* the version asked for
          running,   \* member -> the version of its pod
          serving    \* the members that serve

\* Another version is asked for, once every member runs the last one.
Ask ==
    /\ serving = Members /\ \A m \in Members : running[m] = wanted
    /\ UNCHANGED <<running, serving>>

\* An outdated member stops serving, the others go on.
Stop(m) ==
    /\ serving = Members /\ running[m] # wanted
    /\ serving' = Members \ {m}
    /\ UNCHANGED <<wanted, running>>

\* It is removed after it has stopped.
Remove(m) ==
    /\ m \notin serving /\ running[m] # wanted
    /\ running' = [running EXCEPT ![m] = None]
    /\ UNCHANGED <<wanted, serving>>

\* One that is not there is created as asked for.
Create(m) ==
    /\ running[m] = None
    /\ running' = [running EXCEPT ![m] = wanted]
    /\ UNCHANGED <<wanted, serving>>

\* A member that is as asked for begins to serve.
Start(m) ==
    /\ running[m] = wanted
    /\ serving' = serving \cup {m}
    /\ UNCHANGED <<wanted, running>>

\* The group runs, or has just been created.
ReplacementInit ==
    /\ running \in [Members -> {wanted, None}]
    /\ serving \subseteq {m \in Members : running[m] = wanted}

ReplacementNext ==
    Ask \/ \E m \in Members : Stop(m) \/ Remove(m) \/ Create(m) \/ Start(m)

\* What an implementation has to satisfy, for every state function it puts in
\* place of the three variables.
ReplacementSpec == ReplacementInit /\ [][ReplacementNext]_<<wanted, running, serving>>
=============================================================================
