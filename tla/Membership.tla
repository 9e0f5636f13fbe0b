------------------------------ MODULE Membership ------------------------------
(***************************************************************************)
(* What the scaling of frontends promises, whatever the order of SQL       *)
(* statements, patches, retries and pod events: members of the FE's        *)
(* metadata leave from the top and only above the target, a voter never    *)
(* leaves, and the StatefulSet is only ever given the target, never one    *)
(* that takes a running voter away.  Frontend and CoupledCluster both      *)
(* implement it.                                                           *)
(***************************************************************************)
EXTENDS Integers

CONSTANT Voters     \* the election number: ordinals below it vote

VARIABLES target,   \* the replica count the operator is working towards
          size,     \* the replica count of the StatefulSet
          members   \* ordinals in the FE's metadata

\* A reconcile takes up another target; nothing else changes.
Retarget == target' \in Nat /\ UNCHANGED <<size, members>>

\* Frontends that start register themselves.
Join == members \subseteq members' /\ members' \subseteq Nat /\ UNCHANGED <<target, size>>

\* Members above the target leave, the highest first, and never a voter; the
\* target may be given up with the last of them (an error ends the reconcile).
Leave ==
    /\ members' \subseteq members
    /\ \A d \in members \ members' :
         /\ d >= target /\ d >= Voters
         /\ \A m \in members' : m < d
    /\ target' \in Nat /\ UNCHANGED size

\* The StatefulSet is given the target; it shrinks to no fewer than the voters.
Resize ==
    /\ size' = target
    /\ size' < size => size' >= Voters
    /\ UNCHANGED <<target, members>>

MembershipInit == target \in Nat /\ size \in Nat /\ members \subseteq Nat
MembershipNext == Retarget \/ Join \/ Leave \/ Resize

\* What an implementation has to satisfy, for every state function it puts in
\* place of the three variables.
MembershipSpec == MembershipInit /\ [][MembershipNext]_<<target, size, members>>
=============================================================================
