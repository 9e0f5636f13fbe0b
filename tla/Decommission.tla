------------------------------ MODULE Decommission ------------------------------
(***************************************************************************)
(* The pure part of taking backends out of a compute group:                *)
(* pkg/common/utils/resource/decommission.go classifies what the FE lists, *)
(* and getScaledOutBENode (prepare_modify.go) picks the backends above the *)
(* amount to keep.  A backend list is a function from pod ordinals to      *)
(* records; decom is "no" (not SystemDecommissioned), "moving"             *)
(* (SystemDecommissioned, tablets left) or "done" (no tablet left).        *)
(***************************************************************************)
EXTENDS Integers, FiniteSets

\* ConstructDecommissionTaskStatus: the three counters over the listed backends.
CountDecom(list, d) == Cardinality({o \in DOMAIN list : list[o].decom = d})

\* Counters of a DecommissionTaskStatus for a list and an amount to keep.
ConstructDecommissionTaskStatus(list, keep) ==
    [all    |-> Cardinality(DOMAIN list),
     undec  |-> CountDecom(list, "no"),
     moving |-> CountDecom(list, "moving"),
     done   |-> CountDecom(list, "done"),
     keep   |-> keep]

\* Mutant of GetDecommissionPhase: backends whose tablets still move count as done.
PhaseIgnoresTablets(d) ==
    IF d.moving = 0 /\ d.done = 0 /\ d.undec > d.keep THEN "Acceptable"
    ELSE IF d.undec = d.keep                           THEN "Decommissioned"
    ELSE "Unknown"

\* Mutant of GetDecommissionPhase: off by one in the test of completion.
PhaseNeverDone(d) ==
    IF d.moving = 0 /\ d.done = 0 /\ d.undec > d.keep THEN "Acceptable"
    ELSE IF d.undec = d.keep /\ d.moving > 0           THEN "Decommissioning"
    ELSE IF d.undec < d.keep /\ d.undec + d.done = d.all THEN "Decommissioned"
    ELSE "Unknown"

\* DecommissionTaskStatus.GetDecommissionPhase: the tests in the code's order.
GetDecommissionPhase(d) ==
    IF d.moving = 0 /\ d.done = 0 /\ d.undec > d.keep         THEN "Acceptable"
    ELSE IF d.undec = d.keep /\ d.moving > 0                  THEN "Decommissioning"
    ELSE IF d.undec = d.keep /\ d.undec + d.done = d.all      THEN "Decommissioned"
    ELSE "Unknown"

\* getScaledOutBENode: the listed backends whose pod number is not kept.
ScaledOut(list, keep) == {o \in DOMAIN list : o >= keep}
=============================================================================
