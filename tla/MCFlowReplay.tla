---------------------------- MODULE MCFlowReplay ----------------------------
(* Small instances of FlowReplay for TLC: every program of up to three     *)
(* steps.                                                                  *)
EXTENDS FlowReplay, SequencesExt

Step(kind, version, type, caught, skip) ==
    [kind |-> kind, version |-> version, type |-> type,
     caught |-> caught, skip |-> skip]

Steps ==
    {Step("activity", 1, 1, {}, 0), Step("activity", 1, 2, {}, 0),
     Step("activity", 2, 1, {"suspended"}, 0), Step("timer", 0, 0, {}, 0),
     Step("child", 1, 1, {}, 0), Step("child", 1, 1, {"failed"}, 1),
     Step("child", 1, 1, {"failed", "suspended"}, 0)}

UpToThree == BoundedSeq(Steps, 3)

(* Handlers that catch every error. *)
CatchingSteps ==
    {Step("activity", 1, 1, {}, 0),
     Step("child", 1, 1, {"failed", "suspended", "definition"}, 1)}

CatchAll == BoundedSeq(CatchingSteps, 2)
=============================================================================
