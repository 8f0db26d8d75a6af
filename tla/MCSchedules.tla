---------------------------- MODULE MCSchedules ----------------------------
(* Small instances of Schedules for TLC. *)
EXTENDS Schedules, TLC

Symmetry == Permutations(Process)

Utc == [at |-> 0, before |-> 0, after |-> 0, period |-> 2, phase |-> 1]
(* The wall clock goes back by 2 at instant 3: 1, 2, 3, 2, 3, 4 ... *)
FallBack == [at |-> 3, before |-> 1, after |-> -1, period |-> 1, phase |-> 0]
(* The wall clock goes forward by 2 at instant 3: 0, 1, 2, 5, 6 ... *)
SpringForward == [at |-> 3, before |-> 0, after |-> 2, period |-> 1, phase |-> 0]

Def(version, calendar, misfire, overlap) ==
    [version |-> version, calendar |-> calendar, grace |-> 1,
     misfire |-> misfire, overlap |-> overlap]
Skip == [kind |-> "skip"]
RunLatest == [kind |-> "run_latest"]
CatchUp(n) == [kind |-> "catch_up", max |-> n]

(* Two versions of one key, and a changed copy of the second. *)
Upgrades == {Def(1, FallBack, CatchUp(2), "queue_one"),
             Def(2, Utc, CatchUp(2), "skip_if_active"),
             Def(2, Utc, CatchUp(2), "queue_one")}
UpgradeLater == {Def(1, Utc, CatchUp(2), "queue_one"),
                 Def(2, FallBack, CatchUp(2), "queue_one")}

(* Every misfire and overlap policy on every calendar. *)
Policies == {Def(1, c, m, o) : c \in {Utc, FallBack, SpringForward},
                               m \in {Skip, RunLatest, CatchUp(3)},
                               o \in {"allow", "skip_if_active", "queue_one"}}
=============================================================================
