-------------------------- MODULE ScheduleCalendar --------------------------
(***************************************************************************)
(* Schedule calendars (schedule.rs, schedule/cursor.rs) and the plan of a  *)
(* materializer tick (runtime/schedule_materializer.rs), as operators.     *)
(* Instants and wall-clock times are integers (seconds).  A calendar is a  *)
(* cron expression that matches the wall-clock times phase, phase +        *)
(* period, ..., in a time zone with one change of its offset, at instant   *)
(* at: a gap when the offset grows, a repeated hour when it shrinks.       *)
(***************************************************************************)
EXTENDS Integers, FiniteSets, FiniteSetsExt

CONSTANTS
    MAX_GAP_SCAN_SECONDS,
    MAX_DUE_OCCURRENCES_PER_TICK

ASSUME ScanAssumption ==
    /\ MAX_GAP_SCAN_SECONDS \in Nat \ {0}
    /\ MAX_DUE_OCCURRENCES_PER_TICK \in Nat \ {0}

Calendar == [at: Int, before: Int, after: Int, period: Nat \ {0}, phase: Int]

(* chrono: the wall clock at an instant, the instants of a wall-clock time. *)
naive_local(cal, t) == t + (IF t < cal.at THEN cal.before ELSE cal.after)

from_local_datetime(cal, l) ==
    {t \in {l - cal.before} : t < cal.at} \cup {t \in {l - cal.after} : t >= cal.at}

(* cron: the next wall-clock time after l that the expression matches. *)
CronAfter(cal, l) == l + 1 + ((cal.phase - (l + 1)) % cal.period)

(* A repeated time runs at its earlier pass.  A time in a gap is due when  *)
(* the gap ends, and is never run.                                         *)
resolve(cal, l) ==
    LET single(p) == Cardinality(from_local_datetime(cal, p)) = 1
        probe == Min({p \in l + 1 .. l + MAX_GAP_SCAN_SECONDS : single(p)})
    IN  IF from_local_datetime(cal, l) # {}
        THEN [local |-> l, due |-> Min(from_local_datetime(cal, l)), gap |-> FALSE]
        ELSE [local |-> l, due |-> Min(from_local_datetime(cal, probe)), gap |-> TRUE]

next_after_local(cal, l) == resolve(cal, CronAfter(cal, l))

(* The first occurrence after the wall clock whose instant is after t: in  *)
(* the second pass of a repeated hour the loop goes past the occurrences   *)
(* of the first.  It passes at most the repeated span.                     *)
next_after(cal, t) ==
    LET wall == naive_local(cal, t)
        span == IF cal.before > cal.after THEN cal.before - cal.after ELSE 0
        slots == {CronAfter(cal, l) : l \in wall .. wall + span}
    IN  resolve(cal, Min({s \in slots : resolve(cal, s).due > t}))

(* The largest number of later runnable occurrences that matters. *)
Budget(misfire) ==
    CASE misfire.kind = "skip" -> 0
      [] misfire.kind = "run_latest" -> 1
      [] misfire.kind = "catch_up" -> misfire.max

(* Everything due from the cursor on. *)
Backlog(cal, cursor, now) ==
    {o \in {resolve(cal, CronAfter(cal, l)) :
                l \in cursor - 1 .. now + Max({cal.before, cal.after})} :
        o.due <= now}

(* One tick takes the first MAX_DUE_OCCURRENCES_PER_TICK of the backlog.  *)
DueChunk(cal, cursor, now) ==
    LET all == Backlog(cal, cursor, now)
    IN  {o \in all : Cardinality({e \in all : e.local < o.local})
                        < MAX_DUE_OCCURRENCES_PER_TICK}

(* Mutants: NextCursor on the last of the chunk, and one too far. *)
OnLast(cal, cursor, due) ==
    resolve(cal, IF due = {} THEN cursor ELSE Max({o.local : o \in due}))
OneTooFar(cal, cursor, due) ==
    IF due = {} THEN resolve(cal, cursor)
    ELSE next_after_local(cal, CronAfter(cal, Max({o.local : o \in due})))

NextCursor(cal, cursor, due) ==
    IF due = {} THEN resolve(cal, cursor)
    ELSE next_after_local(cal, Max({o.local : o \in due}))

(* Mutant: following_runnable of a plan that looks at its chunk only. *)
NothingFollows(cal, misfire, due, now) == 0

(* What next_runnable_through finds, one after the other: due, and not in  *)
(* a gap (the code jumps over a gap, where nothing runs).                  *)
runnable_through(cal, after, now) ==
    {o \in Backlog(cal, after + 1, now) : ~o.gap}

(* Runnable occurrences that stay due after the chunk, counted up to the   *)
(* budget.                                                                 *)
following_runnable(cal, misfire, due, now) ==
    LET later == runnable_through(cal, Max({d.local : d \in due}), now)
    IN  IF due = {} THEN 0 ELSE Min({Budget(misfire), Cardinality(later)})

(* What the misfire policy says of one due occurrence. *)
classify(o, due, misfire, grace, now, following) ==
    LET newer == {e \in due : ~e.gap /\ e.local > o.local}
    IN  CASE o.gap -> "skip"
          [] ~o.gap /\ misfire.kind = "skip" ->
                IF o.due + grace < now THEN "skip" ELSE "start"
          [] ~o.gap /\ misfire.kind = "run_latest" ->
                IF newer = {} /\ following = 0 THEN "start" ELSE "coalesce"
          [] ~o.gap /\ misfire.kind = "catch_up" ->
                IF Cardinality(newer) + following < misfire.max
                THEN "start" ELSE "skip"

(* MaterializedFloor: the largest calendar occurrence with a run row.      *)
(* Mutant: upgrade that ignores it.                                        *)
UpgradeFromNow(cal, now, materialized) == next_after(cal, now)

upgrade(cal, now, materialized) ==
    LET next == next_after(cal, now)
        floor == Max(materialized)
    IN  IF materialized # {} /\ next.local <= floor
        THEN next_after_local(cal, floor) ELSE next
=============================================================================
