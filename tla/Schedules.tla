------------------------------ MODULE Schedules ------------------------------
(***************************************************************************)
(* One schedule key: its state row, its run rows and the processes that    *)
(* materialize it (runtime/schedule_materializer.rs, schedule.rs) or       *)
(* control it (admin/control.rs).  A tick reads the database clock, then   *)
(* commits T-S1, then T-S2; other processes, possibly with another version *)
(* of the definition, act in between.  T-S1, T-S2, T-A8 and T-A9 lock the  *)
(* state row.  Of the started workflows only whether they are active is    *)
(* kept.                                                                   *)
(***************************************************************************)
EXTENDS ScheduleCalendar, Sequences, SequencesExt

CONSTANTS
    Process,     \* runtimes and operator services, each with its registry
    Definition,  \* definitions of the key that are ever deployed
    Controls,    \* the operator calls that happen
    MaxTime,     \* bound on the clock
    MaxRuns      \* bound on the run rows operators add or restart

(* The fingerprint is the definition itself. *)
ASSUME ScheduleAssumption ==
    /\ Definition # {} /\ MaxTime \in Nat /\ MaxRuns \in Nat
    /\ \A d \in Definition :
        /\ d.calendar \in Calendar /\ d.version \in Nat \ {0}
        /\ d.grace \in Nat /\ d.overlap \in {"allow", "skip_if_active", "queue_one"}
        /\ d.misfire.kind \in {"skip", "run_latest", "catch_up"}

VARIABLES
    clock,     \* the database clock
    state,     \* durable_schedule_state of the key: no row or one
    runs,      \* durable_schedule_run of the key
    deployed,  \* the definition each process has registered
    tick       \* the tick of each process: step and the now it read

svars == <<clock, state, runs, deployed, tick>>

Run == [occurrence: Int, manual: BOOLEAN, scheduled_for: Int,
        status: {"started", "queued", "skipped", "coalesced"}, active: BOOLEAN]

StateRow == [definition: Definition, cursor: Int, due: Int, paused: BOOLEAN]

NoTick == [step |-> "idle", now |-> 0]

Materialized == {r.occurrence : r \in {q \in runs : ~q.manual}}
Active == {r \in runs : r.active}
Queued == {r \in runs : r.status = "queued"}
Init ==
    /\ clock = 0 /\ state = {} /\ runs = {}
    /\ deployed \in [Process -> Definition]
    /\ tick = [p \in Process |-> NoTick]
----------------------------------------------------------------------------
(* The environment: time, and a process replaced by another build. *)

ClockAdvances ==
    /\ clock < MaxTime /\ clock' = clock + 1
    /\ UNCHANGED <<state, runs, deployed, tick>>

EndTick(p) == tick' = [tick EXCEPT ![p] = NoTick]

Deploy(p) ==
    /\ "deploy" \in Controls
    /\ \E d \in Definition \ {deployed[p]} : deployed' = [deployed EXCEPT ![p] = d]
    /\ EndTick(p) /\ UNCHANGED <<clock, state, runs>>

----------------------------------------------------------------------------
(* materialize_schedule_now: one tick. *)

BeginTick(p) ==
    /\ tick[p].step = "idle"
    /\ tick' = [tick EXCEPT ![p] = [step |-> "reconcile", now |-> clock]]
    /\ UNCHANGED <<clock, state, runs, deployed>>

(* Mutant: At that keeps the stored instant. *)
AtOldInstant(s, d, o) == [s EXCEPT !.definition = d, !.cursor = o.local]

At(s, d, o) == [s EXCEPT !.definition = d, !.cursor = o.local, !.due = o.due]

(* T-S1: the first tick inserts the row, a newer version takes it over,    *)
(* an older one or a changed fingerprint ends the tick with Conflict.      *)
reconcile_state(p) ==
    LET d == deployed[p]
        now == tick[p].now
        first == next_after(d.calendar, now)
    IN  /\ tick[p].step = "reconcile"
        /\ \/ /\ state = {}
              /\ state' = {[definition |-> d, cursor |-> first.local,
                            due |-> first.due, paused |-> FALSE]}
              /\ EndTick(p)
           \/ \E s \in state :
                /\ s.definition = d
                /\ tick' = [tick EXCEPT ![p].step = "materialize"]
                /\ UNCHANGED state
           \/ \E s \in state :
                /\ s.definition # d /\ s.definition.version >= d.version
                /\ EndTick(p) /\ UNCHANGED state
           \/ \E s \in state :
                /\ s.definition.version < d.version
                /\ state' = {At(s, d, upgrade(d.calendar, now, Materialized))}
                /\ EndTick(p)
        /\ UNCHANGED <<clock, runs, deployed>>

(* Mutant: materialize_occurrence that does not look for a queued run. *)
QueuesEach(acc, o, outcome, overlap) ==
    LET status == CASE outcome = "skip" -> "skipped"
                    [] outcome = "coalesce" -> "coalesced"
                    [] outcome = "start" ->
                        IF ~acc.active \/ overlap = "allow" THEN "started"
                        ELSE IF overlap = "queue_one" THEN "queued"
                        ELSE "skipped"
    IN  [active |-> acc.active \/ status = "started", queued |-> acc.queued,
         rows |-> acc.rows \cup
            {[occurrence |-> o.local, manual |-> FALSE, scheduled_for |-> o.due,
              status |-> status, active |-> status = "started"]}]

(* One due occurrence under the overlap policy.  active and queued are     *)
(* counted before the first one and kept up to date from there.            *)
materialize_occurrence(acc, o, outcome, overlap) ==
    LET status == CASE outcome = "skip" -> "skipped"
                    [] outcome = "coalesce" -> "coalesced"
                    [] outcome = "start" ->
                        IF ~acc.active \/ overlap = "allow" THEN "started"
                        ELSE IF overlap = "queue_one" /\ ~acc.queued THEN "queued"
                        ELSE "skipped"
    IN  [active |-> acc.active \/ status = "started",
         queued |-> acc.queued \/ status = "queued",
         rows |-> acc.rows \cup
            {[occurrence |-> o.local, manual |-> FALSE, scheduled_for |-> o.due,
              status |-> status, active |-> status = "started"]}]

(* Mutant: promote_queued that starts nothing. *)
NothingPromoted == runs

(* The oldest queued run starts. *)
promote_queued ==
    LET oldest == CHOOSE q \in Queued :
                    \A r \in Queued : q.scheduled_for <= r.scheduled_for
    IN  (runs \ {oldest}) \cup {[oldest EXCEPT !.status = "started", !.active = TRUE]}

(* T-S2 on the definition it reconciled, from the state row it locks. *)
MaterializeDue(p, s) ==
    \E due \in {DueChunk(deployed[p].calendar, s.cursor, tick[p].now)} :
    LET d == deployed[p]
        now == tick[p].now
        following == following_runnable(d.calendar, d.misfire, due, now)
        promote == d.overlap = "queue_one" /\ Active = {} /\ Queued # {}
        before == [active |-> Active # {} \/ promote,
                   queued |-> Queued # {} /\ ~promote,
                   rows |-> IF promote THEN promote_queued ELSE runs]
        one(acc, o) == materialize_occurrence(
            acc, o, classify(o, due, d.misfire, d.grace, now, following), d.overlap)
        inOrder == SetToSortSeq(due, LAMBDA a, b : a.local < b.local)
    IN  /\ {o.local : o \in due} \cap Materialized = {}
        /\ runs' = FoldLeft(one, before, inOrder).rows
        /\ state' = {At(s, d, NextCursor(d.calendar, s.cursor, due))}

materialize_schedule(p) ==
    /\ tick[p].step = "materialize"
    /\ \E s \in state :
        \/ s.definition = deployed[p] /\ ~s.paused /\ MaterializeDue(p, s)
        \/ /\ s.definition # deployed[p] \/ s.paused
           /\ UNCHANGED <<state, runs>>
    /\ EndTick(p) /\ UNCHANGED <<clock, deployed>>

(* The process stops, a transaction fails or start_occurrence returns an   *)
(* error: whatever the tick wrote is rolled back.                          *)
AbandonTick(p) ==
    /\ tick[p].step # "idle"
    /\ EndTick(p) /\ UNCHANGED <<clock, state, runs, deployed>>

----------------------------------------------------------------------------
(* Operators and workflows. *)

set_schedule_paused(p, paused) ==
    /\ "pause" \in Controls
    /\ \E s \in state : /\ s.definition = deployed[p] /\ s.paused # paused
                        /\ state' = {[s EXCEPT !.paused = paused]}
    /\ UNCHANGED <<clock, runs, deployed, tick>>

run_schedule_now(p) ==
    LET at == Max({clock} \cup {r.scheduled_for + 1 : r \in runs})
    IN  /\ "run_now" \in Controls
        /\ Cardinality({r \in runs : r.manual}) < MaxRuns
        /\ \E s \in state : s.definition = deployed[p]
        /\ deployed[p].overlap = "allow" \/ Active = {}
        /\ runs' = runs \cup
            {[occurrence |-> at, manual |-> TRUE, scheduled_for |-> at,
              status |-> "started", active |-> TRUE]}
        /\ UNCHANGED <<clock, state, deployed, tick>>

WorkflowEnds(r) ==
    /\ r.active
    /\ runs' = (runs \ {r}) \cup {[r EXCEPT !.active = FALSE]}
    /\ UNCHANGED <<clock, state, deployed, tick>>

(* T-A5 links the successor of a finished workflow to the same run. *)
RestartRun(r) ==
    /\ "restart" \in Controls
    /\ r.status = "started" /\ ~r.active
    /\ runs' = (runs \ {r}) \cup {[r EXCEPT !.active = TRUE]}
    /\ UNCHANGED <<clock, state, deployed, tick>>

Next ==
    \/ ClockAdvances
    \/ \E p \in Process :
        \/ BeginTick(p) \/ reconcile_state(p) \/ materialize_schedule(p)
        \/ AbandonTick(p) \/ Deploy(p) \/ run_schedule_now(p)
        \/ \E paused \in BOOLEAN : set_schedule_paused(p, paused)
    \/ \E r \in runs : WorkflowEnds(r) \/ RestartRun(r)

Spec == Init /\ [][Next]_svars

(* Every process keeps ticking (run_task), failures do not go on forever,  *)
(* and started workflows finish.                                           *)
FairSpec ==
    /\ Spec
    /\ \A p \in Process : /\ WF_svars(BeginTick(p))
                          /\ SF_svars(reconcile_state(p))
                          /\ SF_svars(materialize_schedule(p))
    /\ WF_svars(\E r \in runs : WorkflowEnds(r))
----------------------------------------------------------------------------
(* The cursor is after every occurrence that has a run row, through        *)
(* upgrades that change calendar and time zone, upgrades by a tick whose   *)
(* clock reading is old, and repeated hours: no tick inserts an occurrence *)
(* again and fails on the unique key, now and at every retry.              *)
CursorAhead ==
    \A s \in state : \A l \in Materialized : l < s.cursor

(* The cursor is an occurrence of the definition stored beside it, and the *)
(* stored instant is that occurrence's: T-S2 never stops with "persisted   *)
(* local and UTC occurrences disagree", and never plans from a time the    *)
(* calendar does not have.                                                 *)
CursorOnCalendar ==
    \A s \in state :
        /\ CronAfter(s.definition.calendar, s.cursor - 1) = s.cursor
        /\ resolve(s.definition.calendar, s.cursor).due = s.due

(* A step that moves the cursor of one definition writes one run row for   *)
(* each occurrence it passes, and for no other; it passes only those that  *)
(* are due.                                                                *)
EveryOccurrenceRecorded ==
    [][\A s \in state, t \in state' :
        s.definition = t.definition =>
            LET passed == {CronAfter(s.definition.calendar, l) :
                                l \in s.cursor - 1 .. t.cursor - 1} \ {t.cursor}
                added == {r \in runs' : ~r.manual /\ r.occurrence \notin Materialized}
            IN  /\ {r.occurrence : r \in added} = {l \in passed : l < t.cursor}
                /\ Cardinality(added) = Cardinality(passed)
                /\ \A l \in passed : resolve(s.definition.calendar, l).due <= clock
      ]_svars

(* Unless overlap is allowed, a tick or a run-now that starts a run found  *)
(* no active one and starts only one, and no step leaves more than one run *)
(* queued, although a tick may promote a queued run and go through several *)
(* due occurrences, and run-nows, restarts and upgrades of the policy come *)
(* in between.                                                             *)
OverlapPolicyKept ==
    [][LET started(rows) == Cardinality({r \in rows : r.status = "started"})
       IN  /\ started(runs') > started(runs)
              /\ (\A s \in state : s.definition.overlap # "allow") =>
                    Active = {} /\ started(runs') = started(runs) + 1
           /\ Cardinality(Queued') <= 1]_svars

(* The ticks that work off a backlog in chunks decide of each occurrence   *)
(* what one tick over all of it would have decided: a chunk counts the     *)
(* runnable occurrences after it.                                          *)
ChunksAgree ==
    \A s \in state :
        LET d == s.definition
            plan(due, following) ==
                {<<o.local, classify(o, due, d.misfire, d.grace, clock, following)>> :
                    o \in due}
            chunked[l \in Int] ==
                LET due == DueChunk(d.calendar, l, clock)
                IN  IF due = {} THEN {}
                    ELSE plan(due, following_runnable(d.calendar, d.misfire, due, clock))
                         \cup chunked[NextCursor(d.calendar, l, due).local]
        IN  chunked[s.cursor] = plan(Backlog(d.calendar, s.cursor, clock), 0)

(* While nobody pauses the schedule, a backlog is eventually worked off,   *)
(* although processes with an older version keep ticking, ticks fail and   *)
(* chunks are small.                                                       *)
BacklogWorkedOff ==
    (\E s \in state : s.due <= clock) ~> (\A s \in state : s.due > clock)

(* Queued runs eventually start under queue_one, although ticks fail and   *)
(* an operator's run-now may start between the end of the active run and   *)
(* the tick that would have promoted the queued one.  The clock stops at   *)
(* MaxTime, so the queue is even emptied; a row leaves it only by starting.*)
QueuedStarts == (Queued # {}) ~> (Queued = {})
=============================================================================
