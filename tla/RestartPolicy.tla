--------------------------- MODULE RestartPolicy ---------------------------
(***************************************************************************)
(* The restart policy of one supervised task (runtime/restart.rs), as      *)
(* supervise (runtime/supervisor.rs) applies it: the budget of faults and  *)
(* panics, the clock of a transient outage and the restart backoff.        *)
(* events is the history the properties speak of; the code keeps the rest. *)
(***************************************************************************)
EXTENDS Naturals, FiniteSets, FiniteSetsExt

CONSTANTS
    restart_backoff, max_restart_backoff, task_healthy_after,
    max_task_restarts, restart_window, max_transient_outage,
    None,
    MaxTime  \* bound on the clock

(* DurableRuntime::new refuses zero for these. *)
ASSUME ConfigAssumption ==
    /\ {restart_backoff, task_healthy_after, max_task_restarts,
        restart_window, max_transient_outage} \subseteq Nat \ {0}
    /\ max_restart_backoff \in Nat /\ MaxTime \in Nat

VARIABLES
    now,        \* the monotonic clock
    runs_from,  \* when the current run began, after its delay
    restarts,   \* TaskRestarts
    verdict,    \* whether the task runs, or why the runtime stopped
    events      \* the failures so far

rvars == <<now, runs_from, restarts, verdict, events>>

max_backoff == Max({max_restart_backoff, restart_backoff})

(* The first failure creates TaskRestarts. *)
NewTaskRestarts(at) ==
    [count |-> 0, window_started |-> at, next |-> restart_backoff, outage |-> None]

Init ==
    /\ now = 0 /\ runs_from = 0 /\ restarts = None
    /\ verdict = "running" /\ events = {}

ClockAdvances ==
    /\ now < MaxTime /\ now' = now + 1
    /\ UNCHANGED <<runs_from, restarts, verdict, events>>

(* Mutant: AfterHealthyRun that keeps the outage. *)
OutageGoesOn(r) == [r EXCEPT !.next = restart_backoff]

(* A run of at least task_healthy_after. *)
AfterHealthyRun(r) == [r EXCEPT !.next = restart_backoff, !.outage = None]

(* Mutant: record that does not move the start of the window. *)
WindowStays(r) ==
    [r EXCEPT !.count = IF now - r.window_started > restart_window THEN 1 ELSE @ + 1]

(* RestartBudget::record. *)
record(r) ==
    IF now - r.window_started > restart_window
    THEN [r EXCEPT !.count = 1, !.window_started = now]
    ELSE [r EXCEPT !.count = @ + 1]

(* RestartBackoff::advance. *)
advance(r) == [r EXCEPT !.next = Min({@ + @, max_backoff})]

InOutage(r) == [r EXCEPT !.outage = IF @ = None THEN now ELSE @]

Stop(r, reason) ==
    restarts' = r /\ verdict' = reason /\ UNCHANGED runs_from

Restart(r) ==
    restarts' = advance(r) /\ runs_from' = now + r.next /\ UNCHANGED verdict

(* TaskRestarts::on_failure, of a run that lasted now - runs_from. *)
on_failure(kind) ==
    LET healthy == now - runs_from >= task_healthy_after
        known == IF restarts = None THEN NewTaskRestarts(now) ELSE restarts
        rested == IF healthy THEN AfterHealthyRun(known) ELSE known
        outage == InOutage(rested)
        charged == record(rested)
    IN  /\ verdict = "running" /\ runs_from <= now
        /\ \/ /\ kind = "transient"
              /\ IF now - outage.outage > max_transient_outage
                 THEN Stop(outage, "outage") ELSE Restart(outage)
           \/ /\ kind = "fault"
              /\ IF charged.count > max_task_restarts
                 THEN Stop(charged, "budget") ELSE Restart(charged)
        /\ events' = events \cup {[at |-> now, kind |-> kind, healthy |-> healthy]}
        /\ UNCHANGED now

Next == ClockAdvances \/ \E kind \in {"transient", "fault"} : on_failure(kind)

Spec == Init /\ [][Next]_rvars
----------------------------------------------------------------------------
Faults == {e.at : e \in {f \in events : f.kind = "fault"}}
LastFailure == Max({e.at : e \in events})

(* The runtime stops for its budget only if more than max_task_restarts    *)
(* faults or panics really happened within the last restart_window; while  *)
(* it goes on, no span of that length holds more than twice as many: the   *)
(* windows are fixed, so a burst over the end of one gets a second budget. *)
BudgetMatchesFaults ==
    IF verdict = "budget"
    THEN Cardinality({f \in Faults : LastFailure - f <= restart_window})
            > max_task_restarts
    ELSE \A s \in 0 .. now :
            Cardinality({f \in Faults : s <= f /\ f <= s + restart_window})
                <= 2 * max_task_restarts

(* The runtime stops for an outage exactly when two transient failures are *)
(* more than max_transient_outage apart and no run between them was        *)
(* healthy; faults in between do not end the outage.                       *)
OutageStopExact ==
    verdict = "outage" <=>
        \E e, f \in {g \in events : g.kind = "transient"} :
            /\ f.at - e.at > max_transient_outage /\ e.at < f.at
            /\ \A h \in events : h.healthy => h.at <= e.at \/ h.at > f.at

=============================================================================
