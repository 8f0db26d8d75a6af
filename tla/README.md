# A TLA+ specification of durable-workflows

`durable-workflows` is an embedded engine for durable execution: workflows are
state machines whose whole state is in SQL rows, and every process that links
the crate runs coordinators, activity workers and materializers that change
those rows, each change in one READ COMMITTED transaction. Nothing but the rows,
their locks and their lease tokens keeps the processes apart. This directory
specifies those transactions and what they establish together. The modules
follow the Rust source, not its documentation; `PROJECT.json` maps every
definition to the lines it stands for.

## The parts of the system

| part | source | module |
| --- | --- | --- |
| rows, statuses, waits, events | `persistence/*`, `schema.rs` | `DurableRows` |
| workflow coordinator (T-C1 claim, T-C2 commit, T-C3 failure) | `runtime/coordinator.rs` | `Coordinator` |
| activity worker transactions (T-W1 claim, T-W2 heartbeat, T-W3 finish) | `runtime/activity_worker.rs` | `ActivityWorker` |
| timer (T-T1) and approval expiry (T-A1) materializers | `runtime/temporal.rs` | `Temporal` |
| start (T-X1), recoverable start (T-X2), cancel (T-X3) | `store.rs` | `Store` |
| operator pause, resume, cancel, restart, retry, resolve (T-A2 to T-A7) | `admin/control.rs` | `AdminControl` |
| all of them over one database | | `Engine` |
| schedule calendar, cursor and the plan of a tick | `schedule.rs`, `schedule/cursor.rs`, `runtime/schedule_materializer.rs` | `ScheduleCalendar` |
| schedule reconcile (T-S1), materialize (T-S2), pause, resume (T-A8) and run-now (T-A9) | `runtime/schedule_materializer.rs`, `schedule.rs`, `admin/control.rs` | `Schedules` |
| activity executor: handler, timeout, cancellation, heartbeat loop, lease deadline | `runtime/activity_worker.rs` | `Execution` |
| supervisor, activity dispatcher, collector, runtime handle | `runtime/supervisor.rs` | `Supervisor` |
| restart budget, outage clock, restart backoff | `runtime/restart.rs` | `RestartPolicy` |
| journal replay of code-first flows | `flow.rs` | `FlowReplay` |
| retry delay and its bounds | `policy.rs` | `RetryPolicy` |

The T-names are those of the source comments and of `docs/INVARIANTS.md`.

A workflow is *claimed* by a coordinator (a lease with a fresh token), *stepped*
in memory on its next undelivered event, and the transition the step returns is
*committed* if the lease is still held. The transition completes the workflow,
continues it, or parks it on an activity, a child workflow, a timer or an
approval. Whatever ends the wait (a worker's T-W3, the child's own T-C2, a
materializer, an operator) inserts the next event and makes the row ready, in
one transaction. A paused workflow keeps its wait and collects its event;
resuming it works out from the columns what it is waiting for.

## State and its correspondence to the code

* `wf`, `act`, `apr`: the rows of `durable_workflow`, `durable_activity` and
  `durable_approval`, one record per identity, `"absent"` before insertion. The
  fields are the columns some transaction compares or writes. The undelivered
  events of a workflow are its field `inbox`; delivered events, history, results
  and messages are never read by another transaction and are left out.
* `openAttempts`: rows of `durable_activity_attempt` that are not finished.
* `coordClaims`, `workClaims`: what coordinators and workers hold in memory: the
  snapshot of the row they claimed. A claim can be forgotten at any moment
  (crash, forced stop, failed transaction), which is `AbandonActivation` and
  `AbandonExecution`. A work claim that is not `live` is a heartbeat still under
  way after its execution ended.
* Time is the database clock. Only comparisons with it matter, so
  `available_at <= now` is the field `due`, `lease_expires_at <= now` is
  `lapsed`, and an approval expires `never`, `later` or in the `past`. The
  passing of time is five actions of `Engine`.
* A lease token is a version 4 UUID: a fresh one is any member of `Token` that
  occurs nowhere in the state.
* `FOR UPDATE SKIP LOCKED` makes a transaction pass over rows that another one
  holds: `claim_row` may take any due row, `claim_batch` may leave any subset of
  the expired leases unsettled.
* A fence (`UPDATE ... WHERE` status and token, exactly one row, otherwise
  `FencedWrite` and rollback) is the guard `Fenced` or `HoldsLease`; a missed
  fence changes nothing but the claim that held it.

One action is one transaction with everything it does: T-W1 reconciles expired
leases, blocks the workflows of exhausted ones, counts slots, claims and
quarantines in a single step; T-X3, T-A4, T-A5 and T-X2 contain the whole
cascade over owned descendants. `Transitions` and `Calls` say which transitions
the handlers return and which calls applications and operators make, so that a
run can look at one part of the engine; the module texts allow all of them.

### Schedules

`Schedules` is one schedule key: its state row (`state`, none before the first
tick), its run rows (`runs`), the database clock, and the processes, each with
the definition its build registers (`deployed`) and its tick in progress
(`tick`). A tick of `materialize_schedule_now` is three steps, because it reads
the clock, commits T-S1 and commits T-S2 separately: other processes act in
between, and `now` is as old as the tick. T-S2 is one action with promotion,
plan, every occurrence and the cursor. A failed tick rolls back
(`AbandonTick`). Of a started workflow only whether it is active is kept.

`ScheduleCalendar` holds the calendar as pure operators. Instants and wall-clock
times are integers; a calendar matches every `period`-th wall-clock time in a
zone whose offset changes once, which gives gaps and repeated hours. Cron
parsing and the zone database are those of the `cron` and `chrono` crates.

### Execution

`ActivityWorker` leaves out when an execution stops; `Execution` has just that,
for one activity row (`row`) and its successive executions (`ex`). Time passes in
steps (`Tick`); the database keeps whole milliseconds of `Res` steps, the local
clock keeps steps. Every instant is kept as the time left until it, every sample
as its age, so time is unbounded. `Executor` is one poll of `execute_claim`'s
biased select: of the ready branches the first is taken and the handler is
last. Timeouts and the shutdown grace have any length. Assumed: the local and the
database clock run at one rate, and a handler does not block inside one poll.

### Supervisor and restart policy

`Supervisor` is one runtime process: the cancellation token, the handle, the
`supervise` loop, its tasks, the dispatcher loop with each command it waits for,
and the collector with the executions it joins. What the tasks do with the
database is in the modules above, and whether a failed task restarts is open
there. `RestartPolicy` is that decision, `TaskRestarts::on_failure`, for one
task with a clock; its variable `events` is a history for the properties only.

### Flows and retry delays

`FlowReplay` is one code-first flow. A program is a sequence of steps with what
each step's error handler catches and where it goes on; every activation may run
another program of `Program`, as during an upgrade. `replay`, `Answer`,
`flow_step`, `apply_event` and `ensure_sequence` are pure, as in the code; commits
and failures of the activation are T-C2 and T-C3 as a flow sees them. A step ends
by T-W3, a child's terminal transaction or T-T1 (`ActivitySucceeds`, `ChildEnds`,
`TimerFires`); a dead-lettered activity blocks the flow (`block_workflow`) until
T-A6 replaces it, possibly by another version (`retry`). `executed` is a history. A payload is the type it decodes to. The size limit of the journal
is not modelled: exceeding it is one of the ways any activation may fail.
Programs do not swallow a suspension, which the code forbids flows to do.

`RetryPolicy` has no state: the delay of an attempt as integer operators, with
the largest values of the integer types as parameters.

## What is checked

The first three runs instantiate `Engine` through `MCEngine`, with
`CHECK_DEADLOCK FALSE`: an engine whose workflows are all finished, or all
waiting for an operator, rests. So do a stopped runtime, a task that is not
restarted and a finished flow. The `schedule_*` and `execution_*` runs check
deadlock: there is always another tick.

| run | instance | properties |
| --- | --- | --- |
| `activities` | 2 workflows, 2 activities, 1 slot, 3 tokens | `TypeOK`, `TopicCap`, `LeaseOwnership`, `NoOrphanActivity`, `AttemptCap`, `RevocationSticks` |
| `waits` | 1 workflow, 1 activity, 1 approval, every other wait, fair | `OneDeliverableEvent`, `PendingApprovalAwaited`, `SnapshotCurrent`, `RunsEnd`, `RevocationsSettle` |
| `lineage` | 3 workflows, generated and shared keys, 2 versions | `WaitCoupling`, `LinearLineage`, `NoAncestorWait`, `OneDeliverableEvent`, `CancelReachesOwned`, `DeliveredOnce` |
| `schedule_upgrade` | 2 processes, 3 definitions, redeployed, every operator call | `CursorAhead`, `CursorOnCalendar`, `EveryOccurrenceRecorded` |
| `schedule_policies` | every misfire policy with every overlap policy on 3 calendars, chunks of 2, pause, run-now, restarts | `ChunksAgree`, `OverlapPolicyKept` |
| `schedule_fair` | 2 processes of different versions, chunks of 1, run-now, fair | `BacklogWorkedOff`, `QueuedStarts` |
| `execution_lease` | 2 successive executions, revocations | `PolledUnderLease` |
| `execution_fair` | 1 execution, every event, fair | `PolledUnderLease`, `ReturnKept`, `ExecutionEnds` |
| `supervisor` | 1 worker task, 2 dispatchers, 2 executions at once, 3 failures, fair | `LocalCapacity`, `NoLostChange`, `NoClaimRefused`, `DrainedBeforeReturn`, `FailuresReported`, `RuntimeStops`, `ShutdownEnds` |
| `restart_policy` | every history of failures in 14 ticks | `BudgetMatchesFaults`, `OutageStopExact` |
| `flow_replay` | 400 programs of up to 3 steps, fair | `JournalIsHistory`, `ReplayExact`, `EventsSettle` |
| `flow_caught` | programs that catch every error | `FailsClosed` (violated) |

* `WaitCoupling`: status and wait columns of a live workflow always agree with
  the row it waits on, which can still answer. The error arms of `resume_status`
  are therefore unreachable and no parent waits on a finished child.
* `OneDeliverableEvent`: a workflow that can be activated has exactly one
  undelivered event, the next one; a waiting one has none. No wake is lost
  during a pause and none is delivered twice.
* `SnapshotCurrent`: T-C2 writes sequences it computed from the row as claimed;
  whenever its fence still holds, that snapshot is current.
* `LeaseOwnership`, `NoOrphanActivity`, `RevocationSticks`: leases, open
  attempts and executing activities belong together; an activity result always
  finds its workflow waiting; a revocation is never undone under the same lease.
* `AttemptCap`: pauses give back the attempt they revoke, so the cap is neither
  exceeded nor reached by a row that is still pending.
* `TopicCap`: `max_concurrency` holds through expired leases, late heartbeats
  and skipped rows.
* `PendingApprovalAwaited`: the expiry sweep never fails forever on one row.
* `LinearLineage`, `NoAncestorWait`, `CancelReachesOwned`: restart chains do not
  fork, no workflow waits on its ancestor, a step that cancels a workflow leaves
  no live generation of a child it owns.
* `DeliveredOnce`: an event is consumed once, by the holder of the lease, and a
  finished workflow row never changes.
* `RunsEnd`, `RevocationsSettle`: under `FairSpec`, the leases of dead
  coordinators and workers are taken back.
* `CursorAhead`, `CursorOnCalendar`, `EveryOccurrenceRecorded`: through upgrades
  to another calendar or zone, by ticks with an old clock reading and in repeated
  hours, no occurrence is inserted twice (which would make every later tick fail
  on the unique key), none is passed over, and the stored local and UTC times of
  the cursor agree.
* `OverlapPolicyKept`: no start beside an active run and never two queued runs,
  over promotion, several due occurrences in one tick, run-now and restarted runs.
* `ChunksAgree`: `MAX_DUE_OCCURRENCES_PER_TICK` never changes what is decided of
  an occurrence.
* `BacklogWorkedOff`, `QueuedStarts`: backlogs and queued runs do not stay, also
  when a run-now gets in before the tick that would have promoted the queued run.
  Operators who run or restart the schedule forever can keep a queued run waiting:
  `MaxRuns` bounds the run-nows, and that run has no restarts and no pauses.
* `PolledUnderLease`: no handler is polled once its lease can have been given to
  another worker, so no two attempts of one activity run at once. It rests on the
  sample of the local clock being taken before the transaction that sets the
  expiry, and on the local deadline being a millisecond short.
* `ReturnKept`, `ExecutionEnds`: a result returned in time is not lost to a failed
  renewal, and an execution ends whatever its handler does.
* `LocalCapacity`, `NoLostChange`, `NoClaimRefused`: the dispatcher plans with a
  snapshot that may be old and executions of its predecessors; it never claims
  above the local limit, sleeps through a freed slot, or has a claim refused by a
  collector that is already shutting down.
* `DrainedBeforeReturn`, `FailuresReported`, `RuntimeStops`, `ShutdownEnds`:
  shutdown drains, reports every failure and ends, with stubborn handlers too.
* `BudgetMatchesFaults`, `OutageStopExact`: the policy's counters against the
  history of failures. Windows are fixed, so a
  burst across the end of one may hold twice `max_task_restarts` faults.
* `JournalIsHistory`, `ReplayExact`: replaying the
  journal equals having executed its steps with the same code, or the activation
  fails and changes nothing but its failure count. This includes the result of an
  activity that an operator corrected and retried in another version.
* `EventsSettle`: an event that builds refuse is not activated forever. That a flow
  ends is not claimed: an awaited child may never end, and a blocked flow waits for
  an operator (`docs/INVARIANTS.md` does not promise it either).
* `FailsClosed` is violated. A replay mismatch is an error value of the step that
  meets it; a flow whose handler catches every error catches it as well, and its
  activation may commit over a journal of other steps. `docs/INVARIANTS.md` (S31)
  says that the flow then fails closed. `ReplayExact` holds for flows that let
  `WfError::Definition` through.

### Bounds

`MaxCommands` and `MaxDelivered` bound the two sequences of a workflow,
`MaxAttemptLimit` the attempts operators can add, `MaxStreak` and `MaxActivation`
are the code's own limits; the sets of identities bound the rows ever inserted.
Two commands are enough for a wait to follow a wait, two attempts for a retry,
three tokens for two claims that both lost their lease beside a third that holds
it, three workflows for parent, child and a restarted generation of either. A
grandchild below a restarted child is beyond the `lineage` run.

`MaxTime` bounds the schedule clock and `MaxRuns` the runs operators add; in
`schedule_upgrade` an offset change and redeployments, in `schedule_policies` an
offset change, and in `schedule_fair` a started, a queued and an operator's run fit
in that time. Processes are interchangeable, which `schedule_upgrade` uses as a
symmetry.
`MAX_DUE_OCCURRENCES_PER_TICK` is 2, or 1 in `schedule_fair`, instead of 10,000, so
that backlogs of several chunks occur, and `MAX_GAP_SCAN_SECONDS` covers the gap.

`Res` 2 makes local instants fall between database milliseconds, `Lease` is two
or three of those, `MaxDelay` bounds how long a claiming transaction takes, and
`Events` says what besides the handler interferes. `MaxGeneration` bounds the
dispatchers and `MaxFailures` the failures of a process; two dispatchers are
enough for executions that outlive the one that claimed them. The `MaxTime` of
`RestartPolicy` is long enough for three restart windows. Programs of three steps
have a step that is replayed, one that is resolved and one that is new.

### Fairness

`FairSpec` assumes that the database clock advances past a lease
(`WorkflowLeaseLapses`, `ActivityLeaseLapses`) and that some coordinator and
some worker keep polling until an expired lease is taken back (`RecoversRun`,
`SettlesLease`): the loops of `run_task` poll at an interval, restart after
failures, and order expired rows by expiry so that each one's turn comes. All
of this is weak fairness. Nothing is assumed of handlers, heartbeats, operators
and applications.

The `FairSpec` of `Schedules` assumes that every process keeps ticking and that
started workflows finish (weak), and that a tick does not fail forever: strong
fairness of `reconcile_state` and `materialize_schedule`, because a failed tick
disables them until the next one begins.

`Execution` assumes that time passes, that tokio polls a ready executor and that
T-W3, which the executor awaits last, answers or returns an error; nothing of the
handler and of renewals. `Supervisor` assumes that tasks are
polled, that restart delays and the shutdown deadlines elapse, and that
executions outside `Stubborn` return; `FlowReplay` that
coordinators keep polling and some activation of an event lives to commit T-C2 or
T-C3 (a lost one is recovered but not counted), and nothing of the awaited steps or
of operators. All of it is weak.

## What is proved

TLAPS proves the following for all values of the constants that satisfy the
`ASSUME`s of `DurableRows`, `Coordinator`, `Store` and `AdminControl` (a NULL
that is no identity, non-empty versions and topics, finitely many activities,
positive limits).

* `TypeProofs!TypeCorrect`, `Spec => []TypeOK`. `TypeOK` is inductive: one lemma
  per row transformer, one per action.
* `TopicProofs!TopicCapCorrect`, `Spec => []TopicCap`. Given types the cap is
  inductive: reconciliation creates no slot holder, T-W1 adds at most the slots
  it counted free (`ClaimWithinLimit`, with cardinalities of disjoint unions),
  and no other action makes a row a slot holder (`OthersNoNewHolder`).
* `FenceProofs!SnapshotCorrect`, `Spec => []SnapshotCurrent`. Given types the
  property is inductive, because every step leaves a leased row's sequences
  alone as long as it leaves the lease (`Unmoved`), a fresh token belongs to no
  earlier claim, and a lease is only created together with its claim.
* `RetryPolicy!DelayWithinSpread` and `DelayFitsMillis`, about every policy that
  `BoundViolation::check` accepts, every positive multiplier and every integer
  width with `i64 <= u64`: the delay is the capped one moved by at most its
  spread, nothing is clamped, and it fits the millisecond column. The product
  with a percentage is bounded first (`PercentBounded`), then the truncated delta.

Model-checked only: the other invariants and action properties (provable in
principle, they need joint inductive invariants), the properties of `Schedules`,
`Execution`, `Supervisor`, `RestartPolicy` and `FlowReplay`, and every liveness
property (fairness is outside what the provers handle).

## What is not modelled, and the plan

* Proofs of `LeaseOwnership` with `RevocationSticks`, of `AttemptCap`, and of the
  joint invariant of `WaitCoupling`, `NoOrphanActivity` and `OneDeliverableEvent`.
* Proofs of `PolledUnderLease`, of `LocalCapacity` and `NoClaimRefused`, of
  `CursorAhead`, and of `JournalIsHistory`.
* An abstract specification of one workflow (each event delivered once, to one
  holder) that `Engine` implements.
* The order in which transactions take row locks, for deadlock freedom: here a
  transaction with its locks is one step.
* Left out for good: SQL dialects and migrations (a transaction is a step),
  registration and macros (they run before anything else), read-only queries,
  metrics, readiness, observability, trace recording, and progress reports
  (T-W4 inserts a row no other transaction of the engine reads).
