----------------------------- MODULE Supervisor -----------------------------
(***************************************************************************)
(* One runtime process (runtime/supervisor.rs): the supervisor and the     *)
(* tasks it joins, the activity dispatcher, the collector that owns the    *)
(* running activity executions, and the handle that shuts all of it down.  *)
(* Workers are the coordinator, health, timer, approval and schedule       *)
(* tasks.  What a task does with the database is left out, and whether a   *)
(* failed one restarts is decided elsewhere (module RestartPolicy); here   *)
(* either may happen, up to MaxGeneration dispatchers.                     *)
(***************************************************************************)
EXTENDS Naturals, FiniteSets, FiniteSetsExt, Functions

CONSTANTS
    Worker,             \* the tasks beside dispatcher and collector
    Topic,
    local_topic_limit,  \* executions of each topic this process may run
    Execution,          \* identities of executions, used again when free
    Stubborn,           \* those whose handler may ignore every signal
    MaxGeneration,      \* bound on the dispatchers started
    MaxFailures         \* bound on errors and panics

ASSUME SupervisorAssumption ==
    /\ local_topic_limit \in [Topic -> Nat \ {0}] /\ IsFiniteSet(Topic)
    /\ Stubborn \subseteq Execution /\ Execution \subseteq Nat
    /\ MaxGeneration \in Nat \ {0} /\ MaxFailures \in Nat

VARIABLES
    cancelled,   \* the cancellation token
    handle,      \* RuntimeHandle
    sup,         \* supervise: joining, stopping the collector, or over
    errors,      \* whether supervise has an error to return
    task,        \* the supervised tasks other than the collector
    disp,        \* what the running dispatcher holds
    coll,        \* what the collector holds
    executions,  \* the collector's JoinSet
    failed       \* errors and panics so far

pvars == <<cancelled, handle, sup, errors, task, disp, coll, executions, failed>>

Task == Worker \cup {"dispatcher"}
Counts == [Topic -> Nat]
NoCounts == [t \in Topic |-> 0]
Total(counts) == FoldFunction(+, 0, counts)
Capacity == Total(local_topic_limit)
Active(t) == Cardinality({x \in executions : x.topic = t})
Over == {"returned", "aborted"}

(* for_dispatcher: the clone has seen every change so far. *)
NewDispatcher(generation) ==
    [pc |-> "top", gen |-> generation, unseen |-> FALSE,
     snap |-> NoCounts, claims |-> NoCounts]

Init ==
    /\ cancelled = FALSE /\ handle = "held" /\ sup = "joining" /\ errors = FALSE
    /\ task = [t \in Task |-> "running"] /\ disp = NewDispatcher(1)
    /\ coll = [up |-> "running", shutting |-> FALSE, failures |-> 0,
               supplemental |-> 0, failed |-> {}]
    /\ executions = {} /\ failed = 0
----------------------------------------------------------------------------
(* run_task, TaskSpec::ActivityDispatcher.  At take, snapshot and spawn it *)
(* waits for the collector's answer to the command of that name.           *)

DispatcherReturns(result) ==
    /\ task' = [task EXCEPT !["dispatcher"] = result]
    /\ disp' = NewDispatcher(disp.gen)

GoTo(pc) == disp' = [disp EXCEPT !.pc = pc] /\ UNCHANGED task

(* Back to the top of the loop, with every change seen. *)
LoopsSeen == disp' = NewDispatcher(disp.gen) /\ UNCHANGED task

UnlessCancelled(pc) == IF cancelled THEN DispatcherReturns("ok") ELSE GoTo(pc)

(* Mutant: WaitsForChange that marks the changes as seen before it waits. *)
SeesBeforeWaiting ==
    disp' = [NewDispatcher(disp.gen) EXCEPT !.pc = "full"] /\ UNCHANGED task

WaitsForChange ==
    /\ disp' = [disp EXCEPT !.pc = "full", !.snap = NoCounts]
    /\ UNCHANGED task

(* claim_batch within the snapshot's free capacity; a transient error      *)
(* claims nothing.                                                         *)
ClaimBatch ==
    \E claims \in [Topic -> 0 .. Capacity] :
        /\ \A t \in Topic :
            claims[t] > 0 => disp.snap[t] + claims[t] <= local_topic_limit[t]
        /\ Total(claims) <= Capacity - Total(disp.snap)
        /\ disp' = [disp EXCEPT
                !.pc = IF claims = NoCounts THEN "idle" ELSE "spawn",
                !.snap = NoCounts, !.claims = claims]
        /\ UNCHANGED task

NextClaim ==
    IF disp.claims = NoCounts THEN LoopsSeen
    ELSE disp' = [disp EXCEPT !.pc = "spawn", !.unseen = FALSE] /\ UNCHANGED task

Dispatcher ==
    /\ task["dispatcher"] = "running"
    /\ \/ disp.pc = "top" /\ UnlessCancelled("take")
       \/ disp.pc = "failure" /\ DispatcherReturns("failed")
       \/ disp.pc = "select" /\ UnlessCancelled("snapshot")
       \/ disp.pc = "snapshot" /\ cancelled /\ DispatcherReturns("ok")
       \/ disp.pc = "plan" /\ Total(disp.snap) >= Capacity /\ WaitsForChange
       \/ disp.pc = "plan" /\ Total(disp.snap) < Capacity /\ ClaimBatch
       \/ disp.pc = "full" /\ (cancelled \/ disp.unseen) /\ LoopsSeen
       \/ disp.pc = "idle" /\ disp' = [disp EXCEPT !.pc = "top"] /\ UNCHANGED task
       \/ disp.pc = "idle" /\ disp.unseen /\ LoopsSeen
       \/ disp.pc = "spawned" /\ NextClaim
       \/ /\ disp.pc \in {"take", "snapshot", "spawn", "full", "idle"}
          /\ coll.up # "running" /\ DispatcherReturns("failed")
    /\ UNCHANGED <<cancelled, handle, sup, errors, coll, executions, failed>>

----------------------------------------------------------------------------
(* collect_activity_executions.  The select is biased: finished executions *)
(* are joined before a command is read.                                    *)

collect_activity_execution_result ==
    /\ coll.up = "running"
    /\ \E x \in executions :
        LET first == x.gen \notin coll.failed
        IN  /\ x.end \in {"done", "panicked"}
            /\ executions' = executions \ {x}
            /\ coll' = IF x.end = "done" THEN coll
                       ELSE IF first
                       THEN [coll EXCEPT !.failed = @ \cup {x.gen}, !.failures = @ + 1]
                       ELSE [coll EXCEPT !.supplemental = @ + 1]
    /\ disp' = [disp EXCEPT !.unseen = task["dispatcher"] = "running"]
    /\ UNCHANGED <<cancelled, handle, sup, errors, task, failed>>

(* Mutant: Drained without the executions. *)
ShutdownSeen == coll.shutting

Drained == coll.shutting /\ executions = {}

ReadsCommands ==
    /\ coll.up = "running" /\ ~Drained
    /\ \A x \in executions : x.end \notin {"done", "panicked"}

(* All failures since the last time are one failure to the dispatcher. *)
take_activity_execution_failure ==
    /\ disp.pc = "take"
    /\ disp' = [disp EXCEPT !.pc = IF coll.failures > 0 THEN "failure" ELSE "select"]
    /\ coll' = [coll EXCEPT !.failures = 0]
    /\ UNCHANGED <<task, executions>>

(* Mutant: Snapshot of one dispatcher's own executions. *)
OwnSnapshot(g) ==
    [t \in Topic |-> Cardinality({x \in executions : x.topic = t /\ x.gen = g})]

Snapshot(g) == [t \in Topic |-> Active(t)]

AnswerSnapshot ==
    /\ disp.pc = "snapshot" /\ ~cancelled
    /\ disp' = [disp EXCEPT !.pc = "plan", !.snap = Snapshot(disp.gen)]
    /\ UNCHANGED <<task, coll, executions>>

AnswerSpawn ==
    /\ disp.pc = "spawn" /\ UNCHANGED coll
    /\ \/ coll.shutting /\ DispatcherReturns("failed") /\ UNCHANGED executions
       \/ \E t \in {u \in Topic : disp.claims[u] > 0} :
            LET free == Execution \ {x.id : x \in executions}
            IN  /\ ~coll.shutting
                /\ disp' = [disp EXCEPT !.pc = "spawned", !.unseen = TRUE,
                                        !.claims[t] = @ - 1]
                /\ executions' = executions \cup
                    {[id |-> Min(free), topic |-> t, gen |-> disp.gen,
                      end |-> "running"]}
                /\ UNCHANGED task

(* ActivityExecutionCommand::Shutdown, sent by the supervisor. *)
ReadShutdown ==
    /\ sup = "stopping" /\ ~coll.shutting
    /\ coll' = [coll EXCEPT !.shutting = TRUE]
    /\ UNCHANGED <<task, disp, executions>>

Command ==
    /\ ReadsCommands
    /\ \/ /\ task["dispatcher"] = "running"
          /\ take_activity_execution_failure \/ AnswerSnapshot \/ AnswerSpawn
       \/ ReadShutdown
    /\ UNCHANGED <<cancelled, handle, sup, errors, failed>>

(* Mutant: finish_activity_execution_collection that only logs. *)
FailuresLogged == "ok"

finish_activity_execution_collection ==
    IF coll.failures + coll.supplemental > 0 THEN "failed" ELSE "ok"

(* The supervisor has its answer, and the collector returns. *)
CollectorReturns ==
    /\ coll.up = "running" /\ Drained
    /\ coll' = [coll EXCEPT !.up = finish_activity_execution_collection]
    /\ sup' = "joining"
    /\ UNCHANGED <<cancelled, handle, errors, task, disp, executions, failed>>

Collector == collect_activity_execution_result \/ Command \/ CollectorReturns

----------------------------------------------------------------------------
(* supervise. *)

(* Mutants: StopsCollector after cancellation only, and after any task. *)
StopsWhenCancelled(t) == t = "dispatcher" /\ cancelled
StopsAfterAny(t) == TRUE

(* The collector is told to shut down once the dispatcher is gone. *)
StopsCollector(t) == t = "dispatcher"

Retired(t) ==
    /\ task' = [task EXCEPT ![t] = "gone"]
    /\ sup' = IF StopsCollector(t) THEN "stopping" ELSE "joining"

Restarted(t) == task' = [task EXCEPT ![t] = "delayed"]

JoinTask(t) ==
    /\ sup = "joining" /\ task[t] \in {"ok", "failed"}
    /\ errors' = (errors \/ ~cancelled \/ task[t] = "failed")
    /\ \/ ~cancelled /\ (t = "dispatcher" => disp.gen < MaxGeneration)
          /\ Restarted(t) /\ UNCHANGED <<cancelled, sup>>
       \/ cancelled' = TRUE /\ Retired(t)
    /\ UNCHANGED <<handle, disp, coll, executions, failed>>

(* The collector is never restarted. *)
JoinCollector ==
    /\ sup = "joining" /\ coll.up \in {"ok", "failed"}
    /\ errors' = (errors \/ ~cancelled \/ coll.up = "failed")
    /\ cancelled' = TRUE /\ coll' = [coll EXCEPT !.up = "gone"]
    /\ UNCHANGED <<handle, sup, task, disp, executions, failed>>

(* The command channel or the answer is closed. *)
CollectorUnavailable ==
    /\ sup = "stopping" /\ coll.up # "running"
    /\ sup' = "joining" /\ errors' = TRUE
    /\ UNCHANGED <<cancelled, handle, task, disp, coll, executions, failed>>

SuperviseReturns ==
    /\ sup = "joining" /\ coll.up = "gone" /\ \A t \in Task : task[t] = "gone"
    /\ sup' = "returned"
    /\ UNCHANGED <<cancelled, handle, errors, task, disp, coll, executions, failed>>

supervise ==
    \/ (\E t \in Task : JoinTask(t)) \/ JoinCollector
    \/ CollectorUnavailable \/ SuperviseReturns

(* spawn_child: the restart delay ends, or cancellation ends it. *)
DelayEnds(t) ==
    /\ task[t] = "delayed"
    /\ task' = [task EXCEPT ![t] = IF cancelled THEN "ok" ELSE "running"]
    /\ disp' = IF t = "dispatcher" /\ ~cancelled
               THEN NewDispatcher(disp.gen + 1) ELSE disp
    /\ UNCHANGED <<cancelled, handle, sup, errors, coll, executions, failed>>

(* run_task of a worker: it leaves its loop once it is cancelled. *)
WorkerReturns(t) ==
    /\ t \in Worker /\ task[t] = "running" /\ cancelled
    /\ task' = [task EXCEPT ![t] = "ok"]
    /\ UNCHANGED <<cancelled, handle, sup, errors, disp, coll, executions, failed>>

----------------------------------------------------------------------------
(* RuntimeHandle. *)

(* The supervisor's future is dropped, and with it every task; only        *)
(* handlers may go on, up to their next await.                             *)
Abort ==
    /\ sup' = "aborted" /\ task' = [t \in Task |-> "gone"]
    /\ disp' = NewDispatcher(disp.gen) /\ coll' = [coll EXCEPT !.up = "gone"]
    /\ executions' = {[x EXCEPT !.end = "aborted"] : x \in executions}

Shutdown ==
    /\ handle = "held" /\ handle' = "draining" /\ cancelled' = TRUE
    /\ UNCHANGED <<sup, errors, task, disp, coll, executions, failed>>

(* cancellation_token: the application cancels a clone. *)
CancelToken ==
    /\ handle = "held" /\ ~cancelled /\ cancelled' = TRUE
    /\ UNCHANGED <<handle, sup, errors, task, disp, coll, executions, failed>>

DeadlineElapses ==
    /\ handle = "draining" /\ sup \notin Over /\ handle' = "forcing"
    /\ UNCHANGED <<cancelled, sup, errors, task, disp, coll, executions, failed>>

(* Mutant: ForcedTimeout that never fires. *)
WaitsForSafePoint == FALSE /\ UNCHANGED pvars

ForcedTimeout ==
    /\ handle = "forcing" /\ sup \notin Over
    /\ Abort /\ handle' = "errors"
    /\ UNCHANGED <<cancelled, errors, failed>>

ShutdownReturns ==
    /\ handle \in {"draining", "forcing"} /\ sup = "returned"
    /\ handle' = IF errors \/ handle = "forcing" THEN "errors" ELSE "ok"
    /\ UNCHANGED <<cancelled, sup, errors, task, disp, coll, executions, failed>>

(* Dropping the future of shutdown drops the handle in it. *)
DropHandle ==
    /\ handle \in {"held", "draining", "forcing"} /\ handle' = "dropped" /\ cancelled' = TRUE
    /\ IF sup \in Over THEN UNCHANGED <<sup, task, disp, coll, executions>> ELSE Abort
    /\ UNCHANGED <<errors, failed>>

----------------------------------------------------------------------------
(* Handlers and failures. *)

Leaves(x, end) ==
    executions' = (executions \ {x}) \cup {[x EXCEPT !.end = end]}

(* execute_claim returns; an error of its transactions is only logged. *)
ExecutionReturns(x) ==
    /\ x.end = "running" /\ Leaves(x, "done")
    /\ UNCHANGED <<cancelled, handle, sup, errors, task, disp, coll, failed>>

AbortedEnds(x) ==
    /\ x.end = "aborted" /\ executions' = executions \ {x}
    /\ UNCHANGED <<cancelled, handle, sup, errors, task, disp, coll, failed>>

ExecutionPanics(x) ==
    /\ x.end = "running" /\ Leaves(x, "panicked")
    /\ UNCHANGED <<task, disp, coll>>

TaskFails(t) ==
    /\ task[t] = "running"
    /\ task' = [task EXCEPT ![t] = "failed"]
    /\ disp' = IF t = "dispatcher" THEN NewDispatcher(disp.gen) ELSE disp
    /\ UNCHANGED <<coll, executions>>

CollectorFails ==
    /\ coll.up = "running" /\ coll' = [coll EXCEPT !.up = "failed"]
    /\ executions' = {[x EXCEPT !.end = "aborted"] : x \in executions}
    /\ UNCHANGED <<task, disp>>

Failure ==
    /\ failed < MaxFailures /\ failed' = failed + 1
    /\ \/ \E x \in executions : ExecutionPanics(x)
       \/ \E t \in Task : TaskFails(t)
       \/ CollectorFails
    /\ UNCHANGED <<cancelled, handle, sup, errors>>

Next ==
    \/ Dispatcher \/ Collector \/ supervise \/ Failure
    \/ \E t \in Task : DelayEnds(t) \/ WorkerReturns(t)
    \/ Shutdown \/ CancelToken \/ DropHandle
    \/ DeadlineElapses \/ ForcedTimeout \/ ShutdownReturns
    \/ \E x \in executions : ExecutionReturns(x) \/ AbortedEnds(x)

Spec == Init /\ [][Next]_pvars

(* Tasks that can go on do, timers fire, and an execution ends unless its  *)
(* handler is stubborn (module Execution).                                 *)
FairSpec ==
    /\ Spec /\ WF_pvars(Dispatcher) /\ WF_pvars(Collector) /\ WF_pvars(supervise)
    /\ \A t \in Task : WF_pvars(DelayEnds(t)) /\ WF_pvars(WorkerReturns(t))
    /\ WF_pvars(DeadlineElapses) /\ WF_pvars(ForcedTimeout)
    /\ WF_pvars(ShutdownReturns)
    /\ \A i \in Execution \ Stubborn :
        WF_pvars(\E x \in executions : x.id = i /\ ExecutionReturns(x))
----------------------------------------------------------------------------
(* A process never runs more executions of a topic than its local limit,   *)
(* the claims a dispatcher has still to spawn included: the snapshot it    *)
(* planned with may be old, and executions of earlier dispatchers go on.   *)
LocalCapacity ==
    \A t \in Topic : Active(t) + disp.claims[t] <= local_topic_limit[t]

(* A dispatcher that waits for a change because it is full really is: no   *)
(* change between its snapshot and its wait is lost.                       *)
NoLostChange ==
    disp.pc = "full" /\ ~disp.unseen /\ coll.up = "running" =>
        Cardinality(executions) = Capacity

(* The collector never refuses a claimed activity because it is shutting   *)
(* down: no claim is left to its lease by an orderly shutdown.             *)
NoClaimRefused == coll.shutting => task["dispatcher"] = "gone"

(* When supervise returns no execution goes on, except those a failed      *)
(* collector aborted.                                                      *)
DrainedBeforeReturn ==
    sup = "returned" => \A x \in executions : x.end = "aborted"

(* supervise returns errors if and only if some task or execution failed:  *)
(* a panic is reported whether a dispatcher takes it, a later one does, or *)
(* the collector finds it while it drains.                                 *)
FailuresReported == sup = "returned" => (errors <=> failed > 0)

(* A cancelled runtime stops by itself, whichever task fails on the way,   *)
(* unless a stubborn handler keeps it.                                     *)
RuntimeStops ==
    cancelled ~> sup \in Over \/ \E x \in executions : x.id \in Stubborn

(* RuntimeHandle::shutdown returns, whatever the handlers do, unless its   *)
(* future is dropped.                                                      *)
ShutdownEnds == handle = "draining" ~> handle \in {"ok", "errors", "dropped"}
=============================================================================
