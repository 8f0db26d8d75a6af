------------------------------ MODULE Execution ------------------------------
(***************************************************************************)
(* The executor of claimed activities (execute_claim and heartbeat_loop of *)
(* runtime/activity_worker.rs), for one activity row and its successive    *)
(* executions, with time.  The local monotonic clock and the database      *)
(* clock run at one rate; the database keeps whole milliseconds, Res steps *)
(* of time each, and sub counts the steps since the last one.  Every       *)
(* instant is kept as the time left until it, every sample as its age, so  *)
(* time itself is unbounded.  An execution's identity stands for its lease *)
(* token.                                                                  *)
(*                                                                         *)
(* execute_claim is a loop around a biased select: of the branches that    *)
(* are ready the first one is taken, and the handler is the last.  The     *)
(* timeout and the shutdown grace have any length and tokio may fire their *)
(* timers late, so they end at any time; wait_for_lease_deadline compares  *)
(* with the clock whenever it is polled, so it is never late.              *)
(***************************************************************************)
EXTENDS Integers, FiniteSets, FiniteSetsExt

CONSTANTS
    Execution,  \* claims ever made of the row
    None,
    Res,        \* steps of time in a millisecond
    Lease,      \* lease_duration_millis
    Events,     \* which of revoke, shutdown and crash happen
    MaxDelay    \* bound on the steps a claiming transaction takes

ASSUME TimeAssumption ==
    /\ Res \in Nat \ {0} /\ Lease \in Nat \ {0}
    /\ MaxDelay \in Nat /\ None \notin Execution

VARIABLES
    sub,  \* the steps since the database clock last changed
    row,  \* the activity row: status, lease_token, time to lease_expires_at
    ex    \* the executions

evars == <<sub, row, ex>>

Left(t) == Max({0, t})

(* Mutant: lease_deadline_from_sample that rounds up. *)
LeaseToTheEnd(age) == Left(Lease * Res - age)

(* Counted from the sample, and a millisecond short. *)
lease_deadline_from_sample(age) == Left((Lease - 1) * Res - age)

(* lease_expires_at, when the database clock was read age steps ago. *)
LeaseFrom(age) == Left(Lease * Res - ((sub - age) % Res) - age)

(* token: the cancellation tokens the runtime has cancelled; beat: the     *)
(* renewal in progress, sampled age steps ago; the other fields are the    *)
(* local variables of execute_claim.                                       *)
Unclaimed ==
    [phase |-> "unclaimed", token |-> "none", deadline |-> 0,
     beat |-> "idle", age |-> 0, shutdown |-> FALSE,
     forced |-> FALSE, stop |-> FALSE, stopped |-> FALSE, finished |-> FALSE,
     cleanup |-> FALSE, outcome |-> "none"]

Unleased(status) == [status |-> status, token |-> None, left |-> 0]

Init ==
    /\ sub = 0 /\ row = Unleased("pending")
    /\ ex = [e \in Execution |-> Unclaimed]

Tick ==
    /\ sub' = (sub + 1) % Res
    /\ row' = [row EXCEPT !.left = Left(@ - 1)]
    /\ ex' = [e \in Execution |-> [ex[e] EXCEPT
                !.deadline = Left(@ - 1),
                !.age = IF ex[e].beat \in {"sent", "held", "revoked"}
                        THEN Min({@ + 1, Lease * Res}) ELSE 0]]

Becomes(e, x) == ex' = [ex EXCEPT ![e] = x]

(* What may stay behind is a renewal under way. *)
Ends(e) ==
    Becomes(e, IF ex[e].beat = "sent"
               THEN [Unclaimed EXCEPT !.phase = "ended", !.beat = "sent", !.age = ex[e].age]
               ELSE [Unclaimed EXCEPT !.phase = "ended"])

(* The handler is dropped, with what the loop no longer needs. *)
Finishes(e, outcome) ==
    Becomes(e, [Unclaimed EXCEPT !.phase = "finishing", !.outcome = outcome])

----------------------------------------------------------------------------
(* The row: T-W1, pause or cancel, and T-W3. *)

Holds(e) == row.token = e /\ row.status \in {"running", "cancelling"}

(* The transaction samples the local clock, then reads the database clock, *)
(* and commits later.                                                      *)
claim_locked_candidate(e) ==
    /\ ex[e].phase = "unclaimed" /\ row.status = "pending"
    /\ \E sample \in 0 .. MaxDelay :
        /\ \E read \in 0 .. sample :
            row' = [status |-> "running", token |-> e, left |-> LeaseFrom(read)]
        /\ Becomes(e, [Unclaimed EXCEPT
                !.phase = "claimed", !.deadline = lease_deadline_from_sample(sample)])
    /\ UNCHANGED sub

reconcile_expired ==
    /\ row.status \in {"running", "cancelling"} /\ row.left = 0
    /\ \E status \in {"pending", "settled"} : row' = Unleased(status)
    /\ UNCHANGED <<sub, ex>>

Revoke ==
    /\ "revoke" \in Events /\ row.status = "running"
    /\ row' = [row EXCEPT !.status = "cancelling"]
    /\ UNCHANGED <<sub, ex>>

(* The handler is dropped already; a missed fence or an error ends it too. *)
finish_claim(e) ==
    /\ ex[e].phase = "finishing"
    /\ Ends(e)
    /\ \/ Holds(e) /\ \E status \in {"pending", "settled"} : row' = Unleased(status)
       \/ UNCHANGED row
    /\ UNCHANGED sub

----------------------------------------------------------------------------
(* The heartbeat loop. *)

(* The first two branches of the select. *)
ForcedReady(x) == x.token = "forced" /\ ~x.forced
CancelReady(x) == x.token # "none" /\ ~x.shutdown

(* Between two renewals, unless told to stop: T-W2 begins. *)
BeginRenewal(e) ==
    LET x == ex[e]
    IN  /\ x.phase = "running" /\ ~x.stopped /\ ~x.stop
        /\ x.beat = "idle" /\ x.deadline > 0
        /\ Becomes(e, [x EXCEPT !.beat = "sent", !.age = 0])
        /\ UNCHANGED <<sub, row>>

(* T-W2 in the database, possibly after the executor gave it up.  An error *)
(* leaves open whether it committed.                                       *)
heartbeat_once(e) ==
    LET x == ex[e]
        answered(beat) == Becomes(e, [x EXCEPT !.beat = beat])
    IN  /\ x.beat = "sent"
        /\ \/ /\ Holds(e)
              /\ \E read \in 0 .. x.age : row' = [row EXCEPT !.left = LeaseFrom(read)]
              /\ \/ answered("failed")
                 \/ answered(IF row.status = "running" THEN "held" ELSE "revoked")
           \/ ~Holds(e) /\ answered("missed") /\ UNCHANGED row
           \/ answered("failed") /\ UNCHANGED row
        /\ UNCHANGED sub

(* The lease is lost or unconfirmed: the handler may clean up until the    *)
(* grace or the last confirmed lease ends, then the execution ends without *)
(* T-W3.                                                                   *)
Lose(e) ==
    \/ /\ ~ex[e].finished /\ ex[e].deadline > 0
       /\ Becomes(e, [ex[e] EXCEPT !.phase = "losing"])
    \/ Ends(e)

(* Mutant: an error of the renewal always ends the execution. *)
LostOnError(e) == ex[e].beat = "failed" /\ Lose(e)

(* After the handler returned within the lease, T-W3's fence decides. *)
Unconfirmed(e) ==
    /\ ex[e].beat = "failed"
    /\ IF ex[e].finished THEN Becomes(e, [ex[e] EXCEPT !.stopped = TRUE])
       ELSE Lose(e)

(* Mutant: Revoked with a whole lease from the answer on. *)
RevokedFromAnswer(e) ==
    /\ ex[e].beat = "revoked" /\ ~ex[e].finished
    /\ Becomes(e, [ex[e] EXCEPT !.stopped = TRUE, !.cleanup = FALSE,
            !.phase = "revoking", !.deadline = lease_deadline_from_sample(0)])

(* A revoked handler has until the grace or the new lease ends. *)
Revoked(e) ==
    LET x == [ex[e] EXCEPT !.stopped = TRUE, !.cleanup = FALSE,
                    !.deadline = lease_deadline_from_sample(ex[e].age)]
    IN  /\ x.beat = "revoked"
        /\ \/ /\ ~x.finished /\ x.deadline > 0
              /\ Becomes(e, [x EXCEPT !.phase = "revoking"])
           \/ Becomes(e, [x EXCEPT !.outcome = "revoked"])

(* The heartbeat branch of the select is ready. *)
HeartbeatResult(e) ==
    LET x == ex[e]
        stops == x.beat = "idle" /\ x.stop
    IN  /\ x.phase = "running" /\ ~x.stopped
        /\ \/ stops /\ Becomes(e, [x EXCEPT !.stopped = TRUE])
           \/ ~stops /\ x.deadline = 0 /\ Lose(e)
           \/ /\ x.deadline > 0
              /\ \/ /\ x.beat = "held"
                    /\ Becomes(e, [x EXCEPT !.beat = "idle",
                            !.deadline = lease_deadline_from_sample(x.age)])
                 \/ Revoked(e) \/ (x.beat = "missed" /\ Lose(e)) \/ Unconfirmed(e)
        /\ UNCHANGED <<sub, row>>

----------------------------------------------------------------------------
(* execute_claim. *)

BeginExecution(e) ==
    /\ ex[e].phase = "claimed"
    /\ IF ex[e].deadline = 0 THEN Ends(e)
       ELSE Becomes(e, [ex[e] EXCEPT !.phase = "running"])
    /\ UNCHANGED <<sub, row>>

(* The top of the loop: the handler is dropped. *)
Leaves(x) == x.stopped /\ (x.forced \/ (~x.cleanup /\ x.outcome # "none"))

LeaveLoop(e) ==
    /\ ex[e].phase = "running" /\ Leaves(ex[e])
    /\ IF ex[e].forced THEN Ends(e)
       ELSE Finishes(e, ex[e].outcome)
    /\ UNCHANGED <<sub, row>>

(* The branches of the select, up to the timeout, in their order. *)
Forced(e) ==
    /\ ForcedReady(ex[e])
    /\ Becomes(e, [ex[e] EXCEPT !.stop = TRUE, !.forced = TRUE])

Cancelled(e) ==
    /\ CancelReady(ex[e]) /\ ~ForcedReady(ex[e])
    /\ Becomes(e, [ex[e] EXCEPT !.shutdown = TRUE])

(* Mutant: GraceElapses that leaves the heartbeat running. *)
GraceKeepsHeartbeat(e) ==
    LET x == ex[e]
    IN  /\ (x.shutdown /\ x.outcome = "none") \/ x.cleanup
        /\ Becomes(e, [x EXCEPT !.cleanup = FALSE,
                        !.outcome = IF @ = "none" THEN "retryable" ELSE @])

GraceElapses(e) ==
    LET x == ex[e]
    IN  /\ (x.shutdown /\ x.outcome = "none") \/ x.cleanup
        /\ Becomes(e, [x EXCEPT !.stop = TRUE, !.cleanup = FALSE,
                        !.outcome = IF @ = "none" THEN "retryable" ELSE @])

TimesOut(e) ==
    LET x == ex[e]
    IN  /\ x.outcome = "none"
        /\ Becomes(e, [x EXCEPT !.shutdown = TRUE, !.cleanup = TRUE,
                        !.outcome = "retryable"])

ExecutorTimer(e) ==
    /\ ex[e].phase = "running" /\ ~Leaves(ex[e])
    /\ \/ Forced(e) \/ Cancelled(e)
       \/ /\ ~ForcedReady(ex[e]) /\ ~CancelReady(ex[e])
          /\ GraceElapses(e) \/ TimesOut(e)
    /\ UNCHANGED <<sub, row>>

(* The handler branch: the others are not ready.  During cleanup only a    *)
(* forced stop and the deadline come before it.                            *)
Polled(e) ==
    LET x == ex[e]
    IN  /\ ~x.finished
        /\ \/ /\ x.phase = "running" /\ ~Leaves(x)
              /\ ~ForcedReady(x) /\ ~CancelReady(x)
              /\ x.stopped \/ (x.deadline > 0 /\ ~(x.beat = "idle" /\ x.stop))
           \/ x.phase \in {"revoking", "losing"} /\ x.token # "forced" /\ x.deadline > 0

HandlerReturns(e) ==
    LET x == ex[e]
    IN  /\ x.phase = "running" /\ Polled(e)
        /\ Becomes(e, [x EXCEPT !.finished = TRUE, !.stop = TRUE, !.cleanup = FALSE,
                !.outcome = IF @ = "none" /\ ~x.forced THEN "result" ELSE @])
        /\ UNCHANGED <<sub, row>>

(* The cleanup of a revoked handler ends, when it returns or its time is   *)
(* up: T-W3 settles the revocation, unless the runtime is forced to stop.  *)
RevokedCleanup(e) ==
    LET x == ex[e]
    IN  /\ x.phase = "revoking"
        /\ \/ x.token = "forced" /\ Ends(e)
           \/ /\ x.token # "forced"
              /\ Finishes(e, "revoked")
        /\ UNCHANGED <<sub, row>>

LostCleanup(e) ==
    /\ ex[e].phase = "losing"
    /\ Ends(e) /\ UNCHANGED <<sub, row>>

----------------------------------------------------------------------------
(* The runtime around the execution. *)

(* RuntimeHandle::shutdown cancels, and forces after its deadline. *)
Shutdown(e) ==
    /\ "shutdown" \in Events
    /\ ex[e].phase \notin {"unclaimed", "ended"} /\ ex[e].token # "forced"
    /\ Becomes(e, [ex[e] EXCEPT !.token = IF @ = "none" THEN "cancelled" ELSE "forced"])
    /\ UNCHANGED <<sub, row>>

(* The process dies, and its handler with it. *)
Crash(e) ==
    /\ "crash" \in Events /\ ex[e].phase \notin {"unclaimed", "ended"}
    /\ Ends(e) /\ UNCHANGED <<sub, row>>

Executor(e) ==
    \/ BeginExecution(e) \/ LeaveLoop(e) \/ HeartbeatResult(e)
    \/ RevokedCleanup(e) \/ LostCleanup(e) \/ finish_claim(e)

Next ==
    \/ Tick \/ reconcile_expired \/ Revoke
    \/ \E e \in Execution :
        \/ claim_locked_candidate(e) \/ BeginRenewal(e) \/ heartbeat_once(e)
        \/ HandlerReturns(e) \/ ExecutorTimer(e) \/ Executor(e)
        \/ Shutdown(e) \/ Crash(e)

Spec == Init /\ [][Next]_evars

(* Time passes, and the executor is polled when one of its branches is     *)
(* ready; its last transaction, T-W3, answers or returns an error.         *)
(* Nothing is assumed of the handler and of renewals.                      *)
FairSpec ==
    /\ Spec /\ WF_evars(Tick)
    /\ \A e \in Execution : WF_evars(ExecutorTimer(e)) /\ WF_evars(Executor(e))

----------------------------------------------------------------------------
(* A handler makes progress only while its execution holds a lease that    *)
(* has not expired in the database: not after a lost renewal, a late timer *)
(* or a slow claim, and not while it cleans up.  No two attempts of one    *)
(* activity ever run at once.                                              *)
PolledUnderLease ==
    \A e \in Execution : Polled(e) => Holds(e) /\ row.left > 0

(* What a handler returned in time is not thrown away because a renewal    *)
(* failed: T-W3 is tried, unless the runtime is forced to stop, the lease  *)
(* ran out by the local clock or was lost.                                 *)
ReturnKept ==
    [][\A e \in Execution :
        Executor(e) /\ ex[e].outcome = "result" /\ ex[e].phase = "running"
                    /\ ex'[e].phase = "ended" =>
            ex[e].forced \/ ex[e].deadline = 0 \/ ~Holds(e)]_evars

(* Every execution ends, also when its handler ignores cancellation and    *)
(* its renewals go on succeeding or never answer.                          *)
ExecutionEnds ==
    \A e \in Execution :
        ex[e].phase \notin {"unclaimed", "ended"}
            ~> ex[e].phase = "ended"
=============================================================================
