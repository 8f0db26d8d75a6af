---------------------------- MODULE Coordinator ----------------------------
(***************************************************************************)
(* The workflow coordinator (runtime/coordinator.rs): claim and lease      *)
(* recovery (T-C1), the commit of a step's transition (T-C2) and the       *)
(* activation failure (T-C3).  A step itself only reads, so it happens     *)
(* inside the commit or the failure that ends it; a claim whose fence is   *)
(* lost, whose runtime dies or whose transaction fails is dropped.         *)
(***************************************************************************)
EXTENDS DurableRows

CONSTANTS
    Transitions,  \* what the registered workflow handlers may return
    MaxCommands,  \* bound on command_sequence
    MaxDelivered  \* bound on delivered_event_sequence

ASSUME CommandBoundAssumption == MaxCommands \in Nat /\ MaxDelivered \in Nat

Leased(r, t) == [r EXCEPT !.status = "running", !.token = t, !.lapsed = FALSE]

(* Mutant: ExpiredRuns of runs that failed before only. *)
ExpiredFailedRuns ==
    {w \in Workflow : /\ wf[w].status = "running" /\ wf[w].lapsed
                      /\ wf[w].attempts > 0}

ExpiredRuns ==
    {w \in Workflow : wf[w].status = "running" /\ wf[w].lapsed}

Recovered(r) == LeaseCleared([r EXCEPT !.status = "ready", !.due = TRUE])

ClaimOf(w, r, t) ==
    [workflow |-> w, token |-> t, delivered |-> r.delivered,
     cmd |-> r.cmd, streak |-> r.streak]

(* T-C1: recover at most one expired run, then lease at most one due row,  *)
(* the recovered one included.  Rows another transaction locks, and rows   *)
(* without a local definition, are skipped.                                *)
claim_row ==
    \E recovered \in {{}} \cup {{w} : w \in ExpiredRuns} :
        LET rows == [w \in Workflow |->
                        IF w \in recovered THEN Recovered(wf[w]) ELSE wf[w]]
        IN  /\ \/ /\ recovered # {}
                  /\ wf' = rows
                  /\ UNCHANGED coordClaims
               \/ \E w \in Workflow, t \in FreshTokens :
                    /\ rows[w].status = "ready" /\ rows[w].due
                    /\ wf' = [rows EXCEPT ![w] = Leased(rows[w], t)]
                    /\ coordClaims' = coordClaims \cup {ClaimOf(w, rows[w], t)}
            /\ UNCHANGED <<act, apr, openAttempts, workClaims>>

(* Mutant: Fenced without the token. *)
RunningOnly(c) == wf[c.workflow].status = "running"

(* The fence of every write of a claim. *)
Fenced(c) == wf[c.workflow].status = "running" /\ wf[c.workflow].token = c.token

NextDelivery(c) ==
    {e \in wf[c.workflow].inbox :
        /\ e.seq > c.delivered
        /\ \A f \in wf[c.workflow].inbox : f.seq > c.delivered => e.seq <= f.seq}

(* Mutant: Consumed without delivered_event_sequence. *)
ConsumedNothing(r, e) == LeaseCleared([r EXCEPT !.attempts = 0, !.streak = 0])

(* The columns every committed transition writes: the event is consumed,   *)
(* the failure count reset and the lease given up.                         *)
Consumed(r, e) ==
    LeaseCleared([r EXCEPT !.delivered = e.seq,
                           !.inbox = {f \in @ : f.seq > e.seq},
                           !.attempts = 0, !.streak = 0])

Waiting(r, e, c, status, wait) ==
    [Consumed(r, e) EXCEPT !.status = status, !.wait = wait, !.cmd = c.cmd + 1]

Continued(r, e, c) ==
    LET fairness == c.streak + 1 >= MaxStreak
    IN  WithEvent([Consumed(r, e) EXCEPT
                     !.status = "ready", !.due = ~fairness,
                     !.streak = IF fairness THEN 0 ELSE c.streak + 1],
                  "continued", 0)

Forget(c) == coordClaims' = coordClaims \ {c}

(* T-C2, StoredTransition::Continue. *)
CommitContinue(c, e) ==
    /\ "continue" \in Transitions /\ e.seq < MaxDelivered
    /\ wf' = [wf EXCEPT ![c.workflow] = Continued(@, e, c)]
    /\ UNCHANGED <<act, apr>>

(* T-C2, StoredTransition::Complete. *)
CommitComplete(c, e) ==
    /\ "complete" \in Transitions
    /\ wf' = wake_waiting_parents_on_child_terminal(
                [wf EXCEPT ![c.workflow] =
                    [Consumed(@, e) EXCEPT !.status = "succeeded"]],
                c.workflow, "child_succeeded")
    /\ UNCHANGED <<act, apr>>

(* T-C2, WaitTransition::SleepUntil; the wake time may already be past. *)
CommitSleep(c, e) ==
    /\ "sleep" \in Transitions /\ c.cmd < MaxCommands
    /\ \E past \in BOOLEAN :
        wf' = [wf EXCEPT ![c.workflow] =
                [Waiting(@, e, c, "sleeping", WaitOn("timer", c.cmd + 1))
                    EXCEPT !.due = past]]
    /\ UNCHANGED <<act, apr>>

(* T-C2, WaitTransition::WaitForApproval. *)
CommitApproval(c, e) ==
    /\ "approval" \in Transitions /\ c.cmd < MaxCommands
    /\ \E p \in Approval, expiry \in {"never", "later", "past"} :
        /\ apr[p].status = "absent"
        /\ apr' = [apr EXCEPT ![p] =
                    [status |-> "pending", workflow |-> c.workflow,
                     cmd |-> c.cmd + 1, expiry |-> expiry]]
        /\ wf' = [wf EXCEPT ![c.workflow] =
                    Waiting(@, e, c, "waiting_approval", WaitOn("approval", p))]
    /\ UNCHANGED act

(* T-C2, WaitTransition::RunActivity. *)
CommitActivity(c, e) ==
    /\ "activity" \in Transitions /\ c.cmd < MaxCommands
    /\ \E a \in Activity, t \in Topic, r \in Runnable :
        /\ act[a].status = "absent"
        /\ act' = [act EXCEPT ![a] = NewActivity(c.workflow, c.cmd + 1, t, r)]
        /\ wf' = [wf EXCEPT ![c.workflow] =
                    Waiting(@, e, c, "waiting_activity", WaitOn("activity", a))]
    /\ UNCHANGED apr

(* Mutant: MayAwait that only refuses the caller. *)
MayAwaitAncestor(w, child) == child # w

(* Waiting on the caller or one of its ancestors would never end. *)
MayAwait(w, child) == child \notin CallerOrAncestors(wf, w)

(* insert_child: an existing child must run the version asked for. *)
RunsVersion(child, version) == wf[child].version = version

(* T-C2, WaitTransition::RunChild.  A key nobody holds inserts the child.  *)
(* A held key resolves to its newest generation; if that is already        *)
(* terminal its outcome is delivered at once.  A generation the workflow   *)
(* may not await rolls the commit back, and T-C3 follows.                  *)
CommitChild(c, e) ==
    /\ "child" \in Transitions /\ c.cmd < MaxCommands
    /\ \E key \in DomainKey \cup {[owner |-> c.workflow, cmd |-> c.cmd + 1]},
          version \in Version, child \in Workflow :
        LET parked == [wf EXCEPT ![c.workflow] =
                Waiting(@, e, c, "waiting_child", WaitOn("child", child))]
        IN  \/ /\ Keyed(wf, key) = {}
               /\ ~Exists(wf, child)
               /\ wf' = [parked EXCEPT ![child] = NewWorkflow(
                            key, version, c.workflow, c.cmd + 1, None, TRUE)]
            \/ /\ \E k \in Keyed(wf, key) : child \in NewestGeneration(wf, k)
               /\ RunsVersion(child, version)
               /\ MayAwait(c.workflow, child)
               /\ wf' = IF wf[child].status \notin Terminal THEN parked
                        ELSE wake_waiting_parents_on_child_terminal(
                                parked, child,
                                IF wf[child].status = "succeeded"
                                THEN "child_succeeded" ELSE "child_failed")
    /\ UNCHANGED <<act, apr>>

commit_transition ==
    \E c \in coordClaims : \E e \in NextDelivery(c) :
        /\ Fenced(c) /\ Forget(c)
        /\ \/ CommitContinue(c, e) \/ CommitComplete(c, e)
           \/ CommitSleep(c, e) \/ CommitApproval(c, e)
           \/ CommitActivity(c, e) \/ CommitChild(c, e)
        /\ UNCHANGED <<openAttempts, workClaims>>

(* T-C3: the step failed, panicked or timed out, or its transition was     *)
(* rejected.  The event stays undelivered.                                 *)
record_activation_failure ==
    /\ "fail" \in Transitions
    /\ \E c \in coordClaims :
        LET attempt == wf[c.workflow].attempts + 1
            exhausted == attempt >= MaxActivation
            failed == [wf EXCEPT ![c.workflow] =
                LeaseCleared([@ EXCEPT
                    !.status = IF exhausted THEN "failed" ELSE "ready",
                    !.attempts = attempt, !.due = FALSE])]
        IN  /\ Fenced(c) /\ Forget(c)
            /\ wf' = IF exhausted
                     THEN wake_waiting_parents_on_child_terminal(
                            failed, c.workflow, "child_failed")
                     ELSE failed
            /\ UNCHANGED <<act, apr, openAttempts, workClaims>>

(* The claim is forgotten: its runtime stops or dies, its transaction      *)
(* fails, or its write misses the fence and rolls back.                    *)
AbandonActivation ==
    /\ \E c \in coordClaims : Forget(c)
    /\ UNCHANGED <<wf, act, apr, openAttempts, workClaims>>
=============================================================================
