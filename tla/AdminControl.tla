---------------------------- MODULE AdminControl ----------------------------
(***************************************************************************)
(* Operator commands on workflows, activities and approvals                *)
(* (admin/control.rs): pause (T-A2), resume (T-A3), restart (T-A5), retry  *)
(* (T-A6) and resolve approval (T-A7).  Cancel (T-A4) is Store's.          *)
(***************************************************************************)
EXTENDS Store

CONSTANT MaxAttemptLimit  \* bound on max_attempts, which each pause raises

ASSUME AttemptLimitAssumption == MaxAttemptLimit \in Nat

(* Mutant: PausedActivity without the extra attempt. *)
PauseCostsAttempt(r) ==
    IF r.status = "running" THEN [r EXCEPT !.status = "cancelling"] ELSE r

(* pause_activity: only a running activity is revoked, and the pause does  *)
(* not cost it an attempt.                                                 *)
PausedActivity(r) ==
    IF r.status = "running" THEN [r EXCEPT !.status = "cancelling", !.max = @ + 1]
    ELSE r

(* T-A2. *)
pause_workflow ==
    /\ "pause" \in Calls
    /\ \E w \in Workflow :
        /\ Exists(wf, w) /\ wf[w].status \notin Terminal \cup {"paused"}
        /\ wf' = [wf EXCEPT ![w] = LeaseCleared([@ EXCEPT !.status = "paused"])]
        /\ act' = [a \in Activity |->
                    IF wf[w].wait = WaitOn("activity", a)
                    THEN PausedActivity(act[a]) ELSE act[a]]
        /\ \A a \in Activity : act'[a].max <= MaxAttemptLimit
    /\ UNCHANGED <<apr, openAttempts, coordClaims, workClaims>>

(* The status a resume restores, or "conflict". *)
resume_status(r) ==
    CASE r.wait.kind = "none"  -> "ready"
      [] r.wait.kind = "timer" -> "sleeping"
      [] r.wait.kind = "activity" ->
            LET s == act[r.wait.ref].status
            IN  CASE s \in NonTerminalActivity -> "waiting_activity"
                  [] s = "dead_lettered"       -> "blocked"
                  [] s = "succeeded"           -> "ready"
                  [] OTHER                     -> "conflict"
      [] r.wait.kind = "child" ->
            IF wf[r.wait.ref].status \in Terminal THEN "conflict"
            ELSE "waiting_child"
      [] OTHER ->
            IF apr[r.wait.ref].status = "pending" THEN "waiting_approval"
            ELSE "ready"

(* T-A3. *)
resume_workflow ==
    /\ "resume" \in Calls
    /\ \E w \in Workflow :
        LET status == resume_status(wf[w])
        IN  /\ wf[w].status = "paused" /\ status # "conflict"
            /\ wf' = [wf EXCEPT ![w] = LeaseCleared(
                        [wf[w] EXCEPT !.status = status,
                                      !.due = wf[w].due \/ status = "ready"])]
    /\ UNCHANGED <<act, apr, openAttempts, coordClaims, workClaims>>

(* T-A5: a live source is cancelled like T-A4, but keeps its wait columns. *)
restart ==
    /\ "restart" \in Calls
    /\ \E source \in Workflow, version \in Version, next \in Workflow :
        LET inserted == [wf EXCEPT ![next] =
                NewWorkflow(None, version, None, 0, source, TRUE)]
            live == wf[source].status \notin Terminal
            woken == wake_waiting_parents_on_child_terminal(
                [inserted EXCEPT ![source] = Superseded(@)],
                source, "child_failed")
            below == OwnedDescendants(inserted, source)
        IN  /\ wf[source].status \in Restartable
            /\ Successors(wf, source) = {} /\ ~Exists(wf, next)
            /\ wf' = IF live THEN cancel_one_workflow(woken, below)
                     ELSE inserted
            /\ act' = IF live THEN cancel_activities({source} \cup below)
                      ELSE act
            /\ apr' = IF live THEN cancel_approvals({source} \cup below)
                      ELSE apr
    /\ UNCHANGED <<openAttempts, coordClaims, workClaims>>

(* T-A6: replace the dead-lettered activity that blocks its workflow. *)
retry ==
    /\ "retry" \in Calls
    /\ \E source, next \in Activity, topic \in Topic, runnable \in Runnable :
        LET w == act[source].workflow
        IN  /\ act[source].status = "dead_lettered" /\ act[next].status = "absent"
            /\ wf[w].status = "blocked" /\ wf[w].wait = WaitOn("activity", source)
            /\ act' = [act EXCEPT ![next] = NewActivity(
                        w, act[source].cmd, topic, runnable)]
            /\ wf' = [wf EXCEPT ![w].status = "waiting_activity",
                                ![w].wait = WaitOn("activity", next),
                                ![w].due = TRUE]
    /\ UNCHANGED <<apr, openAttempts, coordClaims, workClaims>>

(* T-A7: an expired approval is refused even before T-A1 expires it. *)
resolve_approval ==
    /\ "resolve" \in Calls
    /\ \E p \in Approval :
        LET w == apr[p].workflow
        IN  /\ apr[p].status = "pending" /\ apr[p].expiry # "past"
            /\ wf[w].status \in ApprovalWaiters
            /\ wf[w].wait = WaitOn("approval", p)
            /\ apr' = [apr EXCEPT ![p].status = "resolved"]
            /\ wf' = [wf EXCEPT ![w] = WaitCleared(
                        WithEvent(@, "approval_resolved", apr[p].cmd))]
    /\ UNCHANGED <<act, openAttempts, coordClaims, workClaims>>
=============================================================================
