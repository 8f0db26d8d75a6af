----------------------------- MODULE FenceProofs -----------------------------
(***************************************************************************)
(* The workflow fence is sound: the snapshot of a claim that still passes  *)
(* it is the row.  A row is leased only with a token no claim holds, and   *)
(* every step on a leased row either ends the lease or leaves the columns  *)
(* of the snapshot alone.                                                  *)
(***************************************************************************)
EXTENDS TypeProofs

(* The row s that follows r is not leased, or leased as r was. *)
Unmoved(r, s) ==
    s.status = "running" =>
        /\ r.status = "running" /\ s.token = r.token
        /\ s.delivered = r.delivered /\ s.cmd = r.cmd /\ s.streak = r.streak

(* Every step but T-C1. *)
NoNewLease ==
    /\ \A w \in Workflow : Unmoved(wf[w], wf'[w])
    /\ coordClaims' \subseteq coordClaims

(* Snapshots stay current in a step that leases nothing. *)
LEMMA SnapshotKept ==
    ASSUME TypeOK, SnapshotCurrent, NoNewLease
    PROVE  SnapshotCurrent'
BY DEF TypeOK, SnapshotCurrent, NoNewLease, Unmoved, Fenced, CoordClaim

(* T-C1 leases with a fresh token and takes its snapshot of the row. *)
LEMMA ClaimSnapshot ==
    ASSUME TypeOK, SnapshotCurrent, claim_row
    PROVE  SnapshotCurrent'
<1>1. PICK recovered \in {{}} \cup {{w} : w \in ExpiredRuns} : claim_row!(recovered)
  BY DEF claim_row
<1> DEFINE rows == [w \in Workflow |->
                        IF w \in recovered THEN Recovered(wf[w]) ELSE wf[w]]
<1>2. rows \in [Workflow -> WorkflowRow]
  BY RecoveredType DEF TypeOK
<1>3. \A w \in Workflow : Unmoved(wf[w], rows[w])
  BY DEF TypeOK, Unmoved, Recovered, LeaseCleared, WorkflowRow
<1>4. CASE wf' = rows /\ UNCHANGED coordClaims
  BY <1>3, <1>4, SnapshotKept DEF NoNewLease
<1>5. ASSUME NEW w \in Workflow, NEW t \in FreshTokens,
             wf' = [rows EXCEPT ![w] = Leased(rows[w], t)],
             coordClaims' = coordClaims \cup {ClaimOf(w, rows[w], t)}
      PROVE  SnapshotCurrent'
  <2> HIDE DEF rows
  <2> SUFFICES ASSUME NEW c \in coordClaims', Fenced(c)'
               PROVE  /\ wf'[c.workflow].delivered = c.delivered
                      /\ wf'[c.workflow].cmd = c.cmd
                      /\ wf'[c.workflow].streak = c.streak
    BY DEF SnapshotCurrent
  <2>1. wf'[w] = Leased(rows[w], t) /\ rows[w] \in WorkflowRow
    BY <1>2, <1>5
  <2>2. CASE c = ClaimOf(w, rows[w], t)
    BY <2>1, <2>2 DEF ClaimOf, Leased, WorkflowRow
  <2>3. CASE c \in coordClaims
    <3>1. c.workflow \in Workflow /\ c.token # t
      BY <2>3 DEF TypeOK, CoordClaim, FreshTokens
    <3>2. c.workflow # w
      <4>1. Leased(rows[w], t).token = t
        BY <2>1 DEF Leased, WorkflowRow
      <4>2. wf'[c.workflow].token = c.token
        BY DEF Fenced
      <4> QED
        BY <2>1, <3>1, <4>1, <4>2
    <3>3. wf'[c.workflow] = rows[c.workflow]
      BY <1>2, <1>5, <3>1, <3>2
    <3> QED
      BY <1>3, <2>3, <3>1, <3>3 DEF SnapshotCurrent, Fenced, Unmoved
  <2> QED
    BY <1>5, <2>2, <2>3
<1> QED
  BY <1>1, <1>4, <1>5

----------------------------------------------------------------------------
(* What the row transitions do to a lease. *)

(* Waking, blocking, cancelling and superseding a row end its lease. *)
LEMMA RowsUnleased ==
    ASSUME NEW r \in WorkflowRow, NEW kind, NEW cmd
    PROVE  /\ WaitCleared(WithEvent(r, kind, cmd)).status # "running"
           /\ CancelledWorkflow(r).status # "running"
           /\ Superseded(r).status # "running"
<1>1. CancelledWorkflow(r).status = "cancelled" /\ Superseded(r).status = "cancelled"
  BY DEF CancelledWorkflow, Superseded, LeaseCleared, WorkflowRow
<1>2. DOMAIN WithEvent(r, kind, cmd) = DOMAIN r
  BY DEF WithEvent
<1>3. WaitCleared(WithEvent(r, kind, cmd)).status \in {"paused", "ready"}
  BY <1>2 DEF WaitCleared, WorkflowRow
<1> QED
  BY <1>1, <1>3

(* The functions of rows lease nothing. *)
LEMMA FunctionsUnmoved ==
    ASSUME NEW rows \in [Workflow -> WorkflowRow], NEW w \in Workflow
    PROVE  /\ \A c, kind : Unmoved(rows[w],
                wake_waiting_parents_on_child_terminal(rows, c, kind)[w])
           /\ \A S : Unmoved(rows[w], block_workflow(rows, S)[w])
           /\ \A S : Unmoved(rows[w], cancel_one_workflow(rows, S)[w])
           /\ \A s, n : Unmoved(rows[w],
                hand_waiting_parents_to_successor(rows, s, n)[w])
<1>1. Unmoved(rows[w], rows[w])
  BY DEF Unmoved
<1>2. \A c, kind : Unmoved(rows[w],
                wake_waiting_parents_on_child_terminal(rows, c, kind)[w])
  BY <1>1, RowsUnleased DEF wake_waiting_parents_on_child_terminal, WokenByChild, Unmoved
<1>3. \A S : Unmoved(rows[w], block_workflow(rows, S)[w])
  <2>1. [rows[w] EXCEPT !.status = "blocked"].status = "blocked"
    BY DEF WorkflowRow
  <2> QED
    BY <1>1, <2>1 DEF block_workflow, Unmoved
<1>4. \A S : Unmoved(rows[w], cancel_one_workflow(rows, S)[w])
  BY <1>1, RowsUnleased DEF cancel_one_workflow, WokenByChild, Unmoved
<1>5. ASSUME NEW s, NEW n
      PROVE  Unmoved(rows[w], hand_waiting_parents_to_successor(rows, s, n)[w])
  <2>1. Unmoved(rows[w], [rows[w] EXCEPT !.wait = WaitOn("child", n)])
    BY DEF Unmoved, WorkflowRow
  <2> QED
    BY <1>1, <1>2, <2>1 DEF hand_waiting_parents_to_successor
<1> QED
  BY <1>2, <1>3, <1>4, <1>5

(* Unmoved composes. *)
LEMMA UnmovedTransitive ==
    ASSUME NEW r, NEW s, NEW t, Unmoved(r, s), Unmoved(s, t)
    PROVE  Unmoved(r, t)
BY DEF Unmoved

----------------------------------------------------------------------------
(* T-C2 ends the lease of its workflow, and wakes or inserts others. *)
LEMMA CommitUnmoved ==
    ASSUME TypeOK, commit_transition
    PROVE  NoNewLease
<1> USE DEF TypeOK
<1>1. PICK c \in coordClaims : \E e \in NextDelivery(c) : commit_transition!(c)!(e)
  BY DEF commit_transition
<1>2. PICK e \in NextDelivery(c) : commit_transition!(c)!(e)
  BY <1>1
<1> DEFINE w == c.workflow
<1>3. c \in CoordClaim /\ w \in Workflow /\ c.cmd + 1 \in Nat /\ wf[w] \in WorkflowRow
  BY DEF CoordClaim
<1>4. e \in Event
  BY <1>3 DEF NextDelivery, WorkflowRow
<1>5. coordClaims' \subseteq coordClaims
  BY <1>2 DEF Forget
<1>6. ASSUME NEW r \in WorkflowRow, r.status # "running"
      PROVE  /\ [wf EXCEPT ![w] = r] \in [Workflow -> WorkflowRow]
             /\ \A x \in Workflow : Unmoved(wf[x], [wf EXCEPT ![w] = r][x])
  BY <1>3, <1>6 DEF Unmoved
<1>7. ASSUME NEW status \in WorkflowStatus, status # "running", NEW wait \in Wait,
             NEW due \in BOOLEAN
      PROVE  /\ Waiting(wf[w], e, c, status, wait) \in WorkflowRow
             /\ Waiting(wf[w], e, c, status, wait).status # "running"
             /\ [Waiting(wf[w], e, c, status, wait) EXCEPT !.due = due] \in WorkflowRow
             /\ [Waiting(wf[w], e, c, status, wait) EXCEPT !.due = due].status # "running"
             /\ [Consumed(wf[w], e) EXCEPT !.status = status] \in WorkflowRow
             /\ [Consumed(wf[w], e) EXCEPT !.status = status].status # "running"
             /\ Continued(wf[w], e, c) \in WorkflowRow
             /\ Continued(wf[w], e, c).status # "running"
  <2>1. /\ Waiting(wf[w], e, c, status, wait) \in WorkflowRow
        /\ [Waiting(wf[w], e, c, status, wait) EXCEPT !.due = due] \in WorkflowRow
        /\ [Consumed(wf[w], e) EXCEPT !.status = status] \in WorkflowRow
        /\ Continued(wf[w], e, c) \in WorkflowRow
    BY <1>3, <1>4, CommittedRowType
  <2>2. DOMAIN Consumed(wf[w], e) = DOMAIN wf[w]
    BY DEF Consumed, LeaseCleared
  <2>3. "status" \in DOMAIN Consumed(wf[w], e)
    BY <1>3, <2>2 DEF WorkflowRow
  <2>4. /\ Waiting(wf[w], e, c, status, wait).status = status
        /\ [Consumed(wf[w], e) EXCEPT !.status = status].status = status
    BY <2>3 DEF Waiting
  <2>5. [Waiting(wf[w], e, c, status, wait) EXCEPT !.due = due].status = status
    BY <2>1, <2>4 DEF WorkflowRow
  <2>6. Continued(wf[w], e, c).status = "ready"
    BY <2>3 DEF Continued, WithEvent
  <2> QED
    BY <1>7, <2>1, <2>4, <2>5, <2>6
<1>8. ASSUME NEW kind \in {"timer", "activity", "child", "approval"},
             NEW ref \in Activity \cup Workflow \cup Approval \cup Nat
      PROVE  WaitOn(kind, ref) \in Wait
  BY DEF WaitOn, Wait
<1>9. /\ "ready" \in WorkflowStatus /\ "succeeded" \in WorkflowStatus
      /\ "sleeping" \in WorkflowStatus /\ "waiting_approval" \in WorkflowStatus
      /\ "waiting_activity" \in WorkflowStatus /\ "waiting_child" \in WorkflowStatus
      /\ NoWait \in Wait /\ TRUE \in BOOLEAN
  BY DEF WorkflowStatus, Terminal, NoWait, Wait
<1> HIDE DEF w
<1>10. ASSUME NEW x \in Workflow PROVE Unmoved(wf[x], wf'[x])
  <2>1. CASE CommitContinue(c, e)
    BY <1>6, <1>7, <1>9, <2>1 DEF CommitContinue, w
  <2>2. CASE CommitComplete(c, e)
    <3> DEFINE rows == [wf EXCEPT ![w] = [Consumed(wf[w], e) EXCEPT !.status = "succeeded"]]
    <3>1. rows \in [Workflow -> WorkflowRow] /\ Unmoved(wf[x], rows[x])
      BY <1>6, <1>7, <1>9
    <3>2. wf' = wake_waiting_parents_on_child_terminal(rows, w, "child_succeeded")
      BY <2>2 DEF CommitComplete, w
    <3> HIDE DEF rows
    <3> QED
      BY <3>1, <3>2, FunctionsUnmoved, UnmovedTransitive
  <2>3. CASE CommitSleep(c, e)
    <3>1. WaitOn("timer", c.cmd + 1) \in Wait
      BY <1>3, <1>8
    <3> QED
      BY <1>6, <1>7, <1>9, <2>3, <3>1 DEF CommitSleep, w
  <2>4. CASE CommitApproval(c, e)
    <3>1. PICK p \in Approval :
            wf' = [wf EXCEPT ![w] =
                    Waiting(wf[w], e, c, "waiting_approval", WaitOn("approval", p))]
      BY <2>4 DEF CommitApproval, w
    <3>2. WaitOn("approval", p) \in Wait
      BY <1>8
    <3> QED
      BY <1>6, <1>7, <1>9, <3>1, <3>2
  <2>5. CASE CommitActivity(c, e)
    <3>1. PICK a \in Activity :
            wf' = [wf EXCEPT ![w] =
                    Waiting(wf[w], e, c, "waiting_activity", WaitOn("activity", a))]
      BY <2>5 DEF CommitActivity, w
    <3>2. WaitOn("activity", a) \in Wait
      BY <1>8
    <3> QED
      BY <1>6, <1>7, <1>9, <3>1, <3>2
  <2>6. CASE CommitChild(c, e)
    <3>1. PICK key \in DomainKey \cup {[owner |-> w, cmd |-> c.cmd + 1]},
               version \in Version, child \in Workflow :
              CommitChild(c, e)!2!(key, version, child)
      BY <2>6 DEF CommitChild, w
    <3> DEFINE parked == [wf EXCEPT ![w] =
                  Waiting(wf[w], e, c, "waiting_child", WaitOn("child", child))]
               new == NewWorkflow(key, version, w, c.cmd + 1, None, TRUE)
    <3>2. WaitOn("child", child) \in Wait
      BY <1>8
    <3>3. parked \in [Workflow -> WorkflowRow] /\ Unmoved(wf[x], parked[x])
      BY <1>6, <1>7, <1>9, <3>2
    <3>4. \/ wf' = [parked EXCEPT ![child] = new]
          \/ wf' = parked
          \/ \E kind : wf' = wake_waiting_parents_on_child_terminal(parked, child, kind)
      BY <3>1 DEF w
    <3>5. Unmoved(wf[x], new)
      BY DEF Unmoved, NewWorkflow
    <3> HIDE DEF parked, new
    <3>6. CASE wf' = [parked EXCEPT ![child] = new]
      BY <3>3, <3>5, <3>6
    <3>7. CASE \E kind : wf' = wake_waiting_parents_on_child_terminal(parked, child, kind)
      BY <3>3, <3>7, FunctionsUnmoved, UnmovedTransitive
    <3> QED
      BY <3>3, <3>4, <3>6, <3>7
  <2> QED
    BY <1>2, <2>1, <2>2, <2>3, <2>4, <2>5, <2>6
<1> QED
  BY <1>5, <1>10 DEF NoNewLease

(* T-C3 ends the lease of its workflow. *)
LEMMA FailureUnmoved ==
    ASSUME TypeOK, record_activation_failure
    PROVE  NoNewLease
<1> USE DEF TypeOK
<1>1. PICK c \in coordClaims : record_activation_failure!2!(c)
  BY DEF record_activation_failure
<1> DEFINE w == c.workflow
           attempt == wf[w].attempts + 1
           status == IF attempt >= MaxActivation THEN "failed" ELSE "ready"
           row == [wf[w] EXCEPT !.status = status, !.attempts = attempt, !.due = FALSE]
           failed == [wf EXCEPT ![w] = LeaseCleared(row)]
<1>2. w \in Workflow /\ wf[w] \in WorkflowRow
  BY DEF CoordClaim
<1>3. status \in WorkflowStatus /\ status # "running" /\ attempt \in Nat
  BY <1>2 DEF WorkflowStatus, Terminal, WorkflowRow
<1>4. \/ wf' = failed
      \/ wf' = wake_waiting_parents_on_child_terminal(failed, w, "child_failed")
  BY <1>1
<1>5. coordClaims' \subseteq coordClaims
  BY <1>1 DEF Forget
<1> HIDE DEF attempt, status
<1>6. row \in WorkflowRow /\ row.status # "running"
  BY <1>2, <1>3 DEF WorkflowRow
<1> HIDE DEF row
<1>7. LeaseCleared(row) \in WorkflowRow /\ LeaseCleared(row).status # "running"
  <2>1. LeaseCleared(row).status = row.status
    BY <1>6 DEF LeaseCleared, WorkflowRow
  <2> QED
    BY <1>6, <2>1, WorkflowLeaseClearedType
<1>8. failed \in [Workflow -> WorkflowRow] /\ \A x \in Workflow : Unmoved(wf[x], failed[x])
  BY <1>2, <1>7 DEF Unmoved
<1> HIDE DEF failed
<1> QED
  BY <1>4, <1>5, <1>8, FunctionsUnmoved, UnmovedTransitive DEF NoNewLease

(* The worker's transactions wake or block workflows and lease none. *)
LEMMA WorkerUnmoved ==
    ASSUME TypeOK, ClaimActivities \/ finish_claim
    PROVE  NoNewLease
<1> USE DEF TypeOK
<1>1. ASSUME ClaimActivities PROVE NoNewLease
  <2>1. PICK topics \in {Topic} \cup {{t} : t \in Topic} : claim_batch(topics)
    BY <1>1 DEF ClaimActivities
  <2>2. PICK unsettled \in SUBSET ExpiredLeases(topics) : claim_batch(topics)!(unsettled)
    BY <2>1 DEF claim_batch
  <2>3. /\ \E S, T : wf' = block_workflow(block_workflow(wf, S), T)
        /\ UNCHANGED coordClaims
    BY <2>2
  <2>4. \A S : block_workflow(wf, S) \in [Workflow -> WorkflowRow]
    BY BlockType
  <2> QED
    BY <2>3, <2>4, FunctionsUnmoved, UnmovedTransitive DEF NoNewLease
<1>2. ASSUME finish_claim PROVE NoNewLease
  <2>1. PICK c \in workClaims : finish_claim!(c)
    BY <1>2 DEF finish_claim
  <2> DEFINE w == act[c.activity].workflow
             woken == WaitCleared(
                        WithEvent(wf[w], "activity_succeeded", act[c.activity].cmd))
  <2>2. \/ wf' = [wf EXCEPT ![w] = woken]
        \/ wf' = block_workflow(wf, {c.activity})
        \/ wf' = wf
    BY <2>1 DEF ApplyOutcome, SettleRevoked
  <2>3. \A x \in Workflow : Unmoved(wf[x], [wf EXCEPT ![w] = woken][x])
    BY RowsUnleased DEF Unmoved
  <2> HIDE DEF woken
  <2> QED
    BY <2>1, <2>2, <2>3, FunctionsUnmoved DEF NoNewLease, Unmoved
<1> QED
  BY <1>1, <1>2

(* A wake by timer, expiry or resolution ends no lease and makes none. *)
LEMMA WakesUnmoved ==
    ASSUME TypeOK, TimerMaterializer \/ ApprovalExpiryMaterializer \/ resolve_approval
    PROVE  NoNewLease
<1> USE DEF TypeOK
<1>1. \E w, kind, cmd : wf' = [wf EXCEPT ![w] = WaitCleared(WithEvent(wf[w], kind, cmd))]
  BY DEF TimerMaterializer, ApprovalExpiryMaterializer, resolve_approval
<1>2. UNCHANGED coordClaims
  BY DEF TimerMaterializer, ApprovalExpiryMaterializer, resolve_approval
<1> QED
  BY <1>1, <1>2, RowsUnleased DEF NoNewLease, Unmoved

(* Starts, cancellations and restarts lease nothing. *)
LEMMA StoreUnmoved ==
    ASSUME TypeOK, start \/ cancel_workflow \/ start_or_restart_recoverable \/ restart
    PROVE  NoNewLease
<1> USE DEF TypeOK
<1>1. UNCHANGED coordClaims
  BY DEF start, cancel_workflow, start_or_restart_recoverable, restart
<1>2. ASSUME NEW key, NEW version, NEW from, NEW due, NEW r
      PROVE  Unmoved(r, NewWorkflow(key, version, None, 0, from, due))
  BY DEF Unmoved, NewWorkflow
<1>3. CASE start
  <2>1. PICK w \in Workflow, key \in {None} \cup DomainKey, version \in Version,
             due \in BOOLEAN : start!2!(w, key, version, due)
    BY <1>3 DEF start
  <2> QED
    BY <1>1, <1>2, <2>1 DEF NoNewLease, Unmoved
<1>4. CASE cancel_workflow
  <2>1. \E S : wf' = cancel_one_workflow(wf, S)
    BY <1>4 DEF cancel_workflow
  <2> QED
    BY <1>1, <2>1, FunctionsUnmoved DEF NoNewLease
<1>5. ASSUME NEW source \in Workflow, NEW next \in Workflow, NEW version \in Version,
             NEW due \in BOOLEAN
      PROVE  LET inserted == [wf EXCEPT ![next] =
                                NewWorkflow(None, version, None, 0, source, due)]
                 superseded == [inserted EXCEPT ![source] = Superseded(@)]
             IN  /\ inserted \in [Workflow -> WorkflowRow]
                 /\ superseded \in [Workflow -> WorkflowRow]
                 /\ \A x \in Workflow : /\ Unmoved(wf[x], inserted[x])
                                         /\ Unmoved(wf[x], superseded[x])
  <2> DEFINE inserted == [wf EXCEPT ![next] =
                            NewWorkflow(None, version, None, 0, source, due)]
             superseded == [inserted EXCEPT ![source] = Superseded(@)]
  <2>1. /\ inserted \in [Workflow -> WorkflowRow]
        /\ superseded \in [Workflow -> WorkflowRow]
    BY SuccessorType
  <2>2. \A x \in Workflow : Unmoved(wf[x], inserted[x])
    BY <1>2 DEF Unmoved
  <2> HIDE DEF inserted
  <2>3. \A x \in Workflow : Unmoved(inserted[x], superseded[x])
    BY <2>1, RowsUnleased DEF Unmoved
  <2>4. \A x \in Workflow : Unmoved(wf[x], superseded[x])
    BY <2>2, <2>3, UnmovedTransitive
  <2> QED
    BY <2>1, <2>2, <2>4 DEF inserted
<1>6. CASE restart
  <2>1. PICK source \in Workflow, version \in Version, next \in Workflow :
            restart!2!(source, version, next)
    BY <1>6 DEF restart
  <2> DEFINE inserted == [wf EXCEPT ![next] =
                            NewWorkflow(None, version, None, 0, source, TRUE)]
             superseded == [inserted EXCEPT ![source] = Superseded(@)]
             woken == wake_waiting_parents_on_child_terminal(
                        superseded, source, "child_failed")
  <2>2. /\ inserted \in [Workflow -> WorkflowRow]
        /\ superseded \in [Workflow -> WorkflowRow]
        /\ \A x \in Workflow : /\ Unmoved(wf[x], inserted[x])
                                /\ Unmoved(wf[x], superseded[x])
    BY <1>5
  <2>3. (\E S : wf' = cancel_one_workflow(woken, S)) \/ wf' = inserted
    BY <2>1
  <2> HIDE DEF inserted, superseded
  <2>4. /\ woken \in [Workflow -> WorkflowRow]
        /\ \A x \in Workflow : Unmoved(superseded[x], woken[x])
    BY <2>2, WakeType, FunctionsUnmoved DEF EventKind
  <2> HIDE DEF woken
  <2>5. ASSUME NEW S, NEW x \in Workflow
        PROVE  Unmoved(wf[x], cancel_one_workflow(woken, S)[x])
    <3>1. Unmoved(wf[x], woken[x])
      BY <2>2, <2>4, UnmovedTransitive
    <3>2. Unmoved(woken[x], cancel_one_workflow(woken, S)[x])
      BY <2>4, FunctionsUnmoved
    <3> QED
      BY <3>1, <3>2, UnmovedTransitive
  <2> QED
    BY <1>1, <2>2, <2>3, <2>5 DEF NoNewLease
<1>7. CASE start_or_restart_recoverable
  <2>1. PICK key \in DomainKey, version \in Version, due \in BOOLEAN, next \in Workflow :
            \E original \in Keyed(wf, key) :
            \E latest \in NewestGeneration(wf, original) :
                start_or_restart_recoverable!2!(key, version, due, next)!(original)!(latest)
    BY <1>7 DEF start_or_restart_recoverable
  <2>2. PICK latest \in Workflow :
            \E original \in Keyed(wf, key) :
                start_or_restart_recoverable!2!(key, version, due, next)!(original)!(latest)
    BY <2>1 DEF NewestGeneration, Generations, Reachable
  <2> DEFINE inserted == [wf EXCEPT ![next] =
                            NewWorkflow(None, version, None, 0, latest, due)]
             superseded == [inserted EXCEPT ![latest] = Superseded(@)]
             handed == hand_waiting_parents_to_successor(superseded, latest, next)
  <2>3. /\ inserted \in [Workflow -> WorkflowRow]
        /\ superseded \in [Workflow -> WorkflowRow]
        /\ \A x \in Workflow : /\ Unmoved(wf[x], inserted[x])
                                /\ Unmoved(wf[x], superseded[x])
    BY <1>5
  <2>4. (\E S : wf' = cancel_one_workflow(handed, S)) \/ wf' = inserted
    BY <2>2
  <2> HIDE DEF inserted, superseded
  <2>5. /\ handed \in [Workflow -> WorkflowRow]
        /\ \A x \in Workflow : Unmoved(superseded[x], handed[x])
    BY <2>3, HandType, FunctionsUnmoved
  <2> HIDE DEF handed
  <2>6. ASSUME NEW S, NEW x \in Workflow
        PROVE  Unmoved(wf[x], cancel_one_workflow(handed, S)[x])
    <3>1. Unmoved(wf[x], handed[x])
      BY <2>3, <2>5, UnmovedTransitive
    <3>2. Unmoved(handed[x], cancel_one_workflow(handed, S)[x])
      BY <2>5, FunctionsUnmoved
    <3> QED
      BY <3>1, <3>2, UnmovedTransitive
  <2> QED
    BY <1>1, <2>3, <2>4, <2>6 DEF NoNewLease
<1> QED
  BY <1>3, <1>4, <1>6, <1>7

(* Pause ends a lease; resume, retry and time make none. *)
LEMMA OperatorUnmoved ==
    ASSUME TypeOK, pause_workflow \/ resume_workflow \/ retry \/ TimePasses
    PROVE  NoNewLease
<1> USE DEF TypeOK
<1>1. UNCHANGED coordClaims
  BY DEF pause_workflow, resume_workflow, retry, TimePasses, WorkflowLeaseLapses,
         WorkflowComesDue, ActivityLeaseLapses, ActivityComesDue, ApprovalComesDue
<1>2. CASE pause_workflow
  <2>1. PICK w \in Workflow : pause_workflow!2!(w)
    BY <1>2 DEF pause_workflow
  <2>2. LeaseCleared([wf[w] EXCEPT !.status = "paused"]).status = "paused"
    BY DEF LeaseCleared, WorkflowRow
  <2> QED
    BY <1>1, <2>1, <2>2 DEF NoNewLease, Unmoved
<1>3. CASE resume_workflow
  <2>1. PICK w \in Workflow : resume_workflow!2!(w)
    BY <1>3 DEF resume_workflow
  <2> DEFINE status == resume_status(wf[w])
             row == LeaseCleared([wf[w] EXCEPT !.status = status,
                                               !.due = wf[w].due \/ status = "ready"])
  <2>2. wf' = [wf EXCEPT ![w] = row]
    BY <2>1
  <2>3. status # "running"
    BY DEF resume_status
  <2> HIDE DEF status
  <2>4. row.status = status
    BY DEF LeaseCleared, WorkflowRow
  <2> HIDE DEF row
  <2> QED
    BY <1>1, <2>2, <2>3, <2>4 DEF NoNewLease, Unmoved
<1>4. CASE retry
  <2>1. PICK source \in Activity, next \in Activity, topic \in Topic, runnable \in Runnable :
            retry!2!(source, next, topic, runnable)
    BY <1>4 DEF retry
  <2> DEFINE w == act[source].workflow
  <2>2. ASSUME NEW x \in Workflow PROVE x = w => wf'[x].status = "waiting_activity"
    BY <2>1 DEF WorkflowRow
  <2>3. ASSUME NEW x \in Workflow PROVE x # w => wf'[x] = wf[x]
    BY <2>1
  <2> QED
    BY <1>1, <2>2, <2>3 DEF NoNewLease, Unmoved
<1>5. CASE TimePasses
  <2>1. ASSUME NEW w \in Workflow, WorkflowLeaseLapses(w) \/ WorkflowComesDue(w)
        PROVE  NoNewLease
    BY <1>1, <2>1 DEF WorkflowLeaseLapses, WorkflowComesDue, NoNewLease, Unmoved,
                      WorkflowRow
  <2>2. CASE UNCHANGED wf
    BY <1>1, <2>2 DEF NoNewLease, Unmoved
  <2> QED
    BY <1>5, <2>1, <2>2 DEF TimePasses, ActivityLeaseLapses, ActivityComesDue,
                            ApprovalComesDue
<1> QED
  BY <1>2, <1>3, <1>4, <1>5

(* A coordinator that passes the fence writes sequences computed from the  *)
(* row as it is: no other coordinator, recovery, pause, cancellation or    *)
(* restart slipped in between claim and commit (fenced_workflow! of T-C2).    *)
THEOREM SnapshotCorrect == Spec => []SnapshotCurrent
<1>1. Init => SnapshotCurrent
  BY DEF Init, SnapshotCurrent
<1>2. TypeOK /\ SnapshotCurrent /\ [Next]_vars => SnapshotCurrent'
  <2> SUFFICES ASSUME TypeOK, SnapshotCurrent, [Next]_vars PROVE SnapshotCurrent'
    OBVIOUS
  <2>1. CASE UNCHANGED <<wf, coordClaims>>
    BY <2>1 DEF SnapshotCurrent, Fenced
  <2>2. CASE AbandonActivation
    BY <2>2, SnapshotKept DEF AbandonActivation, Forget, NoNewLease, Unmoved
  <2>3. CASE UNCHANGED vars \/ heartbeat_once \/ AbandonExecution
    BY <2>1, <2>3 DEF vars, heartbeat_once, AbandonExecution
  <2> QED
    BY <2>2, <2>3, SnapshotKept, ClaimSnapshot, CommitUnmoved, FailureUnmoved,
       WorkerUnmoved, WakesUnmoved, StoreUnmoved, OperatorUnmoved DEF Next
<1> QED
  BY <1>1, <1>2, TypeCorrect, PTL DEF Spec
=============================================================================
