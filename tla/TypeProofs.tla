---------------------------- MODULE TypeProofs ----------------------------
(***************************************************************************)
(* Every step keeps every row and claim well typed, for all values of the  *)
(* constants.  First the row transitions, then the functions of rows the   *)
(* transactions build from them, then one lemma per action.                *)
(***************************************************************************)
EXTENDS Engine, TLAPS

(* Appending a delivery event (append_event) keeps the row well typed. *)
LEMMA WithEventType ==
    ASSUME NEW r \in WorkflowRow, NEW kind \in EventKind, NEW cmd \in Nat
    PROVE  WithEvent(r, kind, cmd) \in WorkflowRow
BY DEF WithEvent, WorkflowRow, Event

(* Clearing a wait (clear_wait) keeps the row well typed. *)
LEMMA WaitClearedType ==
    ASSUME NEW r \in WorkflowRow
    PROVE  WaitCleared(r) \in WorkflowRow
<1>1. NoWait \in Wait
  BY DEF NoWait, Wait
<1>2. "paused" \in WorkflowStatus /\ "ready" \in WorkflowStatus
  BY DEF WorkflowStatus
<1>3. CASE r.status = "paused"
  BY <1>1, <1>2, <1>3 DEF WaitCleared, WorkflowRow
<1>4. CASE r.status # "paused"
  BY <1>1, <1>2, <1>4 DEF WaitCleared, WorkflowRow
<1> QED
  BY <1>3, <1>4

(* Giving up a workflow lease keeps the row well typed. *)
LEMMA WorkflowLeaseClearedType ==
    ASSUME NEW r \in WorkflowRow
    PROVE  LeaseCleared(r) \in WorkflowRow
BY DEF LeaseCleared, WorkflowRow

(* Giving up an activity lease keeps the row well typed. *)
LEMMA ActivityLeaseClearedType ==
    ASSUME NEW r \in ActivityRow
    PROVE  LeaseCleared(r) \in ActivityRow
BY DEF LeaseCleared, ActivityRow

(* Waking a parent (wake_loaded_parent_on_child_terminal) keeps it well typed. *)
LEMMA WokenByChildType ==
    ASSUME NEW r \in WorkflowRow, NEW kind \in EventKind
    PROVE  WokenByChild(r, kind) \in WorkflowRow
<1>1. r.cmd \in Nat
  BY DEF WorkflowRow
<1> QED
  BY <1>1, WithEventType, WaitClearedType DEF WokenByChild

(* The row insert_started inserts is well typed. *)
LEMMA NewWorkflowType ==
    ASSUME NEW key \in Key, NEW version \in Version,
           NEW parent \in Workflow \cup {None}, NEW parentCmd \in Nat,
           NEW from \in Workflow \cup {None}, NEW due \in BOOLEAN
    PROVE  NewWorkflow(key, version, parent, parentCmd, from, due) \in WorkflowRow
BY DEF NewWorkflow, WorkflowRow, WorkflowStatus, NoWait, Wait, Event, EventKind

(* The row commit_activity and retry insert is well typed. *)
LEMMA NewActivityType ==
    ASSUME NEW w \in Workflow \cup {None}, NEW cmd \in Nat, NEW topic \in Topic,
           NEW runnable \in Runnable
    PROVE  NewActivity(w, cmd, topic, runnable) \in ActivityRow
BY LimitAssumption
   DEF NewActivity, ActivityRow, ActivityStatus, NonTerminalActivity

----------------------------------------------------------------------------
(* Functions of rows. *)

(* Waking the parents of a terminal child keeps all rows well typed. *)
LEMMA WakeType ==
    ASSUME NEW rows \in [Workflow -> WorkflowRow], NEW c, NEW kind \in EventKind
    PROVE  wake_waiting_parents_on_child_terminal(rows, c, kind)
                \in [Workflow -> WorkflowRow]
BY WokenByChildType DEF wake_waiting_parents_on_child_terminal

(* Blocking workflows (block_workflow) keeps all rows well typed. *)
LEMMA BlockType ==
    ASSUME NEW rows \in [Workflow -> WorkflowRow], NEW blocking
    PROVE  block_workflow(rows, blocking) \in [Workflow -> WorkflowRow]
<1>1. ASSUME NEW w \in Workflow
      PROVE  [rows[w] EXCEPT !.status = "blocked"] \in WorkflowRow
  BY DEF WorkflowRow, WorkflowStatus
<1> QED
  BY <1>1 DEF block_workflow

(* Cancelling a row, with its wait cleared or kept, keeps it well typed. *)
LEMMA CancelledWorkflowType ==
    ASSUME NEW r \in WorkflowRow
    PROVE  CancelledWorkflow(r) \in WorkflowRow /\ Superseded(r) \in WorkflowRow
<1>1. NoWait \in Wait /\ "cancelled" \in WorkflowStatus
  BY DEF NoWait, Wait, WorkflowStatus, Terminal
<1>2. /\ [r EXCEPT !.status = "cancelled", !.wait = NoWait] \in WorkflowRow
      /\ [r EXCEPT !.status = "cancelled"] \in WorkflowRow
  BY <1>1 DEF WorkflowRow
<1> QED
  BY <1>2, WorkflowLeaseClearedType DEF CancelledWorkflow, Superseded

(* The cascade keeps all rows well typed. *)
LEMMA CancelType ==
    ASSUME NEW rows \in [Workflow -> WorkflowRow], NEW cancelled
    PROVE  cancel_one_workflow(rows, cancelled) \in [Workflow -> WorkflowRow]
<1>1. "child_failed" \in EventKind
  BY DEF EventKind
<1> QED
  BY <1>1, WokenByChildType, CancelledWorkflowType DEF cancel_one_workflow

(* Handing waiting parents over keeps all rows well typed. *)
LEMMA HandType ==
    ASSUME NEW rows \in [Workflow -> WorkflowRow], NEW superseded,
           NEW successor \in Workflow
    PROVE  hand_waiting_parents_to_successor(rows, superseded, successor)
                \in [Workflow -> WorkflowRow]
<1>1. "child_failed" \in EventKind
  BY DEF EventKind
<1>2. WaitOn("child", successor) \in Wait
  BY DEF WaitOn, Wait
<1>3. ASSUME NEW p \in Workflow
      PROVE  [rows[p] EXCEPT !.wait = WaitOn("child", successor)] \in WorkflowRow
  BY <1>2 DEF WorkflowRow
<1> QED
  BY <1>1, <1>3, WakeType DEF hand_waiting_parents_to_successor

(* Revoking the activities of cancelled workflows keeps them well typed. *)
LEMMA CancelActivitiesType ==
    ASSUME act \in [Activity -> ActivityRow], NEW workflows
    PROVE  cancel_activities(workflows) \in [Activity -> ActivityRow]
<1>1. ASSUME NEW a \in Activity
      PROVE  CancelledActivity(act[a]) \in ActivityRow
  <2>1. /\ [act[a] EXCEPT !.status = "cancelled"] \in ActivityRow
        /\ [act[a] EXCEPT !.status = "cancelling"] \in ActivityRow
    BY DEF ActivityRow, ActivityStatus, NonTerminalActivity
  <2> QED
    BY <2>1, ActivityLeaseClearedType DEF CancelledActivity
<1> QED
  BY <1>1 DEF cancel_activities

(* Cancelling the approvals of cancelled workflows keeps them well typed. *)
LEMMA CancelApprovalsType ==
    ASSUME apr \in [Approval -> ApprovalRow], NEW workflows
    PROVE  cancel_approvals(workflows) \in [Approval -> ApprovalRow]
BY DEF cancel_approvals, ApprovalRow, ApprovalStatus

----------------------------------------------------------------------------
(* Coordinator. *)

(* Recovering an expired run keeps the row well typed. *)
LEMMA RecoveredType ==
    ASSUME NEW r \in WorkflowRow
    PROVE  Recovered(r) \in WorkflowRow
<1>1. [r EXCEPT !.status = "ready", !.due = TRUE] \in WorkflowRow
  BY DEF WorkflowRow, WorkflowStatus
<1> QED
  BY <1>1, WorkflowLeaseClearedType DEF Recovered

(* Leasing a row, and the claim made of it, are well typed. *)
LEMMA ClaimedRowType ==
    ASSUME NEW r \in WorkflowRow, NEW t \in Token, NEW w \in Workflow
    PROVE  Leased(r, t) \in WorkflowRow /\ ClaimOf(w, r, t) \in CoordClaim
<1>1. Leased(r, t) \in WorkflowRow
  BY DEF Leased, WorkflowRow, WorkflowStatus
<1>2. ClaimOf(w, r, t) \in CoordClaim
  BY DEF ClaimOf, CoordClaim, WorkflowRow
<1> QED
  BY <1>1, <1>2

(* What a commit writes into the row is well typed. *)
LEMMA CommittedRowType ==
    ASSUME NEW r \in WorkflowRow, NEW e \in Event,
           NEW c \in CoordClaim, NEW wait \in Wait, NEW due \in BOOLEAN,
           NEW status \in WorkflowStatus
    PROVE  /\ Continued(r, e, c) \in WorkflowRow
           /\ Waiting(r, e, c, status, wait) \in WorkflowRow
           /\ [Waiting(r, e, c, status, wait) EXCEPT !.due = due] \in WorkflowRow
           /\ [Consumed(r, e) EXCEPT !.status = status] \in WorkflowRow
<1>1. Consumed(r, e) \in WorkflowRow
  <2>1. [r EXCEPT !.delivered = e.seq, !.inbox = {f \in @ : f.seq > e.seq},
                  !.attempts = 0, !.streak = 0] \in WorkflowRow
    BY DEF WorkflowRow, Event
  <2> QED
    BY <2>1, WorkflowLeaseClearedType DEF Consumed
<1>2. ASSUME NEW d \in BOOLEAN, NEW n \in Nat
      PROVE  [Consumed(r, e) EXCEPT !.status = "ready", !.due = d, !.streak = n]
                \in WorkflowRow
  BY <1>1 DEF WorkflowRow, WorkflowStatus
<1>3. Continued(r, e, c) \in WorkflowRow
  <2> DEFINE fairness == c.streak + 1 >= MaxStreak
             streak == IF fairness THEN 0 ELSE c.streak + 1
  <2>1. streak \in Nat /\ (~fairness) \in BOOLEAN
    BY DEF CoordClaim
  <2>2. "continued" \in EventKind /\ 0 \in Nat
    BY DEF EventKind
  <2>3. [Consumed(r, e) EXCEPT !.status = "ready", !.due = ~fairness,
                               !.streak = streak] \in WorkflowRow
    BY <2>1, <1>2
  <2> QED
    BY <2>2, <2>3, WithEventType DEF Continued
<1>4. Waiting(r, e, c, status, wait) \in WorkflowRow
  <2>1. c.cmd + 1 \in Nat
    BY DEF CoordClaim
  <2> QED
    BY <2>1, <1>1 DEF Waiting, WorkflowRow
<1>5. /\ [Waiting(r, e, c, status, wait) EXCEPT !.due = due] \in WorkflowRow
      /\ [Consumed(r, e) EXCEPT !.status = status] \in WorkflowRow
  BY <1>1, <1>4 DEF WorkflowRow
<1> QED
  BY <1>3, <1>4, <1>5

(* T-C1 keeps the types. *)
LEMMA ClaimRowType ==
    ASSUME TypeOK, claim_row
    PROVE  TypeOK'
<1> USE DEF TypeOK
<1>1. PICK recovered \in {{}} \cup {{w} : w \in ExpiredRuns} :
        claim_row!(recovered)
  BY DEF claim_row
<1> DEFINE rows == [w \in Workflow |->
                        IF w \in recovered THEN Recovered(wf[w]) ELSE wf[w]]
<1>2. rows \in [Workflow -> WorkflowRow]
  BY RecoveredType
<1>3. CASE wf' = rows /\ UNCHANGED coordClaims
  BY <1>1, <1>2, <1>3
<1>4. ASSUME NEW w \in Workflow, NEW t \in FreshTokens,
             wf' = [rows EXCEPT ![w] = Leased(rows[w], t)],
             coordClaims' = coordClaims \cup {ClaimOf(w, rows[w], t)}
      PROVE  TypeOK'
  <2> HIDE DEF rows
  <2>1. t \in Token
    BY DEF FreshTokens
  <2>2. rows[w] \in WorkflowRow
    BY <1>2
  <2>3. Leased(rows[w], t) \in WorkflowRow /\ ClaimOf(w, rows[w], t) \in CoordClaim
    BY <2>1, <2>2, ClaimedRowType
  <2> QED
    BY <1>1, <1>2, <1>4, <2>3
<1> QED
  BY <1>1, <1>3, <1>4

(* Writing one well typed row keeps all of them well typed. *)
LEMMA PutRowType ==
    ASSUME NEW rows \in [Workflow -> WorkflowRow], NEW w, NEW r \in WorkflowRow
    PROVE  [rows EXCEPT ![w] = r] \in [Workflow -> WorkflowRow]
OBVIOUS

(* T-C2 keeps the types, whatever the transition. *)
LEMMA CommitTransitionType ==
    ASSUME TypeOK, commit_transition
    PROVE  TypeOK'
<1> USE DEF TypeOK
<1>1. PICK c \in coordClaims : \E e \in NextDelivery(c) : commit_transition!(c)!(e)
  BY DEF commit_transition
<1>2. PICK e \in NextDelivery(c) : commit_transition!(c)!(e)
  BY <1>1
<1> DEFINE w == c.workflow
<1>3. c \in CoordClaim /\ w \in Workflow /\ c.cmd + 1 \in Nat /\ wf[w] \in WorkflowRow
  BY DEF CoordClaim
<1>4. e \in Event
  BY <1>3 DEF NextDelivery, WorkflowRow
<1>5. ASSUME NEW kind \in {"timer", "activity", "child", "approval"},
             NEW ref \in Activity \cup Workflow \cup Approval \cup Nat
      PROVE  WaitOn(kind, ref) \in Wait
  BY DEF WaitOn, Wait
<1>6. ASSUME NEW status \in WorkflowStatus, NEW wait \in Wait
      PROVE  Waiting(wf[w], e, c, status, wait) \in WorkflowRow
  BY <1>3, <1>4, CommittedRowType
<1>7. /\ UNCHANGED <<openAttempts, workClaims>> /\ coordClaims' \subseteq coordClaims
  BY <1>2 DEF Forget
<1>8. SUFFICES /\ wf' \in [Workflow -> WorkflowRow]
               /\ act' \in [Activity -> ActivityRow]
               /\ apr' \in [Approval -> ApprovalRow]
  BY <1>7
<1> HIDE DEF w
<1>9. CASE CommitContinue(c, e)
  <2>1. NoWait \in Wait /\ "ready" \in WorkflowStatus
    BY DEF NoWait, Wait, WorkflowStatus
  <2>2. Continued(wf[w], e, c) \in WorkflowRow
    BY <1>3, <1>4, <2>1, CommittedRowType
  <2> QED
    BY <1>9, <2>2 DEF CommitContinue, w
<1>10. CASE CommitComplete(c, e)
  <2>1. NoWait \in Wait /\ "succeeded" \in WorkflowStatus
    BY DEF NoWait, Wait, WorkflowStatus, Terminal
  <2> DEFINE done == [Consumed(wf[w], e) EXCEPT !.status = "succeeded"]
  <2>2. done \in WorkflowRow
    BY <1>3, <1>4, <2>1, CommittedRowType
  <2>3. wf' = wake_waiting_parents_on_child_terminal(
                    [wf EXCEPT ![w] = done], w, "child_succeeded")
    BY <1>10 DEF CommitComplete, w
  <2>4. "child_succeeded" \in EventKind
    BY DEF EventKind
  <2> HIDE DEF done
  <2>5. [wf EXCEPT ![w] = done] \in [Workflow -> WorkflowRow]
    BY <2>2
  <2>6. UNCHANGED <<act, apr>>
    BY <1>10 DEF CommitComplete
  <2>7. wf' \in [Workflow -> WorkflowRow]
    BY <2>3, <2>4, <2>5, WakeType
  <2> QED
    BY <2>6, <2>7
<1>11. CASE CommitSleep(c, e)
  <2>1. "sleeping" \in WorkflowStatus /\ WaitOn("timer", c.cmd + 1) \in Wait
    BY <1>3, <1>5 DEF WorkflowStatus
  <2>2. ASSUME NEW past \in BOOLEAN
        PROVE  [Waiting(wf[w], e, c, "sleeping", WaitOn("timer", c.cmd + 1))
                    EXCEPT !.due = past] \in WorkflowRow
    BY <1>3, <1>4, <2>1, CommittedRowType
  <2> QED
    BY <1>11, <2>2 DEF CommitSleep, w
<1>12. CASE CommitApproval(c, e)
  <2>1. PICK p \in Approval, expiry \in {"never", "later", "past"} :
            CommitApproval(c, e)!2!(p, expiry)
    BY <1>12 DEF CommitApproval
  <2>2. "waiting_approval" \in WorkflowStatus /\ WaitOn("approval", p) \in Wait
    BY <1>5 DEF WorkflowStatus
  <2>3. Waiting(wf[w], e, c, "waiting_approval", WaitOn("approval", p)) \in WorkflowRow
    BY <1>6, <2>2
  <2>4. [status |-> "pending", workflow |-> c.workflow, cmd |-> c.cmd + 1,
         expiry |-> expiry] \in ApprovalRow
    BY <1>3 DEF ApprovalRow, ApprovalStatus, w
  <2> QED
    BY <1>12, <2>1, <2>3, <2>4 DEF CommitApproval, w
<1>13. CASE CommitActivity(c, e)
  <2>1. PICK a \in Activity, t \in Topic, r \in Runnable :
            CommitActivity(c, e)!2!(a, t, r)
    BY <1>13 DEF CommitActivity
  <2>2. "waiting_activity" \in WorkflowStatus /\ WaitOn("activity", a) \in Wait
    BY <1>5 DEF WorkflowStatus
  <2>3. Waiting(wf[w], e, c, "waiting_activity", WaitOn("activity", a)) \in WorkflowRow
    BY <1>6, <2>2
  <2>4. NewActivity(c.workflow, c.cmd + 1, t, r) \in ActivityRow
    BY <1>3, NewActivityType DEF w
  <2> QED
    BY <1>13, <2>1, <2>3, <2>4 DEF CommitActivity, w
<1>14. CASE CommitChild(c, e)
  <2>1. PICK key \in DomainKey \cup {[owner |-> w, cmd |-> c.cmd + 1]},
             version \in Version, child \in Workflow :
            CommitChild(c, e)!2!(key, version, child)
    BY <1>14 DEF CommitChild, w
  <2> DEFINE parked == [wf EXCEPT ![w] =
                Waiting(wf[w], e, c, "waiting_child", WaitOn("child", child))]
  <2>2. "waiting_child" \in WorkflowStatus /\ WaitOn("child", child) \in Wait
    BY <1>5 DEF WorkflowStatus
  <2>3. parked \in [Workflow -> WorkflowRow]
    BY <1>6, <2>2
  <2>4. NewWorkflow(key, version, w, c.cmd + 1, None, TRUE) \in WorkflowRow
    BY <1>3, NewWorkflowType DEF Key, ChildKey
  <2>5. "child_succeeded" \in EventKind /\ "child_failed" \in EventKind
    BY DEF EventKind
  <2>6. \/ wf' = [parked EXCEPT ![child] =
                    NewWorkflow(key, version, w, c.cmd + 1, None, TRUE)]
        \/ wf' = parked
        \/ \E kind \in EventKind :
                wf' = wake_waiting_parents_on_child_terminal(parked, child, kind)
    BY <2>1, <2>5 DEF w
  <2> HIDE DEF parked
  <2>7. UNCHANGED <<act, apr>>
    BY <1>14 DEF CommitChild
  <2>8. wf' \in [Workflow -> WorkflowRow]
    <3>1. [parked EXCEPT ![child] =
                NewWorkflow(key, version, w, c.cmd + 1, None, TRUE)]
            \in [Workflow -> WorkflowRow]
      BY <2>3, <2>4, PutRowType
    <3>2. \A kind \in EventKind :
            wake_waiting_parents_on_child_terminal(parked, child, kind)
                \in [Workflow -> WorkflowRow]
      BY <2>3, WakeType
    <3> QED
      BY <2>3, <2>6, <3>1, <3>2
  <2> QED
    BY <2>7, <2>8
<1> QED
  BY <1>2, <1>9, <1>10, <1>11, <1>12, <1>13, <1>14

(* T-C3 and the loss of a claim keep the types. *)
LEMMA ActivationFailureType ==
    ASSUME TypeOK, record_activation_failure \/ AbandonActivation
    PROVE  TypeOK'
<1> USE DEF TypeOK
<1>1. CASE record_activation_failure
  <2>1. PICK c \in coordClaims : record_activation_failure!2!(c)
    BY <1>1 DEF record_activation_failure
  <2> DEFINE w == c.workflow
             attempt == wf[w].attempts + 1
             exhausted == attempt >= MaxActivation
             status == IF exhausted THEN "failed" ELSE "ready"
             row == [wf[w] EXCEPT !.status = status, !.attempts = attempt, !.due = FALSE]
             failed == [wf EXCEPT ![w] = LeaseCleared(row)]
  <2>2. w \in Workflow /\ wf[w] \in WorkflowRow
    BY DEF CoordClaim
  <2>3. status \in WorkflowStatus /\ attempt \in Nat
    BY <2>2 DEF WorkflowStatus, Terminal, WorkflowRow
  <2>4. row \in WorkflowRow
    <3> HIDE DEF status, attempt
    <3> QED
      BY <2>2, <2>3 DEF WorkflowRow
  <2>5. failed \in [Workflow -> WorkflowRow]
    <3> HIDE DEF row
    <3> QED
      BY <2>4, WorkflowLeaseClearedType
  <2>6. "child_failed" \in EventKind
    BY DEF EventKind
  <2>7. \/ wf' = failed
        \/ wf' = wake_waiting_parents_on_child_terminal(failed, w, "child_failed")
    BY <2>1
  <2>8. UNCHANGED <<act, apr, openAttempts, workClaims>> /\ coordClaims' \subseteq coordClaims
    BY <2>1 DEF Forget
  <2> HIDE DEF failed
  <2> QED
    BY <2>5, <2>6, <2>7, <2>8, WakeType
<1>2. CASE AbandonActivation
  BY <1>2 DEF AbandonActivation, Forget
<1> QED
  BY <1>1, <1>2

----------------------------------------------------------------------------
(* Activity worker. *)

(* Settling an activity keeps it well typed. *)
LEMMA ActivitySettledType ==
    ASSUME NEW r \in ActivityRow, NEW status \in ActivityStatus, NEW due \in BOOLEAN
    PROVE  /\ [r EXCEPT !.status = status] \in ActivityRow
           /\ LeaseCleared([r EXCEPT !.status = status, !.due = due]) \in ActivityRow
<1>1. /\ [r EXCEPT !.status = status] \in ActivityRow
      /\ [r EXCEPT !.status = status, !.due = due] \in ActivityRow
  BY DEF ActivityRow
<1> QED
  BY <1>1, ActivityLeaseClearedType

(* Settling a revoked row and reconciling an expired one keep it well typed. *)
LEMMA ReconciledType ==
    ASSUME NEW r \in ActivityRow, NEW s
    PROVE  settle_revoked(r, s) \in ActivityRow /\ Reconciled(r, s) \in ActivityRow
<1>1. /\ "cancelled" \in ActivityStatus /\ "pending" \in ActivityStatus
      /\ "dead_lettered" \in ActivityStatus
  BY DEF ActivityStatus, NonTerminalActivity
<1>2. LeaseCleared([r EXCEPT !.status = "cancelled"]) \in ActivityRow
  BY <1>1, ActivitySettledType, ActivityLeaseClearedType
<1>3. ASSUME NEW d \in BOOLEAN
      PROVE  /\ LeaseCleared([r EXCEPT !.status = "pending", !.due = d]) \in ActivityRow
             /\ LeaseCleared([r EXCEPT !.status = "dead_lettered", !.due = d])
                    \in ActivityRow
  BY <1>1, ActivitySettledType
<1>4. settle_revoked(r, s) \in ActivityRow
  BY <1>2, <1>3 DEF settle_revoked
<1>5. CASE r.status = "cancelling"
  BY <1>4, <1>5 DEF Reconciled
<1>6. CASE r.status # "cancelling"
  <2>1. (~r.runnable) \in BOOLEAN /\ TRUE \in BOOLEAN
    OBVIOUS
  <2>2. \/ Reconciled(r, s) = LeaseCleared([r EXCEPT !.status = "dead_lettered", !.due = TRUE])
        \/ Reconciled(r, s) = LeaseCleared([r EXCEPT !.status = "pending", !.due = ~r.runnable])
    BY <1>6 DEF Reconciled
  <2> QED
    BY <1>3, <1>4, <2>1, <2>2
<1> QED
  BY <1>4, <1>5, <1>6

(* Leasing an activity keeps it well typed. *)
LEMMA ActivityClaimedType ==
    ASSUME NEW r \in ActivityRow, NEW t \in Token
    PROVE  Claimed(r, t) \in ActivityRow
<1>1. r.count + 1 \in Nat /\ "running" \in ActivityStatus
  BY DEF ActivityRow, ActivityStatus, NonTerminalActivity
<1> QED
  BY <1>1 DEF Claimed, ActivityRow

(* The claim keeps the types. *)
LEMMA ClaimActivitiesType ==
    ASSUME TypeOK, ClaimActivities
    PROVE  TypeOK'
<1> USE DEF TypeOK
<1>1. PICK topics \in {Topic} \cup {{t} : t \in Topic} : claim_batch(topics)
  BY DEF ClaimActivities
<1>2. PICK unsettled \in SUBSET ExpiredLeases(topics) : claim_batch(topics)!(unsettled)
  BY <1>1 DEF claim_batch
<1> DEFINE settled == ExpiredLeases(topics) \ unsettled
           acts == [a \in Activity |->
                        IF a \in settled
                        THEN Reconciled(act[a], wf[act[a].workflow].status)
                        ELSE act[a]]
           flows == block_workflow(wf, {a \in settled : Exhausted(act[a])})
           slots(t) == Limit[t] - Cardinality(InFlight(acts, t, unsettled))
           candidates == UNION {ClaimCandidates(flows, acts, t) :
                                    t \in {u \in topics : slots(u) > 0}}
           unclaimable == {a \in candidates : Unclaimable(acts[a])}
<1> DEFINE Write(claimed, quarantined, token) ==
            /\ act' = [a \in Activity |->
                IF a \in claimed THEN Claimed(acts[a], token[a])
                ELSE IF a \in quarantined
                     THEN [acts[a] EXCEPT !.status = "dead_lettered"]
                     ELSE acts[a]]
            /\ openAttempts' =
                (openAttempts \ {AttemptOf(a) : a \in settled})
                \cup {[activity |-> a, number |-> acts[a].count + 1,
                       token |-> token[a]] : a \in claimed}
            /\ workClaims' = workClaims \cup
                {[activity |-> a, attempt |-> acts[a].count + 1,
                  token |-> token[a], max |-> acts[a].max,
                  revoked |-> FALSE, live |-> TRUE] : a \in claimed}
<1>3. PICK claimed \in SUBSET (candidates \ unclaimable),
           quarantined \in SUBSET unclaimable :
        /\ \E token \in Injections(claimed, FreshTokens) :
                Write(claimed, quarantined, token)
        /\ wf' = block_workflow(flows, quarantined)
        /\ UNCHANGED <<apr, coordClaims>>
  BY <1>2
<1>4. PICK token \in Injections(claimed, FreshTokens) :
        Write(claimed, quarantined, token)
  BY <1>3
<1>5. claimed \subseteq Activity
  <2>1. candidates \subseteq Activity
    BY DEF ClaimCandidates
  <2> QED
    BY <2>1
<1>6. \A a \in claimed : token[a] \in Token
  BY <1>4 DEF Injections, FreshTokens
<1>7. acts \in [Activity -> ActivityRow]
  <2>1. ASSUME NEW a \in Activity
        PROVE  Reconciled(act[a], wf[act[a].workflow].status) \in ActivityRow
    BY ReconciledType
  <2> QED
    BY <2>1
<1>8. wf' \in [Workflow -> WorkflowRow]
  BY <1>3, BlockType
<1> HIDE DEF acts, settled, flows, candidates, unclaimable
<1>9. act' \in [Activity -> ActivityRow]
  <2>1. "dead_lettered" \in ActivityStatus
    BY DEF ActivityStatus
  <2>2. ASSUME NEW a \in Activity
        PROVE  /\ a \in claimed => Claimed(acts[a], token[a]) \in ActivityRow
               /\ [acts[a] EXCEPT !.status = "dead_lettered"] \in ActivityRow
    BY <1>6, <1>7, <2>1, ActivityClaimedType, ActivitySettledType
  <2> QED
    BY <1>4, <1>7, <2>2
<1>10. \A a \in claimed : acts[a].count + 1 \in Nat /\ acts[a].max \in Nat
  BY <1>5, <1>7 DEF ActivityRow
<1>11. openAttempts' \subseteq Attempt
  BY <1>4, <1>5, <1>6, <1>10 DEF Attempt
<1>12. workClaims' \subseteq WorkClaim
  <2>1. ASSUME NEW a \in claimed
        PROVE  [activity |-> a, attempt |-> acts[a].count + 1, token |-> token[a],
                max |-> acts[a].max, revoked |-> FALSE, live |-> TRUE] \in WorkClaim
    BY <1>5, <1>6, <1>10 DEF WorkClaim
  <2> QED
    BY <1>4, <2>1
<1> QED
  BY <1>3, <1>8, <1>9, <1>11, <1>12

(* T-W2 and the end of an execution without T-W3 keep the types. *)
LEMMA HeartbeatType ==
    ASSUME TypeOK, heartbeat_once \/ AbandonExecution
    PROVE  TypeOK'
<1> USE DEF TypeOK
<1>1. ASSUME NEW c \in WorkClaim, NEW b \in BOOLEAN
      PROVE  [c EXCEPT !.revoked = b] \in WorkClaim /\ [c EXCEPT !.live = b] \in WorkClaim
  BY DEF WorkClaim
<1>2. CASE heartbeat_once
  <2>1. PICK c \in workClaims : heartbeat_once!(c)
    BY <1>2 DEF heartbeat_once
  <2>2. [c EXCEPT !.revoked = act[c.activity].status = "cancelling"] \in WorkClaim
    BY <1>1
  <2>3. workClaims' \subseteq WorkClaim
    BY <2>1, <2>2
  <2>4. act' \in [Activity -> ActivityRow]
    <3>1. ASSUME NEW r \in ActivityRow PROVE [r EXCEPT !.lapsed = FALSE] \in ActivityRow
      BY DEF ActivityRow
    <3>2. [act[c.activity] EXCEPT !.lapsed = FALSE] \in ActivityRow
      BY <3>1 DEF WorkClaim
    <3> QED
      BY <2>1, <3>2
  <2> QED
    BY <2>1, <2>3, <2>4
<1>3. CASE AbandonExecution
  <2>1. PICK c \in workClaims : AbandonExecution!1!(c)
    BY <1>3 DEF AbandonExecution
  <2>2. [c EXCEPT !.live = FALSE] \in WorkClaim
    BY <1>1
  <2>3. workClaims' \subseteq WorkClaim
    BY <2>1, <2>2
  <2> QED
    BY <1>3, <2>3 DEF AbandonExecution
<1> QED
  BY <1>2, <1>3

(* T-W3 keeps the types. *)
LEMMA FinishClaimType ==
    ASSUME TypeOK, finish_claim
    PROVE  TypeOK'
<1> USE DEF TypeOK
<1>1. PICK c \in workClaims : finish_claim!(c)
  BY DEF finish_claim
<1> DEFINE a == c.activity
           w == act[a].workflow
<1>2. a \in Activity /\ act[a] \in ActivityRow
  BY DEF WorkClaim
<1>3. act[a].cmd \in Nat /\ act[a].due \in BOOLEAN
  BY <1>2 DEF ActivityRow
<1>4. ASSUME NEW s \in ActivityStatus, NEW d \in BOOLEAN
      PROVE  [act EXCEPT ![a] = LeaseCleared([act[a] EXCEPT !.status = s, !.due = d])]
                \in [Activity -> ActivityRow]
  <2>1. LeaseCleared([act[a] EXCEPT !.status = s, !.due = d]) \in ActivityRow
    BY <1>2, ActivitySettledType
  <2> QED
    BY <2>1
<1>5. /\ "succeeded" \in ActivityStatus /\ "dead_lettered" \in ActivityStatus
      /\ "pending" \in ActivityStatus
  BY DEF ActivityStatus, NonTerminalActivity
<1>6. [wf EXCEPT ![w] = WaitCleared(WithEvent(wf[w], "activity_succeeded", act[a].cmd))]
        \in [Workflow -> WorkflowRow]
  <2>1. CASE w \in Workflow
    BY <1>3, <2>1, WithEventType, WaitClearedType DEF EventKind
  <2>2. CASE w \notin Workflow
    BY <2>2
  <2> QED
    BY <2>1, <2>2
<1>7. block_workflow(wf, {a}) \in [Workflow -> WorkflowRow]
  BY BlockType
<1>8. ASSUME NEW outcome \in Outcomes, ApplyOutcome(c, outcome)
      PROVE  wf' \in [Workflow -> WorkflowRow] /\ act' \in [Activity -> ActivityRow]
  <2>1. \/ wf' = [wf EXCEPT ![w] =
                    WaitCleared(WithEvent(wf[w], "activity_succeeded", act[a].cmd))]
        \/ wf' = block_workflow(wf, {a})
        \/ wf' = wf
    BY <1>8 DEF ApplyOutcome
  <2>2. \E s \in ActivityStatus, d \in BOOLEAN :
            act' = [act EXCEPT ![a] = LeaseCleared([act[a] EXCEPT !.status = s, !.due = d])]
    BY <1>3, <1>5, <1>8 DEF ApplyOutcome
  <2>3. PICK s \in ActivityStatus, d \in BOOLEAN :
            act' = [act EXCEPT ![a] = LeaseCleared([act[a] EXCEPT !.status = s, !.due = d])]
    BY <2>2
  <2>4. [act EXCEPT ![a] = LeaseCleared([act[a] EXCEPT !.status = s, !.due = d])]
            \in [Activity -> ActivityRow]
    BY <1>4
  <2>5. act' \in [Activity -> ActivityRow]
    BY <2>3, <2>4
  <2> QED
    BY <1>6, <1>7, <2>1, <2>5
<1>9. ASSUME SettleRevoked(c)
      PROVE  wf' \in [Workflow -> WorkflowRow] /\ act' \in [Activity -> ActivityRow]
  <2>1. settle_revoked(act[a], wf[w].status) \in ActivityRow
    BY <1>2, ReconciledType
  <2> QED
    BY <1>9, <2>1 DEF SettleRevoked
<1> QED
  BY <1>1, <1>8, <1>9

----------------------------------------------------------------------------
(* Materializers, application and operator. *)

(* A wake with a typed event keeps all rows well typed. *)
LEMMA WokenType ==
    ASSUME NEW rows \in [Workflow -> WorkflowRow], NEW w, NEW kind \in EventKind,
           NEW cmd \in Nat
    PROVE  [rows EXCEPT ![w] = WaitCleared(WithEvent(@, kind, cmd))]
                \in [Workflow -> WorkflowRow]
<1>1. CASE w \in Workflow
  BY <1>1, WithEventType, WaitClearedType
<1>2. CASE w \notin Workflow
  BY <1>2
<1> QED
  BY <1>1, <1>2

(* T-T1 and T-A1 keep the types. *)
LEMMA MaterializersType ==
    ASSUME TypeOK, TimerMaterializer \/ ApprovalExpiryMaterializer
    PROVE  TypeOK'
<1> USE DEF TypeOK
<1>1. "timer_fired" \in EventKind /\ "approval_expired" \in EventKind
  BY DEF EventKind
<1>2. \A w \in Workflow : wf[w].cmd \in Nat
  BY DEF WorkflowRow
<1>3. CASE TimerMaterializer
  <2>1. PICK w \in Workflow : TimerMaterializer!(w)
    BY <1>3 DEF TimerMaterializer
  <2>2. wf' = [wf EXCEPT ![w] = WaitCleared(WithEvent(@, "timer_fired", wf[w].cmd))]
    BY <2>1
  <2> QED
    BY <1>1, <1>2, <2>1, <2>2, WokenType
<1>4. CASE ApprovalExpiryMaterializer
  <2>1. PICK p \in Approval : ApprovalExpiryMaterializer!(p)
    BY <1>4 DEF ApprovalExpiryMaterializer
  <2> DEFINE w == apr[p].workflow
  <2>2. wf[w].cmd \in Nat
    <3>1. apr[p].cmd \in Nat
      BY DEF ApprovalRow
    <3> QED
      BY <2>1, <3>1 DEF MatchesWait
  <2>3. wf' = [wf EXCEPT ![w] = WaitCleared(WithEvent(@, "approval_expired", wf[w].cmd))]
    BY <2>1
  <2>4. wf' \in [Workflow -> WorkflowRow]
    BY <1>1, <2>2, <2>3, WokenType
  <2>5. apr' \in [Approval -> ApprovalRow]
    BY <2>1 DEF ApprovalRow, ApprovalStatus
  <2> QED
    BY <2>1, <2>4, <2>5
<1> QED
  BY <1>3, <1>4

(* The rows of a restart, T-X2 or T-A5, are well typed. *)
LEMMA SuccessorType ==
    ASSUME TypeOK, NEW source \in Workflow, NEW next \in Workflow,
           NEW version \in Version, NEW due \in BOOLEAN
    PROVE  LET inserted == [wf EXCEPT ![next] =
                                NewWorkflow(None, version, None, 0, source, due)]
           IN  /\ inserted \in [Workflow -> WorkflowRow]
               /\ [inserted EXCEPT ![source] = Superseded(@)]
                    \in [Workflow -> WorkflowRow]
<1> DEFINE inserted == [wf EXCEPT ![next] =
                            NewWorkflow(None, version, None, 0, source, due)]
<1>1. inserted \in [Workflow -> WorkflowRow]
  <2>1. NewWorkflow(None, version, None, 0, source, due) \in WorkflowRow
    BY NewWorkflowType DEF Key
  <2> QED
    BY <2>1 DEF TypeOK
<1> HIDE DEF inserted
<1>2. [inserted EXCEPT ![source] = Superseded(@)] \in [Workflow -> WorkflowRow]
  BY <1>1, CancelledWorkflowType
<1> QED
  BY <1>1, <1>2 DEF inserted

(* T-X1, T-X3 and T-A4 keep the types. *)
LEMMA StartCancelType ==
    ASSUME TypeOK, start \/ cancel_workflow
    PROVE  TypeOK'
<1> USE DEF TypeOK
<1>1. CASE start
  <2>1. PICK w \in Workflow, key \in {None} \cup DomainKey, version \in Version,
             due \in BOOLEAN : start!2!(w, key, version, due)
    BY <1>1 DEF start
  <2>2. NewWorkflow(key, version, None, 0, None, due) \in WorkflowRow
    BY NewWorkflowType DEF Key
  <2> QED
    BY <1>1, <2>1, <2>2 DEF start
<1>2. CASE cancel_workflow
  BY <1>2, CancelType, CancelActivitiesType, CancelApprovalsType DEF cancel_workflow
<1> QED
  BY <1>1, <1>2

(* T-X2 keeps the types. *)
LEMMA RecoverType ==
    ASSUME TypeOK, start_or_restart_recoverable
    PROVE  TypeOK'
<1> USE DEF TypeOK
<1>1. PICK key \in DomainKey, version \in Version, due \in BOOLEAN, next \in Workflow :
        \E original \in Keyed(wf, key) :
        \E latest \in NewestGeneration(wf, original) :
            start_or_restart_recoverable!2!(key, version, due, next)!(original)!(latest)
  BY DEF start_or_restart_recoverable
<1>2. PICK original \in Keyed(wf, key) : \E latest \in NewestGeneration(wf, original) :
        start_or_restart_recoverable!2!(key, version, due, next)!(original)!(latest)
  BY <1>1
<1>3. PICK latest \in NewestGeneration(wf, original) :
        start_or_restart_recoverable!2!(key, version, due, next)!(original)!(latest)
  BY <1>2
<1> DEFINE inserted == [wf EXCEPT ![next] =
                            NewWorkflow(None, version, None, 0, latest, due)]
           superseded == [inserted EXCEPT ![latest] = Superseded(@)]
           handed == hand_waiting_parents_to_successor(superseded, latest, next)
           below == OwnedDescendants(inserted, latest)
<1>4. latest \in Workflow
  BY DEF NewestGeneration, Generations, Reachable
<1>5. inserted \in [Workflow -> WorkflowRow] /\ superseded \in [Workflow -> WorkflowRow]
  BY <1>4, SuccessorType
<1>6. \/ wf' = cancel_one_workflow(handed, below) /\ apr' = cancel_approvals(below)
      \/ wf' = inserted /\ apr' = apr
  BY <1>3
<1>7. \E acts \in {cancel_activities(below), act} :
        act' = [a \in Activity |->
                    IF act[a].workflow = latest /\ act[a].status = "dead_lettered"
                    THEN [act[a] EXCEPT !.status = "cancelled"] ELSE acts[a]]
  BY <1>3
<1>8. UNCHANGED <<openAttempts, coordClaims, workClaims>>
  BY DEF start_or_restart_recoverable
<1> HIDE DEF inserted, superseded, below
<1>9. handed \in [Workflow -> WorkflowRow]
  BY <1>5, HandType
<1>10. act' \in [Activity -> ActivityRow]
  <2>1. "cancelled" \in ActivityStatus
    BY DEF ActivityStatus
  <2>2. \A a \in Activity : [act[a] EXCEPT !.status = "cancelled"] \in ActivityRow
    BY <2>1, ActivitySettledType
  <2>3. cancel_activities(below) \in [Activity -> ActivityRow]
    BY CancelActivitiesType
  <2> QED
    BY <1>7, <2>2, <2>3
<1> HIDE DEF handed
<1>11. cancel_one_workflow(handed, below) \in [Workflow -> WorkflowRow]
  BY <1>9, CancelType
<1>12. cancel_approvals(below) \in [Approval -> ApprovalRow]
  BY CancelApprovalsType
<1> QED
  BY <1>5, <1>6, <1>8, <1>10, <1>11, <1>12

(* T-A5 keeps the types. *)
LEMMA RestartType ==
    ASSUME TypeOK, restart
    PROVE  TypeOK'
<1> USE DEF TypeOK
<1>1. PICK source \in Workflow, version \in Version, next \in Workflow :
        restart!2!(source, version, next)
  BY DEF restart
<1> DEFINE inserted == [wf EXCEPT ![next] =
                            NewWorkflow(None, version, None, 0, source, TRUE)]
           superseded == [inserted EXCEPT ![source] = Superseded(@)]
           woken == wake_waiting_parents_on_child_terminal(
                        superseded, source, "child_failed")
           below == OwnedDescendants(inserted, source)
<1>2. inserted \in [Workflow -> WorkflowRow] /\ superseded \in [Workflow -> WorkflowRow]
  BY SuccessorType
<1>3. /\ wf' = cancel_one_workflow(woken, below) \/ wf' = inserted
      /\ act' = cancel_activities({source} \cup below) \/ act' = act
      /\ apr' = cancel_approvals({source} \cup below) \/ apr' = apr
  BY <1>1
<1>4. UNCHANGED <<openAttempts, coordClaims, workClaims>>
  BY DEF restart
<1> HIDE DEF inserted, superseded, below
<1>5. woken \in [Workflow -> WorkflowRow]
  BY <1>2, WakeType DEF EventKind
<1> HIDE DEF woken
<1>6. cancel_one_workflow(woken, below) \in [Workflow -> WorkflowRow]
  BY <1>5, CancelType
<1> QED
  BY <1>2, <1>3, <1>4, <1>6, CancelActivitiesType, CancelApprovalsType

(* T-A2 and T-A3 keep the types. *)
LEMMA PauseResumeType ==
    ASSUME TypeOK, pause_workflow \/ resume_workflow
    PROVE  TypeOK'
<1> USE DEF TypeOK
<1>1. ASSUME NEW r \in WorkflowRow, NEW s \in WorkflowStatus, NEW d \in BOOLEAN
      PROVE  /\ LeaseCleared([r EXCEPT !.status = s]) \in WorkflowRow
             /\ LeaseCleared([r EXCEPT !.status = s, !.due = d]) \in WorkflowRow
  <2>1. [r EXCEPT !.status = s] \in WorkflowRow /\ [r EXCEPT !.status = s, !.due = d] \in WorkflowRow
    BY DEF WorkflowRow
  <2> QED
    BY <2>1, WorkflowLeaseClearedType
<1>2. CASE pause_workflow
  <2>1. PICK w \in Workflow : pause_workflow!2!(w)
    BY <1>2 DEF pause_workflow
  <2>2. "paused" \in WorkflowStatus
    BY DEF WorkflowStatus
  <2>3. wf' \in [Workflow -> WorkflowRow]
    <3>1. LeaseCleared([wf[w] EXCEPT !.status = "paused"]) \in WorkflowRow
      BY <1>1, <2>2
    <3> QED
      BY <2>1, <3>1
  <2>4. ASSUME NEW r \in ActivityRow PROVE PausedActivity(r) \in ActivityRow
    <3>1. r.max + 1 \in Nat /\ "cancelling" \in ActivityStatus
      BY DEF ActivityRow, ActivityStatus, NonTerminalActivity
    <3>2. [r EXCEPT !.status = "cancelling", !.max = r.max + 1] \in ActivityRow
      BY <3>1 DEF ActivityRow
    <3> QED
      BY <3>2 DEF PausedActivity
  <2>5. act' \in [Activity -> ActivityRow]
    BY <2>1, <2>4
  <2> QED
    BY <1>2, <2>3, <2>5 DEF pause_workflow
<1>3. CASE resume_workflow
  <2>1. PICK w \in Workflow : resume_workflow!2!(w)
    BY <1>3 DEF resume_workflow
  <2> DEFINE status == resume_status(wf[w])
  <2>2. status \in WorkflowStatus
    <3>1. status # "conflict"
      BY <2>1
    <3>2. status \in {"ready", "sleeping", "waiting_activity", "blocked",
                      "waiting_child", "waiting_approval", "conflict"}
      BY DEF resume_status
    <3> QED
      BY <3>1, <3>2 DEF WorkflowStatus
  <2> DEFINE due == wf[w].due \/ status = "ready"
  <2>3. wf' = [wf EXCEPT ![w] =
                LeaseCleared([wf[w] EXCEPT !.status = status, !.due = due])]
    BY <2>1
  <2>4. due \in BOOLEAN
    OBVIOUS
  <2> HIDE DEF status, due
  <2>5. LeaseCleared([wf[w] EXCEPT !.status = status, !.due = due]) \in WorkflowRow
    BY <1>1, <2>2, <2>4
  <2> QED
    BY <1>3, <2>3, <2>5 DEF resume_workflow
<1> QED
  BY <1>2, <1>3

(* T-A6 and T-A7 keep the types. *)
LEMMA RetryResolveType ==
    ASSUME TypeOK, retry \/ resolve_approval
    PROVE  TypeOK'
<1> USE DEF TypeOK
<1>1. CASE retry
  <2>1. PICK source \in Activity, next \in Activity, topic \in Topic, runnable \in Runnable :
            retry!2!(source, next, topic, runnable)
    BY <1>1 DEF retry
  <2> DEFINE w == act[source].workflow
  <2>2. w \in Workflow \cup {None} /\ act[source].cmd \in Nat
    BY DEF ActivityRow
  <2>3. NewActivity(w, act[source].cmd, topic, runnable) \in ActivityRow
    BY <2>2, NewActivityType
  <2>4. act' \in [Activity -> ActivityRow]
    BY <2>1, <2>3
  <2>5. ASSUME NEW r \in WorkflowRow
        PROVE  [r EXCEPT !.status = "waiting_activity", !.wait = WaitOn("activity", next),
                         !.due = TRUE] \in WorkflowRow
    <3>1. "waiting_activity" \in WorkflowStatus /\ WaitOn("activity", next) \in Wait
      BY DEF WorkflowStatus, WaitOn, Wait
    <3> QED
      BY <3>1 DEF WorkflowRow
  <2>6. w \in Workflow => wf' = [wf EXCEPT ![w] =
            [wf[w] EXCEPT !.status = "waiting_activity",
                          !.wait = WaitOn("activity", next), !.due = TRUE]]
    BY <2>1
  <2>7. w \notin Workflow => wf' = wf
    BY <2>1
  <2>8. wf' \in [Workflow -> WorkflowRow]
    <3> HIDE DEF w
    <3>1. CASE w \in Workflow
      BY <2>5, <2>6, <3>1
    <3> QED
      BY <2>7, <3>1
  <2> QED
    BY <1>1, <2>4, <2>8 DEF retry
<1>2. CASE resolve_approval
  <2>1. PICK p \in Approval : resolve_approval!2!(p)
    BY <1>2 DEF resolve_approval
  <2>2. apr[p].cmd \in Nat /\ "approval_resolved" \in EventKind
    BY DEF ApprovalRow, EventKind
  <2>3. wf' \in [Workflow -> WorkflowRow]
    BY <2>1, <2>2, WokenType
  <2>4. apr' \in [Approval -> ApprovalRow]
    BY <2>1 DEF ApprovalRow, ApprovalStatus
  <2> QED
    BY <1>2, <2>3, <2>4 DEF resolve_approval
<1> QED
  BY <1>1, <1>2

(* The passing of time keeps the types. *)
LEMMA TimePassesType ==
    ASSUME TypeOK, TimePasses
    PROVE  TypeOK'
<1> USE DEF TypeOK
<1>1. ASSUME NEW r \in WorkflowRow
      PROVE  [r EXCEPT !.lapsed = TRUE] \in WorkflowRow /\ [r EXCEPT !.due = TRUE] \in WorkflowRow
  BY DEF WorkflowRow
<1>2. ASSUME NEW r \in ActivityRow
      PROVE  [r EXCEPT !.lapsed = TRUE] \in ActivityRow /\ [r EXCEPT !.due = TRUE] \in ActivityRow
  BY DEF ActivityRow
<1>3. ASSUME NEW r \in ApprovalRow PROVE [r EXCEPT !.expiry = "past"] \in ApprovalRow
  BY DEF ApprovalRow
<1>4. ASSUME NEW w \in Workflow, WorkflowLeaseLapses(w) \/ WorkflowComesDue(w)
      PROVE  TypeOK'
  BY <1>1, <1>4 DEF WorkflowLeaseLapses, WorkflowComesDue
<1>5. ASSUME NEW a \in Activity, ActivityLeaseLapses(a) \/ ActivityComesDue(a)
      PROVE  TypeOK'
  BY <1>2, <1>5 DEF ActivityLeaseLapses, ActivityComesDue
<1>6. ASSUME NEW p \in Approval, ApprovalComesDue(p)
      PROVE  TypeOK'
  BY <1>3, <1>6 DEF ApprovalComesDue
<1> QED
  BY <1>4, <1>5, <1>6 DEF TimePasses

----------------------------------------------------------------------------
(* TypeOK is inductive by itself. *)
LEMMA TypeInductive == TypeOK /\ [Next]_vars => TypeOK'
<1> SUFFICES ASSUME TypeOK, [Next]_vars PROVE TypeOK'
  OBVIOUS
<1>1. CASE UNCHANGED vars
  BY <1>1 DEF TypeOK, vars
<1> QED
  BY <1>1, ClaimRowType, CommitTransitionType, ActivationFailureType,
     ClaimActivitiesType, HeartbeatType, FinishClaimType, MaterializersType,
     StartCancelType, RecoverType, RestartType, PauseResumeType,
     RetryResolveType, TimePassesType DEF Next

(* Every row and claim of every reachable state has the columns and values *)
(* its table or struct allows, however many workflows, activities, tokens, *)
(* keys and topics there are.                                              *)
THEOREM TypeCorrect == Spec => []TypeOK
<1>1. Init => TypeOK
  <2>1. NoWorkflow \in WorkflowRow
    BY DefinitionAssumption DEF NoWorkflow, WorkflowRow, NoWait, Wait, Key
  <2>2. NoActivity \in ActivityRow
    BY DefinitionAssumption DEF NoActivity, ActivityRow
  <2>3. NoApproval \in ApprovalRow
    BY DEF NoApproval, ApprovalRow
  <2> QED
    BY <2>1, <2>2, <2>3 DEF Init, TypeOK
<1> QED
  BY <1>1, TypeInductive, PTL DEF Spec
=============================================================================
