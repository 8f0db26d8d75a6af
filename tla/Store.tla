------------------------------- MODULE Store -------------------------------
(***************************************************************************)
(* The application's transactions (store.rs): start (T-X1), start or       *)
(* restart a recoverable workflow (T-X2) and cancel (T-X3), with the       *)
(* cancellation cascade they share with operator commands.                 *)
(***************************************************************************)
EXTENDS DurableRows

CONSTANT Calls  \* the application and operator calls that are made

(* Mutant: CancelledActivity that leaves pending rows. *)
RevokedOnly(r) ==
    IF r.status = "pending" THEN r ELSE [r EXCEPT !.status = "cancelling"]

(* cancel_activities: a leased row keeps lease, slot and open attempt. *)
CancelledActivity(r) ==
    IF r.status = "pending" THEN LeaseCleared([r EXCEPT !.status = "cancelled"])
    ELSE [r EXCEPT !.status = "cancelling"]

cancel_activities(workflows) ==
    [a \in Activity |->
        IF act[a].workflow \in workflows /\ act[a].status \in NonTerminalActivity
        THEN CancelledActivity(act[a]) ELSE act[a]]

(* Mutant: cancel_approvals that does nothing. *)
ApprovalsKept(workflows) == apr

cancel_approvals(workflows) ==
    [p \in Approval |->
        IF apr[p].workflow \in workflows /\ apr[p].status = "pending"
        THEN [apr[p] EXCEPT !.status = "cancelled"] ELSE apr[p]]

CancelledWorkflow(r) ==
    LeaseCleared([r EXCEPT !.status = "cancelled", !.wait = NoWait])

(* Cancel a set of live workflows; parents outside it that wait on one     *)
(* hear child_failed.                                                      *)
cancel_one_workflow(rows, cancelled) ==
    [w \in Workflow |->
        IF w \in cancelled THEN CancelledWorkflow(rows[w])
        ELSE IF \E c \in cancelled : w \in Waiters(rows, c)
             THEN WokenByChild(rows[w], "child_failed")
             ELSE rows[w]]

(* Mutant: Insertable without the key lookup. *)
AlwaysInsertable(key) == TRUE

(* A keyed start returns the row that holds the key; only a new row is a   *)
(* change.                                                                 *)
Insertable(key) == key = None \/ Keyed(wf, key) = {}

(* T-X1. *)
start ==
    /\ "start" \in Calls
    /\ \E w \in Workflow, key \in {None} \cup DomainKey, version \in Version,
          due \in BOOLEAN :
        /\ ~Exists(wf, w) /\ Insertable(key)
        /\ wf' = [wf EXCEPT ![w] = NewWorkflow(key, version, None, 0, None, due)]
    /\ UNCHANGED <<act, apr, openAttempts, coordClaims, workClaims>>

(* Mutant: hand_waiting_parents_to_successor that re-points nobody. *)
ParentsLeftWaiting(rows, superseded, successor) ==
    IF rows[successor].version # rows[superseded].version
    THEN wake_waiting_parents_on_child_terminal(rows, superseded, "child_failed")
    ELSE rows

(* Parents of the superseded row wait on its successor when that runs the  *)
(* same version; otherwise they hear child_failed.                         *)
hand_waiting_parents_to_successor(rows, superseded, successor) ==
    IF rows[successor].version # rows[superseded].version
    THEN wake_waiting_parents_on_child_terminal(rows, superseded, "child_failed")
    ELSE [p \in Workflow |->
            IF p \in Waiters(rows, superseded)
            THEN [rows[p] EXCEPT !.wait = WaitOn("child", successor)]
            ELSE rows[p]]

(* A superseded row keeps its wait columns. *)
Superseded(r) == LeaseCleared([r EXCEPT !.status = "cancelled"])

(* T-X2 on a key that exists and whose newest generation can be recovered; *)
(* on a free key it is T-X1, on any other generation it changes nothing.   *)
start_or_restart_recoverable ==
    /\ "recover" \in Calls
    /\ \E key \in DomainKey, version \in Version, due \in BOOLEAN,
          next \in Workflow :
       \E original \in Keyed(wf, key) :
       \E latest \in NewestGeneration(wf, original) :
        LET inserted == [wf EXCEPT ![next] =
                NewWorkflow(None, version, None, 0, latest, due)]
            blocked == wf[latest].status = "blocked"
            handed == hand_waiting_parents_to_successor(
                [inserted EXCEPT ![latest] = Superseded(@)], latest, next)
            below == OwnedDescendants(inserted, latest)
            acts == IF blocked THEN cancel_activities(below) ELSE act
        IN  /\ wf[latest].status \in StartRecoverable
            /\ ~Exists(wf, next)
            /\ wf' = IF blocked THEN cancel_one_workflow(handed, below)
                     ELSE inserted
            /\ act' = [a \in Activity |->
                        IF act[a].workflow = latest
                           /\ act[a].status = "dead_lettered"
                        THEN [act[a] EXCEPT !.status = "cancelled"]
                        ELSE acts[a]]
            /\ apr' = IF blocked THEN cancel_approvals(below) ELSE apr
    /\ UNCHANGED <<openAttempts, coordClaims, workClaims>>

(* T-X3 and T-A4: cancel a live workflow and the descendants it owns. *)
cancel_workflow ==
    /\ "cancel" \in Calls
    /\ \E w \in Workflow :
        LET cancelled == {w} \cup OwnedDescendants(wf, w)
        IN  /\ Exists(wf, w) /\ wf[w].status \notin Terminal
            /\ wf' = cancel_one_workflow(wf, cancelled)
            /\ act' = cancel_activities(cancelled)
            /\ apr' = cancel_approvals(cancelled)
    /\ UNCHANGED <<openAttempts, coordClaims, workClaims>>
=============================================================================
