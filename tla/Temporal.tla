------------------------------ MODULE Temporal ------------------------------
(***************************************************************************)
(* The timer and approval-expiry materializers (runtime/temporal.rs).      *)
(***************************************************************************)
EXTENDS DurableRows

(* T-T1: wake one due sleeping workflow.  A paused one is left alone. *)
TimerMaterializer ==
    \E w \in Workflow :
        /\ wf[w].status = "sleeping" /\ wf[w].wait.kind = "timer" /\ wf[w].due
        /\ wf[w].wait.ref = wf[w].cmd
        /\ wf' = [wf EXCEPT ![w] = WaitCleared(WithEvent(@, "timer_fired", @.cmd))]
        /\ UNCHANGED <<act, apr, openAttempts, coordClaims, workClaims>>

(* An expired approval the materializer can apply; any other pending and   *)
(* expired one is an InvalidState error on every sweep.                    *)
MatchesWait(p) ==
    LET r == wf[apr[p].workflow]
    IN  /\ r.status \in ApprovalWaiters /\ r.wait = WaitOn("approval", p)
        /\ r.cmd = apr[p].cmd

(* T-A1: expire one pending approval whose time has come.  The candidate   *)
(* is read without a lock and checked again under it.                      *)
ApprovalExpiryMaterializer ==
    \E p \in Approval :
        /\ apr[p].status = "pending" /\ apr[p].expiry = "past"
        /\ MatchesWait(p)
        /\ apr' = [apr EXCEPT ![p].status = "expired"]
        /\ wf' = [wf EXCEPT ![apr[p].workflow] =
                    WaitCleared(WithEvent(@, "approval_expired", @.cmd))]
        /\ UNCHANGED <<act, openAttempts, coordClaims, workClaims>>
=============================================================================
