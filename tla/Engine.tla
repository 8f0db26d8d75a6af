------------------------------- MODULE Engine -------------------------------
(***************************************************************************)
(* Coordinators, activity workers, materializers, applications and         *)
(* operators over the one database.  Every step is one READ COMMITTED      *)
(* transaction with its row locks, a loss of in-memory state, or the       *)
(* passing of time.                                                        *)
(***************************************************************************)
EXTENDS Coordinator, ActivityWorker, Temporal, AdminControl

NoWorkflow ==
    [status |-> "absent", version |-> CHOOSE v \in Version : TRUE,
     wait |-> NoWait, due |-> FALSE, token |-> None, lapsed |-> FALSE,
     attempts |-> 0, streak |-> 0, cmd |-> 0, delivered |-> 0, inbox |-> {},
     key |-> None, parent |-> None, parentCmd |-> 0, from |-> None]

NoActivity ==
    [status |-> "absent", workflow |-> None, cmd |-> 0,
     topic |-> CHOOSE t \in Topic : TRUE, max |-> 0, count |-> 0,
     runnable |-> TRUE, due |-> FALSE, token |-> None, lapsed |-> FALSE]

NoApproval ==
    [status |-> "absent", workflow |-> None, cmd |-> 0, expiry |-> "never"]

Init ==
    /\ wf = [w \in Workflow |-> NoWorkflow]
    /\ act = [a \in Activity |-> NoActivity]
    /\ apr = [p \in Approval |-> NoApproval]
    /\ openAttempts = {} /\ coordClaims = {} /\ workClaims = {}

----------------------------------------------------------------------------
(* The database clock passes a stored timestamp. *)

WorkflowLeaseLapses(w) ==
    /\ wf[w].status = "running" /\ ~wf[w].lapsed
    /\ wf' = [wf EXCEPT ![w].lapsed = TRUE]
    /\ UNCHANGED <<act, apr, openAttempts, coordClaims, workClaims>>

ActivityLeaseLapses(a) ==
    /\ act[a].status \in LeaseHolders /\ ~act[a].lapsed
    /\ act' = [act EXCEPT ![a].lapsed = TRUE]
    /\ UNCHANGED <<wf, apr, openAttempts, coordClaims, workClaims>>

WorkflowComesDue(w) ==
    /\ wf[w].status \in {"ready", "sleeping", "paused"} /\ ~wf[w].due
    /\ wf' = [wf EXCEPT ![w].due = TRUE]
    /\ UNCHANGED <<act, apr, openAttempts, coordClaims, workClaims>>

ActivityComesDue(a) ==
    /\ act[a].status = "pending" /\ ~act[a].due
    /\ act' = [act EXCEPT ![a].due = TRUE]
    /\ UNCHANGED <<wf, apr, openAttempts, coordClaims, workClaims>>

ApprovalComesDue(p) ==
    /\ apr[p].status = "pending" /\ apr[p].expiry = "later"
    /\ apr' = [apr EXCEPT ![p].expiry = "past"]
    /\ UNCHANGED <<wf, act, openAttempts, coordClaims, workClaims>>

TimePasses ==
    \/ \E w \in Workflow : WorkflowLeaseLapses(w) \/ WorkflowComesDue(w)
    \/ \E a \in Activity : ActivityLeaseLapses(a) \/ ActivityComesDue(a)
    \/ \E p \in Approval : ApprovalComesDue(p)

----------------------------------------------------------------------------
Next ==
    \/ claim_row \/ commit_transition
    \/ record_activation_failure \/ AbandonActivation
    \/ ClaimActivities \/ heartbeat_once \/ finish_claim \/ AbandonExecution
    \/ TimerMaterializer \/ ApprovalExpiryMaterializer
    \/ start \/ start_or_restart_recoverable \/ cancel_workflow
    \/ pause_workflow \/ resume_workflow \/ restart \/ retry \/ resolve_approval
    \/ TimePasses

Spec == Init /\ [][Next]_vars

(* The clock advances, and the coordinator and worker loops keep polling:  *)
(* an expired lease is recovered unless its row changes first.  Handlers,  *)
(* heartbeats, operators and applications need not do anything.            *)
RecoversRun(w) == claim_row /\ wf'[w].token # wf[w].token
SettlesLease(a) == ClaimActivities /\ AttemptOf(a) \notin openAttempts'

FairSpec ==
    /\ Spec
    /\ \A w \in Workflow : /\ WF_vars(WorkflowLeaseLapses(w))
                            /\ WF_vars(RecoversRun(w))
    /\ \A a \in Activity : /\ WF_vars(ActivityLeaseLapses(a))
                            /\ WF_vars(SettlesLease(a))

----------------------------------------------------------------------------
(* Every row and every in-memory claim has the columns and values its      *)
(* struct or table allows.                                                 *)
TypeOK ==
    /\ wf \in [Workflow -> WorkflowRow]
    /\ act \in [Activity -> ActivityRow]
    /\ apr \in [Approval -> ApprovalRow]
    /\ openAttempts \subseteq Attempt
    /\ coordClaims \subseteq CoordClaim
    /\ workClaims \subseteq WorkClaim

(* A workflow's status and wait columns agree with the row it waits on,    *)
(* for every non-terminal workflow, through pauses: a waiting workflow     *)
(* waits on something that can still answer it, a blocked one on a dead-   *)
(* lettered activity, and the error arms of resume_status are never taken. *)
WaitCoupling ==
    \A w \in Workflow :
        LET r == wf[w]
            onActivity(statuses) ==
                /\ r.wait.kind = "activity" /\ r.wait.ref \in Activity
                /\ act[r.wait.ref].workflow = w
                /\ act[r.wait.ref].cmd = r.cmd
                /\ act[r.wait.ref].status \in statuses
            onChild == /\ r.wait.kind = "child" /\ r.wait.ref \in Workflow
                       /\ wf[r.wait.ref].status
                            \in WorkflowStatus \ Terminal
            onTimer == r.wait = WaitOn("timer", r.cmd)
            onApproval == /\ r.wait.kind = "approval" /\ r.wait.ref \in Approval
                          /\ apr[r.wait.ref].status = "pending"
                          /\ apr[r.wait.ref].workflow = w
                          /\ apr[r.wait.ref].cmd = r.cmd
        IN  /\ r.status \in {"absent", "ready", "running"} => r.wait = NoWait
            /\ r.status = "waiting_activity" => onActivity(NonTerminalActivity)
            /\ r.status = "blocked" => onActivity({"dead_lettered"})
            /\ r.status = "waiting_child" => onChild
            /\ r.status = "sleeping" => onTimer
            /\ r.status = "waiting_approval" => onApproval
            /\ r.status = "paused" =>
                \/ r.wait = NoWait \/ onTimer \/ onChild \/ onApproval
                \/ onActivity({"pending", "cancelling", "dead_lettered"})

(* A workflow that can be activated has exactly one undelivered event, at  *)
(* the next delivery sequence, and it answers the last command; a waiting  *)
(* one has none.  So a claim never finds "no deliverable event", no wake   *)
(* is delivered twice, and the unique delivery sequence never conflicts.   *)
OneDeliverableEvent ==
    \A w \in Workflow :
        LET r == wf[w]
        IN  /\ (r.status \in {"ready", "running"}
                \/ (r.status = "paused" /\ r.wait = NoWait)) =>
                \E e \in r.inbox :
                    /\ r.inbox = {e} /\ e.seq = r.delivered + 1
                    /\ e.kind \in {"started", "continued"} \/ e.cmd = r.cmd
            /\ r.status \in (WorkflowStatus \ Terminal) /\ r.wait # NoWait =>
                r.inbox = {}

(* A workflow holds a lease token exactly while running.  An activity      *)
(* holds one exactly while running or cancelling, and then, and only then, *)
(* it has one open attempt, the current one, with that token: the fences   *)
(* of T-W1, T-W2 and T-W3 on the attempt row never miss alone.             *)
LeaseOwnership ==
    /\ \A w \in Workflow : wf[w].token # None <=> wf[w].status = "running"
    /\ \A a \in Activity :
        /\ act[a].token # None <=> act[a].status \in LeaseHolders
        /\ {t \in openAttempts : t.activity = a} =
            {t \in {AttemptOf(a)} : act[a].status \in LeaseHolders}

(* An activity that is not finished is the one its workflow waits on, or   *)
(* is being revoked from a workflow that is over.  A running one is never  *)
(* that of a paused workflow, so its success or dead letter always finds   *)
(* its workflow waiting (wake_workflow and block_workflow never miss).     *)
NoOrphanActivity ==
    \A a \in Activity :
        LET r == wf[act[a].workflow]
        IN  /\ act[a].status \in NonTerminalActivity =>
                \/ /\ r.status \in {"waiting_activity", "paused"}
                   /\ r.wait = WaitOn("activity", a)
                \/ r.status \in Terminal /\ act[a].status = "cancelling"
            /\ act[a].status = "running" => r.status = "waiting_activity"

(* No claim takes an activity past its attempt cap, and a pending row is   *)
(* always below it: a pause gives back the attempt it revokes, so the      *)
(* attempt_cap quarantine of the claim never fires.                        *)
AttemptCap ==
    \A a \in Activity :
        /\ act[a].count <= act[a].max
        /\ act[a].status = "pending" => act[a].count < act[a].max
        /\ act[a].status = "cancelling"
           /\ wf[act[a].workflow].status \notin Terminal =>
                act[a].count < act[a].max

(* The activities of a topic that may be executing never exceed its        *)
(* persisted limit, although expired leases free slots, sweeps skip rows   *)
(* locked elsewhere, and late heartbeats revive expired leases.            *)
TopicCap ==
    \A t \in Topic :
        Cardinality({a \in Activity : /\ act[a].topic = t
                                      /\ act[a].status \in SlotHolders})
            <= Limit[t]

(* A claim that still passes its fence has a current snapshot: T-C2 writes *)
(* command and delivery sequences computed from the row as claimed.        *)
SnapshotCurrent ==
    \A c \in coordClaims :
        Fenced(c) => /\ wf[c.workflow].delivered = c.delivered
                     /\ wf[c.workflow].cmd = c.cmd
                     /\ wf[c.workflow].streak = c.streak

(* An execution told that it is revoked never finds its row running again  *)
(* under the same attempt and token (the InvalidState arm of T-W3), and an *)
(* activity has at most one execution whose writes still pass the fence.   *)
RevocationSticks ==
    /\ \A c \in workClaims :
        c.revoked /\ HoldsLease(c) => act[c.activity].status = "cancelling"
    /\ \A c, d \in workClaims :
        c.activity = d.activity /\ HoldsLease(c) /\ HoldsLease(d) => c = d

(* A pending approval is the one its workflow waits on, paused or not, so  *)
(* neither its expiry nor its resolution can find a workflow that moved on *)
(* and the expiry sweep never fails on the same row forever.               *)
PendingApprovalAwaited ==
    \A p \in Approval : apr[p].status = "pending" => MatchesWait(p)

(* Rows on one restart chain: a key names one row, a row has at most one   *)
(* successor, and a row that has one is over.  T-X2 and T-A5 therefore     *)
(* always agree on the newest generation, and one workflow identity never  *)
(* runs in two generations at once.                                        *)
LinearLineage ==
    /\ \A k \in DomainKey : Cardinality(Keyed(wf, k)) <= 1
    /\ \A w \in Workflow :
        /\ Cardinality(Successors(wf, w)) <= 1
        /\ Successors(wf, w) # {} => wf[w].status \in Terminal

(* No live workflow waits on itself or on an ancestor, through handed-over *)
(* waits and restarts (the check of commit_child).                         *)
NoAncestorWait ==
    \A w \in Workflow :
        wf[w].status \in ChildWaiters /\ wf[w].wait.kind = "child" =>
            wf[w].wait.ref \notin CallerOrAncestors(wf, w)

(* A step that cancels a workflow, by application, operator, restart or    *)
(* recovery, leaves no live generation of any child that workflow owns;    *)
(* the children cancelled with it are held to the same.                    *)
CancelReachesOwned ==
    [][\A w \in Workflow :
        wf[w].status \notin Terminal /\ wf'[w].status = "cancelled" =>
            \A c \in OwnedChildren(wf', w) : \A g \in Generations(wf', c) :
                wf'[g].status \in Terminal]_vars

(* A workflow never leaves a terminal status, and its delivered sequence   *)
(* moves only by one, when a claim that holds the lease consumes an event. *)
DeliveredOnce ==
    [][\A w \in Workflow :
        /\ wf[w].status \in Terminal => wf'[w] = wf[w]
        /\ wf'[w].delivered # wf[w].delivered =>
            /\ wf'[w].delivered = wf[w].delivered + 1
            /\ wf[w].status = "running"
            /\ \E c \in coordClaims \ coordClaims' : Fenced(c) /\ c.workflow = w
      ]_vars

(* Every lease of a crashed or stuck coordinator is eventually taken back: *)
(* no claim keeps its workflow for good.                                   *)
RunsEnd ==
    \A w \in Workflow, t \in Token : wf[w].token = t ~> wf[w].token # t

(* Every revoked activity is eventually settled, so its slot is freed,     *)
(* although its handler may ignore the revocation and a heartbeat may      *)
(* renew the lease once more.                                              *)
RevocationsSettle ==
    \A a \in Activity :
        act[a].status = "cancelling" ~> act[a].status # "cancelling"
=============================================================================
