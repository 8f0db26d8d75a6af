--------------------------- MODULE ActivityWorker ---------------------------
(***************************************************************************)
(* The activity worker's transactions (runtime/activity_worker.rs): claim  *)
(* with lease reconciliation (T-W1), heartbeat (T-W2) and finish (T-W3).   *)
(* What the executor does between them (the handler, its timeout and the   *)
(* local lease deadline) decides only when they happen.                    *)
(***************************************************************************)
EXTENDS DurableRows

(* The row of the attempt that holds a's lease. *)
AttemptOf(a) ==
    [activity |-> a, number |-> act[a].count, token |-> act[a].token]

WaitsOnActivity(rows, w, a) ==
    rows[w].status = "waiting_activity" /\ rows[w].wait.ref = a

(* Mutant: ExpiredLeases that forgets revoked rows. *)
ExpiredRunning(topics) ==
    {a \in Activity : /\ act[a].status = "running" /\ act[a].lapsed
                      /\ act[a].topic \in topics}

ExpiredLeases(topics) ==
    {a \in Activity : /\ act[a].status \in LeaseHolders /\ act[a].lapsed
                      /\ act[a].topic \in topics}

(* Mutant: settle_revoked that stores a workflow status. *)
SettledAsReady(r, workflowStatus) ==
    LeaseCleared(IF workflowStatus \in Terminal
                 THEN [r EXCEPT !.status = "cancelled"]
                 ELSE [r EXCEPT !.status = "ready", !.due = TRUE])

(* A revoked row whose handler stopped or whose lease expired. *)
settle_revoked(r, workflowStatus) ==
    LeaseCleared(IF workflowStatus \in Terminal
                 THEN [r EXCEPT !.status = "cancelled"]
                 ELSE [r EXCEPT !.status = "pending", !.due = TRUE])

Exhausted(r) == r.status = "running" /\ r.count >= r.max

(* One expired row.  A retry waits for its backoff, except that a row      *)
(* whose stored policy does not decode is due at once.                     *)
Reconciled(r, workflowStatus) ==
    IF r.status = "cancelling" THEN settle_revoked(r, workflowStatus)
    ELSE LeaseCleared(IF Exhausted(r)
                      THEN [r EXCEPT !.status = "dead_lettered", !.due = TRUE]
                      ELSE [r EXCEPT !.status = "pending", !.due = ~r.runnable])

block_workflow(rows, blocking) ==
    [w \in Workflow |->
        IF \E a \in blocking : act[a].workflow = w /\ WaitsOnActivity(rows, w, a)
        THEN [rows[w] EXCEPT !.status = "blocked"] ELSE rows[w]]

(* Pending, due, and the wait of its workflow. *)
ClaimCandidates(workflows, activities, topic) ==
    {a \in Activity : /\ activities[a].status = "pending" /\ activities[a].due
                      /\ activities[a].topic = topic
                      /\ WaitsOnActivity(workflows, activities[a].workflow, a)}

(* Mutant: InFlight that frees the slots of unsettled rows. *)
LiveLeases(activities, topic, unsettled) ==
    {a \in Activity : /\ activities[a].status \in SlotHolders
                      /\ activities[a].topic = topic
                      /\ ~activities[a].lapsed}

(* Slot holders with a live lease, and the expired ones left unsettled. *)
InFlight(activities, topic, unsettled) ==
    {a \in Activity : /\ activities[a].status \in SlotHolders
                      /\ activities[a].topic = topic
                      /\ ~activities[a].lapsed \/ a \in unsettled}

Unclaimable(r) == r.count >= r.max \/ ~r.runnable

Claimed(r, t) ==
    [r EXCEPT !.status = "running", !.count = @ + 1, !.token = t,
              !.lapsed = FALSE]

Injections(S, T) == {f \in [S -> T] : \A x, y \in S : f[x] = f[y] => x = y}

(* T-W1 over the locked topics: claim_batch locks them all, claim_one one. *)
(* Expired leases whose workflow another transaction locks stay unsettled. *)
(* Then each topic claims at most its free slots (fewer when the local     *)
(* capacity is smaller), and quarantines candidates it cannot run.         *)
claim_batch(topics) ==
    \E unsettled \in SUBSET ExpiredLeases(topics) :
        LET settled == ExpiredLeases(topics) \ unsettled
            acts == [a \in Activity |->
                        IF a \in settled
                        THEN Reconciled(act[a], wf[act[a].workflow].status)
                        ELSE act[a]]
            flows == block_workflow(wf, {a \in settled : Exhausted(act[a])})
            slots(t) == Limit[t] - Cardinality(InFlight(acts, t, unsettled))
            candidates == UNION {ClaimCandidates(flows, acts, t) :
                                    t \in {u \in topics : slots(u) > 0}}
            unclaimable == {a \in candidates : Unclaimable(acts[a])}
        IN  /\ {AttemptOf(a) : a \in settled} \subseteq openAttempts
            /\ \E claimed \in SUBSET (candidates \ unclaimable),
                  quarantined \in SUBSET unclaimable :
                /\ settled \cup claimed \cup quarantined # {}
                /\ \A t \in topics :
                    LET here == {a \in claimed : acts[a].topic = t}
                    IN  here = {} \/ Cardinality(here) <= slots(t)
                /\ \E token \in Injections(claimed, FreshTokens) :
                    /\ act' = [a \in Activity |->
                        IF a \in claimed THEN Claimed(acts[a], token[a])
                        ELSE IF a \in quarantined
                             THEN [acts[a] EXCEPT !.status = "dead_lettered"]
                             ELSE acts[a]]
                    /\ openAttempts' =
                        (openAttempts \ {AttemptOf(a) : a \in settled})
                        \cup {[activity |-> a, number |-> acts[a].count + 1,
                               token |-> token[a]] : a \in claimed}
                    /\ workClaims' = workClaims \cup
                        {[activity |-> a, attempt |-> acts[a].count + 1,
                          token |-> token[a], max |-> acts[a].max,
                          revoked |-> FALSE, live |-> TRUE] : a \in claimed}
                /\ wf' = block_workflow(flows, quarantined)
                /\ UNCHANGED <<apr, coordClaims>>

ClaimActivities ==
    \E topics \in {Topic} \cup {{t} : t \in Topic} : claim_batch(topics)

(* Mutant: HoldsLease without attempt and token. *)
LeasedByAnyone(c) == act[c.activity].status \in LeaseHolders

(* The fence of a claim: leased_activity! also accepts a revoked row. *)
HoldsLease(c) ==
    /\ act[c.activity].status \in LeaseHolders
    /\ act[c.activity].count = c.attempt
    /\ act[c.activity].token = c.token

AttemptOfClaim(c) ==
    [activity |-> c.activity, number |-> c.attempt, token |-> c.token]

(* T-W2.  A lapsed lease nobody reconciled is renewed as well.  A claim    *)
(* that is no longer live is a heartbeat still in flight when its          *)
(* execution ended: its commit may land, once, and tells nobody.           *)
heartbeat_once ==
    \E c \in workClaims :
        /\ HoldsLease(c) /\ AttemptOfClaim(c) \in openAttempts
        /\ ~c.revoked
        /\ act' = [act EXCEPT ![c.activity].lapsed = FALSE]
        /\ workClaims' = (workClaims \ {c}) \cup
            {d \in {[c EXCEPT !.revoked = act[c.activity].status = "cancelling"]} :
                c.live}
        /\ UNCHANGED <<wf, apr, openAttempts, coordClaims>>

Outcomes == {"succeeded", "retryable", "permanent"}

(* T-W3 on a row still running: the outcome is applied. *)
ApplyOutcome(c, outcome) ==
    LET a == c.activity
        w == act[a].workflow
        dead == outcome = "permanent" \/
                (outcome = "retryable" /\ c.attempt >= c.max)
        settle(status, due) ==
            LeaseCleared([act[a] EXCEPT !.status = status, !.due = due])
    IN  /\ act[a].status = "running" /\ ~c.revoked
        /\ \/ /\ outcome = "succeeded" /\ WaitsOnActivity(wf, w, a)
              /\ act' = [act EXCEPT ![a] = settle("succeeded", @.due)]
              /\ wf' = [wf EXCEPT ![w] = WaitCleared(
                            WithEvent(@, "activity_succeeded", act[a].cmd))]
           \/ /\ dead /\ WaitsOnActivity(wf, w, a)
              /\ act' = [act EXCEPT ![a] = settle("dead_lettered", @.due)]
              /\ wf' = block_workflow(wf, {a})
           \/ /\ outcome = "retryable" /\ ~dead
              /\ act' = [act EXCEPT ![a] = settle("pending", FALSE)]
              /\ UNCHANGED wf

(* T-W3 on a revoked row: whatever the handler returned is not applied. *)
SettleRevoked(c) ==
    /\ act[c.activity].status = "cancelling"
    /\ act' = [act EXCEPT ![c.activity] =
                settle_revoked(@, wf[act[c.activity].workflow].status)]
    /\ UNCHANGED wf

finish_claim ==
    \E c \in workClaims :
        /\ c.live /\ HoldsLease(c) /\ AttemptOfClaim(c) \in openAttempts
        /\ (\E outcome \in Outcomes : ApplyOutcome(c, outcome)) \/ SettleRevoked(c)
        /\ openAttempts' = openAttempts \ {AttemptOfClaim(c)}
        /\ workClaims' = workClaims \ {c}
        /\ UNCHANGED <<apr, coordClaims>>

(* The execution ends without T-W3 (the runtime dies or is forced to stop, *)
(* the lease is lost, the fence is missed and rolls back), possibly with a *)
(* heartbeat in flight; or such a heartbeat is lost.                       *)
AbandonExecution ==
    /\ \E c \in workClaims :
        \/ workClaims' = workClaims \ {c}
        \/ /\ c.live /\ ~c.revoked
           /\ workClaims' = (workClaims \ {c}) \cup {[c EXCEPT !.live = FALSE]}
    /\ UNCHANGED <<wf, act, apr, openAttempts, coordClaims>>
=============================================================================
