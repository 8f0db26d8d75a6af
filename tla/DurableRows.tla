---------------------------- MODULE DurableRows ----------------------------
(***************************************************************************)
(* The rows every transaction of the engine reads and writes, and the row  *)
(* transitions several transactions share.  One workflow row carries its   *)
(* undelivered events (durable_workflow_event rows whose delivery_sequence *)
(* is above delivered_event_sequence); delivered events and history rows   *)
(* are never read again by the engine and are left out.                    *)
(*                                                                         *)
(* Time is the database clock, and only comparisons with it are kept:      *)
(* due says available_at <= now, lapsed says lease_expires_at <= now.      *)
(* The passing of time is a step of its own (module Engine).               *)
(***************************************************************************)
EXTENDS Naturals, FiniteSets

CONSTANTS
    Workflow, Activity, Approval,  \* row identities, assigned at insertion
    Token,                         \* lease tokens (version 4 UUIDs)
    DomainKey,                     \* deduplication keys the application names
    Version,                       \* versions of the one workflow kind
    Topic,                         \* registered activity topics
    None                           \* SQL NULL

CONSTANTS
    Limit,           \* durable_topic_lock.max_concurrency, per topic
    MaxActivation,   \* min of row and configured max_activation_attempts
    MaxStreak,       \* max_consecutive_continuations
    MaxAttempts,     \* max_attempts of an activity command
    Runnable         \* which validities of stored bounds a row may have

ASSUME NoneAssumption ==
    None \notin Workflow \cup Activity \cup Approval \cup Token \cup DomainKey

ASSUME DefinitionAssumption == Version # {} /\ Topic # {}

(* A table holds finitely many rows. *)
ASSUME FiniteAssumption == IsFiniteSet(Activity)

ASSUME LimitAssumption ==
    /\ Limit \in [Topic -> Nat \ {0}]
    /\ MaxActivation \in Nat \ {0} /\ MaxStreak \in Nat \ {0}
    /\ MaxAttempts \in Nat \ {0}
    /\ Runnable \subseteq BOOLEAN

VARIABLES
    wf,            \* durable_workflow with its undelivered events
    act,           \* durable_activity
    apr,           \* durable_approval
    openAttempts,  \* durable_activity_attempt rows with finished_at NULL
    coordClaims,   \* claims coordinators hold in memory
    workClaims     \* claims activity workers hold in memory

vars == <<wf, act, apr, openAttempts, coordClaims, workClaims>>

----------------------------------------------------------------------------
(* Statuses and the sets the queries filter by. *)

Terminal == {"succeeded", "failed", "cancelled"}
WorkflowStatus == Terminal \cup
    {"ready", "running", "waiting_activity", "waiting_child", "sleeping",
     "waiting_approval", "paused", "blocked"}
ChildWaiters == {"waiting_child", "paused"}
ApprovalWaiters == {"waiting_approval", "paused"}
Restartable == Terminal \cup {"paused", "blocked"}
StartRecoverable == {"failed", "blocked"}

LeaseHolders == {"running", "cancelling"}
SlotHolders == {"running", "cancelling"}
NonTerminalActivity == {"pending", "running", "cancelling"}
ActivityStatus == NonTerminalActivity \cup
    {"succeeded", "dead_lettered", "cancelled"}

ApprovalStatus == {"pending", "resolved", "expired", "cancelled"}

----------------------------------------------------------------------------
(* Rows.  "absent" is a row not inserted yet. *)

EventKind == {"started", "continued", "activity_succeeded", "timer_fired",
              "child_succeeded", "child_failed",
              "approval_resolved", "approval_expired"}
Event == [seq: Nat, kind: EventKind, cmd: Nat]

Wait == [kind: {"none", "timer", "activity", "child", "approval"},
         ref: {None} \cup Activity \cup Workflow \cup Approval \cup Nat]
NoWait == [kind |-> "none", ref |-> None]
WaitOn(kind, ref) == [kind |-> kind, ref |-> ref]

(* The key commit_child generates is child:{parent}:{command}. *)
ChildKey == [owner: Workflow, cmd: Nat]
Key == {None} \cup DomainKey \cup ChildKey

WorkflowRow ==
    [status: WorkflowStatus \cup {"absent"}, version: Version, wait: Wait,
     due: BOOLEAN, token: Token \cup {None}, lapsed: BOOLEAN,
     attempts: Nat, streak: Nat, cmd: Nat, delivered: Nat,
     inbox: SUBSET Event, key: Key, parent: Workflow \cup {None},
     parentCmd: Nat, from: Workflow \cup {None}]

ActivityRow ==
    [status: ActivityStatus \cup {"absent"}, workflow: Workflow \cup {None},
     cmd: Nat, topic: Topic, max: Nat, count: Nat, runnable: BOOLEAN,
     due: BOOLEAN, token: Token \cup {None}, lapsed: BOOLEAN]

ApprovalRow ==
    [status: ApprovalStatus \cup {"absent"}, workflow: Workflow \cup {None},
     cmd: Nat, expiry: {"never", "later", "past"}]

Attempt == [activity: Activity, number: Nat, token: Token]

(* What a coordinator keeps of the row it claimed (ClaimedRow). *)
CoordClaim ==
    [workflow: Workflow, token: Token, delivered: Nat, cmd: Nat, streak: Nat]

(* ActivityClaim; revoked is set once a heartbeat returned Revoked, live   *)
(* while its execution goes on.                                            *)
WorkClaim ==
    [activity: Activity, attempt: Nat, token: Token, max: Nat,
     revoked: BOOLEAN, live: BOOLEAN]

----------------------------------------------------------------------------
(* A new row, with its started event at delivery sequence 1. *)
NewWorkflow(key, version, parent, parentCmd, from, due) ==
    [status |-> "ready", version |-> version, wait |-> NoWait, due |-> due,
     token |-> None, lapsed |-> FALSE, attempts |-> 0, streak |-> 0,
     cmd |-> 0, delivered |-> 0,
     inbox |-> {[seq |-> 1, kind |-> "started", cmd |-> 0]},
     key |-> key, parent |-> parent, parentCmd |-> parentCmd, from |-> from]

NewActivity(w, cmd, topic, runnable) ==
    [status |-> "pending", workflow |-> w, cmd |-> cmd, topic |-> topic,
     max |-> MaxAttempts, count |-> 0, runnable |-> runnable, due |-> TRUE,
     token |-> None, lapsed |-> FALSE]

FreshTokens ==
    Token \ ({wf[w].token : w \in Workflow} \cup {act[a].token : a \in Activity}
             \cup {t.token : t \in openAttempts}
             \cup {c.token : c \in coordClaims} \cup {c.token : c \in workClaims})

(* The event is delivered next: its delivery_sequence is delivered + 1. *)
WithEvent(r, kind, cmd) ==
    [r EXCEPT !.inbox =
        @ \cup {[seq |-> r.delivered + 1, kind |-> kind, cmd |-> cmd]}]

(* A wait that is over: a paused workflow stays paused, without a wait. *)
WaitCleared(r) ==
    [r EXCEPT !.status = IF @ = "paused" THEN "paused" ELSE "ready",
              !.wait = NoWait, !.due = TRUE]

(* Mutant: LeaseCleared that leaves the token. *)
LeaseTokenKept(r) == [r EXCEPT !.lapsed = FALSE]

LeaseCleared(r) == [r EXCEPT !.token = None, !.lapsed = FALSE]

(* Workflows that wait on child c, whatever generation started them. *)
Waiters(rows, c) ==
    {p \in Workflow : /\ rows[p].status \in ChildWaiters
                      /\ rows[p].wait = WaitOn("child", c)}

(* Mutant: WokenByChild that loses the child's outcome. *)
WokenWithoutEvent(r, kind) == WaitCleared(r)

WokenByChild(r, kind) == WaitCleared(WithEvent(r, kind, r.cmd))

wake_waiting_parents_on_child_terminal(rows, c, kind) ==
    [p \in Workflow |->
        IF p \in Waiters(rows, c) THEN WokenByChild(rows[p], kind) ELSE rows[p]]

----------------------------------------------------------------------------
(* Lineage: keyed rows, generations (restarted_from_workflow_id) and the   *)
(* children a workflow owns.                                               *)

Exists(rows, w) == rows[w].status # "absent"
Keyed(rows, key) == {w \in Workflow : Exists(rows, w) /\ rows[w].key = key}
Successors(rows, w) == {s \in Workflow : Exists(rows, s) /\ rows[s].from = w}

(* The smallest set that contains start and is closed under step. *)
Reachable(start, step) ==
    LET closed == {S \in SUBSET Workflow :
                    start \subseteq S /\ \A x \in S : step[x] \subseteq S}
    IN  {w \in Workflow : \A S \in closed : w \in S}

Generations(rows, w) ==
    LET next == [x \in Workflow |-> Successors(rows, x)]
    IN  Reachable({w}, next)
NewestGeneration(rows, w) ==
    {g \in Generations(rows, w) : Successors(rows, g) = {}}

(* Ancestors follow the parent, and from a row without one the generation  *)
(* it restarted.                                                           *)
CallerOrAncestors(rows, w) ==
    LET up == [x \in Workflow |->
                IF rows[x].parent # None THEN {rows[x].parent}
                ELSE {rows[x].from} \ {None}]
    IN  Reachable({w}, up)

OwnedChildren(rows, p) ==
    {c \in Workflow : /\ Exists(rows, c) /\ rows[c].parent = p
                      /\ rows[c].key = [owner |-> p, cmd |-> rows[c].parentCmd]}

(* Mutant: OwnedDescendants that never walks a restart chain. *)
ChildrenWithoutSuccessors(rows, p) ==
    LET below == [x \in Workflow |-> {c \in OwnedChildren(rows, x) :
                                        rows[c].status \notin Terminal}]
    IN  Reachable({p}, below) \ {p}

(* Mutant: OwnedDescendants that takes finished generations as well. *)
EveryOwnedGeneration(rows, p) ==
    LET below == [x \in Workflow |->
                    UNION {Generations(rows, c) : c \in OwnedChildren(rows, x)}]
    IN  Reachable({p}, below) \ {p}

(* The live generations of the children p owns, and theirs in turn: only a *)
(* generation the cascade cancels has its own children visited.            *)
OwnedDescendants(rows, p) ==
    LET below == [x \in Workflow |->
                    {g \in UNION {Generations(rows, c) :
                                    c \in OwnedChildren(rows, x)} :
                        rows[g].status \notin Terminal}]
    IN  Reachable({p}, below) \ {p}
=============================================================================
