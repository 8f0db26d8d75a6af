----------------------------- MODULE FlowReplay -----------------------------
(***************************************************************************)
(* Code-first flows (flow.rs): every activation runs the flow's code from  *)
(* the top over the journal of its finished steps.  Each activation may    *)
(* run another build of the code, as in a rolling upgrade.  Of the engine  *)
(* only what a flow sees is kept: its state_json, command_sequence, wait,  *)
(* next event and activation attempts (module Coordinator has the rest).   *)
(*                                                                         *)
(* A program is a sequence of steps.  After an answer "ok" it goes on      *)
(* behind the step's handler (skip steps); a caught answer goes on with    *)
(* the next step; any other is propagated.                                 *)
(***************************************************************************)
EXTENDS Naturals, Sequences

CONSTANTS
    Program,        \* the builds of the flow's code
    MaxActivation,  \* min of row and configured max_activation_attempts
    None

ASSUME ActivationAssumption == MaxActivation \in Nat \ {0}

VARIABLES
    journal,           \* FlowJournal, in state_json
    command_sequence,
    wait,              \* the step the workflow waits for
    event,             \* the next event to deliver
    status,
    attempts,          \* activation_attempts
    executed           \* history: every step that ended, in order

fvars == <<journal, command_sequence, wait, event, status, attempts, executed>>

Started == [cmd |-> 0, entry |-> None]

Init ==
    /\ journal = <<>> /\ command_sequence = 0 /\ wait = None /\ event = Started
    /\ status = "ready" /\ attempts = 0 /\ executed = <<>>
----------------------------------------------------------------------------
(* Mutant: replay that compares kinds only. *)
ReplayAnyVersion(step, j, cursor, pending) ==
    IF pending # 0 THEN "suspended"
    ELSE IF cursor = Len(j) THEN "new"
    ELSE IF j[cursor + 1].kind # step.kind THEN "definition" ELSE "recorded"

(* WfCtx::replay; pending is the index of the unresolved step, or 0. *)
replay(step, j, cursor, pending) ==
    IF pending # 0 THEN "suspended"
    ELSE IF cursor = Len(j) THEN "new"
    ELSE IF j[cursor + 1].kind # step.kind \/ j[cursor + 1].version # step.version
         THEN "definition" ELSE "recorded"

(* run_step, child_step and sleep_until: what the flow's code gets. *)
Answer(step, j, cursor, found) ==
    CASE found = "new" -> "suspended"
      [] found # "recorded" /\ found # "new" -> found
      [] OTHER ->
            LET entry == j[cursor + 1]
            IN  IF entry.outcome = "failed"
                THEN IF step.kind = "child" THEN "failed" ELSE "definition"
                ELSE IF entry.type = step.type THEN "ok" ELSE "definition"

(* DurableFlow::run over a WfCtx.  A flow that caught its suspension       *)
(* returns it in the end: it must not swallow it.                          *)
run(p, j) ==
    LET from[pc \in 1 .. Len(p) + 1, cursor \in 0 .. Len(j), pending \in 0 .. Len(p)] ==
            IF pc > Len(p)
            THEN [result |-> IF pending = 0 THEN "ok" ELSE "suspended",
                  cursor |-> cursor, pending |-> pending]
            ELSE LET found == replay(p[pc], j, cursor, pending)
                     answer == Answer(p[pc], j, cursor, found)
                     read == IF found = "recorded" THEN cursor + 1 ELSE cursor
                     first == IF found = "new" THEN pc ELSE pending
                     behind == pc + 1 + p[pc].skip
                 IN  IF answer = "ok"
                     THEN from[IF behind > Len(p) THEN Len(p) + 1 ELSE behind, read, first]
                     ELSE IF answer \in p[pc].caught THEN from[pc + 1, read, first]
                     ELSE [result |-> answer, cursor |-> read, pending |-> first]
    IN  from[1, 0, 0]

Failure == [do |-> "fail", step |-> None]
Complete == [do |-> "complete", step |-> None]
Suspend(step) == [do |-> "step", step |-> step]

ensure_sequence(j, e) == e.entry # None => e.cmd = Len(j) + 1

apply_event(j, e) == IF e.entry = None THEN j ELSE Append(j, e.entry)

(* The code ended: it must have replayed the whole journal. *)
Completion(r, j) == IF r.cursor = Len(j) THEN Complete ELSE Failure

flow_step(p, j, e) ==
    IF ~ensure_sequence(j, e) THEN Failure
    ELSE LET steps == apply_event(j, e)
             r == run(p, steps)
         IN  CASE r.result = "ok" -> Completion(r, steps)
               [] r.result = "suspended" /\ r.pending # 0 -> Suspend(p[r.pending])
               [] OTHER -> Failure

----------------------------------------------------------------------------
(* T-C2, WaitTransition: the journal is stored with the event's delivery. *)
CommitStep(step) ==
    /\ journal' = apply_event(journal, event)
    /\ command_sequence' = command_sequence + 1
    /\ wait' = step /\ event' = None /\ status' = "waiting" /\ attempts' = 0

(* T-C2, StoredTransition::Complete leaves state_json alone. *)
CommitComplete ==
    /\ status' = "succeeded" /\ event' = None /\ attempts' = 0
    /\ UNCHANGED <<journal, command_sequence, wait>>

(* Mutants: FailActivation that stores the journal, and that starts to     *)
(* count again instead of giving up.                                       *)
FailsWithJournal ==
    /\ attempts' = attempts + 1 /\ journal' = apply_event(journal, event)
    /\ status' = IF attempts + 1 >= MaxActivation THEN "failed" ELSE "ready"
    /\ UNCHANGED <<command_sequence, wait, event>>
FailsForever ==
    /\ attempts' = (attempts + 1) % MaxActivation
    /\ UNCHANGED <<status, journal, command_sequence, wait, event>>

(* T-C3: the event stays undelivered, the journal as it was. *)
FailActivation ==
    /\ attempts' = attempts + 1
    /\ status' = IF attempts + 1 >= MaxActivation THEN "failed" ELSE "ready"
    /\ UNCHANGED <<journal, command_sequence, wait, event>>

(* Any step may also panic, time out, or ask for what is not registered. *)
Activate ==
    /\ status = "ready" /\ UNCHANGED executed
    /\ \/ FailActivation
       \/ \E p \in Program :
            LET transition == flow_step(p, journal, event)
            IN  \/ transition.do = "step" /\ CommitStep(transition.step)
                \/ transition.do = "complete" /\ CommitComplete
                \/ transition.do = "fail" /\ FailActivation

(* The event of the awaited step carries its command_sequence. *)
Result(outcome) ==
    [cmd |-> command_sequence,
     entry |-> [kind |-> wait.kind, version |-> wait.version, type |-> wait.type,
                outcome |-> outcome]]

(* A step that ends wakes the flow with its outcome. *)
Wakes(outcome) ==
    /\ event' = Result(outcome)
    /\ executed' = Append(executed, event'.entry)
    /\ wait' = None /\ status' = "ready"
    /\ UNCHANGED <<journal, command_sequence, attempts>>

(* T-W3 of the awaited activity; a failed attempt leaves the flow waiting  *)
(* as long as it is retried.                                               *)
ActivitySucceeds ==
    /\ status = "waiting" /\ wait.kind = "activity"
    /\ Wakes("succeeded")

(* The awaited child becomes terminal; it may also have failed, or been    *)
(* cancelled or superseded.                                                *)
ChildEnds ==
    /\ status = "waiting" /\ wait.kind = "child"
    /\ \E outcome \in {"succeeded", "failed"} : Wakes(outcome)

(* T-T1 *)
TimerFires ==
    /\ status = "waiting" /\ wait.kind = "timer"
    /\ Wakes("succeeded")

(* The awaited activity is dead-lettered: the flow gets no event and keeps *)
(* its wait.                                                               *)
block_workflow ==
    /\ status = "waiting" /\ wait.kind = "activity"
    /\ status' = "blocked"
    /\ UNCHANGED <<journal, command_sequence, wait, event, attempts, executed>>

Activities == {s \in UNION {{p[i] : i \in DOMAIN p} : p \in Program} : s.kind = "activity"}

(* T-A6 replaces the dead-lettered activity under its command_sequence.  A *)
(* corrected one runs the current version of its kind, whatever version    *)
(* the flow asked for.                                                     *)
retry ==
    /\ status = "blocked"
    /\ wait' = wait \/ wait' \in Activities
    /\ status' = "waiting"
    /\ UNCHANGED <<journal, command_sequence, event, attempts, executed>>

Next ==
    \/ Activate
    \/ ActivitySucceeds \/ ChildEnds \/ TimerFires
    \/ block_workflow \/ retry

Spec == Init /\ [][Next]_fvars

(* Coordinators keep polling, and not every activation is lost before T-C2 *)
(* or T-C3.  Nothing makes an awaited step end or a blocked flow go on.    *)
FairSpec == Spec /\ WF_fvars(Activate)
----------------------------------------------------------------------------
(* Until the flow succeeds, its journal and the event it has still to      *)
(* apply are exactly the steps that ended, each once and in order, however *)
(* often activations fail in between.                                      *)
JournalIsHistory ==
    status # "succeeded" =>
        executed = IF event = None THEN journal ELSE apply_event(journal, event)

(* What p does without replay once the steps j have ended: its place after *)
(* n of them, or 0 where it has raised an error or would not have asked    *)
(* for what was executed.                                                  *)
Place(p, j) ==
    LET at[n \in 0 .. Len(j)] ==
            IF n = 0 THEN 1
            ELSE LET pc == at[n - 1]
                 IN  IF pc = 0 \/ pc > Len(p) THEN 0
                     ELSE IF p[pc].kind # j[n].kind \/ p[pc].version # j[n].version THEN 0
                     ELSE IF j[n].outcome = "failed"
                     THEN IF "failed" \in p[pc].caught THEN pc + 1 ELSE 0
                     ELSE IF p[pc].type = j[n].type THEN pc + 1 + p[pc].skip ELSE 0
    IN  at[Len(j)]

(* Whatever build runs it, an activation does what that build would do     *)
(* next had it executed every journaled step itself, and fails if it       *)
(* would not have executed just those.                                     *)
ReplayExact ==
    status = "ready" =>
        \A p \in Program :
            LET pc == Place(p, executed)
            IN  flow_step(p, journal, event) =
                    IF pc = 0 THEN Failure
                    ELSE IF pc > Len(p) THEN Complete ELSE Suspend(p[pc])

(* "Each await at position i replays journal entry i only if (stepKind,    *)
(* stepVersion) match; otherwise the flow fails closed": a build that      *)
(* would not have executed the journaled steps commits nothing.            *)
FailsClosed ==
    status = "ready" =>
        \A p \in Program :
            Place(p, executed) = 0 => flow_step(p, journal, event) = Failure

(* An event is never activated forever: whichever builds take it up, and   *)
(* however they refuse it, the flow commits its next step, completes, or   *)
(* fails once its activation attempts are used up.                         *)
EventsSettle == (status = "ready") ~> (status # "ready")
=============================================================================
