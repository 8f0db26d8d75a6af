----------------------------- MODULE TopicProofs -----------------------------
(***************************************************************************)
(* The concurrency limit of a topic holds for every number of workers,     *)
(* activities and leases.  Only a claim makes a row a slot holder, and it  *)
(* counts every row it leaves one.                                         *)
(***************************************************************************)
EXTENDS TypeProofs, FiniteSetTheorems

Holders(t) == {a \in Activity : act[a].topic = t /\ act[a].status \in SlotHolders}

(* No row becomes a slot holder, and slot holders keep their topic. *)
NoNewHolder ==
    \A a \in Activity :
        act'[a].status \in SlotHolders =>
            act[a].status \in SlotHolders /\ act'[a].topic = act[a].topic

(* A subset of a set within the limit is within it. *)
LEMMA WithinLimit ==
    ASSUME NEW n \in Nat, NEW S \in SUBSET Activity, NEW T \in SUBSET S,
           Cardinality(S) <= n
    PROVE  Cardinality(T) <= n
<1>1. IsFiniteSet(S)
  BY FiniteAssumption, FS_Subset
<1>2. Cardinality(T) <= Cardinality(S) /\ Cardinality(S) \in Nat /\ Cardinality(T) \in Nat
  BY <1>1, FS_Subset, FS_CardinalityType
<1> QED
  BY <1>2

(* Two sets that fit the limit together cover no more than the limit. *)
LEMMA UnionWithinLimit ==
    ASSUME NEW n \in Nat, NEW S \in SUBSET Activity, NEW T \in SUBSET Activity,
           NEW U \in SUBSET (S \cup T), Cardinality(T) <= n - Cardinality(S)
    PROVE  Cardinality(U) <= n
<1>1. IsFiniteSet(S) /\ IsFiniteSet(T)
  BY FiniteAssumption, FS_Subset
<1>2. IsFiniteSet(S \cap T)
  BY <1>1, FS_Intersection
<1>3. /\ Cardinality(S) \in Nat /\ Cardinality(T) \in Nat
      /\ Cardinality(S \cap T) \in Nat
      /\ Cardinality(S \cup T) = Cardinality(S) + Cardinality(T) - Cardinality(S \cap T)
  BY <1>1, <1>2, FS_Union, FS_CardinalityType
<1>4. Cardinality(S \cup T) <= n /\ S \cup T \subseteq Activity
  BY <1>3
<1> QED
  BY <1>4, WithinLimit

(* The limit survives a step without new slot holders. *)
LEMMA LimitKept ==
    ASSUME TopicCap, NoNewHolder
    PROVE  TopicCap'
<1> SUFFICES ASSUME NEW t \in Topic PROVE Cardinality(Holders(t)') <= Limit[t]
  BY DEF TopicCap, Holders
<1>1. Holders(t)' \subseteq Holders(t) /\ Holders(t) \subseteq Activity
  BY DEF NoNewHolder, Holders
<1>2. Cardinality(Holders(t)) <= Limit[t] /\ Limit[t] \in Nat
  BY LimitAssumption DEF TopicCap, Holders
<1> QED
  BY <1>1, <1>2, WithinLimit

(* An expired lease that is reconciled holds no slot any more. *)
LEMMA ReconciledFree ==
    ASSUME NEW r \in ActivityRow, NEW s
    PROVE  /\ Reconciled(r, s).status \notin SlotHolders
           /\ settle_revoked(r, s).status \notin SlotHolders
           /\ Reconciled(r, s).topic = r.topic
BY DEF Reconciled, settle_revoked, LeaseCleared, SlotHolders, ActivityRow

(* The claim fills at most the free slots of every topic it locks. *)
LEMMA ClaimWithinLimit ==
    ASSUME TypeOK, TopicCap, ClaimActivities
    PROVE  TopicCap'
<1>1. PICK topics \in {Topic} \cup {{t} : t \in Topic} : claim_batch(topics)
  BY DEF ClaimActivities
<1>2. PICK unsettled \in SUBSET ExpiredLeases(topics) : claim_batch(topics)!(unsettled)
  BY <1>1 DEF claim_batch
<1> DEFINE settled == ExpiredLeases(topics) \ unsettled
           acts == [a \in Activity |->
                        IF a \in settled
                        THEN Reconciled(act[a], wf[act[a].workflow].status)
                        ELSE act[a]]
           flows == block_workflow(wf, {a \in settled : Exhausted(act[a])})
           slots(t) == Limit[t] - Cardinality(InFlight(acts, t, unsettled))
           candidates == UNION {ClaimCandidates(flows, acts, t) :
                                    t \in {u \in topics : slots(u) > 0}}
           unclaimable == {a \in candidates : Unclaimable(acts[a])}
           here(claimed, t) == {a \in claimed : acts[a].topic = t}
           Write(claimed, quarantined, token) ==
               /\ act' = [a \in Activity |->
                    IF a \in claimed THEN Claimed(acts[a], token[a])
                    ELSE IF a \in quarantined
                         THEN [acts[a] EXCEPT !.status = "dead_lettered"]
                         ELSE acts[a]]
               /\ openAttempts' =
                    (openAttempts \ {AttemptOf(a) : a \in settled})
                    \cup {[activity |-> a, number |-> acts[a].count + 1,
                           token |-> token[a]] : a \in claimed}
               /\ workClaims' = workClaims \cup
                    {[activity |-> a, attempt |-> acts[a].count + 1,
                      token |-> token[a], max |-> acts[a].max,
                      revoked |-> FALSE, live |-> TRUE] : a \in claimed}
<1>3. PICK claimed \in SUBSET (candidates \ unclaimable),
           quarantined \in SUBSET unclaimable :
        /\ \A t \in topics : here(claimed, t) = {}
                             \/ Cardinality(here(claimed, t)) <= slots(t)
        /\ \E token \in Injections(claimed, FreshTokens) :
                Write(claimed, quarantined, token)
  BY <1>2
<1>4. PICK token \in Injections(claimed, FreshTokens) :
        Write(claimed, quarantined, token)
  BY <1>3
<1>5. claimed \subseteq Activity /\ \A a \in claimed : acts[a].topic \in topics
  <2>1. \A a \in candidates : a \in Activity /\ acts[a].topic \in topics
    BY DEF ClaimCandidates
  <2> QED
    BY <2>1
<1>6. acts \in [Activity -> ActivityRow]
  <2>1. ASSUME NEW a \in Activity
        PROVE  Reconciled(act[a], wf[act[a].workflow].status) \in ActivityRow
    BY ReconciledType DEF TypeOK
  <2> QED
    BY <2>1 DEF TypeOK
(* Unclaimed slot holders held their slots before and were not settled. *)
<1>7. ASSUME NEW a \in Activity, acts[a].status \in SlotHolders
      PROVE  a \notin settled /\ acts[a] = act[a]
  BY <1>7, ReconciledFree DEF TypeOK
<1>8. \A a \in Activity : acts[a].topic = act[a].topic
  BY ReconciledFree DEF TypeOK
<1> HIDE DEF acts, flows, candidates, unclaimable
<1>9. ASSUME NEW a \in Activity
      PROVE  /\ act'[a].topic = act[a].topic
             /\ a \notin claimed /\ act'[a].status \in SlotHolders =>
                    acts[a].status \in SlotHolders
  <2>1. act[a].topic = acts[a].topic /\ acts[a] \in ActivityRow
    BY <1>6, <1>8
  <2>2. \A t : Claimed(acts[a], t).topic = acts[a].topic
    BY <2>1 DEF Claimed, ActivityRow
  <2>3. /\ [acts[a] EXCEPT !.status = "dead_lettered"].topic = acts[a].topic
        /\ [acts[a] EXCEPT !.status = "dead_lettered"].status \notin SlotHolders
    BY <2>1 DEF SlotHolders, ActivityRow
  <2> QED
    BY <1>4, <2>1, <2>2, <2>3
<1> SUFFICES ASSUME NEW t \in Topic PROVE Cardinality(Holders(t)') <= Limit[t]
  BY DEF TopicCap, Holders
<1>10. Cardinality(Holders(t)) <= Limit[t] /\ Limit[t] \in Nat
  BY LimitAssumption DEF TopicCap, Holders
<1>11. CASE here(claimed, t) = {} \/ t \notin topics
  <2>1. Holders(t)' \subseteq Holders(t)
    BY <1>5, <1>7, <1>8, <1>9, <1>11 DEF Holders
  <2> QED
    BY <1>10, <2>1, WithinLimit DEF Holders
<1>12. CASE here(claimed, t) # {} /\ t \in topics
  <2> DEFINE busy == InFlight(acts, t, unsettled)
             fresh == here(claimed, t)
  <2>1. Holders(t)' \subseteq busy \cup fresh
    <3>1. SUFFICES ASSUME NEW a \in Activity, act'[a].topic = t,
                          act'[a].status \in SlotHolders, a \notin fresh
                   PROVE  a \in busy
      BY DEF Holders
    <3>2. a \notin claimed /\ acts[a].topic = t
      BY <1>8, <1>9, <3>1
    <3>3. acts[a].status \in SlotHolders /\ a \notin settled /\ acts[a] = act[a]
      BY <1>7, <1>9, <3>1, <3>2
    <3>4. ~acts[a].lapsed \/ a \in unsettled
      BY <1>12, <3>2, <3>3 DEF ExpiredLeases, SlotHolders, LeaseHolders
    <3> QED
      BY <3>2, <3>3, <3>4 DEF InFlight
  <2>2. Cardinality(fresh) <= Limit[t] - Cardinality(busy)
    BY <1>3, <1>12
  <2>3. busy \subseteq Activity /\ fresh \subseteq Activity
    BY <1>5 DEF InFlight
  <2> QED
    BY <1>10, <2>1, <2>2, <2>3, UnionWithinLimit
<1> QED
  BY <1>11, <1>12

(* No other step makes a slot holder. *)
LEMMA OthersNoNewHolder ==
    ASSUME TypeOK, [Next]_vars, ~ClaimActivities
    PROVE  NoNewHolder
<1>1. CASE UNCHANGED act
  BY <1>1 DEF NoNewHolder
<1>2. CASE commit_transition
  <2>1. PICK c \in coordClaims : \E e \in NextDelivery(c) :
            UNCHANGED act \/ CommitActivity(c, e)
    BY <1>2 DEF commit_transition, CommitContinue, CommitComplete, CommitSleep,
                CommitApproval, CommitChild
  <2>2. ASSUME NEW e, CommitActivity(c, e)
        PROVE  NoNewHolder
    <3>1. PICK a \in Activity, t \in Topic, r \in Runnable :
            act' = [act EXCEPT ![a] = NewActivity(c.workflow, c.cmd + 1, t, r)]
      BY <2>2 DEF CommitActivity
    <3> QED
      BY <3>1 DEF NoNewHolder, NewActivity, SlotHolders, TypeOK
  <2> QED
    BY <1>1, <2>1, <2>2
<1>3. CASE heartbeat_once
  <2>1. PICK c \in workClaims : act' = [act EXCEPT ![c.activity].lapsed = FALSE]
    BY <1>3 DEF heartbeat_once
  <2> QED
    BY <2>1 DEF NoNewHolder, TypeOK, ActivityRow
<1>4. CASE finish_claim
  <2>1. PICK c \in workClaims :
            (\E outcome \in Outcomes : ApplyOutcome(c, outcome)) \/ SettleRevoked(c)
    BY <1>4 DEF finish_claim
  <2> DEFINE a == c.activity
  <2>2. a \in Activity /\ act[a] \in ActivityRow
    BY DEF TypeOK, WorkClaim
  <2>3. ASSUME NEW outcome \in Outcomes, ApplyOutcome(c, outcome)
        PROVE  NoNewHolder
    <3>1. \E s \in {"succeeded", "dead_lettered", "pending"}, d \in {act[a].due, FALSE} :
            act' = [act EXCEPT ![a] = LeaseCleared([act[a] EXCEPT !.status = s, !.due = d])]
      BY <2>3 DEF ApplyOutcome
    <3> QED
      BY <2>2, <3>1 DEF NoNewHolder, SlotHolders, LeaseCleared, TypeOK, ActivityRow
  <2>4. ASSUME SettleRevoked(c)
        PROVE  NoNewHolder
    BY <2>2, <2>4, ReconciledFree DEF SettleRevoked, NoNewHolder, TypeOK
  <2> QED
    BY <2>1, <2>3, <2>4
<1>5. ASSUME NEW S
      PROVE  \A a \in Activity :
                cancel_activities(S)[a].status \in SlotHolders =>
                    /\ act[a].status \in SlotHolders
                    /\ cancel_activities(S)[a].topic = act[a].topic
  BY DEF cancel_activities, CancelledActivity, LeaseCleared, SlotHolders,
         NonTerminalActivity, TypeOK, ActivityRow
<1>6. CASE cancel_workflow
  BY <1>5, <1>6 DEF cancel_workflow, NoNewHolder
<1>7. CASE restart
  <2>1. UNCHANGED act \/ \E S : act' = cancel_activities(S)
    BY <1>7 DEF restart
  <2> QED
    BY <1>1, <1>5, <2>1 DEF NoNewHolder
<1>8. CASE start_or_restart_recoverable
  <2>1. PICK key \in DomainKey, version \in Version, due \in BOOLEAN, next \in Workflow :
            \E original \in Keyed(wf, key) :
            \E latest \in NewestGeneration(wf, original) :
                start_or_restart_recoverable!2!(key, version, due, next)!(original)!(latest)
    BY <1>8 DEF start_or_restart_recoverable
  <2>2. PICK latest :
            \E original \in Keyed(wf, key) :
                start_or_restart_recoverable!2!(key, version, due, next)!(original)!(latest)
    BY <2>1
  <2>3. PICK S :
            \E acts \in {cancel_activities(S), act} :
                act' = [a \in Activity |->
                    IF act[a].workflow = latest /\ act[a].status = "dead_lettered"
                    THEN [act[a] EXCEPT !.status = "cancelled"] ELSE acts[a]]
    BY <2>2
  <2>4. \A a \in Activity : [act[a] EXCEPT !.status = "cancelled"].status = "cancelled"
    BY DEF TypeOK, ActivityRow
  <2> QED
    BY <1>5, <2>3, <2>4 DEF NoNewHolder, SlotHolders
<1>9. CASE pause_workflow
  <2>1. PICK w \in Workflow :
            act' = [a \in Activity |-> IF wf[w].wait = WaitOn("activity", a)
                                       THEN PausedActivity(act[a]) ELSE act[a]]
    BY <1>9 DEF pause_workflow
  <2> QED
    BY <2>1 DEF NoNewHolder, PausedActivity, SlotHolders, TypeOK, ActivityRow
<1>10. CASE retry
  <2>1. PICK source \in Activity, next \in Activity, topic \in Topic, runnable \in Runnable :
            retry!2!(source, next, topic, runnable)
    BY <1>10 DEF retry
  <2> QED
    BY <2>1 DEF NoNewHolder, NewActivity, SlotHolders, TypeOK
<1>11. CASE TimePasses
  BY <1>11 DEF TimePasses, WorkflowLeaseLapses, WorkflowComesDue, ActivityLeaseLapses,
               ActivityComesDue, ApprovalComesDue, NoNewHolder, TypeOK, ActivityRow
<1>12. CASE \/ UNCHANGED vars \/ claim_row \/ record_activation_failure
            \/ AbandonActivation \/ AbandonExecution \/ TimerMaterializer
            \/ ApprovalExpiryMaterializer \/ start \/ resume_workflow
            \/ resolve_approval
  BY <1>1, <1>12 DEF vars, claim_row, record_activation_failure, AbandonActivation,
        AbandonExecution, TimerMaterializer, ApprovalExpiryMaterializer, start,
        resume_workflow, resolve_approval
<1> QED
  BY <1>2, <1>3, <1>4, <1>6, <1>7, <1>8, <1>9, <1>10, <1>11, <1>12 DEF Next

(* At most Limit[t] activities of topic t ever hold a slot: recovery of    *)
(* expired leases, sweeps that skip locked rows, revocations and late      *)
(* heartbeats included (the count of claim_batch).                         *)
THEOREM TopicCapCorrect == Spec => []TopicCap
<1>1. Init => TopicCap
  <2> SUFFICES ASSUME Init, NEW t \in Topic PROVE Cardinality(Holders(t)) <= Limit[t]
    BY DEF TopicCap, Holders
  <2>1. Holders(t) = {}
    BY DEF Holders, Init, NoActivity, SlotHolders
  <2> QED
    BY <2>1, FS_EmptySet, LimitAssumption
<1>2. TypeOK /\ TopicCap /\ [Next]_vars => TopicCap'
  BY ClaimWithinLimit, OthersNoNewHolder, LimitKept
<1> QED
  BY <1>1, <1>2, TypeCorrect, PTL DEF Spec
=============================================================================
