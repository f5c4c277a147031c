------------------------ MODULE WebhookDispatch_proofs ------------------------
(***************************************************************************)
(* Theorems about WebhookDispatch, for any numbers of deliveries,          *)
(* endpoints and processes and all values of the bounds.                   *)
(***************************************************************************)
EXTENDS WebhookDispatch, TLAPS

-----------------------------------------------------------------------------
(* What the repository's statements return *)

LEMMA RowTypes ==
    ASSUME NEW row \in Rows
    PROVE  /\ \A c \in ClaimIds : ClaimedRow(row, c) \in Rows
           /\ ReleasedRow(row) \in Rows
           /\ RequeuedRow(row) \in Rows
           /\ \A status \in Settled, n \in Nat : CompletedRow(row, status, n) \in Rows
           /\ \A n \in Nat : RetriedRow(row, n) \in Rows
  BY DEF Rows, Settled, ClaimedRow, ReleasedRow, RequeuedRow, CompletedRow, RetriedRow

LEMMA NewRowTypes ==
    /\ QueuedRow \in Rows
    /\ \A status \in {"unborn", "deleted"} : Absent(status) \in Rows
  BY DEF Rows, QueuedRow, Absent

\* deliver() ends in one of two ways: the row is completed, or it is put back in
\* the queue, and then only with attempts left.
LEMMA FinalRowCases ==
    ASSUME NEW row \in Rows, NEW j \in Jobs
    PROVE  \/ \E status \in Settled : FinalRow(row, j) = CompletedRow(row, status, j.attempt)
           \/ /\ FinalRow(row, j) = RetriedRow(row, j.attempt)
              /\ j.result \in Outcomes => j.attempt < MaxAttempts
  <1>1. j.result \in Outcomes \cup {"none"} /\ j.attempt \in Nat
    BY DEF Jobs
  <1>2. CASE j.result = "ok"
    BY <1>2 DEF FinalRow, Settled
  <1>3. CASE j.result = "terminal"
    BY <1>3 DEF FinalRow, Settled
  <1>4. CASE j.result = "retry" /\ BudgetSpent(j.attempt)
    BY <1>4 DEF FinalRow, Settled
  <1>5. CASE j.result = "retry" /\ ~BudgetSpent(j.attempt)
    BY <1>1, <1>5, DispatchConstants DEF FinalRow, BudgetSpent
  <1>6. CASE j.result = "none"
    BY <1>6 DEF FinalRow, Outcomes
  <1> QED
    BY <1>1, <1>2, <1>3, <1>4, <1>5, <1>6 DEF Outcomes

LEMMA FinalRowType ==
    ASSUME NEW row \in Rows, NEW j \in Jobs
    PROVE  FinalRow(row, j) \in Rows
  <1>1. j.attempt \in Nat
    BY DEF Jobs
  <1> QED
    BY <1>1, FinalRowCases, RowTypes

\* Spending a budget leaves natural numbers and touches no other budget.
LEMMA SpendType ==
    ASSUME left \in Budgets, NEW kind \in {"crash", "fault", "late", "replay", "delete"},
           Spend(kind)
    PROVE  /\ left' \in Budgets
           /\ \A other \in {"crash", "fault", "late", "replay", "delete"} :
                other # kind => left'[other] = left[other]
           /\ left[kind] > 0
           /\ left'[kind] < left[kind]
  BY DEF Budgets, Spend

LEMMA LoseType ==
    ASSUME round \in [Deliveries -> Rounds], NEW dead, Lose(dead)
    PROVE  round' \in [Deliveries -> Rounds]
  BY DEF Lose, Rounds

LEMMA TickTypes ==
    /\ IdleTick \in Ticks
    /\ DownTick \in Ticks
  BY DEF IdleTick, DownTick, Ticks

-----------------------------------------------------------------------------
(* What holds whatever the bounds are *)

\* A tick has a claim id from its first statement to its last.
TickHasClaim ==
    \A p \in Dispatchers : tick[p].phase \notin {"down", "idle"} => tick[p].claim \in ClaimIds

\* A deliver() that has heard from its sender knows the outcome.
JobKnowsResult ==
    \A j \in jobs : j.phase # "send" => j.result \in Outcomes

BasicInv ==
    TypeOK /\ TickHasClaim /\ JobKnowsResult /\ NoRowStranded /\ AttemptWithinBudget

LEMMA BasicInit == Init => BasicInv
<1> SUFFICES ASSUME Init PROVE BasicInv
  OBVIOUS
<1>1. delivery \in [Deliveries -> Rows]
  BY NewRowTypes DEF Init
<1>2. tick \in [Dispatchers -> Ticks]
  BY TickTypes DEF Init
<1>3. round \in [Deliveries -> Rounds]
  BY DEF Init, Rounds, EmptyRound
<1>4. left \in Budgets
  BY DispatchConstants DEF Init, Budgets
<1>5. TypeOK
  BY <1>1, <1>2, <1>3, <1>4 DEF Init, TypeOK
<1>6. NoRowStranded /\ AttemptWithinBudget
  BY DispatchConstants DEF Init, NoRowStranded, AttemptWithinBudget, Absent
<1> QED
  BY <1>5, <1>6 DEF Init, BasicInv, TickHasClaim, JobKnowsResult, IdleTick

\* Steps of users and of the clock.
LEMMA BasicEnvironment ==
    ASSUME BasicInv,
           \/ \E S \in SUBSET Deliveries : CreateMany(S)
           \/ \E d \in Deliveries : Replay(d) \/ TimePasses(d) \/ ClaimAges(d)
           \/ \E e \in Endpoints : DeleteEndpoint(e)
    PROVE  BasicInv'
<1> USE DEF BasicInv, TypeOK
<1> USE DEF NoRowStranded, AttemptWithinBudget
<1>1. ASSUME NEW S \in SUBSET Deliveries, CreateMany(S) PROVE BasicInv'
  BY <1>1, NewRowTypes, DispatchConstants
     DEF CreateMany, QueuedRow, TickHasClaim, JobKnowsResult
<1>2. ASSUME NEW d \in Deliveries, Replay(d) PROVE BasicInv'
  <2>1. left' \in Budgets
    BY <1>2, SpendType DEF Replay
  <2>2. delivery' \in [Deliveries -> Rows]
    BY <1>2, RowTypes DEF Replay
  <2>3. round' \in [Deliveries -> Rounds]
    BY <1>2 DEF Replay, EmptyRound, Rounds
  <2>4. \A x \in Deliveries : delivery'[x] = IF x = d THEN RequeuedRow(delivery[d]) ELSE delivery[x]
    BY <1>2 DEF Replay
  <2>5. /\ delivery'[d].status = "pending" /\ delivery'[d].nextAttempt = "ahead"
        /\ delivery'[d].claimId = NoClaim /\ delivery'[d].attemptCount = 0
    <3>1. delivery[d] \in Rows /\ delivery'[d] = RequeuedRow(delivery[d])
      BY <2>4
    <3> HIDE DEF BasicInv
    <3> QED
      BY <3>1 DEF RequeuedRow, Rows
  <2>6. jobs' = jobs
    BY <1>2 DEF Replay
  <2>7. NoRowStranded' /\ AttemptWithinBudget'
    BY <2>4, <2>5, <2>6, DispatchConstants
  <2> QED
    BY <1>2, <2>1, <2>2, <2>3, <2>7 DEF Replay, TickHasClaim, JobKnowsResult
<1>3. ASSUME NEW d \in Deliveries, TimePasses(d) PROVE BasicInv'
  <2>1. delivery' \in [Deliveries -> Rows]
    BY <1>3 DEF TimePasses, Rows
  <2>2. NoRowStranded' /\ AttemptWithinBudget'
    BY <1>3 DEF TimePasses, Rows
  <2> QED
    BY <1>3, <2>1, <2>2 DEF TimePasses, TickHasClaim, JobKnowsResult
<1>4. ASSUME NEW d \in Deliveries, ClaimAges(d) PROVE BasicInv'
  <2>1. left' \in Budgets
    BY <1>4, SpendType DEF ClaimAges
  <2>2. delivery' \in [Deliveries -> Rows]
    BY <1>4, ZenonT(60) DEF ClaimAges, Rows
  <2>3. NoRowStranded' /\ AttemptWithinBudget'
    BY <1>4 DEF ClaimAges, Rows
  <2> QED
    BY <1>4, <2>1, <2>2, <2>3 DEF ClaimAges, TickHasClaim, JobKnowsResult
<1>5. ASSUME NEW e \in Endpoints, DeleteEndpoint(e) PROVE BasicInv'
  <2>1. left' \in Budgets
    BY <1>5, SpendType DEF DeleteEndpoint
  <2>2. delivery' \in [Deliveries -> Rows]
    BY <1>5, NewRowTypes DEF DeleteEndpoint
  <2>3. NoRowStranded' /\ AttemptWithinBudget'
    BY <1>5, DispatchConstants DEF DeleteEndpoint, Absent
  <2> QED
    BY <1>5, <2>1, <2>2, <2>3 DEF DeleteEndpoint, TickHasClaim, JobKnowsResult
<1> QED
  BY <1>1, <1>2, <1>3, <1>4, <1>5

\* The statements of one tick.
LEMMA BasicTick ==
    ASSUME BasicInv, NEW p \in Dispatchers, TickStep(p) \/ TickThrows(p)
    PROVE  BasicInv'
<1> USE DEF BasicInv, TypeOK
<1>1. CASE TickStart(p)
  BY <1>1 DEF TickStart, Ticks, TickHasClaim, JobKnowsResult, NoRowStranded,
              AttemptWithinBudget
<1>2. CASE Sweep(p)
  <2>1. \A d \in Deliveries : /\ ClaimIsStale(d) => delivery'[d] = ReleasedRow(delivery[d])
                              /\ ~ClaimIsStale(d) => delivery'[d] = delivery[d]
    BY <1>2 DEF Sweep
  <2>2. delivery' \in [Deliveries -> Rows]
    BY <1>2, RowTypes DEF Sweep
  <2>3. NoRowStranded' /\ AttemptWithinBudget'
    <3>1. \A d \in Deliveries : ClaimIsStale(d) =>
            /\ delivery'[d].status = "pending" /\ delivery'[d].nextAttempt = "ahead"
            /\ delivery'[d].claimId = NoClaim
            /\ delivery'[d].attemptCount = delivery[d].attemptCount
            /\ delivery[d].status = "delivering"
      <4> SUFFICES ASSUME NEW d \in Deliveries, ClaimIsStale(d)
                   PROVE  /\ delivery'[d].status = "pending"
                          /\ delivery'[d].nextAttempt = "ahead"
                          /\ delivery'[d].claimId = NoClaim
                          /\ delivery'[d].attemptCount = delivery[d].attemptCount
                          /\ delivery[d].status = "delivering"
        OBVIOUS
      <4>1. delivery[d] \in Rows /\ delivery'[d] = ReleasedRow(delivery[d])
        BY <2>1
      <4>2. delivery[d].status = "delivering"
        BY DEF ClaimIsStale
      <4> HIDE DEF BasicInv
      <4> QED
        BY <4>1, <4>2 DEF ReleasedRow, Rows
    <3>2. jobs' = jobs
      BY <1>2 DEF Sweep
    <3> QED
      BY <2>1, <3>1, <3>2 DEF NoRowStranded, AttemptWithinBudget
  <2>4. tick' \in [Dispatchers -> Ticks] /\ TickHasClaim'
    BY <1>2 DEF Sweep, Ticks, TickHasClaim
  <2> QED
    BY <1>2, <2>2, <2>3, <2>4 DEF Sweep, JobKnowsResult
<1>3. CASE Select(p)
  <2>1. PICK picked \in SUBSET Deliveries :
          tick' = [tick EXCEPT ![p] = IF picked = {} THEN IdleTick
                                      ELSE [@ EXCEPT !.phase = "claim", !.picked = picked]]
    BY <1>3 DEF Select
  <2>2. tick[p].claim \in ClaimIds
    BY <1>3 DEF Select, TickHasClaim
  <2>3. [tick[p] EXCEPT !.phase = "claim", !.picked = picked] \in Ticks
    BY DEF Ticks
  <2>4. tick' \in [Dispatchers -> Ticks]
    BY <2>1, <2>3, TickTypes
  <2>5. TickHasClaim'
    BY <2>1, <2>2 DEF TickHasClaim, IdleTick, Ticks
  <2> QED
    BY <1>3, <2>4, <2>5 DEF Select, JobKnowsResult, NoRowStranded, AttemptWithinBudget
<1>4. CASE Claim(p)
  <2>1. tick[p].claim \in ClaimIds
    BY <1>4 DEF Claim, TickHasClaim
  <2>2. \A d \in Deliveries :
          /\ Claimable(p, d) => delivery'[d] = ClaimedRow(delivery[d], tick[p].claim)
          /\ ~Claimable(p, d) => delivery'[d] = delivery[d]
    BY <1>4 DEF Claim
  <2>3. delivery' \in [Deliveries -> Rows]
    BY <1>4, <2>1, RowTypes DEF Claim
  <2>4. NoRowStranded' /\ AttemptWithinBudget'
    <3>1. \A d \in Deliveries : Claimable(p, d) =>
            /\ delivery'[d].status = "delivering" /\ delivery'[d].nextAttempt = "none"
            /\ delivery'[d].claimId = tick[p].claim
            /\ delivery'[d].attemptCount = delivery[d].attemptCount
            /\ delivery[d].status = "pending"
      <4> SUFFICES ASSUME NEW d \in Deliveries, Claimable(p, d)
                   PROVE  /\ delivery'[d].status = "delivering"
                          /\ delivery'[d].nextAttempt = "none"
                          /\ delivery'[d].claimId = tick[p].claim
                          /\ delivery'[d].attemptCount = delivery[d].attemptCount
                          /\ delivery[d].status = "pending"
        OBVIOUS
      <4>1. delivery[d] \in Rows /\ delivery'[d] = ClaimedRow(delivery[d], tick[p].claim)
        BY <2>2
      <4>2. delivery[d].status = "pending"
        BY DEF Claimable, Due
      <4> HIDE DEF BasicInv
      <4> QED
        BY <4>1, <4>2 DEF ClaimedRow, Rows
    <3>2. jobs' = jobs
      BY <1>4 DEF Claim
    <3> QED
      BY <2>1, <2>2, <3>1, <3>2, DispatchConstants DEF NoRowStranded, AttemptWithinBudget
  <2>5. tick' \in [Dispatchers -> Ticks] /\ TickHasClaim'
    BY <1>4 DEF Claim, Ticks, TickHasClaim
  <2> QED
    BY <1>4, <2>3, <2>4, <2>5 DEF Claim, JobKnowsResult
<1>5. CASE Load(p)
  <2>1. tick[p].claim \in ClaimIds
    BY <1>5 DEF Load, TickHasClaim
  <2>2. \A d \in Deliveries : Granted(p, d) =>
          /\ NewJob(p, d) \in Jobs
          /\ NewJob(p, d).phase = "send"
          /\ NewJob(p, d).attempt \in 1..MaxAttempts
    BY <2>1, DispatchConstants DEF NewJob, Jobs, Rows, Granted, AttemptWithinBudget
  <2>3. \A j \in jobs' : j \in jobs \/ \E d \in Deliveries : Granted(p, d) /\ j = NewJob(p, d)
    BY <1>5 DEF Load
  <2>4. jobs' \subseteq Jobs /\ JobKnowsResult' /\ \A j \in jobs' : j.attempt \in 1..MaxAttempts
    BY <2>2, <2>3 DEF JobKnowsResult, AttemptWithinBudget
  <2>5. round' \in [Deliveries -> Rounds]
    BY <1>5 DEF Load, Rounds
  <2>6. tick' \in [Dispatchers -> Ticks] /\ TickHasClaim'
    BY <1>5, TickTypes DEF Load, Ticks, TickHasClaim, IdleTick
  <2> QED
    BY <1>5, <2>4, <2>5, <2>6 DEF Load, NoRowStranded, AttemptWithinBudget
<1>6. CASE TickEnds(p)
  BY <1>6, TickTypes DEF TickEnds, TickHasClaim, IdleTick, JobKnowsResult, NoRowStranded,
                         AttemptWithinBudget
<1>7. CASE TickThrows(p)
  <2>1. left' \in Budgets
    BY <1>7, SpendType DEF TickThrows
  <2> QED
    BY <1>7, <2>1, TickTypes DEF TickThrows, TickHasClaim, IdleTick, JobKnowsResult,
                                 NoRowStranded, AttemptWithinBudget
<1> QED
  BY <1>1, <1>2, <1>3, <1>4, <1>5, <1>6, <1>7 DEF TickStep

\* What settling writes keeps every row coherent and within its budget.
LEMMA FinalRowCoherent ==
    ASSUME NEW row \in Rows, NEW j \in Jobs, j.result \in Outcomes, j.attempt \in 1..MaxAttempts
    PROVE  LET new == FinalRow(row, j) IN
             /\ new \in Rows
             /\ new.claimId = NoClaim
             /\ new.status \in {"pending"} \cup Settled
             /\ new.nextAttempt # "none" <=> new.status = "pending"
             /\ new.attemptCount = j.attempt
             /\ new.status = "pending" => j.attempt < MaxAttempts
             /\ ~new.stale
<1> DEFINE new == FinalRow(row, j)
<1>1. new \in Rows
  BY FinalRowType
<1> HIDE DEF new
<1>2. ASSUME NEW status \in Settled, new = CompletedRow(row, status, j.attempt)
      PROVE  /\ new.claimId = NoClaim /\ new.status = status /\ new.nextAttempt = "none"
             /\ new.attemptCount = j.attempt /\ ~new.stale
  BY <1>1, <1>2 DEF CompletedRow, Rows
<1>3. ASSUME new = RetriedRow(row, j.attempt)
      PROVE  /\ new.claimId = NoClaim /\ new.status = "pending" /\ new.nextAttempt = "ahead"
             /\ new.attemptCount = j.attempt /\ ~new.stale
  BY <1>1, <1>3 DEF RetriedRow, Rows
<1>4. \/ \E status \in Settled : new = CompletedRow(row, status, j.attempt)
      \/ new = RetriedRow(row, j.attempt) /\ j.attempt < MaxAttempts
  BY FinalRowCases DEF new
<1>5. CASE new = RetriedRow(row, j.attempt) /\ j.attempt < MaxAttempts
  BY <1>1, <1>3, <1>5 DEF new, Settled
<1>6. CASE \E status \in Settled : new = CompletedRow(row, status, j.attempt)
  BY <1>1, <1>2, <1>6 DEF new, Settled
<1> QED
  BY <1>4, <1>5, <1>6

\* The awaits of one deliver() call.
LEMMA BasicJob ==
    ASSUME BasicInv, NEW j \in jobs,
           JobStep(j) \/ JobThrows(j) \/ SettleThrowsAfterCommit(j)
    PROVE  BasicInv'
<1> USE DEF BasicInv, TypeOK
<1>0. j \in Jobs /\ j.owner \in Dispatchers /\ j.id \in Deliveries
  BY DEF Jobs
<1>1. ASSUME NEW result \in Outcomes, Send(j, result) PROVE BasicInv'
  <2>1. [j EXCEPT !.phase = "record", !.result = result] \in Jobs
    BY <1>0 DEF Jobs
  <2>2. jobs' \subseteq Jobs /\ JobKnowsResult' /\ \A k \in jobs' : k.attempt \in 1..MaxAttempts
    BY <1>0, <1>1, <2>1 DEF Send, JobKnowsResult, AttemptWithinBudget, Jobs
  <2> QED
    BY <1>1, <2>2 DEF Send, TickHasClaim, NoRowStranded, AttemptWithinBudget
<1>2. CASE Record(j)
  <2>1. [j EXCEPT !.phase = "settle"] \in Jobs
    BY <1>0 DEF Jobs
  <2>2. jobs' \subseteq Jobs /\ JobKnowsResult' /\ \A k \in jobs' : k.attempt \in 1..MaxAttempts
    BY <1>0, <1>2, <2>1 DEF Record, JobKnowsResult, AttemptWithinBudget, Jobs
  <2>3. round' \in [Deliveries -> Rounds]
    BY <1>0, <1>2 DEF Record, Rounds, Jobs
  <2> QED
    BY <1>2, <2>2, <2>3 DEF Record, TickHasClaim, NoRowStranded, AttemptWithinBudget
<1>3. ASSUME j.phase = "settle",
             delivery' = [delivery EXCEPT ![j.id] = FinalRow(@, j)]
      PROVE  /\ delivery' \in [Deliveries -> Rows]
             /\ NoRowStranded'
             /\ jobs' \subseteq jobs => AttemptWithinBudget'
  <2>1. j.result \in Outcomes /\ j.attempt \in 1..MaxAttempts
    BY <1>3 DEF JobKnowsResult, AttemptWithinBudget
  <2>2. \A d \in Deliveries : delivery'[d] = IF d = j.id THEN FinalRow(delivery[d], j)
                                             ELSE delivery[d]
    BY <1>0, <1>3
  <2>3. delivery' \in [Deliveries -> Rows]
    BY <1>0, <1>3, FinalRowType
  <2>4. /\ delivery'[j.id].claimId = NoClaim
        /\ delivery'[j.id].status \in {"pending"} \cup Settled
        /\ delivery'[j.id].nextAttempt # "none" <=> delivery'[j.id].status = "pending"
        /\ delivery'[j.id].attemptCount = j.attempt
        /\ delivery'[j.id].status = "pending" => j.attempt < MaxAttempts
    BY <1>0, <2>1, <2>2, FinalRowCoherent
  <2>5. NoRowStranded'
    BY <1>0, <2>2, <2>4 DEF NoRowStranded, Settled
  <2>6. ASSUME jobs' \subseteq jobs PROVE AttemptWithinBudget'
    BY <1>0, <2>1, <2>2, <2>4, <2>6, DispatchConstants DEF AttemptWithinBudget, Settled
  <2> QED
    BY <2>3, <2>5, <2>6
<1>4. CASE Settle(j)
  BY <1>0, <1>3, <1>4 DEF Settle, TickHasClaim, JobKnowsResult
<1>5. ASSUME TickFails(j) PROVE tick' \in [Dispatchers -> Ticks] /\ TickHasClaim'
  BY <1>0, <1>5, TickTypes DEF TickFails, TickHasClaim, IdleTick
<1>6. CASE JobFindsNoRow(j)
  BY <1>0, <1>5, <1>6, LoseType
     DEF JobFindsNoRow, JobKnowsResult, NoRowStranded, AttemptWithinBudget
<1>7. CASE JobThrows(j)
  <2>1. left' \in Budgets
    BY <1>7, SpendType DEF JobThrows
  <2> QED
    BY <1>0, <1>5, <1>7, <2>1, LoseType
       DEF JobThrows, JobKnowsResult, NoRowStranded, AttemptWithinBudget
<1>8. CASE SettleThrowsAfterCommit(j)
  <2>1. left' \in Budgets
    BY <1>8, SpendType DEF SettleThrowsAfterCommit
  <2> QED
    BY <1>0, <1>3, <1>5, <1>8, <2>1 DEF SettleThrowsAfterCommit, JobKnowsResult
<1> QED
  BY <1>1, <1>2, <1>4, <1>6, <1>7, <1>8 DEF JobStep

\* Processes that end and start.
LEMMA BasicProcess ==
    ASSUME BasicInv, NEW p \in Dispatchers, Crash(p) \/ Stop(p) \/ Exit(p) \/ Restart(p)
    PROVE  BasicInv'
<1> USE DEF BasicInv, TypeOK
<1>1. ASSUME Dies(p) PROVE /\ tick' \in [Dispatchers -> Ticks] /\ TickHasClaim'
                           /\ jobs' \subseteq jobs
                           /\ round' \in [Deliveries -> Rounds]
  BY <1>1, TickTypes, LoseType DEF Dies, TickHasClaim, DownTick
<1>2. CASE Crash(p)
  <2>1. left' \in Budgets
    BY <1>2, SpendType DEF Crash
  <2> QED
    BY <1>1, <1>2, <2>1 DEF Crash, JobKnowsResult, NoRowStranded, AttemptWithinBudget
<1>3. CASE Stop(p)
  <2>1. left' \in Budgets
    BY <1>3, SpendType DEF Stop
  <2> QED
    BY <1>3, <2>1 DEF Stop, TickHasClaim, JobKnowsResult, NoRowStranded, AttemptWithinBudget
<1>4. CASE Exit(p)
  BY <1>1, <1>4 DEF Exit, JobKnowsResult, NoRowStranded, AttemptWithinBudget
<1>5. CASE Restart(p)
  BY <1>5, TickTypes DEF Restart, TickHasClaim, IdleTick, JobKnowsResult, NoRowStranded,
                         AttemptWithinBudget
<1> QED
  BY <1>2, <1>3, <1>4, <1>5

LEMMA BasicStep == BasicInv /\ [Next]_vars => BasicInv'
<1> SUFFICES ASSUME BasicInv, [Next]_vars PROVE BasicInv'
  OBVIOUS
<1>1. CASE UNCHANGED vars
  BY <1>1 DEF vars, BasicInv, TypeOK, TickHasClaim, JobKnowsResult, NoRowStranded,
              AttemptWithinBudget
<1>2. CASE Next
  BY <1>2, BasicEnvironment, BasicTick, BasicJob, BasicProcess DEF Next
<1> QED
  BY <1>1, <1>2

LEMMA BasicInvariant == Spec => []BasicInv
  BY BasicInit, BasicStep, PTL DEF Spec

\* TypeOK in every behaviour, whatever the bounds.
THEOREM TypeCorrect == Spec => []TypeOK
  BY BasicInvariant, PTL DEF BasicInv

\* No crash, fault, lost race or late worker leaves a row of the delivery table
\* where neither a worker, nor the sweep, nor the next claim would move it on.
THEOREM NoDeliveryStranded == Spec => []NoRowStranded
  BY BasicInvariant, PTL DEF BasicInv

\* No attempt is numbered beyond WEBHOOKS_MAX_ATTEMPTS, and a row waits for another
\* attempt only while it has one left, in every behaviour.
THEOREM AttemptsBounded == Spec => []AttemptWithinBudget
  BY BasicInvariant, PTL DEF BasicInv

-----------------------------------------------------------------------------
(* What holds as long as no claim outlives staleClaimMs under a live worker *)

\* No two ticks share a claim id.
ClaimsDistinct ==
    \A p, q \in Dispatchers :
        tick[p].claim = tick[q].claim /\ tick[p].claim \in ClaimIds => p = q

\* While a claim id belongs to a tick, its deliveries are sent only in the last
\* phase of that tick ...
JobsOfTick ==
    \A j \in jobs, p \in Dispatchers : tick[p].claim = j.claim => tick[p].phase = "deliver"

\* ... and rows carry it only after the tick has stamped them.
RowsOfTick ==
    \A d \in Deliveries, p \in Dispatchers :
        delivery[d].claimId = tick[p].claim /\ delivery[d].claimId # NoClaim =>
            tick[p].phase \in {"load", "deliver"}

\* The sweep never takes a row from a worker that still relies on it.
StaleUnheld ==
    \A d \in Deliveries : delivery[d].stale => delivery[d].status = "delivering" /\ ~Held(d)

JobsHaveRows ==
    \A j \in jobs : delivery[j.id].status # "unborn"

\* What ExclusiveSend says as long as everyone is timely.
OneSender ==
    \A j \in jobs :
        /\ Exists(j.id) => /\ delivery[j.id].status = "delivering"
                           /\ delivery[j.id].claimId = j.claim
                           /\ delivery[j.id].attemptCount + 1 = j.attempt
        /\ \A k \in jobs : k.id = j.id => k = j

ClaimProtocol ==
    /\ ClaimsDistinct
    /\ JobsOfTick
    /\ RowsOfTick
    /\ StaleUnheld
    /\ JobsHaveRows
    /\ OneSender

TimelyInv ==
    /\ BasicInv
    /\ left["late"] <= MaxLate
    /\ Timely => ClaimProtocol

LEMMA TimelyInit == Init => TimelyInv
<1> SUFFICES ASSUME Init PROVE TimelyInv
  OBVIOUS
<1>1. BasicInv
  BY BasicInit
<1>2. left["late"] <= MaxLate
  BY DispatchConstants DEF Init
<1>3. ClaimProtocol
  BY DispatchConstants
     DEF Init, IdleTick, Absent, ClaimProtocol, ClaimsDistinct, JobsOfTick, RowsOfTick,
         StaleUnheld, JobsHaveRows, OneSender
<1> QED
  BY <1>1, <1>2, <1>3 DEF TimelyInv

\* Most steps only retreat from the protocol: ticks give up their claim or change
\* phase before they have used it, deliver() calls end, and a row that changes
\* loses its claim and has no deliver() call left.
LEMMA Retreat ==
    ASSUME BasicInv, ClaimProtocol, jobs' \subseteq jobs,
           \A p \in Dispatchers :
             \/ tick'[p].claim = NoClaim /\ tick'[p].phase # "load"
             \/ /\ tick'[p].claim = tick[p].claim
                /\ \/ tick'[p].phase = tick[p].phase
                   \/ /\ tick'[p].phase \notin {"load", "deliver"}
                      /\ tick[p].phase \notin {"load", "deliver"},
           \A d \in Deliveries :
             \/ delivery'[d] = delivery[d]
             \/ /\ delivery'[d].claimId = NoClaim
                /\ ~delivery'[d].stale
                /\ delivery'[d].status # "unborn"
                /\ delivery'[d].status = "deleted" \/ \A j \in jobs' : j.id # d
    PROVE  ClaimProtocol'
<1> USE DEF BasicInv, TypeOK, ClaimProtocol
<1>1. \A j \in jobs' : /\ j \in jobs /\ j.id \in Deliveries
                       /\ j.claim \in ClaimIds /\ j.claim # NoClaim
  BY DispatchConstants DEF Jobs
<1>2. ClaimsDistinct'
  BY DispatchConstants DEF ClaimsDistinct
<1>3. JobsOfTick'
  BY <1>1 DEF JobsOfTick
<1>4. RowsOfTick'
  BY <1>1 DEF RowsOfTick
<1>5. StaleUnheld'
  BY <1>1 DEF StaleUnheld, Held
<1>6. JobsHaveRows'
  BY <1>1 DEF JobsHaveRows
<1>7. OneSender'
  BY <1>1 DEF OneSender, Exists
<1> QED
  BY <1>2, <1>3, <1>4, <1>5, <1>6, <1>7

\* sender.send and recordAttempt return: the deliver() call goes on.
LEMMA Proceed ==
    ASSUME BasicInv, ClaimProtocol, tick' = tick, delivery' = delivery,
           NEW j \in jobs, NEW next, jobs' = (jobs \ {j}) \cup {next},
           next.id = j.id, next.claim = j.claim, next.attempt = j.attempt
    PROVE  ClaimProtocol'
<1> USE DEF BasicInv, TypeOK, ClaimProtocol
<1>1. ClaimsDistinct' /\ JobsOfTick' /\ RowsOfTick' /\ JobsHaveRows'
  BY DEF ClaimsDistinct, JobsOfTick, RowsOfTick, JobsHaveRows
<1>2. \A d \in Deliveries : Held(d)' => Held(d)
  BY DEF Held
<1>3. StaleUnheld'
  BY <1>2 DEF StaleUnheld
<1>4. OneSender'
  <2>1. \A k \in jobs' : \E l \in jobs :
          /\ k.id = l.id /\ k.claim = l.claim /\ k.attempt = l.attempt
          /\ \/ k = l /\ l # j
             \/ k = next /\ l = j
    OBVIOUS
  <2>2. \A k, l \in jobs' : k.id = l.id => k = l
    BY <2>1 DEF OneSender
  <2> QED
    BY <2>1, <2>2 DEF OneSender, Exists
<1> QED
  BY <1>1, <1>3, <1>4

LEMMA TimelyEnvironment ==
    ASSUME BasicInv, ClaimProtocol, left'["late"] = left["late"],
           \/ \E S \in SUBSET Deliveries : CreateMany(S)
           \/ \E d \in Deliveries : Replay(d) \/ TimePasses(d) \/ ClaimAges(d)
           \/ \E e \in Endpoints : DeleteEndpoint(e)
    PROVE  ClaimProtocol'
<1> USE DEF BasicInv, TypeOK
<1>1. \A d \in Deliveries : delivery[d].status \notin {"delivering", "deleted"} =>
        \A j \in jobs : j.id # d
  BY DEF ClaimProtocol, JobsHaveRows, OneSender, Exists
<1>2. ASSUME NEW S \in SUBSET Deliveries, CreateMany(S)
      PROVE  ClaimProtocol'
  BY <1>1, <1>2, Retreat DEF CreateMany, QueuedRow
<1>3. ASSUME NEW d \in Deliveries, Replay(d) PROVE ClaimProtocol'
  <2>1. \A j \in jobs' : j.id # d
    BY <1>1, <1>3 DEF Replay, Settled
  <2>2. /\ delivery'[d].claimId = NoClaim /\ ~delivery'[d].stale
        /\ delivery'[d].status = "pending"
    <3>1. delivery[d] \in Rows /\ delivery'[d] = RequeuedRow(delivery[d])
      BY <1>3 DEF Replay
    <3> QED
      BY <3>1 DEF RequeuedRow, Rows
  <2> QED
    BY <1>3, <2>1, <2>2, Retreat DEF Replay
<1>4. ASSUME NEW d \in Deliveries, TimePasses(d) PROVE ClaimProtocol'
  <2>1. \A x \in Deliveries : /\ delivery'[x].status = delivery[x].status
                              /\ delivery'[x].claimId = delivery[x].claimId
                              /\ delivery'[x].stale = delivery[x].stale
                              /\ delivery'[x].attemptCount = delivery[x].attemptCount
    BY <1>4 DEF TimePasses, Rows
  <2>2. tick' = tick /\ jobs' = jobs /\ left' = left
    BY <1>4 DEF TimePasses
  <2>3. \A x \in Deliveries : Held(x)' <=> Held(x)
    BY <2>1, <2>2 DEF Held
  <2>4. jobs \subseteq Jobs
    OBVIOUS
  <2> QED
    BY <2>1, <2>2, <2>3, <2>4
       DEF ClaimProtocol, ClaimsDistinct, JobsOfTick, RowsOfTick, StaleUnheld, JobsHaveRows,
           OneSender, Exists, Jobs
<1>5. ASSUME NEW d \in Deliveries, ClaimAges(d) PROVE ClaimProtocol'
  <2>1. ~Held(d)
    <3>1. ~Spend("late")
      BY DEF Spend, Budgets
    <3> QED
      BY <1>5, <3>1 DEF ClaimAges
  <2>2. \A x \in Deliveries : /\ delivery'[x].status = delivery[x].status
                              /\ delivery'[x].claimId = delivery[x].claimId
                              /\ delivery'[x].stale => delivery[x].stale \/ x = d
                              /\ delivery'[x].attemptCount = delivery[x].attemptCount
    BY <1>5 DEF ClaimAges, Rows
  <2>3. tick' = tick /\ jobs' = jobs /\ delivery[d].status = "delivering"
    BY <1>5 DEF ClaimAges
  <2>4. \A x \in Deliveries : Held(x)' <=> Held(x)
    BY <2>2, <2>3 DEF Held
  <2>5. StaleUnheld'
    BY <2>1, <2>2, <2>3, <2>4 DEF ClaimProtocol, StaleUnheld
  <2> QED
    BY <2>1, <2>2, <2>3, <2>5
       DEF ClaimProtocol, ClaimsDistinct, JobsOfTick, RowsOfTick, JobsHaveRows,
           OneSender, Exists, Jobs
<1>6. ASSUME NEW e \in Endpoints, DeleteEndpoint(e)
      PROVE  ClaimProtocol'
  <2> QED
    BY <1>6, Retreat DEF DeleteEndpoint, Absent
<1> QED
  BY <1>2, <1>3, <1>4, <1>5, <1>6

LEMMA TimelyTick ==
    ASSUME BasicInv, ClaimProtocol, left'["late"] = left["late"],
           NEW p \in Dispatchers, TickStep(p) \/ TickThrows(p)
    PROVE  ClaimProtocol'
<1> USE DEF BasicInv, TypeOK
<1>1. CASE TickStart(p)
  <2>1. PICK c \in ClaimIds \ ClaimsInUse :
          tick' = [tick EXCEPT ![p] = [phase |-> "sweep", claim |-> c, picked |-> {}]]
    BY <1>1 DEF TickStart
  <2>2. /\ \A d \in Deliveries : delivery[d].claimId # c
        /\ \A q \in Dispatchers : tick[q].claim # c
        /\ \A j \in jobs : j.claim # c
    BY <2>1 DEF ClaimsInUse
  <2>3. delivery' = delivery /\ jobs' = jobs /\ left' = left
    BY <1>1 DEF TickStart
  <2>4. /\ \A q \in Dispatchers : q # p => tick'[q] = tick[q]
        /\ tick'[p].phase = "sweep" /\ tick'[p].claim = c
    BY <2>1
  <2>5. ClaimsDistinct' /\ JobsOfTick' /\ RowsOfTick' /\ JobsHaveRows' /\ OneSender'
    BY <2>2, <2>3, <2>4
       DEF ClaimProtocol, ClaimsDistinct, JobsOfTick, RowsOfTick, JobsHaveRows,
           OneSender, Exists
  <2>6. \A d \in Deliveries : Held(d)' => Held(d)
    BY <2>3, <2>4 DEF Held
  <2>7. StaleUnheld'
    BY <2>3, <2>6 DEF ClaimProtocol, StaleUnheld
  <2> QED
    BY <2>3, <2>5, <2>7 DEF ClaimProtocol
<1>2. CASE Sweep(p)
  <2>1. \A d \in Deliveries : ClaimIsStale(d) => \A j \in jobs : j.id # d
    BY DEF ClaimProtocol, ClaimIsStale, StaleUnheld, OneSender, Exists, Held
  <2>2. ASSUME NEW d \in Deliveries, ClaimIsStale(d)
        PROVE  /\ delivery'[d].claimId = NoClaim /\ ~delivery'[d].stale
               /\ delivery'[d].status = "pending"
    <3>1. delivery[d] \in Rows /\ delivery'[d] = ReleasedRow(delivery[d])
      BY <1>2, <2>2 DEF Sweep
    <3> QED
      BY <3>1 DEF ReleasedRow, Rows
  <2>3. jobs' = jobs /\ left' = left
    BY <1>2 DEF Sweep
  <2>4. \A d \in Deliveries : ~ClaimIsStale(d) => delivery'[d] = delivery[d]
    BY <1>2 DEF Sweep
  <2>5. \A q \in Dispatchers :
          /\ tick'[q].claim = tick[q].claim
          /\ \/ tick'[q].phase = tick[q].phase
             \/ tick'[q].phase = "select" /\ tick[q].phase = "sweep"
    BY <1>2 DEF Sweep, Ticks
  <2> QED
    BY <2>1, <2>2, <2>3, <2>4, <2>5, Retreat
<1>3. CASE Select(p)
  <2>1. PICK picked \in SUBSET Deliveries :
          tick' = [tick EXCEPT ![p] = IF picked = {} THEN IdleTick
                                      ELSE [@ EXCEPT !.phase = "claim", !.picked = picked]]
    BY <1>3 DEF Select
  <2>2. /\ \A q \in Dispatchers : q # p => tick'[q] = tick[q]
        /\ \/ tick'[p] = IdleTick
           \/ tick'[p].phase = "claim" /\ tick'[p].claim = tick[p].claim
    BY <2>1 DEF Ticks
  <2>3. tick[p].phase = "select" /\ delivery' = delivery /\ jobs' = jobs /\ left' = left
    BY <1>3 DEF Select
  <2> QED
    BY <2>2, <2>3, Retreat DEF IdleTick
<1>4. CASE Claim(p)
  <2>1. tick[p].phase = "claim" /\ tick[p].claim \in ClaimIds /\ tick[p].claim # NoClaim
    BY <1>4, DispatchConstants DEF Claim, TickHasClaim
  <2>2. ASSUME NEW d \in Deliveries, Claimable(p, d)
        PROVE  /\ delivery[d].status = "pending" /\ delivery'[d].status = "delivering"
               /\ delivery'[d].claimId = tick[p].claim /\ ~delivery'[d].stale
    <3>1. delivery[d] \in Rows /\ delivery'[d] = ClaimedRow(delivery[d], tick[p].claim)
      BY <1>4, <2>2 DEF Claim
    <3> QED
      BY <2>2, <3>1 DEF ClaimedRow, Rows, Claimable, Due
  <2>3. \A d \in Deliveries : ~Claimable(p, d) => delivery'[d] = delivery[d]
    BY <1>4 DEF Claim
  <2>4. jobs' = jobs /\ left' = left
    BY <1>4 DEF Claim
  <2>5. /\ \A q \in Dispatchers : q # p => tick'[q] = tick[q]
        /\ tick'[p].phase = "load" /\ tick'[p].claim = tick[p].claim
    BY <1>4 DEF Claim, Ticks
  <2>6. \A j \in jobs : j.id \in Deliveries /\ ~Claimable(p, j.id)
    BY DEF Claimable, Due, ClaimProtocol, OneSender, JobsHaveRows, Exists, Jobs
  <2>7. \A d \in Deliveries, q \in Dispatchers :
          tick[q].claim = tick[p].claim => q = p
    BY <2>1 DEF ClaimProtocol, ClaimsDistinct
  <2>8. ClaimsDistinct'
    BY <2>5 DEF ClaimProtocol, ClaimsDistinct
  <2>9. JobsOfTick'
    BY <2>1, <2>4, <2>5 DEF ClaimProtocol, JobsOfTick
  <2>10. RowsOfTick'
    BY <2>1, <2>2, <2>3, <2>5, <2>7 DEF ClaimProtocol, RowsOfTick
  <2>11. StaleUnheld'
    <3> SUFFICES ASSUME NEW d \in Deliveries, delivery'[d].stale
                 PROVE  delivery'[d].status = "delivering" /\ ~Held(d)'
      BY DEF StaleUnheld
    <3>1. delivery'[d] = delivery[d] /\ delivery[d].status = "delivering" /\ ~Held(d)
      BY <2>2, <2>3 DEF ClaimProtocol, StaleUnheld
    <3>2. delivery[d].claimId # NoClaim
      BY <3>1 DEF NoRowStranded
    <3>3. delivery[d].claimId # tick[p].claim
      BY <2>1, <3>2 DEF ClaimProtocol, RowsOfTick
    <3> QED
      BY <2>4, <2>5, <3>1, <3>3 DEF Held
  <2>12. JobsHaveRows' /\ OneSender'
    BY <2>3, <2>4, <2>6 DEF ClaimProtocol, JobsHaveRows, OneSender, Exists
  <2> QED
    BY <2>4, <2>8, <2>9, <2>10, <2>11, <2>12 DEF ClaimProtocol
<1>5. CASE Load(p)
  <2> DEFINE claimed == {d \in Deliveries : Granted(p, d)}
  <2>1. tick[p].phase = "load" /\ tick[p].claim \in ClaimIds /\ tick[p].claim # NoClaim
    BY <1>5, DispatchConstants DEF Load, TickHasClaim
  <2>2. delivery' = delivery /\ left' = left
    BY <1>5 DEF Load
  <2>3. \A j \in jobs' : j \in jobs \/ \E d \in claimed : j = NewJob(p, d)
    BY <1>5 DEF Load
  <2>4. ASSUME NEW d \in claimed
        PROVE  /\ delivery[d].status = "delivering" /\ delivery[d].claimId = tick[p].claim
               /\ NewJob(p, d).id = d /\ NewJob(p, d).claim = tick[p].claim
               /\ NewJob(p, d).attempt = delivery[d].attemptCount + 1
               /\ \A j \in jobs : j.id # d
    <3>1. \A j \in jobs : j.claim # tick[p].claim
      BY <2>1 DEF ClaimProtocol, JobsOfTick
    <3> QED
      BY <3>1 DEF Granted, NewJob, ClaimProtocol, OneSender, Exists
  <2>5. /\ \A q \in Dispatchers : q # p => tick'[q] = tick[q]
        /\ \/ tick'[p] = IdleTick /\ claimed = {}
           \/ tick'[p].phase = "deliver" /\ tick'[p].claim = tick[p].claim
    BY <1>5 DEF Load, Ticks
  <2>6. \A q \in Dispatchers : tick[q].claim = tick[p].claim => q = p
    BY <2>1 DEF ClaimProtocol, ClaimsDistinct
  <2> HIDE DEF claimed
  <2>7. claimed \subseteq Deliveries
    BY DEF claimed
  <2>8. ClaimsDistinct'
    BY <2>5, DispatchConstants DEF ClaimProtocol, ClaimsDistinct, IdleTick
  <2>9. JobsOfTick'
    BY <2>1, <2>3, <2>4, <2>5, <2>6, DispatchConstants
       DEF ClaimProtocol, JobsOfTick, IdleTick, Jobs
  <2>10. RowsOfTick'
    BY <2>2, <2>5 DEF ClaimProtocol, RowsOfTick, IdleTick
  <2>11. \A d \in Deliveries : Held(d)' => Held(d)
    BY <2>1, <2>2, <2>3, <2>4, <2>5 DEF Held, IdleTick
  <2>12. StaleUnheld'
    BY <2>2, <2>11 DEF ClaimProtocol, StaleUnheld
  <2>13. JobsHaveRows'
    BY <2>2, <2>3, <2>4 DEF ClaimProtocol, JobsHaveRows
  <2>14. OneSender'
    BY <2>2, <2>3, <2>4 DEF ClaimProtocol, OneSender, Exists
  <2> QED
    BY <2>2, <2>8, <2>9, <2>10, <2>12, <2>13, <2>14 DEF ClaimProtocol
<1>6. CASE TickEnds(p)
  BY <1>6, Retreat DEF TickEnds, IdleTick
<1>7. CASE TickThrows(p)
  <2> QED
    BY <1>7, Retreat DEF TickThrows, IdleTick
<1> QED
  BY <1>1, <1>2, <1>3, <1>4, <1>5, <1>6, <1>7 DEF TickStep

LEMMA TimelyJob ==
    ASSUME BasicInv, ClaimProtocol, left'["late"] = left["late"], NEW j \in jobs,
           JobStep(j) \/ JobThrows(j) \/ SettleThrowsAfterCommit(j)
    PROVE  ClaimProtocol'
<1> USE DEF BasicInv, TypeOK
<1>0. j \in Jobs /\ j.owner \in Dispatchers /\ j.id \in Deliveries
  BY DEF Jobs
<1>1. ASSUME NEW result \in Outcomes, Send(j, result)
      PROVE  ClaimProtocol'
  <2> DEFINE next == [j EXCEPT !.phase = "record", !.result = result]
  <2>1. next.id = j.id /\ next.claim = j.claim /\ next.attempt = j.attempt
    BY <1>0 DEF Jobs
  <2>2. /\ tick' = tick /\ delivery' = delivery /\ left' = left
        /\ jobs' = (jobs \ {j}) \cup {next}
    BY <1>1 DEF Send
  <2> HIDE DEF next
  <2> QED
    BY <2>1, <2>2, Proceed
<1>2. CASE Record(j)
  <2> DEFINE next == [j EXCEPT !.phase = "settle"]
  <2>1. next.id = j.id /\ next.claim = j.claim /\ next.attempt = j.attempt
    BY <1>0 DEF Jobs
  <2>2. /\ tick' = tick /\ delivery' = delivery /\ left' = left
        /\ jobs' = (jobs \ {j}) \cup {next}
    BY <1>2 DEF Record
  <2> HIDE DEF next
  <2> QED
    BY <2>1, <2>2, Proceed
<1>3. ASSUME jobs' = jobs \ {j} PROVE \A k \in jobs' : k.id # j.id
  BY <1>3 DEF ClaimProtocol, OneSender
<1>4. ASSUME j.phase = "settle",
             delivery' = [delivery EXCEPT ![j.id] = FinalRow(@, j)]
      PROVE  /\ delivery'[j.id].claimId = NoClaim /\ ~delivery'[j.id].stale
             /\ delivery'[j.id].status # "unborn"
             /\ \A d \in Deliveries : d # j.id => delivery'[d] = delivery[d]
  <2>1. j.result \in Outcomes /\ j.attempt \in 1..MaxAttempts
    BY <1>4 DEF JobKnowsResult, AttemptWithinBudget
  <2>2. delivery[j.id] \in Rows /\ delivery'[j.id] = FinalRow(delivery[j.id], j)
    BY <1>0, <1>4
  <2>3. delivery'[j.id].status \in {"pending"} \cup Settled
    BY <1>0, <2>1, <2>2, FinalRowCoherent
  <2>4. delivery'[j.id].claimId = NoClaim /\ ~delivery'[j.id].stale
    BY <1>0, <2>1, <2>2, FinalRowCoherent
  <2> QED
    BY <1>0, <1>4, <2>3, <2>4 DEF Settled
<1>5. ASSUME TickFails(j)
      PROVE  \A p \in Dispatchers : tick'[p] = tick[p] \/ tick'[p] = IdleTick
  BY <1>5 DEF TickFails
<1>6. CASE Settle(j)
  BY <1>0, <1>3, <1>4, <1>6, Retreat DEF Settle
<1>7. CASE JobFindsNoRow(j)
  BY <1>5, <1>7, Retreat DEF JobFindsNoRow, IdleTick
<1>8. CASE JobThrows(j)
  <2> QED
    BY <1>5, <1>8, Retreat DEF JobThrows, IdleTick
<1>9. CASE SettleThrowsAfterCommit(j)
  <2>2. /\ j.phase = "settle" /\ jobs' = jobs \ {j}
        /\ delivery' = [delivery EXCEPT ![j.id] = FinalRow(@, j)]
        /\ TickFails(j)
    BY <1>9 DEF SettleThrowsAfterCommit
  <2> QED
    BY <1>3, <1>4, <1>5, <2>2, Retreat DEF IdleTick
<1> QED
  BY <1>1, <1>2, <1>6, <1>7, <1>8, <1>9 DEF JobStep

LEMMA TimelyProcess ==
    ASSUME BasicInv, ClaimProtocol, left'["late"] = left["late"], NEW p \in Dispatchers,
           Crash(p) \/ Stop(p) \/ Exit(p) \/ Restart(p)
    PROVE  ClaimProtocol'
<1> USE DEF BasicInv, TypeOK
<1>1. CASE Crash(p)
  <2> QED
    BY <1>1, Retreat DEF Crash, Dies, DownTick
<1>2. CASE Stop(p)
  <2> QED
    BY <1>2, Retreat DEF Stop
<1>3. CASE Exit(p)
  BY <1>3, Retreat DEF Exit, Dies, DownTick
<1>4. CASE Restart(p)
  BY <1>4, Retreat DEF Restart, IdleTick
<1> QED
  BY <1>1, <1>2, <1>3, <1>4

\* A step leaves the bounds of the environment alone or spends one of them.
LEMMA LeftOnlySpent ==
    ASSUME TypeOK, [Next]_vars
    PROVE  left' = left \/ \E kind \in {"crash", "fault", "late", "replay", "delete"} : Spend(kind)
  BY DEF Next, vars, TickStep, JobStep, CreateMany, Replay, DeleteEndpoint, TimePasses, ClaimAges,
         TickStart, Sweep, Select, Claim, Load, TickEnds, TickThrows, Send, Record, Settle,
         JobFindsNoRow, JobThrows, SettleThrowsAfterCommit, Crash, Stop, Exit, Restart

LEMMA TimelyStep == TimelyInv /\ [Next]_vars => TimelyInv'
<1> SUFFICES ASSUME TimelyInv, [Next]_vars PROVE TimelyInv'
  OBVIOUS
<1>1. BasicInv /\ BasicInv'
  BY BasicStep DEF TimelyInv
<1>2. left["late"] \in Nat /\ left'["late"] \in Nat /\ left'["late"] <= left["late"]
  <2>1. left \in Budgets /\ left' \in Budgets
    BY <1>1 DEF BasicInv, TypeOK
  <2>2. CASE left' = left
    BY <2>1, <2>2 DEF Budgets
  <2>3. ASSUME NEW kind \in {"crash", "fault", "late", "replay", "delete"}, Spend(kind)
        PROVE  left'["late"] <= left["late"]
    BY <2>1, <2>3 DEF Budgets, Spend
  <2> QED
    BY <1>1, <2>1, <2>2, <2>3, LeftOnlySpent DEF BasicInv, Budgets
<1>3. left'["late"] <= MaxLate
  BY <1>2, DispatchConstants DEF TimelyInv
<1>4. ASSUME Timely' PROVE ClaimProtocol'
  <2>1. left'["late"] = left["late"] /\ Timely
    BY <1>2, <1>4, DispatchConstants DEF Timely, TimelyInv
  <2>2. ClaimProtocol
    BY <2>1 DEF TimelyInv
  <2>3. CASE UNCHANGED vars
    BY <2>2, <2>3
       DEF vars, ClaimProtocol, ClaimsDistinct, JobsOfTick, RowsOfTick, StaleUnheld, Held,
           JobsHaveRows, OneSender, Exists
  <2>4. CASE Next
    BY <1>1, <2>1, <2>2, <2>4, TimelyEnvironment, TimelyTick, TimelyJob, TimelyProcess DEF Next
  <2> QED
    BY <2>3, <2>4
<1> QED
  BY <1>1, <1>3, <1>4 DEF TimelyInv

LEMMA TimelyInvariant == Spec => []TimelyInv
  BY TimelyInit, TimelyStep, PTL DEF Spec

\* The claim is what grants the right to send: as long as every worker finishes
\* within staleClaimMs, then however many processes poll the table, crash, are
\* stopped and lose statements, no delivery is in the hands of two deliver() calls.
THEOREM SendIsExclusive == Spec => []ExclusiveSend
<1>1. TimelyInv => ExclusiveSend
  BY DEF TimelyInv, ClaimProtocol, OneSender, ExclusiveSend
<1> QED
  BY <1>1, TimelyInvariant, PTL

-----------------------------------------------------------------------------
(* Settled deliveries *)

\* What one step does to a settled delivery.
SettledStep(d) ==
    Timely /\ delivery[d].status \in Settled =>
        \/ delivery'[d] = delivery[d]
        \/ delivery'[d].status = "deleted"
        \/ /\ delivery'[d].status = "pending"
           /\ delivery'[d].attemptCount = 0
           /\ left'["replay"] < left["replay"]

LEMMA SettledRowsStay ==
    ASSUME TimelyInv, [Next]_vars, NEW d \in Deliveries PROVE SettledStep(d)
<1> SUFFICES ASSUME Timely, delivery[d].status \in Settled
             PROVE  \/ delivery'[d] = delivery[d]
                    \/ delivery'[d].status = "deleted"
                    \/ /\ delivery'[d].status = "pending"
                       /\ delivery'[d].attemptCount = 0
                       /\ left'["replay"] < left["replay"]
  BY DEF SettledStep
<1> USE DEF TimelyInv, BasicInv, TypeOK
<1>1. delivery[d].status \notin {"unborn", "pending", "delivering", "deleted"}
  BY DEF Settled
<1>2. \A j \in jobs : j.id # d
  BY <1>1 DEF ClaimProtocol, JobsHaveRows, OneSender, Exists
<1>3. ASSUME NEW S \in SUBSET Deliveries, CreateMany(S) PROVE delivery'[d] = delivery[d]
  BY <1>1, <1>3 DEF CreateMany
<1>4. ASSUME NEW x \in Deliveries, Replay(x)
      PROVE  \/ delivery'[d] = delivery[d]
             \/ /\ delivery'[d].status = "pending" /\ delivery'[d].attemptCount = 0
                /\ left'["replay"] < left["replay"]
  <2>1. left'["replay"] < left["replay"]
    BY <1>4, SpendType DEF Replay
  <2>2. CASE x # d
    BY <1>4, <2>2 DEF Replay
  <2>3. CASE x = d
    <3>1. delivery[d] \in Rows /\ delivery'[d] = RequeuedRow(delivery[d])
      BY <1>4, <2>3 DEF Replay
    <3>2. delivery'[d].status = "pending" /\ delivery'[d].attemptCount = 0
      BY <3>1 DEF RequeuedRow, Rows
    <3> QED
      BY <2>1, <3>2
  <2> QED
    BY <2>2, <2>3
<1>5. ASSUME NEW x \in Deliveries, TimePasses(x) \/ ClaimAges(x)
      PROVE  delivery'[d] = delivery[d]
  BY <1>1, <1>5 DEF TimePasses, ClaimAges, NoRowStranded
<1>6. ASSUME NEW e \in Endpoints, DeleteEndpoint(e)
      PROVE  delivery'[d] = delivery[d] \/ delivery'[d].status = "deleted"
  BY <1>6 DEF DeleteEndpoint, Absent
<1>7. ASSUME NEW p \in Dispatchers, TickStep(p) \/ TickThrows(p)
      PROVE  delivery'[d] = delivery[d]
  BY <1>1, <1>7
     DEF TickStep, TickThrows, TickStart, Sweep, ClaimIsStale, Select, Claim, Claimable, Due,
         Load, TickEnds
<1>8. ASSUME NEW j \in jobs, JobStep(j) \/ JobThrows(j) \/ SettleThrowsAfterCommit(j)
      PROVE  delivery'[d] = delivery[d]
  BY <1>2, <1>8
     DEF JobStep, Send, Record, Settle, JobFindsNoRow, JobThrows, SettleThrowsAfterCommit
<1>9. ASSUME NEW p \in Dispatchers, Crash(p) \/ Stop(p) \/ Exit(p) \/ Restart(p)
      PROVE  delivery'[d] = delivery[d]
  BY <1>9 DEF Crash, Stop, Exit, Restart
<1>10. CASE UNCHANGED vars
  BY <1>10 DEF vars
<1> QED
  BY <1>3, <1>4, <1>5, <1>6, <1>7, <1>8, <1>9, <1>10 DEF Next

\* As long as everyone is timely, nothing but a replay puts a settled delivery back in the queue, and nothing but
\* the deletion of its endpoint changes it otherwise.
THEOREM SettledDeliveriesStay == Spec => SettledIsFinal
<1>1. TimelyInv /\ [Next]_vars =>
        [\A d \in Deliveries : Timely /\ delivery[d].status \in Settled =>
            \/ delivery'[d] = delivery[d]
            \/ delivery'[d].status = "deleted"
            \/ /\ delivery'[d].status = "pending"
               /\ delivery'[d].attemptCount = 0
               /\ left'["replay"] < left["replay"]]_vars
  BY SettledRowsStay DEF SettledStep
<1> QED
  BY <1>1, TimelyInvariant, PTL DEF Spec, SettledIsFinal

=============================================================================
