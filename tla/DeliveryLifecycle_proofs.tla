------------------------ MODULE DeliveryLifecycle_proofs ------------------------
(***************************************************************************)
(* More theorems about WebhookDispatch: the books it keeps about every     *)
(* delivery, the delivery queue of DeliveryLifecycle that it implements,   *)
(* and the bound on what one process sends at a time.                      *)
(*                                                                         *)
(* As long as everyone is timely, a delivery is in the hands of at most    *)
(* one deliver() call.  So of all that a step of the whole system does,    *)
(* one delivery sees one of nine things, and each theorem about the        *)
(* deliveries has nine cases.                                              *)
(***************************************************************************)
EXTENDS WebhookDispatch_proofs, FiniteSetTheorems

-----------------------------------------------------------------------------
(* What one step does to one delivery *)

JobsOn(d) == {j \in jobs : j.id = d}

Waits(d) == delivery[d].status \in {"pending", "delivering"}

\* The clock, the sweep, a claim, or somebody else's business.
Passes(d) ==
    /\ delivery'[d].attemptCount = delivery[d].attemptCount
    /\ delivery'[d].completed = delivery[d].completed
    /\ \/ delivery'[d].status = delivery[d].status
       \/ Waits(d) /\ delivery'[d].status \in {"pending", "delivering"}
    /\ round'[d] = round[d]
    /\ JobsOn(d)' = JobsOn(d)

Enters(d) ==
    /\ delivery[d].status = "unborn"
    /\ delivery'[d] = QueuedRow
    /\ round'[d] = round[d]
    /\ JobsOn(d) = {} /\ JobsOn(d)' = {}

Returns(d) ==
    /\ delivery[d].status \in Settled
    /\ delivery'[d] = RequeuedRow(delivery[d])
    /\ round'[d] = EmptyRound
    /\ JobsOn(d) = {} /\ JobsOn(d)' = {}

Vanishes(d) == delivery'[d] = Absent("deleted")

Starts(d) ==
    \E p \in Dispatchers :
        /\ delivery[d].status = "delivering"
        /\ delivery'[d] = delivery[d]
        /\ round'[d] = [round[d] EXCEPT !.started = @ + 1]
        /\ JobsOn(d) = {} /\ JobsOn(d)' = {NewJob(p, d)}

Hears(d) ==
    \E j \in jobs : \E result \in Outcomes :
        /\ j.phase = "send"
        /\ delivery'[d] = delivery[d]
        /\ round'[d] = round[d]
        /\ JobsOn(d) = {j}
        /\ JobsOn(d)' = {[j EXCEPT !.phase = "record", !.result = result]}

Logs(d) ==
    \E j \in jobs :
        /\ j.phase = "record"
        /\ Exists(d)
        /\ delivery'[d] = delivery[d]
        /\ round'[d] = [round[d] EXCEPT !.logged = @ + 1, !.verdict = j.result]
        /\ JobsOn(d) = {j} /\ JobsOn(d)' = {[j EXCEPT !.phase = "settle"]}

Ends(d) ==
    \E j \in jobs :
        /\ j.phase = "settle"
        /\ Exists(d)
        /\ delivery'[d] = FinalRow(delivery[d], j)
        /\ round'[d] = round[d]
        /\ JobsOn(d) = {j} /\ JobsOn(d)' = {}

Fails(d) ==
    \E j \in jobs :
        /\ delivery'[d] = delivery[d]
        /\ round'[d] = [round[d] EXCEPT !.lost = @ + 1]
        /\ JobsOn(d) = {j} /\ JobsOn(d)' = {}

OneOfNine(d) ==
    \/ Passes(d) \/ Enters(d) \/ Returns(d) \/ Vanishes(d) \/ Starts(d)
    \/ Hears(d) \/ Logs(d) \/ Ends(d) \/ Fails(d)

LEMMA OnlyJob ==
    ASSUME ClaimProtocol, NEW j \in jobs
    PROVE  JobsOn(j.id) = {j}
  BY DEF ClaimProtocol, OneSender, JobsOn

\* Nobody works on a delivery that has no row yet or is settled.
LEMMA NoJobAtRest ==
    ASSUME ClaimProtocol, NEW d \in Deliveries,
           delivery[d].status \in {"unborn", "pending"} \cup Settled
    PROVE  JobsOn(d) = {}
  BY DEF ClaimProtocol, JobsHaveRows, OneSender, Exists, JobsOn, Settled

LEMMA SeenFromOneDelivery ==
    ASSUME BasicInv, ClaimProtocol, [Next]_vars, NEW d \in Deliveries
    PROVE  OneOfNine(d)
<1> USE DEF BasicInv, TypeOK
<1>0. delivery[d] \in Rows
  OBVIOUS
<1>1. ASSUME delivery'[d] = delivery[d], round'[d] = round[d], JobsOn(d)' = JobsOn(d)
      PROVE  OneOfNine(d)
  BY <1>1 DEF OneOfNine, Passes
<1>2. ASSUME jobs' = jobs PROVE JobsOn(d)' = JobsOn(d)
  BY <1>2 DEF JobsOn
<1>3. ASSUME delivery' = delivery, round' = round, jobs' = jobs PROVE OneOfNine(d)
  BY <1>1, <1>3 DEF JobsOn
<1>4. ASSUME NEW S \in SUBSET Deliveries, CreateMany(S) PROVE OneOfNine(d)
  <2>1. CASE d \in S
    BY <1>2, <1>4, <2>1, NoJobAtRest DEF CreateMany, OneOfNine, Enters
  <2>2. CASE d \notin S
    BY <1>1, <1>2, <1>4, <2>2 DEF CreateMany
  <2> QED
    BY <2>1, <2>2
<1>5. ASSUME NEW x \in Deliveries, Replay(x) PROVE OneOfNine(d)
  <2>1. CASE d = x
    BY <1>2, <1>5, <2>1, NoJobAtRest DEF Replay, OneOfNine, Returns
  <2>2. CASE d # x
    BY <1>1, <1>2, <1>5, <2>2 DEF Replay
  <2> QED
    BY <2>1, <2>2
<1>6. ASSUME NEW x \in Deliveries, TimePasses(x) \/ ClaimAges(x) PROVE OneOfNine(d)
  <2>1. /\ delivery'[d].attemptCount = delivery[d].attemptCount
        /\ delivery'[d].completed = delivery[d].completed
        /\ delivery'[d].status = delivery[d].status
    BY <1>6 DEF TimePasses, ClaimAges, Rows
  <2> QED
    BY <1>2, <1>6, <2>1 DEF TimePasses, ClaimAges, OneOfNine, Passes
<1>7. ASSUME NEW e \in Endpoints, DeleteEndpoint(e) PROVE OneOfNine(d)
  <2>1. CASE EndpointOf[d] = e
    BY <1>7, <2>1 DEF DeleteEndpoint, OneOfNine, Vanishes
  <2>2. CASE EndpointOf[d] # e
    BY <1>1, <1>2, <1>7, <2>2 DEF DeleteEndpoint
  <2> QED
    BY <2>1, <2>2
<1>8. ASSUME NEW p \in Dispatchers, TickStart(p) \/ Select(p) \/ TickEnds(p) \/ TickThrows(p)
      PROVE  OneOfNine(d)
  BY <1>3, <1>8 DEF TickStart, Select, TickEnds, TickThrows
<1>9. ASSUME NEW p \in Dispatchers, Sweep(p) PROVE OneOfNine(d)
  <2>1. CASE ClaimIsStale(d)
    <3>1. delivery'[d] = ReleasedRow(delivery[d]) /\ delivery[d].status = "delivering"
      BY <1>9, <2>1 DEF Sweep, ClaimIsStale
    <3>2. /\ delivery'[d].attemptCount = delivery[d].attemptCount
          /\ delivery'[d].completed = delivery[d].completed
          /\ delivery'[d].status = "pending"
      BY <1>0, <3>1 DEF ReleasedRow, Rows
    <3> QED
      BY <1>2, <1>9, <3>1, <3>2 DEF Sweep, OneOfNine, Passes, Waits
  <2>2. CASE ~ClaimIsStale(d)
    BY <1>1, <1>2, <1>9, <2>2 DEF Sweep
  <2> QED
    BY <2>1, <2>2
<1>10. ASSUME NEW p \in Dispatchers, Claim(p) PROVE OneOfNine(d)
  <2>1. CASE Claimable(p, d)
    <3>1. delivery'[d] = ClaimedRow(delivery[d], tick[p].claim) /\ delivery[d].status = "pending"
      BY <1>10, <2>1 DEF Claim, Claimable, Due
    <3>2. /\ delivery'[d].attemptCount = delivery[d].attemptCount
          /\ delivery'[d].completed = delivery[d].completed
          /\ delivery'[d].status = "delivering"
      BY <1>0, <3>1 DEF ClaimedRow, Rows
    <3> QED
      BY <1>2, <1>10, <3>1, <3>2 DEF Claim, OneOfNine, Passes, Waits
  <2>2. CASE ~Claimable(p, d)
    BY <1>1, <1>2, <1>10, <2>2 DEF Claim
  <2> QED
    BY <2>1, <2>2
<1>11. ASSUME NEW p \in Dispatchers, Load(p) PROVE OneOfNine(d)
  <2> DEFINE claimed == {x \in Deliveries : Granted(p, x)}
  <2>1. /\ jobs' = jobs \cup {NewJob(p, x) : x \in claimed}
        /\ round'[d] = IF d \in claimed THEN [round[d] EXCEPT !.started = @ + 1] ELSE round[d]
        /\ delivery' = delivery
    BY <1>11 DEF Load
  <2>2. \A x \in claimed : NewJob(p, x).id = x
    BY DEF NewJob
  <2>3. CASE d \in claimed
    <3>1. delivery[d].status = "delivering" /\ delivery[d].claimId = tick[p].claim
      BY <2>3 DEF Granted
    <3>2. \A j \in jobs : j.claim # tick[p].claim
      BY <1>11 DEF Load, ClaimProtocol, JobsOfTick
    <3>3. JobsOn(d) = {}
      BY <3>1, <3>2 DEF JobsOn, ClaimProtocol, OneSender, Exists
    <3>4. JobsOn(d)' = {NewJob(p, d)}
      BY <2>1, <2>2, <2>3, <3>3 DEF JobsOn
    <3> QED
      BY <2>1, <2>3, <3>1, <3>3, <3>4 DEF OneOfNine, Starts
  <2>4. CASE d \notin claimed
    <3>1. JobsOn(d)' = JobsOn(d)
      BY <2>1, <2>2, <2>4 DEF JobsOn
    <3> QED
      BY <1>1, <2>1, <2>4, <3>1
  <2> QED
    BY <2>3, <2>4
<1>12. ASSUME NEW j \in jobs, j.id # d,
              \/ jobs' = jobs \ {j}
              \/ \E next : next.id = j.id /\ jobs' = (jobs \ {j}) \cup {next}
       PROVE  JobsOn(d)' = JobsOn(d)
  BY <1>12 DEF JobsOn
<1>13. ASSUME NEW j \in jobs, j.id = d, jobs' = jobs \ {j} PROVE JobsOn(d)' = {}
  BY <1>13, OnlyJob DEF JobsOn
<1>14. ASSUME NEW j \in jobs, NEW next, j.id = d, next.id = d, jobs' = (jobs \ {j}) \cup {next}
       PROVE  JobsOn(d)' = {next}
  BY <1>14, OnlyJob DEF JobsOn
<1>15. ASSUME NEW j \in jobs, NEW result \in Outcomes, Send(j, result) PROVE OneOfNine(d)
  <2> DEFINE next == [j EXCEPT !.phase = "record", !.result = result]
  <2>1. j.phase = "send" /\ delivery' = delivery /\ round' = round
    BY <1>15 DEF Send
  <2>2. jobs' = (jobs \ {j}) \cup {next}
    BY <1>15 DEF Send
  <2>3. next.id = j.id
    BY DEF Jobs
  <2>4. CASE j.id = d
    <3>1. JobsOn(d) = {j} /\ JobsOn(d)' = {next}
      BY <1>14, <2>2, <2>3, <2>4, OnlyJob
    <3> QED
      BY <2>1, <3>1 DEF OneOfNine, Hears
  <2>5. CASE j.id # d
    <3>1. JobsOn(d)' = JobsOn(d)
      BY <1>12, <2>2, <2>3, <2>5
    <3> QED
      BY <1>1, <2>1, <3>1
  <2> QED
    BY <2>4, <2>5
<1>16. ASSUME NEW j \in jobs, Record(j) PROVE OneOfNine(d)
  <2> DEFINE next == [j EXCEPT !.phase = "settle"]
  <2>1. j.phase = "record" /\ delivery' = delivery /\ Exists(j.id)
    BY <1>16 DEF Record
  <2>2. jobs' = (jobs \ {j}) \cup {next}
    BY <1>16 DEF Record
  <2>3. next.id = j.id
    BY DEF Jobs
  <2>4. CASE j.id = d
    <3>1. JobsOn(d) = {j} /\ JobsOn(d)' = {next}
      BY <1>14, <2>2, <2>3, <2>4, OnlyJob
    <3>2. round'[d] = [round[d] EXCEPT !.logged = round[d].logged + 1, !.verdict = j.result]
      BY <1>16, <2>4 DEF Record, Rounds
    <3> QED
      BY <2>1, <2>4, <3>1, <3>2 DEF OneOfNine, Logs
  <2>5. CASE j.id # d
    <3>1. JobsOn(d)' = JobsOn(d)
      BY <1>12, <2>2, <2>3, <2>5
    <3>2. round'[d] = round[d]
      BY <1>16, <2>5 DEF Record
    <3> QED
      BY <1>1, <2>1, <3>1, <3>2
  <2> QED
    BY <2>4, <2>5
<1>17. ASSUME NEW j \in jobs, Settle(j) \/ SettleThrowsAfterCommit(j) PROVE OneOfNine(d)
  <2>1. /\ j.phase = "settle" /\ Exists(j.id) /\ round' = round /\ jobs' = jobs \ {j}
        /\ delivery'[d] = IF d = j.id THEN FinalRow(delivery[d], j) ELSE delivery[d]
    BY <1>17 DEF Settle, SettleThrowsAfterCommit
  <2>2. CASE j.id = d
    BY <1>13, <2>1, <2>2, OnlyJob DEF OneOfNine, Ends
  <2>3. CASE j.id # d
    BY <1>1, <1>12, <2>1, <2>3
  <2> QED
    BY <2>2, <2>3
<1>18. ASSUME NEW j \in jobs, JobFindsNoRow(j) \/ JobThrows(j) PROVE OneOfNine(d)
  <2>1. /\ delivery' = delivery /\ jobs' = jobs \ {j}
        /\ round'[d] = IF j.id = d THEN [round[d] EXCEPT !.lost = @ + 1] ELSE round[d]
    BY <1>18 DEF JobFindsNoRow, JobThrows, Lose
  <2>2. CASE j.id = d
    BY <1>13, <2>1, <2>2, OnlyJob DEF OneOfNine, Fails
  <2>3. CASE j.id # d
    BY <1>1, <1>12, <2>1, <2>3
  <2> QED
    BY <2>2, <2>3
<1>19. ASSUME NEW p \in Dispatchers, Crash(p) \/ Exit(p) PROVE OneOfNine(d)
  <2>1. /\ delivery' = delivery /\ jobs' = jobs \ JobsOf(p)
        /\ round'[d] = IF \E j \in JobsOf(p) : j.id = d
                       THEN [round[d] EXCEPT !.lost = @ + 1] ELSE round[d]
    BY <1>19 DEF Crash, Exit, Dies, Lose
  <2>2. ASSUME NEW j \in JobsOf(p), j.id = d PROVE OneOfNine(d)
    <3>1. j \in jobs /\ JobsOn(d) = {j}
      BY <2>2, OnlyJob DEF JobsOf
    <3>2. JobsOn(d)' = {}
      BY <2>1, <2>2, <3>1 DEF JobsOn
    <3> QED
      BY <2>1, <2>2, <3>1, <3>2 DEF OneOfNine, Fails
  <2>3. CASE \A j \in JobsOf(p) : j.id # d
    <3>1. JobsOn(d)' = JobsOn(d)
      BY <2>1, <2>3 DEF JobsOn
    <3> QED
      BY <1>1, <2>1, <2>3, <3>1
  <2> QED
    BY <2>2, <2>3
<1>20. ASSUME NEW p \in Dispatchers, Stop(p) \/ Restart(p) PROVE OneOfNine(d)
  BY <1>3, <1>20 DEF Stop, Restart
<1>21. CASE UNCHANGED vars
  BY <1>3, <1>21 DEF vars
<1> QED
  BY <1>4, <1>5, <1>6, <1>7, <1>8, <1>9, <1>10, <1>11, <1>15, <1>16, <1>17, <1>18, <1>19, <1>20,
     <1>21 DEF Next, TickStep, JobStep

-----------------------------------------------------------------------------
(* The books of a delivery *)

\* What has been started, written down and lost since the delivery was queued.
\* An attempt is logged between its answer and the update of its row, so a
\* deliver() that is about to settle is one ahead in the log, and its answer is
\* the verdict.
AttemptsInBooks(d) ==
    Exists(d) =>
        /\ round[d].started =
             delivery[d].attemptCount + round[d].lost + (IF JobsOn(d) = {} THEN 0 ELSE 1)
        /\ delivery[d].attemptCount <= round[d].logged
        /\ round[d].logged <= round[d].started
        /\ \A j \in JobsOn(d) :
             IF j.phase = "settle"
             THEN delivery[d].attemptCount < round[d].logged /\ round[d].verdict = j.result
             ELSE round[d].logged < round[d].started

VerdictInBooks(d) ==
    /\ delivery[d].completed <=> delivery[d].status \in Settled
    /\ delivery[d].status = "succeeded" => round[d].verdict = "ok"
    /\ delivery[d].status = "failed" =>
         \/ round[d].verdict = "terminal"
         \/ round[d].verdict = "retry" /\ delivery[d].attemptCount = MaxAttempts

Ledger ==
    \A d \in Deliveries :
        /\ delivery[d].status = "unborn" => round[d] = EmptyRound
        /\ AttemptsInBooks(d)
        /\ VerdictInBooks(d)

LedgerInv == TimelyInv /\ (Timely => Ledger)

LEMMA LedgerInit == Init => LedgerInv
<1> SUFFICES ASSUME Init PROVE LedgerInv
  OBVIOUS
<1>1. TimelyInv
  BY TimelyInit
<1>2. Ledger
  BY DEF Init, Absent, EmptyRound, Ledger, AttemptsInBooks, VerdictInBooks, Exists, Settled
<1> QED
  BY <1>1, <1>2 DEF LedgerInv

\* How deliver() leaves a row that was delivering.
LEMMA FinalRowSays ==
    ASSUME NEW row \in Rows, NEW j \in Jobs, j.result \in Outcomes, j.attempt \in 1..MaxAttempts,
           ~row.completed
    PROVE  LET new == FinalRow(row, j) IN
             /\ new.completed <=> new.status \in Settled
             /\ new.status = "succeeded" => j.result = "ok"
             /\ new.status = "failed" =>
                  \/ j.result = "terminal"
                  \/ j.result = "retry" /\ new.attemptCount = MaxAttempts
<1> DEFINE new == FinalRow(row, j)
<1>1. CASE j.result = "ok"
  <2>1. new = CompletedRow(row, "succeeded", j.attempt)
    BY <1>1 DEF FinalRow
  <2> QED
    BY <1>1, <2>1 DEF CompletedRow, Rows, Settled
<1>2. CASE j.result = "terminal"
  <2>1. new = CompletedRow(row, "failed", j.attempt)
    BY <1>2 DEF FinalRow
  <2> QED
    BY <1>2, <2>1 DEF CompletedRow, Rows, Settled
<1>3. CASE j.result = "retry" /\ BudgetSpent(j.attempt)
  <2>1. new = CompletedRow(row, "failed", j.attempt)
    BY <1>3 DEF FinalRow
  <2>2. j.attempt = MaxAttempts
    BY <1>3, DispatchConstants DEF BudgetSpent
  <2> QED
    BY <1>3, <2>1, <2>2 DEF CompletedRow, Rows, Settled
<1>4. CASE j.result = "retry" /\ ~BudgetSpent(j.attempt)
  <2>1. new = RetriedRow(row, j.attempt)
    BY <1>4 DEF FinalRow
  <2> QED
    BY <2>1 DEF RetriedRow, Rows, Settled
<1> QED
  BY <1>1, <1>2, <1>3, <1>4 DEF Outcomes

\* One step, as seen from one delivery, leaves its books in order.
LEMMA BooksStep ==
    ASSUME BasicInv, BasicInv', ClaimProtocol, NEW d \in Deliveries, OneOfNine(d),
           delivery[d].status = "unborn" => round[d] = EmptyRound,
           AttemptsInBooks(d), VerdictInBooks(d)
    PROVE  /\ delivery'[d].status = "unborn" => round'[d] = EmptyRound
           /\ AttemptsInBooks(d)'
           /\ VerdictInBooks(d)'
<1>1. /\ delivery[d] \in Rows /\ delivery'[d] \in Rows
      /\ round[d] \in Rounds /\ round'[d] \in Rounds
  BY DEF BasicInv, TypeOK
<1>2. \A j \in JobsOn(d) : /\ j \in Jobs
                           /\ j.phase = "settle" => j.result \in Outcomes
                           /\ j.attempt \in 1..MaxAttempts
  BY DEF BasicInv, TypeOK, JobKnowsResult, AttemptWithinBudget, JobsOn
<1>3. \A j \in JobsOn(d) : Exists(d) => /\ delivery[d].status = "delivering"
                                        /\ delivery[d].attemptCount + 1 = j.attempt
  BY DEF ClaimProtocol, OneSender, JobsOn
<1>4. /\ delivery[d].attemptCount \in Nat /\ delivery[d].completed \in BOOLEAN
      /\ round[d].started \in Nat /\ round[d].logged \in Nat /\ round[d].lost \in Nat
  BY <1>1 DEF Rows, Rounds
<1>5. CASE Passes(d)
  BY <1>5 DEF Passes, Waits, AttemptsInBooks, VerdictInBooks, Exists, Settled
<1>6. CASE Enters(d)
  BY <1>6 DEF Enters, QueuedRow, EmptyRound, AttemptsInBooks, VerdictInBooks, Exists, Settled
<1>7. CASE Returns(d)
  <2>1. /\ delivery'[d].status = "pending" /\ delivery'[d].attemptCount = 0
        /\ ~delivery'[d].completed
    BY <1>1, <1>7 DEF Returns, RequeuedRow, Rows
  <2> QED
    BY <1>7, <2>1 DEF Returns, EmptyRound, AttemptsInBooks, VerdictInBooks, Settled
<1>8. CASE Vanishes(d)
  BY <1>8 DEF Vanishes, Absent, AttemptsInBooks, VerdictInBooks, Exists, Settled
<1>9. CASE Starts(d)
  <2>1. PICK p \in Dispatchers :
          /\ delivery[d].status = "delivering"
          /\ delivery'[d] = delivery[d]
          /\ round'[d] = [round[d] EXCEPT !.started = @ + 1]
          /\ JobsOn(d) = {} /\ JobsOn(d)' = {NewJob(p, d)}
    BY <1>9 DEF Starts
  <2>2. /\ round'[d].started = round[d].started + 1 /\ round'[d].lost = round[d].lost
        /\ round'[d].logged = round[d].logged /\ round'[d].verdict = round[d].verdict
    BY <1>1, <2>1 DEF Rounds
  <2>3. NewJob(p, d).phase = "send"
    BY DEF NewJob
  <2>4. AttemptsInBooks(d)'
    BY <1>4, <2>1, <2>2, <2>3 DEF AttemptsInBooks, Exists
  <2> QED
    BY <2>1, <2>2, <2>4 DEF VerdictInBooks
<1>10. CASE Hears(d)
  <2>1. PICK j \in jobs, result \in Outcomes :
          /\ j.phase = "send"
          /\ delivery'[d] = delivery[d]
          /\ round'[d] = round[d]
          /\ JobsOn(d) = {j}
          /\ JobsOn(d)' = {[j EXCEPT !.phase = "record", !.result = result]}
    BY <1>10 DEF Hears
  <2> DEFINE next == [j EXCEPT !.phase = "record", !.result = result]
  <2>2. next.phase = "record"
    BY <1>2, <2>1 DEF Jobs
  <2>3. AttemptsInBooks(d)'
    BY <2>1, <2>2 DEF AttemptsInBooks, Exists
  <2> QED
    BY <2>1, <2>3 DEF VerdictInBooks
<1>11. CASE Logs(d)
  <2>1. PICK j \in jobs :
          /\ j.phase = "record"
          /\ Exists(d)
          /\ delivery'[d] = delivery[d]
          /\ round'[d] = [round[d] EXCEPT !.logged = @ + 1, !.verdict = j.result]
          /\ JobsOn(d) = {j} /\ JobsOn(d)' = {[j EXCEPT !.phase = "settle"]}
    BY <1>11 DEF Logs
  <2> DEFINE next == [j EXCEPT !.phase = "settle"]
  <2>2. next.phase = "settle" /\ next.result = j.result
    BY <1>2, <2>1 DEF Jobs
  <2>3. /\ round'[d].started = round[d].started /\ round'[d].lost = round[d].lost
        /\ round'[d].logged = round[d].logged + 1 /\ round'[d].verdict = j.result
    BY <1>1, <2>1 DEF Rounds
  <2>4. AttemptsInBooks(d)'
    <3>1. /\ round[d].started = delivery[d].attemptCount + round[d].lost + 1
          /\ delivery[d].attemptCount <= round[d].logged
          /\ round[d].logged < round[d].started
      BY <2>1 DEF AttemptsInBooks
    <3>2. JobsOn(d)' = {next}
      BY <2>1
    <3> HIDE DEF next
    <3> QED
      BY <1>4, <2>1, <2>2, <2>3, <3>1, <3>2 DEF AttemptsInBooks
  <2>5. delivery[d].status = "delivering"
    BY <1>3, <2>1
  <2> QED
    BY <2>1, <2>4, <2>5 DEF VerdictInBooks
<1>12. CASE Ends(d)
  <2>1. PICK j \in jobs :
          /\ j.phase = "settle"
          /\ Exists(d)
          /\ delivery'[d] = FinalRow(delivery[d], j)
          /\ round'[d] = round[d]
          /\ JobsOn(d) = {j} /\ JobsOn(d)' = {}
    BY <1>12 DEF Ends
  <2>2. /\ j \in Jobs /\ j.result \in Outcomes /\ j.attempt \in 1..MaxAttempts
        /\ j.attempt = delivery[d].attemptCount + 1
        /\ ~delivery[d].completed
    BY <1>2, <1>3, <2>1 DEF VerdictInBooks, Settled
  <2>3. round[d].verdict = j.result /\ delivery[d].attemptCount < round[d].logged
    BY <2>1 DEF AttemptsInBooks
  <2>4. /\ delivery'[d].attemptCount = j.attempt
        /\ delivery'[d].status \in {"pending"} \cup Settled
    BY <1>1, <2>1, <2>2, FinalRowCoherent
  <2>5. AttemptsInBooks(d)'
    BY <1>4, <2>1, <2>2, <2>3, <2>4 DEF AttemptsInBooks
  <2>6. VerdictInBooks(d)'
    BY <1>1, <2>1, <2>2, <2>3, FinalRowSays DEF VerdictInBooks
  <2> QED
    BY <2>4, <2>5, <2>6 DEF Settled
<1>13. CASE Fails(d)
  <2>1. PICK j \in jobs :
          /\ delivery'[d] = delivery[d]
          /\ round'[d] = [round[d] EXCEPT !.lost = @ + 1]
          /\ JobsOn(d) = {j} /\ JobsOn(d)' = {}
    BY <1>13 DEF Fails
  <2>2. /\ round'[d].started = round[d].started /\ round'[d].lost = round[d].lost + 1
        /\ round'[d].logged = round[d].logged /\ round'[d].verdict = round[d].verdict
    BY <1>1, <2>1 DEF Rounds
  <2>3. AttemptsInBooks(d)'
    BY <1>4, <2>1, <2>2 DEF AttemptsInBooks, Exists
  <2>4. delivery[d].status # "unborn"
    BY <2>1, NoJobAtRest
  <2> QED
    BY <2>1, <2>2, <2>3, <2>4 DEF VerdictInBooks
<1> QED
  BY <1>5, <1>6, <1>7, <1>8, <1>9, <1>10, <1>11, <1>12, <1>13 DEF OneOfNine

\* Time lost is never given back.
LEMMA TimelyBefore ==
    ASSUME TimelyInv, [Next]_vars, Timely'
    PROVE  Timely
<1>1. left \in Budgets /\ left["late"] <= MaxLate
  BY DEF TimelyInv, BasicInv, TypeOK
<1>2. CASE left' = left
  BY <1>2 DEF Timely
<1>3. ASSUME NEW kind \in {"crash", "fault", "late", "replay", "delete"}, Spend(kind)
      PROVE  Timely
  BY <1>1, <1>3, DispatchConstants DEF Spend, Budgets, Timely
<1> QED
  BY <1>2, <1>3, LeftOnlySpent DEF TimelyInv, BasicInv

LEMMA LedgerStep == LedgerInv /\ [Next]_vars => LedgerInv'
<1> SUFFICES ASSUME LedgerInv, [Next]_vars PROVE LedgerInv'
  OBVIOUS
<1>1. TimelyInv /\ TimelyInv'
  BY TimelyStep DEF LedgerInv
<1>2. ASSUME Timely' PROVE Ledger'
  <2>1. BasicInv /\ BasicInv' /\ ClaimProtocol /\ Ledger
    BY <1>1, <1>2, TimelyBefore DEF LedgerInv, TimelyInv
  <2>2. ASSUME NEW d \in Deliveries
        PROVE  /\ delivery'[d].status = "unborn" => round'[d] = EmptyRound
               /\ AttemptsInBooks(d)'
               /\ VerdictInBooks(d)'
    BY <2>1, BooksStep, SeenFromOneDelivery DEF Ledger
  <2> QED
    BY <2>2 DEF Ledger
<1> QED
  BY <1>1, <1>2 DEF LedgerInv

LEMMA LedgerInvariant == Spec => []LedgerInv
  BY LedgerInit, LedgerStep, PTL DEF Spec

\* Through crashes, restarts, lost statements, races and replays, each attempt is
\* counted in attemptCount, running, or lost, and the log of attempts misses none
\* that is counted and has none that was not started.
THEOREM BooksBalance == Spec => []AttemptsAccounted
<1>1. ASSUME LedgerInv PROVE AttemptsAccounted
  <2> SUFFICES ASSUME Timely, NEW d \in Deliveries, Exists(d)
               PROVE  LET r == round[d]
                          running == IF InFlight(d) THEN 1 ELSE 0
                      IN  /\ r.started = delivery[d].attemptCount + r.lost + running
                          /\ delivery[d].attemptCount <= r.logged
                          /\ r.logged <= r.started
    BY DEF AttemptsAccounted
  <2>1. AttemptsInBooks(d)
    BY <1>1 DEF LedgerInv, Ledger
  <2>2. JobsOn(d) = {} <=> ~InFlight(d)
    BY DEF JobsOn, InFlight
  <2> QED
    BY <2>1, <2>2 DEF AttemptsInBooks
<1> QED
  BY <1>1, LedgerInvariant, PTL

\* A delivery succeeds only when its receiver acknowledged the last attempt, and
\* fails only after a terminal refusal or with its budget used up.
THEOREM VerdictsAreJust == Spec => []VerdictJustified
<1>1. LedgerInv => VerdictJustified
  BY DEF LedgerInv, Ledger, VerdictInBooks, VerdictJustified
<1> QED
  BY <1>1, LedgerInvariant, PTL

\* completedAt tells settled rows from all others, also after a replay.
THEOREM CompletedMeansSettled == Spec => []CompletedIffSettled
<1>1. LedgerInv => CompletedIffSettled
  BY DEF LedgerInv, Ledger, VerdictInBooks, CompletedIffSettled
<1> QED
  BY <1>1, LedgerInvariant, PTL

-----------------------------------------------------------------------------
(* The dispatchers implement the queue of DeliveryLifecycle *)

LEMMA TheOnlyOne ==
    ASSUME NEW S, NEW d, NEW j, {k \in S : k.id = d} = {j}
    PROVE  /\ \E k \in S : k.id = d
           /\ (CHOOSE k \in S : k.id = d) = j
<1>1. j \in S /\ j.id = d /\ \A k \in S : k.id = d => k = j
  OBVIOUS
<1> QED
  BY <1>1

\* What DeliveryLifecycle sees of one delivery, before and after a step.
LEMMA WorkerSeen ==
    ASSUME NEW d \in Deliveries
    PROVE  /\ ~Exists(d) => WorkerOf(d) = NoClaim
           /\ JobsOn(d) = {} => WorkerOf(d) = NoClaim
           /\ \A j : Exists(d) /\ JobsOn(d) = {j} => WorkerOf(d) = j.owner
<1>1. ASSUME JobsOn(d) = {} PROVE WorkerOf(d) = NoClaim
  BY <1>1 DEF WorkerOf, InFlight, JobsOn
<1>2. ASSUME NEW j, Exists(d), JobsOn(d) = {j} PROVE WorkerOf(d) = j.owner
  BY <1>2, TheOnlyOne DEF WorkerOf, InFlight, JobsOn
<1> QED
  BY <1>1, <1>2 DEF WorkerOf

LEMMA WorkerSeenNext ==
    ASSUME NEW d \in Deliveries
    PROVE  /\ ~Exists(d)' => WorkerOf(d)' = NoClaim
           /\ JobsOn(d)' = {} => WorkerOf(d)' = NoClaim
           /\ \A j : Exists(d)' /\ JobsOn(d)' = {j} => WorkerOf(d)' = j.owner
<1>1. ASSUME JobsOn(d)' = {} PROVE WorkerOf(d)' = NoClaim
  BY <1>1 DEF WorkerOf, InFlight, JobsOn
<1>2. ASSUME NEW j, Exists(d)', JobsOn(d)' = {j} PROVE WorkerOf(d)' = j.owner
  BY <1>2, TheOnlyOne DEF WorkerOf, InFlight, JobsOn
<1> QED
  BY <1>1, <1>2 DEF WorkerOf

Stays(d) ==
    /\ StageOf(d)' = StageOf(d)
    /\ delivery'[d].attemptCount = delivery[d].attemptCount
    /\ WorkerOf(d)' = WorkerOf(d)

\* The step of the lifecycle that one delivery sees.
LifecycleStep(d) ==
    \/ Lifecycle!Queue(d) \/ Lifecycle!Begin(d) \/ Lifecycle!Retry(d) \/ Lifecycle!Finish(d)
    \/ Lifecycle!GiveUp(d) \/ Lifecycle!Replay(d) \/ Lifecycle!Delete(d)
    \/ Stays(d)

LEMMA LifecycleBecomes ==
    ASSUME NEW d \in Deliveries, NEW s, NEW n, NEW w
    PROVE  Lifecycle!Becomes(d, s, n, w) <=>
             StageOf(d)' = s /\ delivery'[d].attemptCount = n /\ WorkerOf(d)' = w
  BY DEF Lifecycle!Becomes

LEMMA LifecycleFollows ==
    ASSUME BasicInv, BasicInv', ClaimProtocol, NEW d \in Deliveries, OneOfNine(d)
    PROVE  LifecycleStep(d)
<1>1. /\ delivery[d] \in Rows /\ delivery'[d] \in Rows
      /\ delivery[d].attemptCount \in Nat
  BY DEF BasicInv, TypeOK, Rows
<1>2. \A j \in JobsOn(d) : /\ j \in Jobs /\ j.owner \in Dispatchers
                           /\ j.phase = "settle" => j.result \in Outcomes
                           /\ j.attempt \in 1..MaxAttempts
                           /\ Exists(d) => /\ delivery[d].status = "delivering"
                                           /\ delivery[d].attemptCount + 1 = j.attempt
  BY DEF BasicInv, TypeOK, JobKnowsResult, AttemptWithinBudget, Jobs, JobsOn, ClaimProtocol,
         OneSender
<1>3. \/ JobsOn(d) = {}
      \/ \E j : JobsOn(d) = {j}
  <2>1. \A j \in JobsOn(d) : j \in jobs /\ j.id = d
    BY DEF JobsOn
  <2> QED
    BY <2>1, OnlyJob
<1>4. ASSUME StageOf(d)' = StageOf(d), delivery'[d].attemptCount = delivery[d].attemptCount,
             WorkerOf(d)' = WorkerOf(d)
      PROVE  LifecycleStep(d)
  BY <1>4 DEF LifecycleStep, Stays
<1>5. CASE Passes(d)
  <2>1. StageOf(d)' = StageOf(d) /\ (Exists(d)' <=> Exists(d))
    BY <1>5 DEF Passes, Waits, StageOf, Exists
  <2>2. WorkerOf(d)' = WorkerOf(d)
    BY <1>3, <1>5, <2>1, WorkerSeen, WorkerSeenNext DEF Passes
  <2> QED
    BY <1>4, <1>5, <2>1, <2>2 DEF Passes
<1>6. CASE Enters(d)
  <2>1. StageOf(d) = "unborn" /\ StageOf(d)' = "waiting" /\ delivery'[d].attemptCount = 0
    BY <1>6 DEF Enters, QueuedRow, StageOf
  <2>2. WorkerOf(d)' = NoClaim
    BY <1>6, WorkerSeenNext DEF Enters
  <2>3. Lifecycle!Queue(d)
    BY <2>1, <2>2, LifecycleBecomes DEF Lifecycle!Queue
  <2> QED
    BY <2>3 DEF LifecycleStep
<1>7. CASE Returns(d)
  <2>1. delivery'[d].status = "pending" /\ delivery'[d].attemptCount = 0
    BY <1>1, <1>7 DEF Returns, RequeuedRow, Rows
  <2>2. StageOf(d) \in {"succeeded", "failed"} /\ StageOf(d)' = "waiting"
    BY <1>7, <2>1 DEF Returns, Settled, StageOf
  <2>3. WorkerOf(d)' = NoClaim
    BY <1>7, WorkerSeenNext DEF Returns
  <2>4. Lifecycle!Replay(d)
    BY <2>1, <2>2, <2>3, LifecycleBecomes DEF Lifecycle!Replay
  <2> QED
    BY <2>4 DEF LifecycleStep
<1>8. CASE Vanishes(d)
  <2>1. StageOf(d)' = "deleted" /\ delivery'[d].attemptCount = 0 /\ ~Exists(d)'
    BY <1>8 DEF Vanishes, Absent, StageOf, Exists
  <2>2. Lifecycle!Delete(d)
    BY <2>1, LifecycleBecomes, WorkerSeenNext DEF Lifecycle!Delete
  <2> QED
    BY <2>2 DEF LifecycleStep
<1>9. CASE Starts(d)
  <2>1. PICK p \in Dispatchers :
          /\ delivery[d].status = "delivering"
          /\ delivery'[d] = delivery[d]
          /\ JobsOn(d) = {} /\ JobsOn(d)' = {NewJob(p, d)}
    BY <1>9 DEF Starts
  <2>2. StageOf(d) = "waiting" /\ StageOf(d)' = "waiting" /\ Exists(d)'
    BY <2>1 DEF StageOf, Exists
  <2>3. NewJob(p, d).owner = p
    BY DEF NewJob
  <2>4. WorkerOf(d) = NoClaim /\ WorkerOf(d)' = p
    BY <2>1, <2>2, <2>3, WorkerSeen, WorkerSeenNext
  <2>5. delivery[d].attemptCount < MaxAttempts
    BY <2>1 DEF BasicInv, AttemptWithinBudget
  <2>6. Lifecycle!Begin(d)
    BY <2>1, <2>2, <2>4, <2>5, LifecycleBecomes DEF Lifecycle!Begin
  <2> QED
    BY <2>6 DEF LifecycleStep
<1>10. ASSUME NEW j, NEW next, delivery'[d] = delivery[d], next.owner = j.owner,
              JobsOn(d) = {j}, JobsOn(d)' = {next}
       PROVE  LifecycleStep(d)
  <2>1. StageOf(d)' = StageOf(d) /\ (Exists(d)' <=> Exists(d))
    BY <1>10 DEF StageOf, Exists
  <2>2. WorkerOf(d)' = WorkerOf(d)
    BY <1>10, <2>1, WorkerSeen, WorkerSeenNext
  <2> QED
    BY <1>4, <1>10, <2>1, <2>2
<1>11. CASE Hears(d)
  <2>1. PICK j \in jobs, result \in Outcomes :
          /\ delivery'[d] = delivery[d]
          /\ JobsOn(d) = {j}
          /\ JobsOn(d)' = {[j EXCEPT !.phase = "record", !.result = result]}
    BY <1>11 DEF Hears
  <2>2. [j EXCEPT !.phase = "record", !.result = result].owner = j.owner
    BY <1>2, <2>1 DEF Jobs
  <2> QED
    BY <1>10, <2>1, <2>2
<1>12. CASE Logs(d)
  <2>1. PICK j \in jobs :
          /\ delivery'[d] = delivery[d]
          /\ JobsOn(d) = {j} /\ JobsOn(d)' = {[j EXCEPT !.phase = "settle"]}
    BY <1>12 DEF Logs
  <2>2. [j EXCEPT !.phase = "settle"].owner = j.owner
    BY <1>2, <2>1 DEF Jobs
  <2> QED
    BY <1>10, <2>1, <2>2
<1>13. ASSUME NEW j, Exists(d), JobsOn(d) = {j} PROVE Lifecycle!Working(d)
  <2>1. StageOf(d) = "waiting" /\ WorkerOf(d) = j.owner /\ j.owner \in Dispatchers
    BY <1>2, <1>13, WorkerSeen DEF StageOf
  <2> QED
    BY <2>1 DEF Lifecycle!Working
<1>14. CASE Ends(d)
  <2>1. PICK j \in jobs :
          /\ j.phase = "settle"
          /\ Exists(d)
          /\ delivery'[d] = FinalRow(delivery[d], j)
          /\ JobsOn(d) = {j} /\ JobsOn(d)' = {}
    BY <1>14 DEF Ends
  <2>2. /\ j \in Jobs /\ j.result \in Outcomes /\ j.attempt \in 1..MaxAttempts
        /\ j.attempt = delivery[d].attemptCount + 1
    BY <1>2, <2>1
  <2>3. /\ delivery'[d].attemptCount = delivery[d].attemptCount + 1
        /\ delivery'[d].status \in {"pending"} \cup Settled
        /\ delivery'[d].status = "pending" => delivery[d].attemptCount + 1 < MaxAttempts
    BY <1>1, <2>1, <2>2, FinalRowCoherent
  <2>4. Lifecycle!Working(d) /\ WorkerOf(d)' = NoClaim
    BY <1>13, <2>1, WorkerSeenNext
  <2>5. CASE delivery'[d].status = "pending"
    <3>1. StageOf(d)' = "waiting"
      BY <2>5 DEF StageOf
    <3>2. Lifecycle!Retry(d)
      BY <2>3, <2>4, <2>5, <3>1, LifecycleBecomes DEF Lifecycle!Retry
    <3> QED
      BY <3>2 DEF LifecycleStep
  <2>6. CASE delivery'[d].status \in Settled
    <3>1. StageOf(d)' \in {"succeeded", "failed"}
      BY <2>6 DEF StageOf, Settled
    <3>2. Lifecycle!Finish(d)
      BY <2>3, <2>4, <3>1, LifecycleBecomes DEF Lifecycle!Finish
    <3> QED
      BY <3>2 DEF LifecycleStep
  <2> QED
    BY <2>3, <2>5, <2>6
<1>15. CASE Fails(d)
  <2>1. PICK j \in jobs :
          /\ delivery'[d] = delivery[d]
          /\ JobsOn(d) = {j} /\ JobsOn(d)' = {}
    BY <1>15 DEF Fails
  <2>2. StageOf(d)' = StageOf(d) /\ WorkerOf(d)' = NoClaim
    BY <2>1, WorkerSeenNext DEF StageOf
  <2>3. CASE Exists(d)
    <3>1. StageOf(d) = "waiting" /\ Lifecycle!Working(d)
      BY <1>2, <1>13, <2>1, <2>3 DEF StageOf
    <3>2. Lifecycle!GiveUp(d)
      BY <2>1, <2>2, <3>1, LifecycleBecomes DEF Lifecycle!GiveUp
    <3> QED
      BY <3>2 DEF LifecycleStep
  <2>4. CASE ~Exists(d)
    BY <1>4, <2>1, <2>2, <2>4, WorkerSeen
  <2> QED
    BY <2>3, <2>4
<1> QED
  BY <1>5, <1>6, <1>7, <1>8, <1>9, <1>11, <1>12, <1>14, <1>15 DEF OneOfNine

LEMMA LifecycleInit == Init => Lifecycle!Init
<1> SUFFICES ASSUME Init PROVE Lifecycle!Init
  OBVIOUS
<1>1. \A d \in Deliveries : /\ StageOf(d) = "unborn" /\ WorkerOf(d) = NoClaim
                            /\ delivery[d].attemptCount = 0
  BY DEF Init, Absent, StageOf, WorkerOf, Exists
<1> QED
  BY <1>1 DEF Lifecycle!Init

LEMMA LifecycleNext ==
    TimelyInv /\ TimelyInv' /\ Timely /\ [Next]_vars => [Lifecycle!Next]_(Lifecycle!vars)
<1> SUFFICES ASSUME TimelyInv, TimelyInv', Timely, [Next]_vars PROVE Lifecycle!Next
  OBVIOUS
<1>1. BasicInv /\ BasicInv' /\ ClaimProtocol
  BY DEF TimelyInv
<1>2. \A d \in Deliveries : LifecycleStep(d)
  BY <1>1, SeenFromOneDelivery, LifecycleFollows
<1> QED
  BY <1>2 DEF LifecycleStep, Stays, Lifecycle!Next, Lifecycle!Becomes

\* In every behaviour in which no worker outlives staleClaimMs, the claim protocol
\* does no more than the delivery queue of DeliveryLifecycle: a delivery has one
\* worker at a time, its attempts are counted one by one by that worker, it ends
\* within its budget, and only a replay undoes the end.
THEOREM DispatchersKeepThePromise == Spec /\ []Timely => ImplementsLifecycle
  BY TimelyInvariant, LifecycleInit, LifecycleNext, PTL DEF Spec, ImplementsLifecycle, Lifecycle!Spec

\* In particular when the bounds leave no worker the time to be late.
COROLLARY PromptDispatchersKeepThePromise ==
    ASSUME MaxLate = 0
    PROVE  Spec => ImplementsLifecycle
<1>1. TimelyInv => Timely
  BY DEF TimelyInv, BasicInv, TypeOK, Budgets, Timely
<1> QED
  BY <1>1, TimelyInvariant, DispatchersKeepThePromise, PTL

-----------------------------------------------------------------------------
(* What one process sends at a time *)

\* A tick never picks more than it may send.
BatchSmall ==
    \A p \in Dispatchers : /\ IsFiniteSet(tick[p].picked)
                           /\ Cardinality(tick[p].picked) <= MaxConcurrent

\* A process runs deliver() calls only for the tick that waits for them ...
CrewOfTick ==
    \A j \in jobs : tick[j.owner].phase = "deliver" /\ tick[j.owner].claim = j.claim

\* ... whose rows are there ...
CrewHasRows == \A j \in jobs : Exists(j.id)

\* ... and which are not too many.
CrewSmall ==
    \A p \in Dispatchers : /\ IsFiniteSet(JobsOf(p))
                           /\ Cardinality(JobsOf(p)) <= MaxConcurrent

Crew == CrewOfTick /\ CrewHasRows /\ CrewSmall

CrewInv ==
    /\ BasicInv
    /\ left["fault"] <= MaxFaults /\ left["delete"] <= MaxDeletes
    /\ BatchSmall
    /\ Undisturbed => Crew

LEMMA CrewInit == Init => CrewInv
<1> SUFFICES ASSUME Init PROVE CrewInv
  OBVIOUS
<1>1. BasicInv
  BY BasicInit
<1>2. left["fault"] <= MaxFaults /\ left["delete"] <= MaxDeletes
  BY DispatchConstants DEF Init
<1>3. MaxConcurrent \in Nat /\ 0 <= MaxConcurrent
  BY DispatchConstants
<1>4. BatchSmall
  BY <1>3, FS_EmptySet DEF Init, IdleTick, BatchSmall
<1>5. \A p \in Dispatchers : JobsOf(p) = {}
  BY DEF Init, JobsOf
<1>6. CrewSmall
  BY <1>3, <1>5, FS_EmptySet DEF CrewSmall
<1>7. Crew
  BY <1>6 DEF Init, Crew, CrewOfTick, CrewHasRows
<1> QED
  BY <1>1, <1>2, <1>4, <1>7 DEF CrewInv

\* Deliver() calls that end leave the others as they were.
LEMMA CrewStays ==
    ASSUME Crew, jobs' \subseteq jobs,
           \A j \in jobs' : tick'[j.owner] = tick[j.owner],
           \A j \in jobs' : Exists(j.id) => delivery'[j.id].status \notin {"unborn", "deleted"}
    PROVE  Crew'
<1>1. CrewOfTick' /\ CrewHasRows'
  BY DEF Crew, CrewOfTick, CrewHasRows, Exists
<1>2. ASSUME NEW p \in Dispatchers
      PROVE  IsFiniteSet(JobsOf(p)') /\ Cardinality(JobsOf(p)') <= MaxConcurrent
  <2>1. IsFiniteSet(JobsOf(p)) /\ Cardinality(JobsOf(p)) <= MaxConcurrent
    BY DEF Crew, CrewSmall
  <2>2. JobsOf(p)' \subseteq JobsOf(p)
    BY DEF JobsOf
  <2>3. /\ IsFiniteSet(JobsOf(p)')
        /\ Cardinality(JobsOf(p)') <= Cardinality(JobsOf(p))
    BY <2>1, <2>2, FS_Subset
  <2>4. Cardinality(JobsOf(p)') \in Nat /\ Cardinality(JobsOf(p)) \in Nat
    BY <2>1, <2>3, FS_CardinalityType
  <2> QED
    BY <2>1, <2>3, <2>4, DispatchConstants
<1> QED
  BY <1>1, <1>2 DEF Crew, CrewSmall

\* One that goes on is still one.
LEMMA CrewProceeds ==
    ASSUME Crew, tick' = tick, delivery' = delivery, NEW j \in jobs, NEW next,
           jobs' = (jobs \ {j}) \cup {next},
           next.id = j.id, next.claim = j.claim, next.owner = j.owner
    PROVE  Crew'
<1>1. CrewOfTick' /\ CrewHasRows'
  BY DEF Crew, CrewOfTick, CrewHasRows, Exists
<1>2. ASSUME NEW p \in Dispatchers
      PROVE  IsFiniteSet(JobsOf(p)') /\ Cardinality(JobsOf(p)') <= MaxConcurrent
  <2>1. IsFiniteSet(JobsOf(p)) /\ Cardinality(JobsOf(p)) <= MaxConcurrent
    BY DEF Crew, CrewSmall
  <2>2. CASE j.owner # p
    <3>1. JobsOf(p)' = JobsOf(p)
      BY <2>2 DEF JobsOf
    <3> QED
      BY <2>1, <3>1
  <2>3. CASE j.owner = p
    <3> DEFINE rest == JobsOf(p) \ {j}
    <3>1. JobsOf(p)' = rest \cup {next} /\ j \in JobsOf(p)
      BY <2>3 DEF JobsOf
    <3>2. /\ IsFiniteSet(rest) /\ Cardinality(rest) = Cardinality(JobsOf(p)) - 1
          /\ Cardinality(JobsOf(p)) \in Nat
      BY <2>1, <3>1, FS_RemoveElement, FS_CardinalityType
    <3> HIDE DEF rest
    <3>3. /\ IsFiniteSet(rest \cup {next})
          /\ Cardinality(rest \cup {next}) =
               IF next \in rest THEN Cardinality(rest) ELSE Cardinality(rest) + 1
      BY <3>2, FS_AddElement
    <3>4. IsFiniteSet(JobsOf(p)')
      BY <3>1, <3>3
    <3>5. Cardinality(JobsOf(p)') <= MaxConcurrent
      BY <2>1, <3>1, <3>2, <3>3, DispatchConstants
    <3> QED
      BY <3>4, <3>5
  <2> QED
    BY <2>2, <2>3
<1> QED
  BY <1>1, <1>2 DEF Crew, CrewSmall

\* Load starts one deliver() for each row of the batch that it was granted.
LEMMA CrewStarts ==
    ASSUME BasicInv, BatchSmall, Crew, NEW p \in Dispatchers, Load(p)
    PROVE  Crew'
<1> DEFINE claimed == {d \in Deliveries : Granted(p, d)}
<1>1. /\ tick[p].phase = "load" /\ delivery' = delivery
      /\ jobs' = jobs \cup {NewJob(p, d) : d \in claimed}
      /\ tick' = [tick EXCEPT ![p] = IF claimed = {} THEN IdleTick
                                      ELSE [@ EXCEPT !.phase = "deliver", !.picked = {}]]
  BY DEF Load
<1>2. \A d : /\ NewJob(p, d).owner = p /\ NewJob(p, d).id = d
             /\ NewJob(p, d).claim = tick[p].claim
  BY DEF NewJob
<1>3. \A j \in jobs : j.owner # p
  BY <1>1 DEF Crew, CrewOfTick
<1>4. /\ tick[p] \in Ticks /\ p \in DOMAIN tick
      /\ \A q \in Dispatchers : q # p => tick'[q] = tick[q]
  BY <1>1 DEF BasicInv, TypeOK
<1>5. claimed # {} => tick'[p].phase = "deliver" /\ tick'[p].claim = tick[p].claim
  BY <1>1, <1>4 DEF Ticks
<1>6. CrewOfTick'
  <2> SUFFICES ASSUME NEW j \in jobs'
               PROVE  tick'[j.owner].phase = "deliver" /\ tick'[j.owner].claim = j.claim
    BY DEF CrewOfTick
  <2>1. CASE j \in jobs
    <3>1. j.owner \in Dispatchers /\ j.owner # p
      BY <1>3, <2>1 DEF BasicInv, TypeOK, Jobs
    <3> QED
      BY <1>4, <2>1, <3>1 DEF Crew, CrewOfTick
  <2>2. CASE \E d \in claimed : j = NewJob(p, d)
    BY <1>2, <1>5, <2>2
  <2> QED
    BY <1>1, <2>1, <2>2
<1>7. CrewHasRows'
  BY <1>1, <1>2 DEF Crew, CrewHasRows, Exists, Granted
<1>8. ASSUME NEW q \in Dispatchers
      PROVE  IsFiniteSet(JobsOf(q)') /\ Cardinality(JobsOf(q)') <= MaxConcurrent
  <2>1. CASE q # p
    <3>1. JobsOf(q)' = JobsOf(q)
      BY <1>1, <1>2, <2>1 DEF JobsOf
    <3> QED
      BY <3>1 DEF Crew, CrewSmall
  <2>2. CASE q = p
    <3>1. JobsOf(p)' = {NewJob(p, d) : d \in claimed}
      BY <1>1, <1>2, <1>3 DEF JobsOf
    <3>2. /\ IsFiniteSet(tick[p].picked) /\ Cardinality(tick[p].picked) <= MaxConcurrent
          /\ claimed \subseteq tick[p].picked
      BY DEF BatchSmall, Granted
    <3> HIDE DEF claimed
    <3>3. /\ IsFiniteSet(claimed) /\ Cardinality(claimed) <= Cardinality(tick[p].picked)
      BY <3>2, FS_Subset
    <3> DEFINE started == {NewJob(p, d) : d \in claimed}
               f == [d \in claimed |-> NewJob(p, d)]
    <3>4. f \in Surjection(claimed, started)
      BY DEF Surjection
    <3> HIDE DEF f, started
    <3>5. IsFiniteSet(started) /\ Cardinality(started) <= Cardinality(claimed)
      BY <3>3, <3>4, FS_Surjection
    <3>6. /\ Cardinality(started) \in Nat /\ Cardinality(claimed) \in Nat
          /\ Cardinality(tick[p].picked) \in Nat
      BY <3>2, <3>3, <3>5, FS_CardinalityType
    <3>7. IsFiniteSet(started) /\ Cardinality(started) <= MaxConcurrent
      BY <3>2, <3>3, <3>5, <3>6, DispatchConstants
    <3> QED
      BY <2>2, <3>1, <3>7 DEF started
  <2> QED
    BY <2>1, <2>2
<1> QED
  BY <1>6, <1>7, <1>8 DEF Crew, CrewSmall

LEMMA BatchStep ==
    ASSUME BasicInv, BatchSmall, [Next]_vars
    PROVE  BatchSmall'
<1>1. /\ MaxConcurrent \in Nat /\ 0 <= MaxConcurrent
      /\ tick \in [Dispatchers -> Ticks]
      /\ \A j \in jobs : j.owner \in Dispatchers
  BY DispatchConstants DEF BasicInv, TypeOK, Jobs
<1>2. ASSUME \A q \in Dispatchers : tick'[q].picked = tick[q].picked \/ tick'[q].picked = {}
      PROVE  BatchSmall'
  BY <1>1, <1>2, FS_EmptySet DEF BatchSmall
<1>3. ASSUME NEW p \in Dispatchers, Select(p) PROVE BatchSmall'
  <2> DEFINE due == {d \in Deliveries : Due(d)}
  <2>1. PICK picked \in SUBSET due :
          /\ Cardinality(picked) = Smaller(MaxConcurrent, Cardinality(due))
          /\ tick' = [tick EXCEPT ![p] = IF picked = {} THEN IdleTick
                                         ELSE [@ EXCEPT !.phase = "claim", !.picked = picked]]
    BY <1>3 DEF Select
  <2>2. IsFiniteSet(due)
    BY FiniteTable, FS_Subset
  <2>3. IsFiniteSet(picked) /\ Cardinality(due) \in Nat
    BY <2>2, FS_Subset, FS_CardinalityType
  <2>4. Cardinality(picked) <= MaxConcurrent
    BY <1>1, <2>1, <2>3 DEF Smaller
  <2>5. /\ \A q \in Dispatchers : q # p => tick'[q] = tick[q]
        /\ tick'[p].picked \in {{}, picked}
    BY <1>1, <2>1 DEF IdleTick, Ticks
  <2> QED
    BY <1>1, <2>3, <2>4, <2>5, FS_EmptySet DEF BatchSmall
<1>4. ASSUME NEW p \in Dispatchers,
             \/ TickStart(p) \/ Sweep(p) \/ Claim(p) \/ Load(p) \/ TickEnds(p) \/ TickThrows(p)
      PROVE  BatchSmall'
  <2>1. \A q \in Dispatchers : q # p => tick'[q] = tick[q]
    BY <1>1, <1>4 DEF TickStart, Sweep, Claim, Load, TickEnds, TickThrows
  <2>2. tick[p] \in Ticks
    BY <1>1
  <2>3. CASE TickStart(p) \/ TickEnds(p) \/ TickThrows(p)
    <3>1. tick'[p].picked = {}
      BY <1>1, <2>3 DEF TickStart, TickEnds, TickThrows, IdleTick
    <3> QED
      BY <1>2, <2>1, <3>1
  <2>4. CASE Sweep(p) \/ Claim(p)
    <3>1. tick'[p].picked = tick[p].picked
      BY <1>1, <2>2, <2>4 DEF Sweep, Claim, Ticks
    <3> QED
      BY <1>2, <2>1, <3>1
  <2>5. CASE Load(p)
    <3>1. tick'[p].picked = {}
      BY <1>1, <2>2, <2>5 DEF Load, IdleTick, Ticks
    <3> QED
      BY <1>2, <2>1, <3>1
  <2> QED
    BY <1>4, <2>3, <2>4, <2>5
<1>5. ASSUME NEW j \in jobs, JobStep(j) \/ JobThrows(j) \/ SettleThrowsAfterCommit(j)
      PROVE  BatchSmall'
  <2>1. tick' = tick \/ TickFails(j)
    BY <1>5 DEF JobStep, Send, Record, Settle, JobFindsNoRow, JobThrows, SettleThrowsAfterCommit
  <2>2. \A q \in Dispatchers : tick'[q].picked = tick[q].picked \/ tick'[q].picked = {}
    BY <1>1, <2>1 DEF TickFails, IdleTick
  <2> QED
    BY <1>2, <2>2
<1>6. ASSUME NEW p \in Dispatchers, Crash(p) \/ Stop(p) \/ Exit(p) \/ Restart(p)
      PROVE  BatchSmall'
  <2>1. \A q \in Dispatchers : tick'[q].picked = tick[q].picked \/ tick'[q].picked = {}
    BY <1>1, <1>6 DEF Crash, Stop, Exit, Restart, Dies, IdleTick, DownTick
  <2> QED
    BY <1>2, <2>1
<1>7. ASSUME tick' = tick PROVE BatchSmall'
  BY <1>2, <1>7
<1> QED
  BY <1>3, <1>4, <1>5, <1>6, <1>7
     DEF Next, TickStep, CreateMany, Replay, TimePasses, ClaimAges, DeleteEndpoint, vars

\* A fault or a deletion that happened is never undone.
LEMMA UndisturbedBefore ==
    ASSUME left \in Budgets, left["fault"] <= MaxFaults, left["delete"] <= MaxDeletes,
           TypeOK, [Next]_vars
    PROVE  /\ left'["fault"] <= MaxFaults /\ left'["delete"] <= MaxDeletes
           /\ Undisturbed' => Undisturbed /\ ~Spend("fault") /\ ~Spend("delete")
<1>1. CASE left' = left
  <2>1. ~Spend("fault") /\ ~Spend("delete")
    BY <1>1 DEF Spend, Budgets
  <2> QED
    BY <1>1, <2>1 DEF Undisturbed
<1>2. ASSUME NEW kind \in {"crash", "fault", "late", "replay", "delete"}, Spend(kind)
      PROVE  /\ left'["fault"] <= MaxFaults /\ left'["delete"] <= MaxDeletes
             /\ Undisturbed' => Undisturbed /\ ~Spend("fault") /\ ~Spend("delete")
  BY <1>2, DispatchConstants DEF Spend, Budgets, Undisturbed
<1> QED
  BY <1>1, <1>2, LeftOnlySpent

LEMMA CrewStep ==
    ASSUME BasicInv, BatchSmall, Crew, [Next]_vars, ~Spend("fault"), ~Spend("delete")
    PROVE  Crew'
<1>1. /\ tick \in [Dispatchers -> Ticks] /\ delivery \in [Deliveries -> Rows]
      /\ jobs \subseteq Jobs
      /\ \A j \in jobs : j.owner \in Dispatchers /\ j.id \in Deliveries
  BY DEF BasicInv, TypeOK, Jobs
<1>2. \A j \in jobs : tick[j.owner].phase = "deliver" /\ Exists(j.id)
  BY DEF Crew, CrewOfTick, CrewHasRows
<1>3. ASSUME jobs' = jobs, tick' = tick,
              \A d \in Deliveries : \/ delivery'[d].status = delivery[d].status
                                   \/ delivery'[d].status = "pending"
       PROVE  Crew'
  BY <1>1, <1>3, CrewStays DEF Exists
<1>4. ASSUME NEW S \in SUBSET Deliveries, CreateMany(S) PROVE Crew'
  BY <1>4, <1>3 DEF CreateMany, QueuedRow
<1>5. ASSUME NEW d \in Deliveries, Replay(d) PROVE Crew'
  <2>1. RequeuedRow(delivery[d]).status = "pending"
    BY <1>1 DEF RequeuedRow, Rows
  <2> QED
    BY <1>1, <1>5, <1>3, <2>1 DEF Replay
<1>6. ASSUME NEW d \in Deliveries, TimePasses(d) \/ ClaimAges(d) PROVE Crew'
  <2>1. \A x \in Deliveries : delivery'[x].status = delivery[x].status
    BY <1>1, <1>6 DEF TimePasses, ClaimAges, Rows
  <2> QED
    BY <1>6, <1>3, <2>1 DEF TimePasses, ClaimAges
<1>7. ASSUME NEW e \in Endpoints, DeleteEndpoint(e) PROVE Crew'
  BY <1>7 DEF DeleteEndpoint
<1>8. ASSUME NEW p \in Dispatchers, jobs' \subseteq jobs, \A j \in jobs' : j.owner # p,
             \A q \in Dispatchers : q # p => tick'[q] = tick[q],
             \A d \in Deliveries : Exists(d) => delivery'[d].status \notin {"unborn", "deleted"}
      PROVE  Crew'
  BY <1>1, <1>8, CrewStays
<1>9. ASSUME NEW p \in Dispatchers, TickStart(p) \/ Select(p) PROVE Crew'
  <2>1. \A j \in jobs : j.owner # p
    BY <1>2, <1>9 DEF TickStart, MayTick, Select
  <2> QED
    BY <1>1, <1>8, <1>9, <2>1 DEF TickStart, Select, Exists
<1>10. ASSUME NEW p \in Dispatchers, Sweep(p) PROVE Crew'
  <2>1. \A j \in jobs : j.owner # p
    BY <1>2, <1>10 DEF Sweep
  <2>2. \A d \in Deliveries : ReleasedRow(delivery[d]).status = "pending"
    BY <1>1 DEF ReleasedRow, Rows
  <2>3. \A d \in Deliveries : delivery'[d].status \in {"pending", delivery[d].status}
    BY <1>10, <2>2 DEF Sweep
  <2> QED
    BY <1>1, <1>8, <1>10, <2>1, <2>3 DEF Sweep, Exists
<1>11. ASSUME NEW p \in Dispatchers, Claim(p) PROVE Crew'
  <2>1. \A j \in jobs : j.owner # p
    BY <1>2, <1>11 DEF Claim
  <2>2. \A c : \A d \in Deliveries : ClaimedRow(delivery[d], c).status = "delivering"
    BY <1>1 DEF ClaimedRow, Rows
  <2>3. \A d \in Deliveries : delivery'[d].status \in {"delivering", delivery[d].status}
    BY <1>11, <2>2 DEF Claim
  <2> QED
    BY <1>1, <1>8, <1>11, <2>1, <2>3 DEF Claim, Exists
<1>12. ASSUME NEW p \in Dispatchers, TickEnds(p) PROVE Crew'
  <2>1. \A j \in jobs : j.owner # p
    BY <1>12 DEF TickEnds, JobsUnder, Crew, CrewOfTick
  <2> QED
    BY <1>1, <1>8, <1>12, <2>1 DEF TickEnds, Exists
<1>13. ASSUME NEW p \in Dispatchers, TickThrows(p) PROVE Crew'
  BY <1>13 DEF TickThrows
<1>14. ASSUME NEW j \in jobs, NEW result \in Outcomes, Send(j, result) PROVE Crew'
  <2> DEFINE next == [j EXCEPT !.phase = "record", !.result = result]
  <2>1. next.id = j.id /\ next.claim = j.claim /\ next.owner = j.owner
    BY <1>1 DEF Jobs
  <2>2. tick' = tick /\ delivery' = delivery /\ jobs' = (jobs \ {j}) \cup {next}
    BY <1>14 DEF Send
  <2> HIDE DEF next
  <2> QED
    BY <2>1, <2>2, CrewProceeds
<1>15. ASSUME NEW j \in jobs, Record(j) PROVE Crew'
  <2> DEFINE next == [j EXCEPT !.phase = "settle"]
  <2>1. next.id = j.id /\ next.claim = j.claim /\ next.owner = j.owner
    BY <1>1 DEF Jobs
  <2>2. tick' = tick /\ delivery' = delivery /\ jobs' = (jobs \ {j}) \cup {next}
    BY <1>15 DEF Record
  <2> HIDE DEF next
  <2> QED
    BY <2>1, <2>2, CrewProceeds
<1>16. ASSUME NEW j \in jobs, Settle(j) PROVE Crew'
  <2>1. /\ tick' = tick /\ jobs' = jobs \ {j} /\ j.phase = "settle"
        /\ \A d \in Deliveries : delivery'[d] = IF d = j.id THEN FinalRow(delivery[d], j)
                                                ELSE delivery[d]
    BY <1>1, <1>16 DEF Settle
  <2>2. j \in Jobs /\ j.result \in Outcomes /\ j.attempt \in 1..MaxAttempts
    BY <1>1, <2>1 DEF BasicInv, JobKnowsResult, AttemptWithinBudget
  <2>3. FinalRow(delivery[j.id], j).status \in {"pending"} \cup Settled
    BY <1>1, <2>2, FinalRowCoherent
  <2> QED
    BY <1>1, <2>1, <2>3, CrewStays DEF Exists, Settled
<1>17. ASSUME NEW j \in jobs, JobFindsNoRow(j) \/ JobThrows(j) \/ SettleThrowsAfterCommit(j)
       PROVE  Crew'
  BY <1>2, <1>17 DEF JobFindsNoRow, JobThrows, SettleThrowsAfterCommit
<1>18. ASSUME NEW p \in Dispatchers, Crash(p) \/ Exit(p) PROVE Crew'
  <2>1. /\ jobs' = jobs \ JobsOf(p) /\ tick' = [tick EXCEPT ![p] = DownTick]
        /\ delivery' = delivery
    BY <1>18 DEF Crash, Exit, Dies
  <2>2. jobs' \subseteq jobs /\ \A j \in jobs' : j.owner # p
    BY <2>1 DEF JobsOf
  <2> QED
    BY <1>1, <1>8, <2>1, <2>2 DEF Exists
<1>19. ASSUME NEW p \in Dispatchers, Restart(p) PROVE Crew'
  <2>1. \A j \in jobs : j.owner # p
    BY <1>2, <1>19 DEF Restart
  <2> QED
    BY <1>1, <1>8, <1>19, <2>1 DEF Restart, Exists
<1> QED
  BY <1>3, <1>4, <1>5, <1>6, <1>7, <1>9, <1>10, <1>11, <1>12, <1>13, <1>14, <1>15, <1>16, <1>17,
     <1>18, <1>19, CrewStarts DEF Next, TickStep, JobStep, Stop, vars

LEMMA CrewInvStep == CrewInv /\ [Next]_vars => CrewInv'
<1> SUFFICES ASSUME CrewInv, [Next]_vars PROVE CrewInv'
  OBVIOUS
<1>1. BasicInv /\ BasicInv' /\ BatchSmall'
  BY BasicStep, BatchStep DEF CrewInv
<1>2. /\ left'["fault"] <= MaxFaults /\ left'["delete"] <= MaxDeletes
      /\ Undisturbed' => Undisturbed /\ ~Spend("fault") /\ ~Spend("delete")
  BY <1>1, UndisturbedBefore DEF CrewInv, BasicInv, TypeOK
<1>3. Undisturbed' => Crew'
  BY <1>1, <1>2, CrewStep DEF CrewInv
<1> QED
  BY <1>1, <1>2, <1>3 DEF CrewInv

LEMMA CrewInvariant == Spec => []CrewInv
  BY CrewInit, CrewInvStep, PTL DEF Spec

\* As long as no statement has thrown and no endpoint was deleted, no process ever
\* sends more than WEBHOOKS_MAX_CONCURRENT_DELIVERIES deliveries at a time, however
\* many rows are due and however often it is killed, stopped and restarted.
THEOREM ConcurrencyIsBounded == Spec => []BoundedConcurrency
<1>1. CrewInv => BoundedConcurrency
  BY DEF CrewInv, Crew, CrewSmall, BoundedConcurrency
<1> QED
  BY <1>1, CrewInvariant, PTL

\* Under the same premise a graceful shutdown leaves no deliver() call behind: the
\* exit waits for the tick, and the tick for everything it sends.
THEOREM ExitIsClean == Spec => ExitAbandonsNothing
<1>1. ASSUME CrewInv, NEW p \in Dispatchers, Undisturbed, Exit(p) PROVE JobsOf(p) = {}
  BY <1>1 DEF CrewInv, Crew, CrewOfTick, Exit, JobsOf
<1>2. CrewInv /\ [Next]_vars =>
        [\A p \in Dispatchers : Undisturbed /\ Exit(p) => JobsOf(p) = {}]_vars
  BY <1>1
<1> QED
  BY <1>2, CrewInvariant, PTL DEF Spec, ExitAbandonsNothing

=============================================================================
