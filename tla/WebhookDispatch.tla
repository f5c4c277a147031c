--------------------------- MODULE WebhookDispatch ---------------------------
(***************************************************************************)
(* The webhook delivery engine: rows of WebhookDelivery in Postgres, and   *)
(* any number of API processes that each run one DeliveryDispatcher over   *)
(* the shared table (src/modules/webhooks/infrastructure).                 *)
(*                                                                         *)
(* One step is one database statement or one network exchange, that is,    *)
(* one `await` of the code: between two of them another process, another   *)
(* delivery of the same Promise.all, a user's request, a crash or the      *)
(* clock may act.                                                          *)
(*                                                                         *)
(* Time is abstract.  nextAttemptAt is "none" (null), "ahead" (later than  *)
(* the clock reading of every current tick) or "due"; TimePasses turns     *)
(* "ahead" into "due".  updatedAt matters only against staleClaimMs: a     *)
(* row is `stale` once its last write is older than that, and every write  *)
(* makes it fresh again.                                                   *)
(***************************************************************************)
EXTENDS Naturals, FiniteSets

CONSTANTS
    Deliveries,     \* ids of WebhookDelivery rows
    Endpoints,      \* ids of WebhookEndpoint rows
    EndpointOf,     \* the endpointId column
    Dispatchers,    \* API processes, one DeliveryDispatcher each
    ClaimIds,       \* values of randomUUID(); finite, never reused while referenced
    NoClaim,        \* claimId = null
    MaxAttempts,    \* WEBHOOKS_MAX_ATTEMPTS
    MaxConcurrent,  \* WEBHOOKS_MAX_CONCURRENT_DELIVERIES
    \* Bounds on what the environment does in one behaviour:
    MaxCrashes,     \* kills and graceful stops of API processes
    MaxFaults,      \* database statements that throw
    MaxLate,        \* claims that grow stale while their worker is still alive
    MaxReplays,     \* replay requests that are accepted
    MaxDeletes      \* endpoints deleted by their owner

ASSUME DispatchConstants ==
    /\ EndpointOf \in [Deliveries -> Endpoints]
    /\ NoClaim \notin ClaimIds
    /\ MaxAttempts \in Nat \ {0}
    /\ MaxConcurrent \in Nat \ {0}
    /\ {MaxCrashes, MaxFaults, MaxLate, MaxReplays, MaxDeletes} \subseteq Nat

\* null is not a process; the refinement at the end has it stand for "nobody".
ASSUME NobodyIsNoProcess == NoClaim \notin Dispatchers

\* The ids that a behaviour uses are those of one table.
ASSUME FiniteTable == IsFiniteSet(Deliveries)

VARIABLES
    delivery,   \* [Deliveries -> Rows]: the WebhookDelivery table
    tick,       \* [Dispatchers -> Ticks]: the runOnce() of each process
    stopping,   \* processes whose dispatcher has been told to stop()
    jobs,       \* the running deliver() calls of all processes
    round,      \* what happened to each delivery since it was (re)queued
    left        \* how much of each bound above is left

vars == <<delivery, tick, stopping, jobs, round, left>>

-----------------------------------------------------------------------------
(* Types *)

Settled == {"succeeded", "failed"}
Outcomes == {"ok", "retry", "terminal"}

\* "unborn" and "deleted": there is no such row (yet, any more).
Rows == [status : {"unborn", "pending", "delivering", "deleted"} \cup Settled,
         attemptCount : Nat,
         nextAttempt : {"none", "ahead", "due"},
         claimId : ClaimIds \cup {NoClaim},
         completed : BOOLEAN,       \* completedAt is set
         stale : BOOLEAN]           \* updatedAt < now - staleClaimMs

\* "down": no process.  "idle": up, tickInFlight undefined.  The other phases
\* name the await that the running tick is about to make.
Ticks == [phase : {"down", "idle", "sweep", "select", "claim", "load", "deliver"},
          claim : ClaimIds \cup {NoClaim},
          picked : SUBSET Deliveries]

\* One deliver() call: waiting for the sender, for recordAttempt, or for the
\* statement that settles or reschedules the row.
Jobs == [owner : Dispatchers, claim : ClaimIds, id : Deliveries,
         attempt : Nat, phase : {"send", "record", "settle"},
         result : Outcomes \cup {"none"}]

\* History since the row was created or replayed.  `logged` counts the
\* WebhookDeliveryAttempt rows; the other fields exist only for properties.
Rounds == [started : Nat, logged : Nat, lost : Nat, verdict : Outcomes \cup {"none"}]

Budgets == [{"crash", "fault", "late", "replay", "delete"} -> Nat]

EmptyRound == [started |-> 0, logged |-> 0, lost |-> 0, verdict |-> "none"]
IdleTick == [phase |-> "idle", claim |-> NoClaim, picked |-> {}]
DownTick == [phase |-> "down", claim |-> NoClaim, picked |-> {}]
Absent(status) == [status |-> status, attemptCount |-> 0, nextAttempt |-> "none",
                   claimId |-> NoClaim, completed |-> FALSE, stale |-> FALSE]

TypeOK ==
    /\ delivery \in [Deliveries -> Rows]
    /\ tick \in [Dispatchers -> Ticks]
    /\ stopping \subseteq Dispatchers
    /\ jobs \subseteq Jobs
    /\ round \in [Deliveries -> Rounds]
    /\ left \in Budgets

-----------------------------------------------------------------------------
(* What the statements of prismaWebhooksRepository.ts write *)

\* createMany
QueuedRow == [status |-> "pending", attemptCount |-> 0, nextAttempt |-> "ahead",
              claimId |-> NoClaim, completed |-> FALSE, stale |-> FALSE]

\* claimDue, the updateMany
ClaimedRow(row, c) ==
    [row EXCEPT !.status = "delivering", !.claimId = c, !.nextAttempt = "none",
                !.stale = FALSE]

\* Mutant: releasing a claim gives the delivery a fresh budget.
ReleasedRowForgetsAttempts(row) ==
    [row EXCEPT !.status = "pending", !.nextAttempt = "ahead", !.claimId = NoClaim,
                !.stale = FALSE, !.attemptCount = 0]

\* releaseStaleClaims
ReleasedRow(row) ==
    [row EXCEPT !.status = "pending", !.nextAttempt = "ahead", !.claimId = NoClaim,
                !.stale = FALSE]

\* Mutant: a replay leaves completedAt alone.
RequeuedRowKeepsCompletedAt(row) ==
    [row EXCEPT !.status = "pending", !.nextAttempt = "ahead", !.attemptCount = 0,
                !.claimId = NoClaim, !.stale = FALSE]

\* requeue
RequeuedRow(row) ==
    [row EXCEPT !.status = "pending", !.nextAttempt = "ahead", !.attemptCount = 0,
                !.completed = FALSE, !.claimId = NoClaim, !.stale = FALSE]

\* Mutant: writes a status that is not one of DELIVERY_STATUSES.
CompletedRowUnknownStatus(row, status, attempt) ==
    [row EXCEPT !.status = "completed", !.attemptCount = attempt, !.completed = TRUE,
                !.claimId = NoClaim, !.nextAttempt = "none", !.stale = FALSE]

\* markSucceeded and markFailed
CompletedRow(row, status, attempt) ==
    [row EXCEPT !.status = status, !.attemptCount = attempt, !.completed = TRUE,
                !.claimId = NoClaim, !.nextAttempt = "none", !.stale = FALSE]

\* Mutants: scheduleRetry keeps the claim, the old count, or no time of retry.
RetriedRowKeepsClaim(row, attempt) ==
    [row EXCEPT !.status = "pending", !.attemptCount = attempt,
                !.nextAttempt = "ahead", !.stale = FALSE]

RetriedRowKeepsCount(row, attempt) ==
    [row EXCEPT !.status = "pending", !.nextAttempt = "ahead", !.claimId = NoClaim,
                !.stale = FALSE]

RetriedRowUnscheduled(row, attempt) ==
    [row EXCEPT !.status = "pending", !.attemptCount = attempt, !.claimId = NoClaim,
                !.stale = FALSE]

\* scheduleRetry: leaves completedAt as it finds it
RetriedRow(row, attempt) ==
    [row EXCEPT !.status = "pending", !.attemptCount = attempt,
                !.nextAttempt = "ahead", !.claimId = NoClaim, !.stale = FALSE]

Exists(d) == delivery[d].status \notin {"unborn", "deleted"}

\* The where clause that claimDue uses twice
Due(d) == delivery[d].status = "pending" /\ delivery[d].nextAttempt = "due"

\* Mutants: the sweep ignores updatedAt; there is no sweep.
ClaimIsStaleAtOnce(d) == delivery[d].status = "delivering"
ClaimIsNeverStale(d) == FALSE

\* The where clause of releaseStaleClaims
ClaimIsStale(d) == delivery[d].status = "delivering" /\ delivery[d].stale

\* Mutants: off by one, in both directions.
BudgetSpentLate(attempt) == attempt > MaxAttempts
BudgetSpentEarly(attempt) == attempt + 1 >= MaxAttempts

\* nextDelaySeconds(attempt) = null
BudgetSpent(attempt) == attempt >= MaxAttempts

-----------------------------------------------------------------------------
(* Helpers *)

Smaller(a, b) == IF a <= b THEN a ELSE b

JobsOf(p) == {j \in jobs : j.owner = p}
JobsUnder(c) == {j \in jobs : j.claim = c}
InFlight(d) == \E j \in jobs : j.id = d

\* A living worker relies on the claim that d's row carries: its tick is about
\* to load the rows it has just claimed, or its deliver() is running.
Held(d) ==
    \/ \E p \in Dispatchers : tick[p].phase = "load" /\ tick[p].claim = delivery[d].claimId
    \/ \E j \in jobs : j.id = d /\ j.claim = delivery[d].claimId

ClaimsInUse ==
    {delivery[d].claimId : d \in Deliveries} \cup {tick[p].claim : p \in Dispatchers}
        \cup {j.claim : j \in jobs}

Spend(kind) == left[kind] > 0 /\ left' = [left EXCEPT ![kind] = @ - 1]

\* The deliver() calls in `dead` end without having written their row.
Lose(dead) ==
    round' = [d \in Deliveries |->
                IF \E j \in dead : j.id = d
                THEN [round[d] EXCEPT !.lost = @ + 1] ELSE round[d]]

\* A rejected deliver() rejects the Promise.all of its tick, if that is still
\* waiting: runOnce throws, tick() logs it and clears tickInFlight, and the
\* other deliver() calls of the batch keep running.
TickFails(j) ==
    tick' = [tick EXCEPT ![j.owner] = IF @.claim = j.claim THEN IdleTick ELSE @]

-----------------------------------------------------------------------------
(* Users of the API, and the clock *)

\* deliveryService.enqueue: one createMany for all endpoints of an event.
CreateMany(S) ==
    /\ S # {}
    /\ \A d \in S : delivery[d].status = "unborn"
    /\ delivery' = [d \in Deliveries |-> IF d \in S THEN QueuedRow ELSE delivery[d]]
    /\ UNCHANGED <<tick, stopping, jobs, round, left>>

\* deliveryService.replay.  Its findOwned only chooses the error a caller sees;
\* what it does is the guarded updateMany of requeue.
Replay(d) ==
    /\ delivery[d].status \in Settled
    /\ Spend("replay")
    /\ delivery' = [delivery EXCEPT ![d] = RequeuedRow(@)]
    /\ round' = [round EXCEPT ![d] = EmptyRound]
    /\ UNCHANGED <<tick, stopping, jobs>>

\* endpointService.remove: deletes the endpoint and, by the cascade of the
\* schema, its deliveries; a later createMany for it violates the foreign key.
DeleteEndpoint(e) ==
    /\ Spend("delete")
    /\ delivery' = [d \in Deliveries |->
                      IF EndpointOf[d] = e THEN Absent("deleted") ELSE delivery[d]]
    /\ UNCHANGED <<tick, stopping, jobs, round>>

\* nextAttemptAt comes to lie in the past.
TimePasses(d) ==
    /\ delivery[d].nextAttempt = "ahead"
    /\ delivery' = [delivery EXCEPT ![d].nextAttempt = "due"]
    /\ UNCHANGED <<tick, stopping, jobs, round, left>>

\* staleClaimMs pass after the claim.  Nothing in the code ends a worker before
\* that, but a worker so slow spends the bound MaxLate.
ClaimAges(d) ==
    /\ delivery[d].status = "delivering"
    /\ ~delivery[d].stale
    /\ IF Held(d) THEN Spend("late") ELSE UNCHANGED left
    /\ delivery' = [delivery EXCEPT ![d].stale = TRUE]
    /\ UNCHANGED <<tick, stopping, jobs, round>>

-----------------------------------------------------------------------------
(* One tick of a dispatcher: tick(), runOnce() and claimDue() *)

\* Mutants: ticks overlap; stop() leaves the timer running.
MayTickAnyTime(p) == tick[p].phase # "down" /\ p \notin stopping
MayTickWhenStopping(p) == tick[p].phase = "idle"

\* Once stop() has run there is no timer left to call tick().
MayTick(p) == tick[p].phase = "idle" /\ p \notin stopping

TickStart(p) ==
    /\ MayTick(p)
    /\ \E c \in ClaimIds \ ClaimsInUse :
         tick' = [tick EXCEPT ![p] = [phase |-> "sweep", claim |-> c, picked |-> {}]]
    /\ UNCHANGED <<delivery, stopping, jobs, round, left>>

Sweep(p) ==
    /\ tick[p].phase = "sweep"
    /\ delivery' = [d \in Deliveries |->
                      IF ClaimIsStale(d) THEN ReleasedRow(delivery[d]) ELSE delivery[d]]
    /\ tick' = [tick EXCEPT ![p].phase = "select"]
    /\ UNCHANGED <<stopping, jobs, round, left>>

\* The ids of at most maxConcurrent due rows.  The code takes those that have
\* been due longest; which they are is left open.
Select(p) ==
    LET due == {d \in Deliveries : Due(d)} IN
    /\ tick[p].phase = "select"
    /\ \E picked \in SUBSET due :
         /\ Cardinality(picked) = Smaller(MaxConcurrent, Cardinality(due))
         /\ tick' = [tick EXCEPT ![p] =
                       IF picked = {} THEN IdleTick
                       ELSE [@ EXCEPT !.phase = "claim", !.picked = picked]]
    /\ UNCHANGED <<delivery, stopping, jobs, round, left>>

\* Mutant: the updateMany does not repeat the where clause of the findMany.
ClaimableUnchecked(p, d) == d \in tick[p].picked /\ Exists(d)

\* Stamps the rows that are still due; another dispatcher may have been faster.
Claimable(p, d) == d \in tick[p].picked /\ Due(d)

Claim(p) ==
    /\ tick[p].phase = "claim"
    /\ delivery' = [d \in Deliveries |->
                      IF Claimable(p, d) THEN ClaimedRow(delivery[d], tick[p].claim)
                      ELSE delivery[d]]
    /\ tick' = [tick EXCEPT ![p].phase = "load"]
    /\ UNCHANGED <<stopping, jobs, round, left>>

\* Mutant: the rows are read back without asking whose claim they carry.
GrantedToAnyone(p, d) == d \in tick[p].picked /\ delivery[d].status = "delivering"

\* The rows a tick may send: those that carry its own claim.
Granted(p, d) ==
    /\ d \in tick[p].picked
    /\ delivery[d].claimId = tick[p].claim
    /\ delivery[d].status = "delivering"

NewJob(p, d) ==
    [owner |-> p, claim |-> tick[p].claim, id |-> d,
     attempt |-> delivery[d].attemptCount + 1, phase |-> "send", result |-> "none"]

\* Reads the claimed rows back and starts deliver() for each of them.
Load(p) ==
    LET claimed == {d \in Deliveries : Granted(p, d)} IN
    /\ tick[p].phase = "load"
    /\ jobs' = jobs \cup {NewJob(p, d) : d \in claimed}
    /\ round' = [d \in Deliveries |->
                   IF d \in claimed THEN [round[d] EXCEPT !.started = @ + 1] ELSE round[d]]
    /\ tick' = [tick EXCEPT ![p] =
                  IF claimed = {} THEN IdleTick
                  ELSE [@ EXCEPT !.phase = "deliver", !.picked = {}]]
    /\ UNCHANGED <<delivery, stopping, left>>

\* Mutant: the tick does not wait for its deliveries.
TickEndsAtOnce(p) ==
    /\ tick[p].phase = "deliver"
    /\ tick' = [tick EXCEPT ![p] = IdleTick]
    /\ UNCHANGED <<delivery, stopping, jobs, round, left>>

\* The Promise.all of the tick is fulfilled.
TickEnds(p) ==
    /\ tick[p].phase = "deliver"
    /\ JobsUnder(tick[p].claim) = {}
    /\ tick' = [tick EXCEPT ![p] = IdleTick]
    /\ UNCHANGED <<delivery, stopping, jobs, round, left>>

\* A statement of releaseStaleClaims or claimDue throws; tick() swallows it.
\* What the statements before it wrote stays written.
TickThrows(p) ==
    /\ tick[p].phase \in {"sweep", "select", "claim", "load"}
    /\ Spend("fault")
    /\ tick' = [tick EXCEPT ![p] = IdleTick]
    /\ UNCHANGED <<delivery, stopping, jobs, round>>

-----------------------------------------------------------------------------
(* One deliver() call *)

\* sender.send resolves: 2xx; a timeout, a transport error, another status or an
\* unresolvable host; a malformed or blocked destination.
Send(j, result) ==
    /\ j.phase = "send"
    /\ jobs' = (jobs \ {j}) \cup {[j EXCEPT !.phase = "record", !.result = result]}
    /\ UNCHANGED <<delivery, tick, stopping, round, left>>

Record(j) ==
    /\ j.phase = "record"
    /\ Exists(j.id)
    /\ jobs' = (jobs \ {j}) \cup {[j EXCEPT !.phase = "settle"]}
    /\ round' = [round EXCEPT ![j.id].logged = @ + 1, ![j.id].verdict = j.result]
    /\ UNCHANGED <<delivery, tick, stopping, left>>

\* What deliver() finally writes: where {id}, whoever holds the row by then.
FinalRow(row, j) ==
    CASE j.result = "ok" -> CompletedRow(row, "succeeded", j.attempt)
      [] j.result = "terminal" -> CompletedRow(row, "failed", j.attempt)
      [] j.result = "retry" /\ BudgetSpent(j.attempt) -> CompletedRow(row, "failed", j.attempt)
      [] OTHER -> RetriedRow(row, j.attempt)

Settle(j) ==
    /\ j.phase = "settle"
    /\ Exists(j.id)
    /\ jobs' = jobs \ {j}
    /\ delivery' = [delivery EXCEPT ![j.id] = FinalRow(@, j)]
    /\ UNCHANGED <<tick, stopping, round, left>>

\* recordAttempt violates the foreign key, or update finds no row, because the
\* endpoint was deleted in the meantime.
JobFindsNoRow(j) ==
    /\ j.phase \in {"record", "settle"}
    /\ ~Exists(j.id)
    /\ jobs' = jobs \ {j}
    /\ TickFails(j)
    /\ Lose({j})
    /\ UNCHANGED <<delivery, stopping, left>>

\* The statement throws without effect.
JobThrows(j) ==
    /\ j.phase \in {"record", "settle"}
    /\ Spend("fault")
    /\ jobs' = jobs \ {j}
    /\ TickFails(j)
    /\ Lose({j})
    /\ UNCHANGED <<delivery, stopping>>

\* The last statement commits, but its answer is lost and it throws all the same.
SettleThrowsAfterCommit(j) ==
    /\ j.phase = "settle"
    /\ Exists(j.id)
    /\ Spend("fault")
    /\ jobs' = jobs \ {j}
    /\ delivery' = [delivery EXCEPT ![j.id] = FinalRow(@, j)]
    /\ TickFails(j)
    /\ UNCHANGED <<stopping, round>>

-----------------------------------------------------------------------------
(* Processes *)

\* The process is gone, and with it its tick and its deliver() calls.
Dies(p) ==
    /\ tick' = [tick EXCEPT ![p] = DownTick]
    /\ jobs' = jobs \ JobsOf(p)
    /\ Lose(JobsOf(p))

Crash(p) ==
    /\ tick[p].phase # "down"
    /\ Spend("crash")
    /\ Dies(p)
    /\ stopping' = stopping \ {p}
    /\ UNCHANGED delivery

\* SIGTERM: onDestroy calls stop(), which clears the timer ...
Stop(p) ==
    /\ tick[p].phase # "down"
    /\ p \notin stopping
    /\ Spend("crash")
    /\ stopping' = stopping \cup {p}
    /\ UNCHANGED <<delivery, tick, jobs, round>>

\* ... and awaits tickInFlight, after which server.ts calls process.exit.
Exit(p) ==
    /\ p \in stopping
    /\ tick[p].phase = "idle"
    /\ Dies(p)
    /\ stopping' = stopping \ {p}
    /\ UNCHANGED <<delivery, left>>

Restart(p) ==
    /\ tick[p].phase = "down"
    /\ tick' = [tick EXCEPT ![p] = IdleTick]
    /\ UNCHANGED <<delivery, stopping, jobs, round, left>>

-----------------------------------------------------------------------------
(* The specification *)

Init ==
    /\ delivery = [d \in Deliveries |-> Absent("unborn")]
    /\ tick = [p \in Dispatchers |-> IdleTick]
    /\ stopping = {}
    /\ jobs = {}
    /\ round = [d \in Deliveries |-> EmptyRound]
    /\ left = [crash |-> MaxCrashes, fault |-> MaxFaults, late |-> MaxLate,
               replay |-> MaxReplays, delete |-> MaxDeletes]

TickStep(p) ==
    \/ TickStart(p) \/ Sweep(p) \/ Select(p) \/ Claim(p) \/ Load(p) \/ TickEnds(p)

JobStep(j) ==
    \/ \E result \in Outcomes : Send(j, result)
    \/ Record(j) \/ Settle(j) \/ JobFindsNoRow(j)

Next ==
    \/ \E S \in SUBSET Deliveries : CreateMany(S)
    \/ \E d \in Deliveries : Replay(d) \/ TimePasses(d) \/ ClaimAges(d)
    \/ \E e \in Endpoints : DeleteEndpoint(e)
    \/ \E p \in Dispatchers : TickStep(p) \/ TickThrows(p)
    \/ \E j \in jobs : JobStep(j) \/ JobThrows(j) \/ SettleThrowsAfterCommit(j)
    \/ \E p \in Dispatchers : Crash(p) \/ Stop(p) \/ Exit(p) \/ Restart(p)

Spec == Init /\ [][Next]_vars

\* setInterval keeps ticking and every await of a tick returns; the sender is
\* bounded by its timeout; the clock advances; the platform restarts a process
\* that ended.  Users owe nothing, and faults need not happen.
Fairness ==
    /\ \A p \in Dispatchers : /\ WF_vars(TickStep(p))
                              /\ WF_vars(Exit(p))
                              /\ WF_vars(Restart(p))
    /\ \A d \in Deliveries, c \in ClaimIds :
         WF_vars(\E j \in jobs : j.id = d /\ j.claim = c /\ JobStep(j))
    /\ \A d \in Deliveries : WF_vars(TimePasses(d)) /\ WF_vars(~Held(d) /\ ClaimAges(d))

FairSpec == Spec /\ Fairness

-----------------------------------------------------------------------------
(* Properties of every behaviour *)

\* No row is stranded.  A row carries a claim exactly while it is delivering, so
\* that either its worker or releaseStaleClaims will move it on, and a pending
\* row always has a nextAttemptAt, so that claimDue will find it: whatever
\* crashed, threw or came late before.
NoRowStranded ==
    \A d \in Deliveries :
        /\ delivery[d].claimId # NoClaim <=> delivery[d].status = "delivering"
        /\ delivery[d].nextAttempt # "none" <=> delivery[d].status = "pending"

\* The attempt budget is never overdrawn: a row that waits for another attempt
\* has one left, and no attempt is numbered beyond WEBHOOKS_MAX_ATTEMPTS, not
\* even after replays, lost workers and late writes.
AttemptWithinBudget ==
    /\ \A d \in Deliveries :
         /\ delivery[d].attemptCount <= MaxAttempts
         /\ delivery[d].status \in {"pending", "delivering"} =>
              delivery[d].attemptCount < MaxAttempts
    /\ \A j \in jobs : j.attempt \in 1..MaxAttempts

-----------------------------------------------------------------------------
(* Properties of what happens as long as no claim has outlived staleClaimMs *)
(* while its worker was alive                                               *)

\* The premise of the claim protocol: nobody has been that slow so far.
Timely == left["late"] = MaxLate

\* Claiming a row is what grants the right to send it: of all deliver() calls of
\* all processes at most one works on a delivery, and it holds the claim that
\* the row carries and knows the row's attempt count.
ExclusiveSend ==
    Timely => \A j \in jobs :
        /\ Exists(j.id) => /\ delivery[j.id].status = "delivering"
                           /\ delivery[j.id].claimId = j.claim
                           /\ delivery[j.id].attemptCount + 1 = j.attempt
        /\ \A k \in jobs : k.id = j.id => k = j

\* Every attempt of a round is accounted for: it is counted in attemptCount, it
\* is running, or it was lost to a crash or a failed statement.  The attempt
\* log has a row for all that are counted and none that was not started.
AttemptsAccounted ==
    Timely => \A d \in Deliveries : Exists(d) =>
        LET r == round[d]
            running == IF InFlight(d) THEN 1 ELSE 0
        IN  /\ r.started = delivery[d].attemptCount + r.lost + running
            /\ delivery[d].attemptCount <= r.logged
            /\ r.logged <= r.started

\* A delivery ends as succeeded only after its receiver acknowledged the last
\* attempt, and as failed only after a terminal refusal or when the last of
\* WEBHOOKS_MAX_ATTEMPTS attempts failed.
VerdictJustified ==
    Timely => \A d \in Deliveries :
        /\ delivery[d].status = "succeeded" => round[d].verdict = "ok"
        /\ delivery[d].status = "failed" =>
             \/ round[d].verdict = "terminal"
             \/ round[d].verdict = "retry" /\ delivery[d].attemptCount = MaxAttempts

\* completedAt is set exactly on settled rows, also after a replay.
CompletedIffSettled ==
    Timely => \A d \in Deliveries : delivery[d].completed <=> delivery[d].status \in Settled

\* A settled delivery is never picked up again on its own: only a replay puts it
\* back in the queue, and then with a fresh budget.
SettledIsFinal ==
    [][\A d \in Deliveries : Timely /\ delivery[d].status \in Settled =>
          \/ delivery'[d] = delivery[d]
          \/ delivery'[d].status = "deleted"
          \/ /\ delivery'[d].status = "pending"
             /\ delivery'[d].attemptCount = 0
             /\ left'["replay"] < left["replay"]]_vars

-----------------------------------------------------------------------------
(* Properties of what happens as long as no statement has thrown and no *)
(* endpoint has been deleted                                            *)

\* No deliver() call can have been rejected so far.
Undisturbed == left["fault"] = MaxFaults /\ left["delete"] = MaxDeletes

\* One process sends at most WEBHOOKS_MAX_CONCURRENT_DELIVERIES at a time, because
\* a tick waits for its deliveries and the next one waits for it.
BoundedConcurrency ==
    Undisturbed => \A p \in Dispatchers : Cardinality(JobsOf(p)) <= MaxConcurrent

\* A graceful shutdown abandons no delivery: when the dispatcher has stopped and
\* the process exits, none of its deliver() calls is still running.
ExitAbandonsNothing ==
    [][\A p \in Dispatchers : Undisturbed /\ Exit(p) => JobsOf(p) = {}]_vars

-----------------------------------------------------------------------------
(* Liveness *)

\* Every queued delivery is settled in the end (or deleted by its owner), through
\* retries, crashes, lost statements and races between dispatchers.
EventuallySettled ==
    \A d \in Deliveries :
        Exists(d) ~> delivery[d].status \in Settled \cup {"deleted"}

\* stop() is not held up for ever: a process told to shut down goes down.
ShutdownCompletes ==
    \A p \in Dispatchers : p \in stopping ~> p \notin stopping

-----------------------------------------------------------------------------
(* The promise that the dispatchers keep (MaxLate = 0) *)

StageOf(d) ==
    IF delivery[d].status \in {"pending", "delivering"} THEN "waiting" ELSE delivery[d].status

WorkerOf(d) ==
    IF Exists(d) /\ InFlight(d) THEN (CHOOSE j \in jobs : j.id = d).owner ELSE NoClaim

Lifecycle ==
    INSTANCE DeliveryLifecycle
    WITH Workers <- Dispatchers, Nobody <- NoClaim,
         stage <- [d \in Deliveries |-> StageOf(d)],
         tries <- [d \in Deliveries |-> delivery[d].attemptCount],
         worker <- [d \in Deliveries |-> WorkerOf(d)]

\* The claim protocol implements the delivery queue of DeliveryLifecycle: one
\* worker at a time, attempts counted one by one and only by that worker, an
\* end that only a replay undoes, through crashes, faults and lost races.
ImplementsLifecycle == Lifecycle!Spec

-----------------------------------------------------------------------------
(* What comments of the code say and the code does not do *)

\* deliveryDispatcher.ts:71: "a tick is skipped whenever the previous one is still
\* running", for otherwise ticks would "multiply concurrency past the configured
\* bound".  A rejected deliver() ends its tick without waiting for the other
\* deliveries of the batch, and the next tick claims a full batch beside them.
ConcurrencyNeverMultiplied ==
    \A p \in Dispatchers : Cardinality(JobsOf(p)) <= MaxConcurrent

\* webhooks.types.ts:4: a settled delivery "will never be picked up again on its
\* own".  The late scheduleRetry of a worker that has lost its claim overwrites
\* the verdict of the one that took over and puts the row back in the queue.
SettledNeverPickedUp ==
    [][\A d \in Deliveries :
          delivery[d].status \in Settled /\ delivery'[d].status = "pending"
            => left'["replay"] < left["replay"]]_vars

=============================================================================
