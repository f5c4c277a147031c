---------------------------- MODULE RequestPipeline ----------------------------
(***************************************************************************)
(* A request on its way through the middleware of its route: the auth      *)
(* guard, the scope check, the rate limiter, the idempotency lock,         *)
(* validation and the handler.  The API processes share one Redis and one  *)
(* database; a step ends where the code awaits one of them.  The writes    *)
(* that complete or release an idempotency key are not awaited: they wait  *)
(* in the outbox of their process, and Redis executes the commands of one  *)
(* process in the order in which they were issued.                         *)
(***************************************************************************)
EXTENDS Routes, FiniteSets

CONSTANTS
  Processes,     \* the API processes
  Requests,      \* the requests that may arrive, each at most once
  Menus,         \* sets of offers: what the clients of one behaviour may send
  ApiKeys,       \* the ids of the API keys
  KeyRow,        \* of an API key: its user, scopes and rateLimit
  DefaultPoints, \* DEFAULT_RATE_LIMIT_POINTS
  Scaled(_),     \* bound: how many requests stand for so many points
  MaxMishaps,    \* bound: crashes, disconnects, expiries and failing calls
  NoKey, Nobody

Offers == UNION Menus

PipelineAssumption ==
  /\ \A o \in Offers :
       /\ Cardinality({t \in RouteTable : Serves(t, o.module, o.method, o.path)}) = 1
       /\ o.bearer \in STRING \/ o.bearer = Nobody
       /\ o.apiKey \in ApiKeys \cup {Nobody}
  /\ MaxMishaps \in Nat
ASSUME PipelineAssumption

VARIABLES
  menu,     \* what the clients of this behaviour send
  req,      \* of every request: its phase, its process and what was found out
  idem,     \* the idempotency records in Redis
  outbox,   \* of every process: the Redis writes it has issued and not awaited
  used,     \* the points consumed of every budget in its current window
  revoked,  \* the API keys whose revokedAt is set
  made,     \* the requests whose handler has created its resource
  admitted, \* the requests the limiter let through in the current windows
  reopened, \* the keys given up while still valid: released or expired
  abandoned,\* the keys whose holder is gone: crashed, or its write was lost
  mishaps

vars == <<menu, req, idem, outbox, used, revoked, made, admitted, reopened, abandoned, mishaps>>

Serving == [o \in Offers |-> CHOOSE t \in RouteTable : Serves(t, o.module, o.method, o.path)]
RouteOf(o) == Serving[o]

Expired == "expired"
ASSUME NobodyIsNoToken == Nobody # Expired

JwtPrincipal(user) ==
  [id |-> user, type |-> "jwt", scopes |-> {"*"}, key |-> Nobody, points |-> DefaultPoints]
KeyPrincipal(k) ==
  [id |-> KeyRow[k].user, type |-> "apikey", scopes |-> KeyRow[k].scopes, key |-> k,
   points |-> KeyRow[k].rateLimit]
Anonymous == [id |-> "anon", type |-> "none", scopes |-> {}, key |-> Nobody, points |-> DefaultPoints]

\* Mutant: the lookup of an API key does not look at revokedAt.
ResolvedThoughRevoked(o, dead) ==
  IF o.bearer # Nobody
  THEN IF o.bearer = Expired THEN Anonymous ELSE JwtPrincipal(o.bearer)
  ELSE IF o.apiKey \in ApiKeys THEN KeyPrincipal(o.apiKey) ELSE Anonymous

\* authenticate: the bearer token decides if there is one, valid or not.
Resolved(o, dead) ==
  IF o.bearer # Nobody
  THEN IF o.bearer = Expired THEN Anonymous ELSE JwtPrincipal(o.bearer)
  ELSE IF o.apiKey \in ApiKeys \ dead THEN KeyPrincipal(o.apiKey) ELSE Anonymous

HasScopes(t, who) == "*" \in who.scopes \/ t.scopes \subseteq who.scopes

Allowance(t, who) ==
  IF t.limit = NoLimit \/ who.points < t.limit.points THEN who.points ELSE t.limit.points

\* Mutant: a budget for every route.
BudgetOfRoute(t, who) ==
  [bucket |-> t.path, points |-> Allowance(t, who), who |-> <<who.type, who.id, who.key>>]

\* The key of a limiter's counter.
Budget(t, who) ==
  [bucket |-> t.limit.bucket, points |-> Allowance(t, who), who |-> <<who.type, who.id, who.key>>]

GuardedOffers == {o \in Offers : NeedsCredential(RouteOf(o), o.method, o.path)}
Guarded(o) == o \in GuardedOffers

Principals(o) == {Resolved(o, {}), Anonymous}
Budgets == {Budget(RouteOf(o), who) : o \in Offers, who \in UNION {Principals(p) : p \in Offers}}

ASSUME ScaledAssumption == \A b \in Budgets : Scaled(b.points) \in Nat

\* idem:<user or anon>:<method>:<path>:<key>
SlotOf(o) ==
  <<IF Guarded(o) THEN Resolved(o, {}).id ELSE Anonymous.id, o.module, o.method, o.path, o.key>>
Keyed(o) == RouteOf(o).idempotent /\ o.key # NoKey
Slots == {SlotOf(o) : o \in {p \in Offers : Keyed(p)}}

NoRecord == [state |-> "none", by |-> Nobody, body |-> Nobody, status |-> 0]
InProgress(r) == [state |-> "in-progress", by |-> r, body |-> req[r].offer.body, status |-> 0]
Complete(r, status) ==
  [state |-> "complete", by |-> r, body |-> req[r].offer.body, status |-> status]

NoRequest ==
  [phase |-> "new", at |-> Nobody, offer |-> Nobody, known |-> {}, who |-> Anonymous,
   locked |-> FALSE, gone |-> FALSE, status |-> 0, by |-> Nobody]

Active == {"auth", "limit", "lock", "get", "run", "made"}
Running == {"run", "made"}

Init ==
  /\ menu \in Menus
  /\ req = [r \in Requests |-> NoRequest]
  /\ idem = [s \in Slots |-> NoRecord]
  /\ outbox = [p \in Processes |-> <<>>]
  /\ used = [b \in Budgets |-> 0]
  /\ revoked = {} /\ made = {} /\ admitted = {} /\ reopened = {} /\ abandoned = {}
  /\ mishaps = 0

Slot(r) == SlotOf(req[r].offer)
Mishap == mishaps < MaxMishaps /\ mishaps' = mishaps + 1
Move(r, phase) == req' = [req EXCEPT ![r].phase = phase]

\* Mutant: a failure leaves the key as it is.
ReleaseKeepsLock(r, status) ==
  [slot |-> Slot(r), record |-> IF status >= 500 THEN InProgress(r) ELSE Complete(r, status)]

\* What res.json does to the key of a request that holds it.
Release(r, status) ==
  [slot |-> Slot(r), record |-> IF status >= 500 THEN NoRecord ELSE Complete(r, status)]

\* Nothing of the request is left to do; what it asked for and who it was remain.
Over(r, phase, status, by) ==
  [req[r] EXCEPT !.phase = phase, !.status = status, !.by = by,
                 !.at = Nobody, !.locked = FALSE, !.gone = FALSE]

Answer(r, status, by) ==
  /\ req' = [req EXCEPT ![r] = Over(r, "done", status, by)]
  /\ outbox' = IF req[r].locked
               THEN [outbox EXCEPT ![req[r].at] = Append(@, Release(r, status))]
               ELSE outbox
  /\ reopened' = IF req[r].locked /\ status >= 500 THEN reopened \cup {Slot(r)} ELSE reopened

KeepStores == UNCHANGED <<idem, used, made, admitted, abandoned, revoked>>
KeepQueues == UNCHANGED <<outbox, reopened>>

-------------------------------------------------------------------------------
\* The request reaches a process; known: whether its API key is already revoked.
Arrive(r, p, o) ==
  /\ req[r].phase = "new" /\ o \in menu
  /\ req' = [req EXCEPT ![r] =
               [NoRequest EXCEPT !.phase = IF Guarded(o) THEN "auth" ELSE "limit",
                                 !.at = p, !.offer = o, !.known = revoked \cap {o.apiKey}]]
  /\ KeepStores /\ KeepQueues /\ UNCHANGED mishaps

\* authenticate and requireScopes.
Authenticate(r) ==
  LET who == Resolved(req[r].offer, revoked)
      t == RouteOf(req[r].offer)
  IN  /\ req[r].phase = "auth"
      /\ \/ who = Anonymous /\ Answer(r, 401, r)
         \/ who # Anonymous /\ t.auth /\ ~HasScopes(t, who) /\ Answer(r, 403, r)
         \/ /\ who # Anonymous /\ (t.auth => HasScopes(t, who))
            /\ req' = [req EXCEPT ![r] = [@ EXCEPT !.phase = "limit", !.who = who]]
            /\ KeepQueues
      /\ KeepStores /\ UNCHANGED mishaps

\* Looking up the API key fails.
AuthenticateFails(r) ==
  /\ req[r].phase = "auth" /\ req[r].offer.bearer = Nobody
  /\ Mishap /\ Answer(r, 500, r)
  /\ KeepStores

\* Validation comes after the lock, the handler after validation.
Validated(r, locked) ==
  req' = [req EXCEPT ![r] = [@ EXCEPT !.phase = "run", !.locked = locked]]
Invalid(r) == req[r].offer.body = "invalid"

WithinBudget(b) == used[b] < Scaled(b.points)

\* createRateLimit, and what follows it up to the next await.
Consume(r) ==
  LET o == req[r].offer
      b == Budget(RouteOf(o), req[r].who)
  IN  /\ req[r].phase = "limit"
      /\ \/ /\ WithinBudget(b)
            /\ used' = [used EXCEPT ![b] = @ + 1]
            /\ admitted' = admitted \cup {r}
            /\ \/ Keyed(o) /\ Move(r, "lock") /\ KeepQueues
               \/ ~Keyed(o) /\ Invalid(r) /\ Answer(r, 422, r)
               \/ ~Keyed(o) /\ ~Invalid(r) /\ Validated(r, FALSE) /\ KeepQueues
         \/ /\ ~WithinBudget(b)
            /\ Answer(r, 429, r)
            /\ UNCHANGED <<used, admitted>>
      /\ UNCHANGED <<idem, made, abandoned, revoked, mishaps>>

\* The limiter's store fails: the request fails, and is not let through.
ConsumeFails(r) ==
  /\ req[r].phase = "limit"
  /\ Mishap /\ Answer(r, 500, r)
  /\ KeepStores

Idle(r) == outbox[req[r].at] = <<>>

\* SET key NX.  The holder of a key with an invalid body stores its 422.
Acquire(r) ==
  /\ req[r].phase = "lock" /\ Idle(r)
  /\ \/ /\ idem[Slot(r)] = NoRecord
        /\ idem' = [idem EXCEPT ![Slot(r)] = InProgress(r)]
        /\ \/ ~Invalid(r) /\ Validated(r, TRUE) /\ outbox' = outbox
           \/ /\ Invalid(r)
              /\ req' = [req EXCEPT ![r] = Over(r, "done", 422, r)]
              /\ outbox' = [outbox EXCEPT ![req[r].at] = Append(@, Release(r, 422))]
     \/ idem[Slot(r)] # NoRecord /\ Move(r, "get") /\ UNCHANGED <<idem, outbox>>
  /\ UNCHANGED <<used, revoked, made, admitted, reopened, abandoned, mishaps>>

\* The command fails: the request is answered 500.
AcquireFails(r) ==
  /\ req[r].phase = "lock"
  /\ Mishap /\ Answer(r, 500, r)
  /\ KeepStores

\* Redis executes the command and the connection drops before its reply: the
\* client library sends it again, and the request now finds its own record.
AcquireTwice(r) ==
  /\ req[r].phase = "lock" /\ Idle(r) /\ idem[Slot(r)] = NoRecord
  /\ Mishap
  /\ idem' = [idem EXCEPT ![Slot(r)] = InProgress(r)]
  /\ abandoned' = abandoned \cup {Slot(r)}
  /\ Move(r, "get")
  /\ UNCHANGED <<used, revoked, made, admitted>> /\ KeepQueues

\* Mutant: a key in progress is taken over.
VacantIfUnfinished(stored) == stored.state # "complete"

\* What the GET found is as good as nothing.
Vacant(stored) == stored = NoRecord

\* GET key, after the SET NX found it taken.
Get(r) ==
  LET stored == idem[Slot(r)]
  IN  /\ req[r].phase = "get" /\ Idle(r)
      /\ \/ Vacant(stored) /\ ~Invalid(r) /\ Validated(r, FALSE) /\ KeepQueues
         \/ Vacant(stored) /\ Invalid(r) /\ Answer(r, 422, r)
         \/ stored.state = "in-progress" /\ ~Vacant(stored) /\ Answer(r, 409, r)
         \/ /\ stored.state = "complete" /\ stored.body # req[r].offer.body
            /\ Answer(r, 422, r)
         \/ /\ stored.state = "complete" /\ stored.body = req[r].offer.body
            /\ Answer(r, stored.status, stored.by)
      /\ KeepStores /\ UNCHANGED mishaps

GetFails(r) ==
  /\ req[r].phase = "get"
  /\ Mishap /\ Answer(r, 500, r)
  /\ KeepStores

\* The handler of a creating route inserts its row.
Create(r) ==
  /\ req[r].phase = "run" /\ RouteOf(req[r].offer).idempotent
  /\ made' = made \cup {r}
  /\ Move(r, "made")
  /\ UNCHANGED <<idem, used, revoked, admitted, abandoned, mishaps>> /\ KeepQueues

\* The handler answers: with what it created, or with what it read.
Respond(r) ==
  /\ \/ req[r].phase = "made" /\ Answer(r, 201, r)
     \/ req[r].phase = "run" /\ ~RouteOf(req[r].offer).idempotent /\ Answer(r, 200, r)
  /\ KeepStores /\ UNCHANGED mishaps

\* The handler rejects: what is asked for exists already, or does not exist.
Refuse(r) ==
  /\ req[r].phase = "run"
  /\ Answer(r, 404, r)
  /\ KeepStores /\ UNCHANGED mishaps

\* A statement of the handler fails, before the row is inserted or after.
HandlerFails(r) ==
  /\ req[r].phase \in Running
  /\ Mishap /\ Answer(r, 500, r)
  /\ KeepStores

\* The client's connection closes.  Once the middleware listens for it, the key
\* is released; the handler goes on all the same.
Disconnect(r) ==
  /\ req[r].phase \in Active /\ ~req[r].gone
  /\ Mishap
  /\ req' = [req EXCEPT ![r].gone = TRUE]
  /\ \/ /\ req[r].locked
        /\ outbox' = [outbox EXCEPT ![req[r].at] =
                        Append(@, [slot |-> Slot(r), record |-> NoRecord])]
        /\ reopened' = reopened \cup {Slot(r)}
     \/ ~req[r].locked /\ KeepQueues
  /\ KeepStores

\* Redis executes the oldest write of a process, or refuses it.
Written(p, record) ==
  /\ outbox[p] # <<>>
  /\ idem' = [idem EXCEPT ![Head(outbox[p]).slot] = record]
  /\ outbox' = [outbox EXCEPT ![p] = Tail(@)]
  /\ UNCHANGED <<req, used, revoked, made, admitted, reopened>>

Write(p) ==
  /\ Written(p, Head(outbox[p]).record)
  /\ UNCHANGED <<abandoned, mishaps>>

WriteFails(p) ==
  /\ Written(p, idem[Head(outbox[p]).slot])
  /\ abandoned' = abandoned \cup {Head(outbox[p]).slot}
  /\ Mishap

\* A process dies with its requests and the writes it had not sent.
Crash(p) ==
  LET lost == {r \in Requests : req[r].at = p /\ req[r].phase \in Active}
      held == {r \in lost : req[r].locked}
  IN  /\ Mishap
      /\ req' = [r \in Requests |-> IF r \in lost THEN Over(r, "lost", 0, Nobody) ELSE req[r]]
      /\ abandoned' = abandoned \cup {Slot(r) : r \in held}
                        \cup {outbox[p][i].slot : i \in 1..Len(outbox[p])}
      /\ outbox' = [outbox EXCEPT ![p] = <<>>]
      /\ UNCHANGED <<idem, used, revoked, made, admitted, reopened>>

\* A record reaches its TTL.  A handler ends long before that (24 hours).
Expire(s) ==
  /\ idem[s] # NoRecord
  /\ \A r \in Requests : req[r].locked /\ Slot(r) = s => req[r].phase \notin Running
  /\ Mishap
  /\ idem' = [idem EXCEPT ![s] = NoRecord]
  /\ reopened' = reopened \cup {s}
  /\ UNCHANGED <<req, outbox, used, revoked, made, admitted, abandoned>>

\* DELETE /api-keys/:id, of an API key not yet revoked.
RevokeApiKey(k) ==
  /\ k \notin revoked
  /\ revoked' = revoked \cup {k}
  /\ UNCHANGED <<req, idem, used, made, admitted, abandoned, mishaps>> /\ KeepQueues

\* The window of a budget ends, and its counter with it.  Bound: only once the
\* budget is spent.
WindowEnds(b) ==
  /\ ~WithinBudget(b)
  /\ used' = [used EXCEPT ![b] = 0]
  /\ admitted' = {r \in admitted : Budget(RouteOf(req[r].offer), req[r].who) # b}
  /\ UNCHANGED <<req, idem, revoked, made, abandoned, mishaps>> /\ KeepQueues

Step(r) ==
  \/ \E p \in Processes, o \in Offers : Arrive(r, p, o)
  \/ Authenticate(r) \/ AuthenticateFails(r)
  \/ Consume(r) \/ ConsumeFails(r)
  \/ Acquire(r) \/ AcquireFails(r) \/ AcquireTwice(r)
  \/ Get(r) \/ GetFails(r)
  \/ Create(r) \/ Respond(r) \/ Refuse(r) \/ HandlerFails(r)
  \/ Disconnect(r)

Next ==
  /\ UNCHANGED menu
  /\ \/ \E r \in Requests : Step(r)
     \/ \E p \in Processes : Write(p) \/ WriteFails(p) \/ Crash(p)
     \/ \E s \in Slots : Expire(s)
     \/ \E k \in ApiKeys : RevokeApiKey(k)
     \/ \E b \in Budgets : WindowEnds(b)

Spec == Init /\ [][Next]_vars
-------------------------------------------------------------------------------
(***************************************************************************)
(* Properties.                                                             *)
(***************************************************************************)
Served(r) == req[r].phase \in Running \/ req[r].status \in {200, 201, 404}

\* The handler of a protected route works, and a stored answer is replayed, only
\* if the credential the request arrived with was good: a bearer token is not
\* expired, or else the API key was not yet revoked and has the route's scopes or "*".
\* The answer is that of a request of the same user.
ServedIsAuthorised ==
  \A r \in Requests :
    Served(r) /\ RouteOf(req[r].offer).auth =>
      LET o == req[r].offer
      IN  /\ o.bearer # Expired
          /\ o.bearer = Nobody =>
               /\ o.apiKey \in ApiKeys \ req[r].known
               /\ \/ RouteOf(o).scopes \subseteq KeyRow[o.apiKey].scopes
                  \/ "*" \in KeyRow[o.apiKey].scopes
          /\ req[r].by # Nobody => req[req[r].by].who.id = req[r].who.id

\* "Routes explicitly registered with auth: false stay reachable without
\* credentials even though the module is protected by default" (auth.ts): the
\* guard of the module never asks for one.  This is so for the declared method;
\* a HEAD request to a public GET route is asked for a credential.
PublicNeedsNoCredential ==
  \A r \in Requests :
    req[r].status \in {401, 403} =>
      LET t == RouteOf(req[r].offer)
      IN  t.auth \/ t.method # req[r].offer.method

\* Routes that share a bucket share one budget: in one window a caller is let
\* through no more often than the bucket and the caller's own limit allow,
\* however the requests spread over the routes and the processes.
BudgetShared ==
  \A r \in admitted :
    Cardinality({q \in admitted :
       /\ RouteOf(req[q].offer).limit.bucket = RouteOf(req[r].offer).limit.bucket
       /\ req[q].who = req[r].who})
      <= Scaled(Allowance(RouteOf(req[r].offer), req[r].who))

\* As long as a key is neither released nor expired, at most one of the requests
\* that present it creates anything, whatever crashes, fails or is retried, and
\* all who are given an answer are given that of one execution.
OneExecutionPerKey ==
  \A r, q \in Requests :
    /\ req[r].phase # "new" /\ req[q].phase # "new"
    /\ Keyed(req[r].offer) /\ Keyed(req[q].offer)
    /\ Slot(r) = Slot(q) /\ Slot(r) \notin reopened
    => /\ r \in made /\ q \in made => r = q
       /\ req[r].status \in {201, 404} /\ req[q].status \in {201, 404} => req[r].by = req[q].by

Holds(r, s) == req[r].locked /\ req[r].phase \in Running /\ Slot(r) = s
WritePending(p, s) == \E i \in 1..Len(outbox[p]) : outbox[p][i].slot = s

\* A key is in progress only while somebody works on it or a write that will end
\* it is under way, unless a crash or a lost write has abandoned it: no legal
\* sequence of answers, disconnects and retries leaves a key stuck for a day.
NoOrphanLock ==
  \A s \in Slots :
    idem[s].state = "in-progress" =>
      \/ s \in abandoned
      \/ \E r \in Requests : Holds(r, s)
      \/ \E p \in Processes : WritePending(p, s)
===============================================================================
