----------------------------- MODULE WebhookFanout -----------------------------
(***************************************************************************)
(* Webhook endpoints, and how an event of the platform becomes deliveries: *)
(* a module emits it on the event bus of its process, the handler of the   *)
(* webhooks module looks up the endpoints that subscribe to it and queues  *)
(* a delivery for each.  Nobody awaits the handler.  What the dispatcher   *)
(* does with a delivery is here only its status; WebhookDispatch has the   *)
(* rest.                                                                   *)
(***************************************************************************)
EXTENDS Mishaps

CONSTANTS
  Endpoints,  \* the ids of the endpoints, drawn once each
  Events,     \* the events of one behaviour
  Topics      \* WEBHOOK_EVENTS

Ping == "webhook.ping"
SubscribableTopics == Topics \ {Ping}

VARIABLES
  endpoint,  \* the table of endpoints
  event,     \* of every event: how far its fan-out is
  delivery   \* the status of the delivery of an event to an endpoint

fanoutVars == <<endpoint, event, delivery>>

Unborn == [state |-> "unborn", user |-> Nobody, topics |-> {}, active |-> FALSE]
Deleted == [Unborn EXCEPT !.state = "deleted"]
NoEvent ==
  [phase |-> "none", user |-> Nobody, topic |-> Ping, found |-> {}, steady |-> {}, ever |-> {},
   harmed |-> FALSE]
Pairs == Endpoints \X Events

FanoutInit ==
  /\ endpoint = [x \in Endpoints |-> Unborn]
  /\ event = [e \in Events |-> NoEvent]
  /\ delivery = [d \in Pairs |-> "none"]

\* Mutant: paused endpoints are found as well.
SubscribedEvenPaused(row, user, topic) ==
  row.state = "live" /\ row.user = user /\ topic \in row.topics

\* findMany where userId, active and events has the topic.
Subscribed(row, user, topic) ==
  row.state = "live" /\ row.user = user /\ row.active /\ topic \in row.topics

Pending(e) == event[e].phase \in {"emitted", "found"}
Through(e) == event[e].phase \in {"queued", "lost"}
Wanted(row, e) == row.state = "live" /\ row.active /\ row.user = event[e].user /\ event[e].topic \in row.topics

\* The row of an endpoint changes: bookkeeping of who wanted an event, and since when.
Rewrite(x, row) ==
  /\ endpoint' = [endpoint EXCEPT ![x] = row]
  /\ event' = [e \in Events |->
       [event[e] EXCEPT !.steady = IF (Pending(e) /\ Wanted(row, e)) \/ (Through(e) /\ row.state = "live")
                                   THEN @ ELSE @ \ {x},
                        !.ever = IF Pending(e) /\ Wanted(row, e) THEN @ \cup {x} ELSE @,
                        !.harmed = @ \/ (row.state = "deleted" /\ x \in event[e].found)]]

-------------------------------------------------------------------------------
\* POST /webhooks/endpoints: a new id and a new secret; unknown topics are a 422.
CreateEndpoint(x, u, topics) ==
  /\ endpoint[x].state = "unborn" /\ topics \in SUBSET Topics \ {{}}
  /\ Rewrite(x, [state |-> "live", user |-> u, topics |-> topics, active |-> TRUE])
  /\ UNCHANGED delivery

\* Both statements scope the row to its owner.
Owned(x, u) == endpoint[x].state = "live" /\ endpoint[x].user = u

UpdateEndpoint(x, u, topics, active) ==
  /\ Owned(x, u)
  /\ Rewrite(x, [endpoint[x] EXCEPT !.topics = topics, !.active = active])
  /\ UNCHANGED delivery

\* The deliveries go with their endpoint.
DeleteEndpoint(x, u) ==
  /\ Owned(x, u)
  /\ Rewrite(x, Deleted)
  /\ delivery' = [d \in Pairs |-> IF d[1] = x THEN "none" ELSE delivery[d]]

\* The event is on the bus; who wants it at this moment is written down.
Emit(e, u, topic) ==
  LET wanted == {x \in Endpoints : /\ endpoint[x].state = "live" /\ endpoint[x].active
                                   /\ endpoint[x].user = u /\ topic \in endpoint[x].topics}
  IN  /\ event[e].phase = "none"
      /\ event' = [event EXCEPT ![e] = [NoEvent EXCEPT !.phase = "emitted", !.user = u, !.topic = topic,
                                                       !.steady = wanted, !.ever = wanted]]
      /\ UNCHANGED <<endpoint, delivery>>

\* POST /webhooks/endpoints/:id/test, once the endpoint is found.
TestFire(e, x, u) == Owned(x, u) /\ Emit(e, u, Ping)

FindSubscribed(e) ==
  LET found == {x \in Endpoints : Subscribed(endpoint[x], event[e].user, event[e].topic)}
  IN  /\ event[e].phase = "emitted"
      /\ event' = [event EXCEPT ![e] = [@ EXCEPT !.found = found,
                                                 !.phase = IF found = {} THEN "queued" ELSE "found"]]
      /\ UNCHANGED <<endpoint, delivery>>

\* One createMany for all: if an endpoint is gone by now, its foreign key rejects
\* the whole statement.
CreateMany(e) ==
  LET found == event[e].found
  IN  /\ event[e].phase = "found"
      /\ \/ /\ \A x \in found : endpoint[x].state = "live"
            /\ delivery' = [d \in Pairs |-> IF d[1] \in found /\ d[2] = e THEN "pending" ELSE delivery[d]]
            /\ event' = [event EXCEPT ![e].phase = "queued"]
         \/ /\ \E x \in found : endpoint[x].state # "live"
            /\ event' = [event EXCEPT ![e].phase = "lost"]
            /\ UNCHANGED delivery
      /\ UNCHANGED endpoint

FanoutStep(e) == FindSubscribed(e) \/ CreateMany(e)

\* A statement of the handler fails, or the process dies with its pending handlers.
FanoutsLost(lost) ==
  /\ lost # {} /\ \A e \in lost : Pending(e)
  /\ Mishap
  /\ event' = [e \in Events |->
                 IF e \in lost THEN [event[e] EXCEPT !.phase = "lost", !.harmed = TRUE] ELSE event[e]]
  /\ UNCHANGED <<endpoint, delivery>>

\* The dispatcher: a delivery is claimed, then settled for good or put back.
Claim(d) ==
  /\ delivery[d] = "pending" /\ delivery' = [delivery EXCEPT ![d] = "delivering"]
  /\ UNCHANGED <<endpoint, event>>

Settle(d) ==
  /\ delivery[d] = "delivering" /\ delivery' = [delivery EXCEPT ![d] = "settled"]
  /\ UNCHANGED <<endpoint, event>>

Retry(d) ==
  /\ delivery[d] = "delivering" /\ delivery' = [delivery EXCEPT ![d] = "pending"]
  /\ UNCHANGED <<endpoint, event>>

\* POST /webhooks/deliveries/:id/replay, of a settled delivery.
Replay(d) ==
  /\ delivery[d] = "settled" /\ delivery' = [delivery EXCEPT ![d] = "pending"]
  /\ UNCHANGED <<endpoint, event>>
-------------------------------------------------------------------------------
\* An event reaches those who want it and nobody else: once its fan-out is through,
\* every endpoint of its user that subscribed to it all the while has its delivery,
\* none has one that did not subscribe at some moment in between; and it is lost
\* only to a failing statement, a dying process or an endpoint deleted under it.
FanOutExact ==
  \A e \in Events :
    LET got == {x \in Endpoints : delivery[<<x, e>>] # "none"}
    IN  /\ got \subseteq event[e].ever
        /\ event[e].phase = "queued" => event[e].steady \subseteq got
        /\ event[e].phase = "lost" => event[e].harmed /\ got = {}
===============================================================================
