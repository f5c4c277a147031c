----------------------------- MODULE Console_proofs -----------------------------
(***************************************************************************)
(* Theorems about Console, for any numbers of users, calls, codes,         *)
(* endpoints, events and mishaps: what its API promises, and what the URL  *)
(* panel shows.                                                            *)
(***************************************************************************)
EXTENDS Console, FiniteSetTheorems, TLAPS

(***************************************************************************)
(* The fan-out of events.                                                  *)
(***************************************************************************)
IsEvent(v) ==
  /\ v = [phase |-> v.phase, user |-> v.user, topic |-> v.topic, found |-> v.found,
          steady |-> v.steady, ever |-> v.ever, harmed |-> v.harmed]
  /\ v.found \subseteq Endpoints /\ v.steady \subseteq Endpoints /\ v.ever \subseteq Endpoints

IsRow(v) == v = [state |-> v.state, user |-> v.user, topics |-> v.topics, active |-> v.active]

FanoutTypes ==
  /\ DOMAIN endpoint = Endpoints /\ \A x \in Endpoints : IsRow(endpoint[x])
  /\ event = [e \in Events |-> event[e]] /\ \A e \in Events : IsEvent(event[e])
  /\ DOMAIN delivery = Pairs

\* What the endpoints and the deliveries are to an event, by the phase of its fan-out.
Emitted(e) ==
  \A x \in Endpoints :
    /\ x \in event[e].steady => Wanted(endpoint[x], e)
    /\ Wanted(endpoint[x], e) => x \in event[e].ever
Found(e) ==
  /\ event[e].steady \subseteq event[e].found /\ event[e].found \subseteq event[e].ever
  /\ event[e].harmed \/ \A x \in event[e].found : endpoint[x].state = "live"
Delivers(e) ==
  \A x \in Endpoints :
    /\ delivery[<<x, e>>] # "none" => event[e].phase = "queued" /\ x \in event[e].ever
    /\ event[e].phase = "queued" /\ x \in event[e].steady => delivery[<<x, e>>] # "none"
EventInv(e) ==
  /\ event[e].phase = "emitted" => Emitted(e)
  /\ event[e].phase = "found" => Found(e)
  /\ event[e].phase = "lost" => event[e].harmed
  /\ Delivers(e)

FanoutInv == FanoutTypes /\ \A e \in Events : EventInv(e)

\* The steps of the fan-out.
Statuses == {"pending", "delivering", "settled"}
Moves(d) == \E status \in Statuses : delivery[d] # "none" /\ delivery' = [delivery EXCEPT ![d] = status]
                                     /\ UNCHANGED <<endpoint, event>>
EndpointStep ==
  \E x \in Endpoints :
    \/ \E row : IsRow(row) /\ row.state = "live" /\ Rewrite(x, row) /\ UNCHANGED delivery
    \/ \E u : DeleteEndpoint(x, u)
EventStep ==
  \/ \E e \in Events : \E u, topic : Emit(e, u, topic)
  \/ \E e \in Events : FanoutStep(e)
  \/ \E lost \in SUBSET Events : FanoutsLost(lost)
FanoutNext == EndpointStep \/ EventStep \/ (\E d \in Pairs : Moves(d)) \/ UNCHANGED fanoutVars

LEMMA RewriteKeeps ==
    ASSUME FanoutInv, NEW x \in Endpoints, NEW row, IsRow(row), Rewrite(x, row),
           \/ row.state = "live" /\ delivery' = delivery
           \/ /\ row.state = "deleted"
              /\ delivery' = [d \in Pairs |-> IF d[1] = x THEN "none" ELSE delivery[d]]
    PROVE  FanoutInv'
<1>1. endpoint'[x] = row /\ \A y \in Endpoints : y # x => endpoint'[y] = endpoint[y]
  BY DEF Rewrite, FanoutInv, FanoutTypes
<1>2. ASSUME NEW e \in Events
      PROVE  /\ event'[e].phase = event[e].phase /\ event'[e].user = event[e].user
             /\ event'[e].topic = event[e].topic /\ event'[e].found = event[e].found
             /\ event'[e].steady = IF (Pending(e) /\ Wanted(row, e)) \/ (Through(e) /\ row.state = "live")
                                   THEN event[e].steady ELSE event[e].steady \ {x}
             /\ event'[e].ever = IF Pending(e) /\ Wanted(row, e) THEN event[e].ever \cup {x} ELSE event[e].ever
             /\ event'[e].harmed = (event[e].harmed \/ (row.state = "deleted" /\ x \in event[e].found))
             /\ IsEvent(event'[e])
  <2>1. PICK old, new : old = event[e] /\ new = event'[e] /\ IsEvent(old)
    BY DEF FanoutInv, FanoutTypes
  <2>2. PICK steady, ever, harmed :
          /\ steady = IF (Pending(e) /\ Wanted(row, e)) \/ (Through(e) /\ row.state = "live")
                      THEN old.steady ELSE old.steady \ {x}
          /\ ever = IF Pending(e) /\ Wanted(row, e) THEN old.ever \cup {x} ELSE old.ever
          /\ harmed = (old.harmed \/ (row.state = "deleted" /\ x \in old.found))
    OBVIOUS
  <2>3. new = [old EXCEPT !.steady = steady, !.ever = ever, !.harmed = harmed]
    BY <2>1, <2>2 DEF Rewrite, IsEvent
  <2>4. new = [phase |-> old.phase, user |-> old.user, topic |-> old.topic, found |-> old.found,
               steady |-> steady, ever |-> ever, harmed |-> harmed]
    BY <2>1, <2>3 DEF IsEvent
  <2>5. steady \subseteq Endpoints /\ ever \subseteq Endpoints
    BY <2>1, <2>2 DEF IsEvent
  <2> QED  BY <2>1, <2>2, <2>4, <2>5 DEF IsEvent
<1>3. FanoutTypes'
  <2>1. event' = [e \in Events |-> event'[e]] /\ DOMAIN endpoint' = Endpoints /\ DOMAIN delivery' = Pairs
    BY DEF Rewrite, FanoutInv, FanoutTypes
  <2>2. \A y \in Endpoints : IsRow(endpoint'[y])
    BY <1>1 DEF FanoutInv, FanoutTypes
  <2> QED  BY <1>2, <2>1, <2>2 DEF FanoutTypes
<1>4. SUFFICES ASSUME NEW e \in Events PROVE EventInv(e)'
  BY <1>3 DEF FanoutInv
<1>5. EventInv(e)
  BY DEF FanoutInv
<1>6. \A r : Wanted(r, e)' <=> Wanted(r, e)
  BY <1>2 DEF Wanted
<1>7. /\ \A y \in Endpoints : y # x => delivery'[<<y, e>>] = delivery[<<y, e>>]
      /\ row.state = "live" => delivery'[<<x, e>>] = delivery[<<x, e>>]
      /\ row.state = "deleted" => delivery'[<<x, e>>] = "none"
      /\ \A y \in Endpoints : delivery[<<y, e>>] = "none" => delivery'[<<y, e>>] = "none"
  BY DEF Pairs
<1>8. CASE event[e].phase = "emitted"
  <2>1. Pending(e) /\ ~Through(e)
    BY <1>8 DEF Pending, Through
  <2>2. ASSUME NEW y \in Endpoints
        PROVE  /\ y \in event'[e].steady => Wanted(endpoint'[y], e)
               /\ Wanted(endpoint'[y], e) => y \in event'[e].ever
    <3>1. /\ y \in event[e].steady => Wanted(endpoint[y], e)
          /\ Wanted(endpoint[y], e) => y \in event[e].ever
      BY <1>5, <1>8 DEF EventInv, Emitted
    <3>2. CASE y = x
      BY <1>1, <1>2, <2>1, <3>2
    <3>3. CASE y # x
      BY <1>1, <1>2, <2>1, <3>1, <3>3
    <3> QED  BY <3>2, <3>3
  <2>3. Emitted(e)'
    BY <2>2, <1>6 DEF Emitted
  <2>4. \A y \in Endpoints : delivery[<<y, e>>] = "none"
    BY <1>5, <1>8 DEF EventInv, Delivers
  <2>5. Delivers(e)'
    BY <1>2, <1>7, <1>8, <2>4 DEF Delivers
  <2> QED  BY <1>2, <1>8, <2>3, <2>5 DEF EventInv
<1>9. CASE event[e].phase = "found"
  <2>0. Found(e) /\ event[e].found \subseteq Endpoints
    BY <1>5, <1>9 DEF EventInv, FanoutInv, FanoutTypes, IsEvent
  <2>1. /\ event'[e].steady \subseteq event'[e].found
        /\ event'[e].found \subseteq event'[e].ever
    BY <1>2, <2>0 DEF Found
  <2>2. event'[e].harmed \/ \A y \in event'[e].found : endpoint'[y].state = "live"
    BY <1>1, <1>2, <2>0 DEF Found
  <2>3. \A y \in Endpoints : delivery[<<y, e>>] = "none"
    BY <1>5, <1>9 DEF EventInv, Delivers
  <2>4. Delivers(e)'
    BY <1>2, <1>7, <1>9, <2>3 DEF Delivers
  <2> QED  BY <1>2, <1>9, <2>1, <2>2, <2>4 DEF EventInv, Found
<1>10. CASE event[e].phase \notin {"emitted", "found"}
  <2>1. Delivers(e)'
    <3> SUFFICES ASSUME NEW y \in Endpoints
                 PROVE  /\ delivery'[<<y, e>>] # "none" => event'[e].phase = "queued" /\ y \in event'[e].ever
                        /\ event'[e].phase = "queued" /\ y \in event'[e].steady => delivery'[<<y, e>>] # "none"
      BY DEF Delivers
    <3>1. delivery[<<y, e>>] # "none" => event[e].phase = "queued" /\ y \in event[e].ever
      BY <1>5 DEF EventInv, Delivers
    <3>2. event[e].phase = "queued" /\ y \in event[e].steady => delivery[<<y, e>>] # "none"
      BY <1>5 DEF EventInv, Delivers
    <3>3. ~Pending(e)
      BY <1>10 DEF Pending
    <3>4. y = x /\ row.state = "deleted" => y \notin event'[e].steady
      BY <1>2, <3>3
    <3> QED  BY <1>2, <1>7, <3>1, <3>2, <3>4
  <2> QED  BY <1>2, <1>5, <1>10, <2>1 DEF EventInv
<1> QED  BY <1>8, <1>9, <1>10

LEMMA EndpointKeeps == FanoutInv /\ EndpointStep => FanoutInv'
<1> SUFFICES ASSUME FanoutInv, EndpointStep PROVE FanoutInv'
  OBVIOUS
<1>1. ASSUME NEW x \in Endpoints, NEW row, IsRow(row), row.state = "live",
             Rewrite(x, row), delivery' = delivery
      PROVE  FanoutInv'
  BY <1>1, RewriteKeeps
<1>2. ASSUME NEW x \in Endpoints, NEW u, DeleteEndpoint(x, u) PROVE FanoutInv'
  <2>1. PICK row : row = Deleted
    OBVIOUS
  <2>2. row = [state |-> "deleted", user |-> Nobody, topics |-> {}, active |-> FALSE]
    BY <2>1 DEF Deleted, Unborn
  <2>3. /\ row.state = "deleted" /\ IsRow(row) /\ Rewrite(x, row)
        /\ delivery' = [d \in Pairs |-> IF d[1] = x THEN "none" ELSE delivery[d]]
    BY <1>2, <2>1, <2>2 DEF DeleteEndpoint, IsRow
  <2> QED  BY <2>3, RewriteKeeps
<1> QED  BY <1>1, <1>2 DEF EndpointStep

LEMMA MoveKeeps == FanoutInv /\ (\E d \in Pairs : Moves(d)) => FanoutInv'
<1> SUFFICES ASSUME FanoutInv, NEW d \in Pairs, Moves(d) PROVE FanoutInv'
  OBVIOUS
<1>1. PICK status \in Statuses :
        /\ delivery[d] # "none" /\ delivery' = [delivery EXCEPT ![d] = status]
        /\ UNCHANGED <<endpoint, event>>
  BY DEF Moves
<1>2. FanoutTypes'
  BY <1>1 DEF FanoutInv, FanoutTypes, IsEvent
<1>3. \A p \in Pairs : delivery'[p] = "none" <=> delivery[p] = "none"
  BY <1>1 DEF FanoutInv, FanoutTypes, Statuses
<1>4. ASSUME NEW e \in Events PROVE EventInv(e)'
  <2>1. EventInv(e)
    BY DEF FanoutInv
  <2>2. \A x \in Endpoints : delivery'[<<x, e>>] = "none" <=> delivery[<<x, e>>] = "none"
    BY <1>3 DEF Pairs
  <2> QED  BY <1>1, <2>1, <2>2 DEF EventInv, Emitted, Found, Delivers, Wanted
<1> QED  BY <1>2, <1>4 DEF FanoutInv

\* One event changes.
LEMMA EventChange ==
    ASSUME FanoutInv, NEW e \in Events, NEW new, event' = [event EXCEPT ![e] = new],
           UNCHANGED endpoint, IsEvent(new), EventInv(e)', DOMAIN delivery' = Pairs,
           \A x \in Endpoints, f \in Events : f # e => delivery'[<<x, f>>] = delivery[<<x, f>>]
    PROVE  FanoutInv'
<1>1. FanoutTypes'
  BY DEF FanoutInv, FanoutTypes, IsEvent
<1>2. ASSUME NEW f \in Events, f # e PROVE EventInv(f)'
  <2>1. EventInv(f) /\ event'[f] = event[f]
    BY <1>2 DEF FanoutInv, FanoutTypes
  <2> QED  BY <1>2, <2>1 DEF EventInv, Emitted, Found, Delivers, Wanted
<1> QED  BY <1>1, <1>2 DEF FanoutInv

LEMMA NewEvent ==
    ASSUME NEW u, NEW topic, NEW wanted, NEW v,
           v = [NoEvent EXCEPT !.phase = "emitted", !.user = u, !.topic = topic,
                               !.steady = wanted, !.ever = wanted]
    PROVE  v = [phase |-> "emitted", user |-> u, topic |-> topic, found |-> {},
                steady |-> wanted, ever |-> wanted, harmed |-> FALSE]
<1>1. PICK w : w = [NoEvent EXCEPT !.phase = "emitted", !.user = u, !.topic = topic]
  OBVIOUS
<1>2. w = [phase |-> "emitted", user |-> u, topic |-> topic, found |-> {},
           steady |-> {}, ever |-> {}, harmed |-> FALSE]
  BY <1>1 DEF NoEvent
<1>3. v = [w EXCEPT !.steady = wanted, !.ever = wanted]
  BY <1>1
<1> QED  BY <1>2, <1>3

LEMMA EventKeeps == FanoutInv /\ EventStep => FanoutInv'
<1> SUFFICES ASSUME FanoutInv, EventStep PROVE FanoutInv'
  OBVIOUS
<1>0. ASSUME NEW e \in Events PROVE IsEvent(event[e]) /\ EventInv(e)
  BY DEF FanoutInv, FanoutTypes
<1>1. ASSUME NEW e \in Events, NEW u, NEW topic, Emit(e, u, topic) PROVE FanoutInv'
  <2>1. PICK wanted :
          /\ wanted = {x \in Endpoints : /\ endpoint[x].state = "live" /\ endpoint[x].active
                                         /\ endpoint[x].user = u /\ topic \in endpoint[x].topics}
          /\ event' = [event EXCEPT ![e] = [NoEvent EXCEPT !.phase = "emitted", !.user = u, !.topic = topic,
                                                          !.steady = wanted, !.ever = wanted]]
    BY <1>1, ZenonT(60) DEF Emit
  <2>2. PICK new : new = [phase |-> "emitted", user |-> u, topic |-> topic, found |-> {},
                          steady |-> wanted, ever |-> wanted, harmed |-> FALSE]
    OBVIOUS
  <2>3. /\ event' = [event EXCEPT ![e] = new] /\ event'[e] = new
        /\ UNCHANGED <<endpoint, delivery>> /\ event[e].phase = "none"
    <3>1. PICK v : v = [NoEvent EXCEPT !.phase = "emitted", !.user = u, !.topic = topic,
                                       !.steady = wanted, !.ever = wanted]
      OBVIOUS
    <3>4. v = new
      BY <2>2, <3>1, NewEvent
    <3>2. event' = [event EXCEPT ![e] = new]
      BY <2>1, <3>1, <3>4
    <3>3. event[e].phase = "none" /\ UNCHANGED <<endpoint, delivery>>
      BY <1>1 DEF Emit
    <3> QED  BY <3>2, <3>3 DEF FanoutInv, FanoutTypes
  <2>4. IsEvent(new)
    BY <2>1, <2>2 DEF IsEvent
  <2>5. Emitted(e)'
    BY <2>1, <2>2, <2>3 DEF Emitted, Wanted
  <2>6. Delivers(e)'
    BY <1>0, <2>2, <2>3 DEF EventInv, Delivers
  <2>7. EventInv(e)' /\ DOMAIN delivery' = Pairs
    BY <2>2, <2>3, <2>5, <2>6 DEF EventInv, FanoutInv, FanoutTypes
  <2> QED  BY <2>3, <2>4, <2>7, EventChange
<1>2. ASSUME NEW e \in Events, FindSubscribed(e) PROVE FanoutInv'
  <2>1. PICK old, found : /\ old = event[e] /\ IsEvent(old) /\ old.phase = "emitted"
                          /\ found = {x \in Endpoints : Subscribed(endpoint[x], old.user, old.topic)}
    BY <1>0, <1>2 DEF FindSubscribed
  <2>2. PICK new, phase : /\ new = [old EXCEPT !.found = found, !.phase = phase]
                          /\ phase = IF found = {} THEN "queued" ELSE "found"
    OBVIOUS
  <2>3. new = [phase |-> phase, user |-> old.user, topic |-> old.topic, found |-> found,
               steady |-> old.steady, ever |-> old.ever, harmed |-> old.harmed]
    BY <2>1, <2>2 DEF IsEvent
  <2>4. /\ event' = [event EXCEPT ![e] = new] /\ event'[e] = new
        /\ UNCHANGED <<endpoint, delivery>>
    BY <1>2, <2>1, <2>2 DEF FindSubscribed, FanoutInv, FanoutTypes
  <2>5. IsEvent(new)
    BY <2>1, <2>3 DEF IsEvent
  <2>6. Emitted(e) /\ Delivers(e)
    BY <1>0, <2>1 DEF EventInv
  <2>7. \A x \in Endpoints : Wanted(endpoint[x], e) <=> x \in found
    BY <2>1 DEF Wanted, Subscribed
  <2>8. old.steady \subseteq found /\ found \subseteq old.ever /\ \A x \in found : endpoint[x].state = "live"
    BY <2>1, <2>6, <2>7 DEF Emitted, IsEvent, Wanted
  <2>9. \A x \in Endpoints : delivery[<<x, e>>] = "none"
    BY <2>1, <2>6 DEF Delivers
  <2>10. Delivers(e)'
    BY <2>2, <2>3, <2>4, <2>8, <2>9 DEF Delivers
  <2>11. EventInv(e)' /\ DOMAIN delivery' = Pairs
    BY <2>2, <2>3, <2>4, <2>8, <2>10 DEF EventInv, Found, FanoutInv, FanoutTypes
  <2> QED  BY <2>4, <2>5, <2>11, EventChange
<1>3. ASSUME NEW e \in Events, CreateMany(e) PROVE FanoutInv'
  <2>1. PICK old : old = event[e] /\ IsEvent(old) /\ old.phase = "found" /\ Found(e) /\ Delivers(e)
    BY <1>0, <1>3 DEF CreateMany, EventInv
  <2>2. \A x \in Endpoints : delivery[<<x, e>>] = "none"
    BY <2>1 DEF Delivers
  <2>3. ASSUME NEW phase, event' = [event EXCEPT ![e].phase = phase], UNCHANGED endpoint,
               \/ phase = "queued" /\ delivery' = [d \in Pairs |-> IF d[1] \in old.found /\ d[2] = e
                                                                   THEN "pending" ELSE delivery[d]]
               \/ phase = "lost" /\ old.harmed /\ delivery' = delivery
        PROVE  FanoutInv'
    <3>1. PICK new : new = [old EXCEPT !.phase = phase]
      OBVIOUS
    <3>2. new = [phase |-> phase, user |-> old.user, topic |-> old.topic, found |-> old.found,
                 steady |-> old.steady, ever |-> old.ever, harmed |-> old.harmed]
      BY <2>1, <3>1 DEF IsEvent
    <3>3. event' = [event EXCEPT ![e] = new] /\ event'[e] = new /\ IsEvent(new)
      BY <2>1, <2>3, <3>1, <3>2 DEF IsEvent, FanoutInv, FanoutTypes
    <3>4. /\ DOMAIN delivery' = Pairs
          /\ \A x \in Endpoints, f \in Events : f # e => delivery'[<<x, f>>] = delivery[<<x, f>>]
          /\ \A x \in Endpoints : delivery'[<<x, e>>] =
               IF phase = "queued" /\ x \in old.found THEN "pending" ELSE "none"
      BY <2>2, <2>3 DEF Pairs, FanoutInv, FanoutTypes
    <3>5. Delivers(e)'
      BY <2>1, <3>2, <3>3, <3>4 DEF Delivers, Found
    <3>6. EventInv(e)'
      BY <2>3, <3>2, <3>3, <3>5 DEF EventInv
    <3> QED  BY <2>3, <3>3, <3>4, <3>6, EventChange
  <2>4. (\E x \in old.found : endpoint[x].state # "live") => old.harmed
    BY <2>1 DEF Found
  <2> QED  BY <1>3, <2>1, <2>3, <2>4 DEF CreateMany
<1>4. ASSUME NEW lost \in SUBSET Events, FanoutsLost(lost) PROVE FanoutInv'
  <2>1. ASSUME NEW e \in Events
        PROVE  /\ event'[e].user = event[e].user /\ event'[e].topic = event[e].topic
               /\ event'[e].steady = event[e].steady /\ event'[e].ever = event[e].ever
               /\ event'[e].found = event[e].found
               /\ \/ event'[e] = event[e]
                  \/ /\ event[e].phase \in {"emitted", "found"}
                     /\ event'[e].phase = "lost" /\ event'[e].harmed
               /\ IsEvent(event'[e])
    <3>1. PICK old : old = event[e] /\ IsEvent(old)
      BY <1>0
    <3>2. CASE e \notin lost
      BY <1>4, <3>1, <3>2 DEF FanoutsLost
    <3>3. CASE e \in lost
      <4>1. PICK new : new = [old EXCEPT !.phase = "lost", !.harmed = TRUE]
        OBVIOUS
      <4>2. new = [phase |-> "lost", user |-> old.user, topic |-> old.topic, found |-> old.found,
                   steady |-> old.steady, ever |-> old.ever, harmed |-> TRUE]
        BY <3>1, <4>1 DEF IsEvent
      <4>3. event'[e] = new /\ event[e].phase \in {"emitted", "found"}
        BY <1>4, <3>1, <3>3, <4>1 DEF FanoutsLost, Pending
      <4> QED  BY <3>1, <4>2, <4>3 DEF IsEvent
    <3> QED  BY <3>2, <3>3
  <2>2. UNCHANGED <<endpoint, delivery>> /\ event' = [e \in Events |-> event'[e]]
    BY <1>4 DEF FanoutsLost
  <2>3. FanoutTypes'
    BY <2>1, <2>2 DEF FanoutInv, FanoutTypes
  <2>4. ASSUME NEW e \in Events PROVE EventInv(e)'
    <3>1. EventInv(e)
      BY <1>0
    <3>2. CASE event'[e] = event[e]
      BY <2>2, <3>1, <3>2 DEF EventInv, Emitted, Found, Delivers, Wanted
    <3>3. CASE event[e].phase \in {"emitted", "found"} /\ event'[e].phase = "lost" /\ event'[e].harmed
      BY <2>2, <3>1, <3>3 DEF EventInv, Delivers
    <3> QED  BY <2>1, <3>2, <3>3
  <2> QED  BY <2>3, <2>4 DEF FanoutInv
<1> QED  BY <1>1, <1>2, <1>3, <1>4 DEF EventStep, FanoutStep

LEMMA FanoutKeeps == FanoutInv /\ FanoutNext => FanoutInv'
<1>1. FanoutInv /\ UNCHANGED fanoutVars => FanoutInv'
  BY DEF FanoutInv, FanoutTypes, fanoutVars, IsEvent, EventInv, Emitted, Found, Delivers, Wanted
<1> QED  BY <1>1, EndpointKeeps, EventKeeps, MoveKeeps DEF FanoutNext

LEMMA FanoutStarts == FanoutInit => FanoutInv
<1> SUFFICES ASSUME FanoutInit PROVE FanoutInv
  OBVIOUS
<1>1. \A e \in Events : event[e] = NoEvent
  BY DEF FanoutInit
<1>2. IsEvent(NoEvent) /\ NoEvent.phase = "none"
  BY DEF IsEvent, NoEvent
<1>3. FanoutTypes
  <2>1. IsRow(Unborn)
    BY DEF IsRow, Unborn
  <2> QED  BY <1>1, <1>2, <2>1 DEF FanoutInit, FanoutTypes
<1>4. \A e \in Events : EventInv(e)
  BY <1>1, <1>2 DEF FanoutInit, EventInv, Delivers, Pairs
<1> QED  BY <1>3, <1>4 DEF FanoutInv

LEMMA FanoutImplies == FanoutInv => FanOutExact
<1> SUFFICES ASSUME FanoutInv, NEW e \in Events
             PROVE  LET got == {x \in Endpoints : delivery[<<x, e>>] # "none"}
                    IN  /\ got \subseteq event[e].ever
                        /\ event[e].phase = "queued" => event[e].steady \subseteq got
                        /\ event[e].phase = "lost" => event[e].harmed /\ got = {}
  BY DEF FanOutExact
<1>1. EventInv(e) /\ Delivers(e) /\ event[e].steady \subseteq Endpoints
  BY DEF FanoutInv, FanoutTypes, IsEvent, EventInv
<1> QED  BY <1>1 DEF EventInv, Delivers

-------------------------------------------------------------------------------
(***************************************************************************)
(* The links.                                                              *)
(***************************************************************************)
IsCall(v) ==
  v = [op |-> v.op, user |-> v.user, key |-> v.key, kind |-> v.kind, phase |-> v.phase,
       attempt |-> v.attempt, status |-> v.status, by |-> v.by]
IsLink(v) == v = [by |-> v.by, user |-> v.user, kind |-> v.kind, life |-> v.life, hits |-> v.hits]

\* A call by itself: what it asks for goes with how far it is.
GoodCall(v) ==
  /\ IsCall(v)
  /\ v.phase # "done" => v.status = 0 /\ v.by = 0
  /\ v.op = "create" => v.key \in Codes
  /\ v.op = "qr" => v.key \in QrIds
  /\ v.phase = "exists" => v.op = "create"
  /\ v.phase = "insert" => v.op \in {"create", "qr"}
  /\ v.phase = "delete" => v.op = "delete" /\ v.key \in Codes
  /\ v.phase \in {"find", "count"} =>
       /\ v.op \in {"lookup", "redirect", "view", "scan"} /\ v.key \in Keys
       /\ v.op = "view" => v.key \in QrIds
  /\ v.phase = "count" => v.op # "lookup"

Settled(b) == b \in Calls /\ call[b].phase = "done"
Hits(b, row) == {q \in Calls : call[q].by = b /\ call[q].phase = "done" /\ Counted(call[q].op, row)}

\* A call and the rows: the row it names was made by a call that is through, what
\* is acknowledged is there or deleted, a code that is viewed redirects.
CallInv(c) ==
  /\ GoodCall(call[c])
  /\ call[c].by # 0 => Settled(call[c].by)
  /\ call[c].status = 201 =>
       /\ call[c].key \in Keys
       /\ (\E d \in Calls : Deletes(d, c)) \/ link[call[c].key].by = c
  /\ call[c].phase = "count" /\ call[c].op = "view" => link[call[c].key].kind = "redirect"
\* A row is that of its creator, and its count that of the calls answered with it.
RowInv(k) ==
  link[k] # NoLink =>
    /\ Settled(link[k].by) /\ call[link[k].by].key = k /\ call[link[k].by].user = link[k].user
    /\ call[link[k].by].op = IF k \in QrIds THEN "qr" ELSE "create"
    /\ link[k].hits = Cardinality(Hits(link[k].by, link[k]))
\* An id is drawn once.
DrawnOnce ==
  \A a, b \in Calls : a # b /\ call[a].op = "qr" /\ call[b].op = "qr" => call[a].key # call[b].key

LinkTypes ==
  /\ call = [c \in Calls |-> call[c]]
  /\ link = [k \in Keys |-> link[k]] /\ \A k \in Keys : IsLink(link[k])
LinkInv ==
  LinkTypes /\ DrawnOnce /\ (\A c \in Calls : CallInv(c)) /\ (\A k \in Keys : RowInv(k))

LEMMA Answered ==
    ASSUME NEW c \in Calls, NEW old, old = call[c], GoodCall(old),
           NEW status, NEW by, Answers(c, status, by)
    PROVE  \E v : /\ call' = [call EXCEPT ![c] = v]
                  /\ v.op = old.op /\ v.user = old.user /\ v.key = old.key
                  /\ v.phase = "done" /\ v.status = status /\ v.by = by /\ IsCall(v)
<1>1. PICK v : v = [old EXCEPT !.phase = "done", !.status = status, !.by = by]
  OBVIOUS
<1>2. call' = [call EXCEPT ![c] = v]
  BY <1>1 DEF Answers
<1>3. /\ v.op = old.op /\ v.user = old.user /\ v.key = old.key
      /\ v.phase = "done" /\ v.status = status /\ v.by = by /\ IsCall(v)
  <2>1. v = [op |-> old.op, user |-> old.user, key |-> old.key, kind |-> old.kind,
             phase |-> "done", attempt |-> old.attempt, status |-> status, by |-> by]
    BY <1>1 DEF GoodCall, IsCall
  <2> QED  BY <2>1 DEF IsCall
<1> QED  BY <1>2, <1>3

LEMMA NewCall ==
    ASSUME NEW op, NEW u, NEW k, NEW kind, NEW phase, NEW v,
           v = [op |-> op, user |-> u, key |-> k, kind |-> kind, phase |-> phase,
                attempt |-> 0, status |-> 0, by |-> 0]
    PROVE  /\ v.op = op /\ v.user = u /\ v.key = k /\ v.phase = phase
           /\ v.status = 0 /\ v.by = 0 /\ IsCall(v)
BY DEF IsCall

\* The steps of the links.
CallNext(c) ==
  \/ \E u, life : \E k \in Codes : BeginCreate(c, u, k, life)
  \/ \E u, mode : \E k \in QrIds : BeginQr(c, u, k, mode)
  \/ \E op \in {"lookup", "delete", "redirect", "view", "scan"} : \E u, k : Begin(c, op, u, k)
  \/ CallStep(c) \/ CallFails(c)
LinkNext ==
  \/ \E c \in Calls : CallNext(c)
  \/ \E k \in Codes : Expire(k)
  \/ UNCHANGED linkVars

LEMMA CountedRow ==
    ASSUME NEW row, IsLink(row), NEW new, new = [row EXCEPT !.hits = @ + 1]
    PROVE  /\ IsLink(new) /\ new.by = row.by /\ new.user = row.user /\ new.kind = row.kind
           /\ new.hits = row.hits + 1
<1>1. new = [by |-> row.by, user |-> row.user, kind |-> row.kind, life |-> row.life,
             hits |-> row.hits + 1]
  BY DEF IsLink
<1> QED  BY <1>1 DEF IsLink

\* A call goes on while the rows stay.
LEMMA CallGoesOn ==
    ASSUME LinkInv, NEW c \in Calls, NEW v, call' = [call EXCEPT ![c] = v], UNCHANGED link,
           call[c].phase # "done", GoodCall(v), v.status # 201,
           v.op = "qr" => \A b \in Calls : b # c /\ call[b].op = "qr" => call[b].key # v.key,
           v.phase = "count" /\ v.op = "view" => link[v.key].kind = "redirect",
           v.by # 0 => /\ v.key \in Keys /\ link[v.key] # NoLink /\ v.by = link[v.key].by
                       /\ ~Counted(v.op, link[v.key])
    PROVE  LinkInv'
<1>1. call'[c] = v /\ \A b \in Calls : b # c => call'[b] = call[b]
  BY DEF LinkInv, LinkTypes
<1>2. LinkTypes'
  BY DEF LinkInv, LinkTypes, IsLink
<1>3. DrawnOnce'
  BY <1>1 DEF LinkInv, DrawnOnce
<1>4. \A b : Settled(b) => Settled(b)' /\ b # c
  BY <1>1 DEF Settled
<1>5. ASSUME NEW b \in Calls PROVE CallInv(b)'
  <2>1. \A d \in Calls : Deletes(d, b) /\ b # c => Deletes(d, b)'
    BY <1>1 DEF Deletes
  <2>2. CASE b = c
    <3>1. v.by # 0 => Settled(v.by)
      BY DEF LinkInv, RowInv
    <3> QED  BY <1>1, <1>4, <2>2, <3>1 DEF CallInv, GoodCall, IsCall
  <2>3. CASE b # c
    <3>1. CallInv(b) /\ call'[b] = call[b]
      BY <1>1, <2>3 DEF LinkInv
    <3> QED  BY <1>4, <2>1, <2>3, <3>1 DEF CallInv, GoodCall, IsCall
  <2> QED  BY <2>2, <2>3
<1>6. ASSUME NEW k \in Keys, link[k] # NoLink PROVE RowInv(k)'
  <2>1. RowInv(k) /\ Settled(link[k].by) /\ call[link[k].by].key = k
    BY <1>6 DEF LinkInv, RowInv
  <2>2. PICK row : row = link[k]
    OBVIOUS
  <2>3. Settled(row.by)' /\ row.by # c /\ row.by \in Calls
    BY <1>4, <2>1, <2>2 DEF Settled
  <2>4. v.by = row.by => v.by # 0 /\ v.key = k
    <3>1. row.by # 0
      BY <2>3 DEF Calls
    <3>2. v.by # 0 => v.key \in Keys /\ link[v.key] # NoLink /\ v.by = link[v.key].by
      OBVIOUS
    <3>3. v.by # 0 => call[v.by].key = v.key
      BY <3>2 DEF LinkInv, RowInv
    <3> QED  BY <2>1, <2>2, <3>1, <3>3
  <2>5. v.by = row.by => ~Counted(v.op, row)
    BY <2>2, <2>4
  <2>6. \A q \in Calls :
          (call'[q].by = row.by /\ call'[q].phase = "done" /\ Counted(call'[q].op, row))
            <=> (call[q].by = row.by /\ call[q].phase = "done" /\ Counted(call[q].op, row))
    BY <1>1, <2>5
  <2>7. Hits(row.by, row)' = Hits(row.by, row)
    BY <2>6 DEF Hits, Counted
  <2> QED  BY <1>1, <2>1, <2>2, <2>3, <2>7 DEF RowInv
<1>7. \A k \in Keys : RowInv(k)'
  BY <1>6 DEF RowInv
<1> QED  BY <1>2, <1>3, <1>5, <1>7 DEF LinkInv

\* A call ends, and by it a row changes.
LEMMA CallEnds ==
    ASSUME LinkInv, NEW c \in Calls, NEW v, call' = [call EXCEPT ![c] = v],
           call[c].phase # "done", v.phase = "done", GoodCall(v),
           v.op = call[c].op, v.user = call[c].user, v.key = call[c].key,
           v.by # 0 => v.by = c \/ Settled(v.by)
    PROVE  /\ call'[c] = v /\ \A b \in Calls : b # c => call'[b] = call[b]
           /\ call' = [b \in Calls |-> call'[b]]
           /\ DrawnOnce' /\ (\A b \in Calls : GoodCall(call'[b]))
           /\ \A b \in Calls : call'[b].by # 0 => call'[b].by \in Calls /\ call'[call'[b].by].phase = "done"
           /\ \A b : Settled(b) => Settled(b)' /\ b # c
           /\ \A d, b \in Calls : Deletes(d, b) /\ b # c => Deletes(d, b)'
<1>1. /\ call'[c] = v /\ \A b \in Calls : b # c => call'[b] = call[b]
      /\ call' = [b \in Calls |-> call'[b]]
  BY DEF LinkInv, LinkTypes
<1>2. DrawnOnce'
  BY <1>1 DEF LinkInv, DrawnOnce
<1>3. \A b : Settled(b) => Settled(b)' /\ b # c
  BY <1>1 DEF Settled
<1>4. Settled(c)'
  BY <1>1 DEF Settled
<1>5. \A b \in Calls : GoodCall(call'[b])
  BY <1>1 DEF LinkInv, CallInv
<1>6. ASSUME NEW b \in Calls, call'[b].by # 0
      PROVE  call'[b].by \in Calls /\ call'[call'[b].by].phase = "done"
  <2>1. CASE b = c
    <3>1. call'[b].by = v.by
      BY <1>1, <2>1
    <3>2. CASE v.by = c
      BY <1>4, <3>1, <3>2 DEF Settled
    <3>3. CASE Settled(v.by)
      BY <1>3, <3>1, <3>3 DEF Settled
    <3> QED  BY <1>6, <3>1, <3>2, <3>3
  <2>2. CASE b # c
    <3>1. call'[b].by = call[b].by /\ Settled(call[b].by)
      BY <1>1, <1>6, <2>2 DEF LinkInv, CallInv
    <3> QED  BY <1>3, <3>1 DEF Settled
  <2> QED  BY <2>1, <2>2
<1>7. \A d, b \in Calls : Deletes(d, b) /\ b # c => Deletes(d, b)'
  BY <1>1 DEF Deletes
<1> QED  BY <1>1, <1>2, <1>3, <1>5, <1>6, <1>7

\* The rows that a call does not touch, when it ends.
LEMMA OtherRows ==
    ASSUME LinkInv, NEW c \in Calls, call[c].phase # "done",
           \A b \in Calls : b # c => call'[b] = call[b],
           NEW k \in Keys, link[k] # NoLink, link'[k] = link[k],
           call'[c].by # link[k].by
    PROVE  RowInv(k)'
<1>1. RowInv(k) /\ Settled(link[k].by)
  BY DEF LinkInv, RowInv
<1>2. PICK row : row = link[k]
  OBVIOUS
<1>3. row.by # c /\ row.by \in Calls /\ Settled(row.by)' /\ call'[row.by] = call[row.by]
  BY <1>1, <1>2 DEF Settled
<1>4. \A q \in Calls :
        (call'[q].by = row.by /\ call'[q].phase = "done" /\ Counted(call'[q].op, row))
          <=> (call[q].by = row.by /\ call[q].phase = "done" /\ Counted(call[q].op, row))
  BY <1>2
<1>5. Hits(row.by, row)' = Hits(row.by, row)
  BY <1>4 DEF Hits, Counted
<1> QED  BY <1>1, <1>2, <1>3, <1>5 DEF RowInv

LEMMA InsertKeeps ==
    ASSUME LinkInv, NEW c \in Calls, NEW v, NEW k, k = call[c].key, call[c].phase = "insert",
           link[k] = NoLink, link' = [link EXCEPT ![k] = NewRow(c)],
           call' = [call EXCEPT ![c] = v], v.phase = "done", IsCall(v),
           v.op = call[c].op, v.user = call[c].user, v.key = k, v.by = c, v.status \in {201, 500}
    PROVE  LinkInv'
<1>1. PICK op : op = call[c].op /\ op \in {"create", "qr"}
                /\ (op = "create" => k \in Codes) /\ (op = "qr" => k \in QrIds)
  BY DEF LinkInv, CallInv, GoodCall
<1>2. GoodCall(v) /\ k \in Keys
  BY <1>1 DEF GoodCall, Keys
<1>3. /\ call'[c] = v /\ \A b \in Calls : b # c => call'[b] = call[b]
      /\ call' = [b \in Calls |-> call'[b]]
      /\ DrawnOnce' /\ (\A b \in Calls : GoodCall(call'[b]))
      /\ \A b \in Calls : call'[b].by # 0 => call'[b].by \in Calls /\ call'[call'[b].by].phase = "done"
      /\ \A b : Settled(b) => Settled(b)' /\ b # c
      /\ \A d, b \in Calls : Deletes(d, b) /\ b # c => Deletes(d, b)'
  <2>1. /\ call[c].phase # "done" /\ (v.by # 0 => v.by = c \/ Settled(v.by))
        /\ LinkInv /\ call' = [call EXCEPT ![c] = v] /\ v.phase = "done"
        /\ v.op = call[c].op /\ v.user = call[c].user /\ v.key = call[c].key
    OBVIOUS
  <2> QED  BY <1>2, <2>1, CallEnds, ZenonT(60)
<1>4. PICK row : row = NewRow(c)
  OBVIOUS
<1>5. IsLink(row) /\ row.by = c /\ row.user = call[c].user /\ row.hits = 0
  BY <1>4 DEF NewRow, IsLink
<1>6. link'[k] = row /\ \A x \in Keys : x # k => link'[x] = link[x]
  BY <1>2, <1>4 DEF LinkInv, LinkTypes
<1>7. LinkTypes'
  BY <1>2, <1>3, <1>4, <1>5, <1>6 DEF LinkInv, LinkTypes
<1>8. ASSUME NEW b \in Calls PROVE CallInv(b)'
  <2>1. CASE b = c
    <3>1. call'[b] = v /\ GoodCall(v) /\ (call'[b].by # 0 => Settled(call[b].by)')
      BY <1>3, <2>1 DEF Settled
    <3>2. link'[v.key].by = c
      BY <1>5, <1>6
    <3> QED  BY <1>2, <2>1, <3>1, <3>2 DEF CallInv
  <2>2. CASE b # c
    <3>1. CallInv(b) /\ call'[b] = call[b] /\ b # 0
      BY <1>3, <2>2 DEF LinkInv, Calls
    <3>2. call[b].status = 201 /\ link[call[b].key].by = b => link'[call[b].key].by = b
      <4>1. NoLink.by = 0
        BY DEF NoLink
      <4>2. call[b].status = 201 => call[b].key \in Keys
        BY <3>1 DEF CallInv
      <4> QED  BY <1>6, <3>1, <4>1, <4>2
    <3>3. call[b].phase = "count" /\ call[b].op = "view" =>
            link'[call[b].key].kind = "redirect"
      <4>1. NoLink.kind # "redirect"
        BY DEF NoLink
      <4>2. call[b].phase = "count" => call[b].key \in Keys
        BY <3>1 DEF CallInv, GoodCall
      <4> QED  BY <1>6, <3>1, <4>1, <4>2 DEF CallInv
    <3> QED  BY <1>3, <2>2, <3>1, <3>2, <3>3 DEF CallInv, Settled
  <2> QED  BY <2>1, <2>2
<1>9. ASSUME NEW x \in Keys, link'[x] # NoLink PROVE RowInv(x)'
  <2>1. CASE x = k
    <3>1. Hits(c, row)' = {}
      <4>1. \A q \in Calls : q # c => call[q].by # c
        <5>1. c # 0 /\ ~Settled(c)
          BY DEF Calls, Settled
        <5> QED  BY <5>1 DEF LinkInv, CallInv
      <4>2. ~Counted(v.op, row)
        BY <1>1 DEF Counted
      <4> QED  BY <1>3, <4>1, <4>2 DEF Hits, Counted
    <3>2. Settled(c)' /\ (op = "qr" <=> k \in QrIds)
      BY <1>1, <1>3, LinksAssumption DEF Settled, LinksAssumption
    <3>3. Cardinality(Hits(c, row)') = 0
      BY <3>1, FS_EmptySet
    <3>4. call'[c].key = k /\ call'[c].user = row.user /\ call'[c].op = op
      BY <1>1, <1>3, <1>5
    <3> QED  BY <1>1, <1>5, <1>6, <2>1, <3>2, <3>3, <3>4 DEF RowInv
  <2>2. CASE x # k
    <3>1. link'[x] = link[x] /\ link[x] # NoLink
      BY <1>6, <1>9, <2>2
    <3>2. v.by # link[x].by /\ call[c].phase # "done"
      BY <3>1 DEF LinkInv, RowInv, Settled
    <3>3. /\ call'[c].by # link[x].by
          /\ \A b \in Calls : b # c => call'[b] = call[b]
      BY <1>3, <3>2
    <3> QED  BY <3>1, <3>2, <3>3, OtherRows
  <2> QED  BY <2>1, <2>2
<1>10. \A x \in Keys : RowInv(x)'
  BY <1>9 DEF RowInv
<1> QED  BY <1>3, <1>7, <1>8, <1>10 DEF LinkInv

\* What a call that ends leaves of the others, when the rows keep their kinds.
LEMMA OtherCalls ==
    ASSUME LinkInv, NEW c \in Calls, NEW b \in Calls, b # c, call'[b] = call[b],
           GoodCall(call'[b]),
           call'[b].by # 0 => call'[b].by \in Calls /\ call'[call'[b].by].phase = "done",
           \A d \in Calls : Deletes(d, b) => Deletes(d, b)',
           call[b].key \in Keys /\ link[call[b].key].by = b =>
             link'[call[b].key].by = b \/ Deletes(c, b)',
           call[b].phase = "count" /\ call[b].op = "view" /\ call[b].key \in QrIds =>
             link'[call[b].key].kind = link[call[b].key].kind
    PROVE  CallInv(b)'
<1>1. CallInv(b)
  BY DEF LinkInv
<1>2. call[b].status = 201 => (\E d \in Calls : Deletes(d, b)') \/ link'[call[b].key].by = b
  BY <1>1 DEF CallInv
<1>3. call[b].phase = "count" /\ call[b].op = "view" => link'[call[b].key].kind = "redirect"
  BY <1>1 DEF CallInv, GoodCall
<1> QED  BY <1>1, <1>2, <1>3 DEF CallInv, Settled

LEMMA DeleteKeeps ==
    ASSUME LinkInv, NEW c \in Calls, NEW v, NEW k, k = call[c].key, call[c].phase = "delete",
           MayDelete(link[k], call[c].user), link' = [link EXCEPT ![k] = NoLink],
           call' = [call EXCEPT ![c] = v], v.phase = "done", IsCall(v),
           v.op = call[c].op, v.user = call[c].user, v.key = k, v.by = link[k].by,
           v.status \in {204, 500}
    PROVE  LinkInv'
<1>1. /\ call[c].op = "delete" /\ k \in Codes /\ k \in Keys
      /\ link[k] # NoLink /\ link[k].user = call[c].user
  BY DEF LinkInv, CallInv, GoodCall, MayDelete, Keys
<1>2. PICK a : a = link[k].by /\ Settled(a) /\ call[a].key = k /\ call[a].user = call[c].user
  BY <1>1 DEF LinkInv, RowInv
<1>3. /\ call'[c] = v /\ \A b \in Calls : b # c => call'[b] = call[b]
      /\ call' = [b \in Calls |-> call'[b]]
      /\ DrawnOnce' /\ (\A b \in Calls : GoodCall(call'[b]))
      /\ \A b \in Calls : call'[b].by # 0 => call'[b].by \in Calls /\ call'[call'[b].by].phase = "done"
      /\ \A b : Settled(b) => Settled(b)' /\ b # c
      /\ \A d, b \in Calls : Deletes(d, b) /\ b # c => Deletes(d, b)'
  <2>1. GoodCall(v)
    BY <1>1 DEF GoodCall
  <2>2. /\ call[c].phase # "done" /\ (v.by # 0 => v.by = c \/ Settled(v.by))
        /\ LinkInv /\ call' = [call EXCEPT ![c] = v] /\ v.phase = "done"
        /\ v.op = call[c].op /\ v.user = call[c].user /\ v.key = call[c].key
    BY <1>2
  <2> QED  BY <2>1, <2>2, CallEnds, ZenonT(60)
<1>4. link'[k] = NoLink /\ \A x \in Keys : x # k => link'[x] = link[x]
  BY <1>1 DEF LinkInv, LinkTypes
<1>5. LinkTypes'
  <2>1. IsLink(NoLink)
    BY DEF IsLink, NoLink
  <2> QED  BY <1>3, <1>4, <2>1 DEF LinkInv, LinkTypes
<1>6. ASSUME NEW b \in Calls PROVE CallInv(b)'
  <2>1. CASE b = c
    BY <1>3, <2>1 DEF CallInv, Settled
  <2>2. CASE b # c
    <3>1. call'[b] = call[b]
      BY <1>3, <2>2
    <3>2. ASSUME call[b].key \in Keys, link[call[b].key].by = b
          PROVE  link'[call[b].key].by = b \/ Deletes(c, b)'
      <4>1. CASE call[b].key = k
        <5>1. b = a
          BY <1>2, <3>2, <4>1
        <5>2. v.op = "delete" /\ v.by = b /\ v.user = call[b].user
          BY <1>1, <1>2, <5>1
        <5>3. call'[c] = v
          BY <1>3
        <5> QED  BY <3>1, <5>2, <5>3 DEF Deletes
      <4>2. CASE call[b].key # k
        BY <1>4, <3>2, <4>2
      <4> QED  BY <4>1, <4>2
    <3>3. call[b].key \in QrIds => link'[call[b].key].kind = link[call[b].key].kind
      BY <1>1, <1>4, LinksAssumption DEF LinksAssumption, Keys
    <3>4. \A d \in Calls : Deletes(d, b) => Deletes(d, b)'
      BY <1>3, <2>2
    <3>5. /\ GoodCall(call'[b])
          /\ call'[b].by # 0 => call'[b].by \in Calls /\ call'[call'[b].by].phase = "done"
      BY <1>3
    <3> QED  BY <2>2, <3>1, <3>2, <3>3, <3>4, <3>5, OtherCalls
  <2> QED  BY <2>1, <2>2
<1>7. ASSUME NEW x \in Keys, link'[x] # NoLink PROVE RowInv(x)'
  <2>1. x # k /\ link'[x] = link[x] /\ link[x] # NoLink
    BY <1>4, <1>7
  <2>2. call[link[x].by].key = x
    BY <2>1 DEF LinkInv, RowInv
  <2>3. call'[c].by = a
    BY <1>2, <1>3
  <2>4. call'[c].by # link[x].by
    BY <1>2, <2>1, <2>2, <2>3
  <2>5. call[c].phase # "done" /\ \A b \in Calls : b # c => call'[b] = call[b]
    BY <1>3
  <2> QED  BY <2>1, <2>4, <2>5, OtherRows
<1>8. \A x \in Keys : RowInv(x)'
  BY <1>7 DEF RowInv
<1> QED  BY <1>3, <1>5, <1>6, <1>8 DEF LinkInv

LEMMA HitsAreFinite == \A b, row : IsFiniteSet(Hits(b, row))
<1>1. IsFiniteSet(Calls)
  <2>1. 1 \in Int /\ MaxCalls \in Int
    BY LinksAssumption DEF LinksAssumption
  <2> QED  BY <2>1, FS_Interval DEF Calls
<1> QED  BY <1>1, FS_Subset DEF Hits

LEMMA OneMore ==
  ASSUME NEW S, IsFiniteSet(S), NEW x, x \notin S
  PROVE  Cardinality(S \cup {x}) = Cardinality(S) + 1
BY FS_AddElement

LEMMA CountKeeps ==
    ASSUME LinkInv, NEW c \in Calls, NEW v, NEW k, k = call[c].key, call[c].phase = "count",
           link[k] # NoLink, NEW new, link' = [link EXCEPT ![k] = new], IsLink(new),
           new.by = link[k].by, new.user = link[k].user, new.kind = link[k].kind,
           new.hits = link[k].hits + 1,
           call' = [call EXCEPT ![c] = v], v.phase = "done", IsCall(v),
           v.op = call[c].op, v.user = call[c].user, v.key = k, v.by = link[k].by,
           v.status \in {200, 302, 500}
    PROVE  LinkInv'
<1>1. /\ call[c].op \in {"redirect", "scan", "view"} /\ k \in Keys
      /\ call[c].op = "view" => link[k].kind = "redirect"
  BY DEF LinkInv, CallInv, GoodCall
<1>2. PICK old : old = link[k]
  OBVIOUS
<1>3. /\ new.by = old.by /\ new.user = old.user /\ new.kind = old.kind
      /\ new.hits = old.hits + 1
  BY <1>2
<1>4. /\ Settled(old.by) /\ call[old.by].key = k /\ call[old.by].user = old.user
      /\ call[old.by].op = (IF k \in QrIds THEN "qr" ELSE "create")
      /\ old.hits = Cardinality(Hits(old.by, old))
  BY <1>1, <1>2 DEF LinkInv, RowInv
<1>5. /\ call'[c] = v /\ \A b \in Calls : b # c => call'[b] = call[b]
      /\ call' = [b \in Calls |-> call'[b]]
      /\ DrawnOnce' /\ (\A b \in Calls : GoodCall(call'[b]))
      /\ \A b \in Calls : call'[b].by # 0 => call'[b].by \in Calls /\ call'[call'[b].by].phase = "done"
      /\ \A b : Settled(b) => Settled(b)' /\ b # c
      /\ \A d, b \in Calls : Deletes(d, b) /\ b # c => Deletes(d, b)'
  <2>1. GoodCall(v)
    BY <1>1 DEF GoodCall
  <2>2. /\ call[c].phase # "done" /\ (v.by # 0 => v.by = c \/ Settled(v.by))
        /\ LinkInv /\ call' = [call EXCEPT ![c] = v] /\ v.phase = "done"
        /\ v.op = call[c].op /\ v.user = call[c].user /\ v.key = call[c].key
    BY <1>2, <1>4
  <2> QED  BY <2>1, <2>2, CallEnds, ZenonT(60)
<1>6. link'[k] = new /\ \A x \in Keys : x # k => link'[x] = link[x]
  BY <1>1 DEF LinkInv, LinkTypes
<1>7. LinkTypes'
  BY <1>3, <1>5, <1>6, SMTT(30) DEF LinkInv, LinkTypes
<1>8. ASSUME NEW b \in Calls PROVE CallInv(b)'
  <2>1. CASE b = c
    BY <1>5, <2>1 DEF CallInv, Settled
  <2>2. CASE b # c
    <3>1. \A x \in Keys : link'[x].by = link[x].by /\ link'[x].kind = link[x].kind
      BY <1>2, <1>3, <1>6
    <3>2. call[b].key \in Keys /\ link[call[b].key].by = b => link'[call[b].key].by = b
      BY <3>1
    <3>3. call[b].key \in QrIds => link'[call[b].key].kind = link[call[b].key].kind
      BY <3>1 DEF Keys
    <3>4. /\ call'[b] = call[b] /\ \A d \in Calls : Deletes(d, b) => Deletes(d, b)'
      BY <1>5, <2>2
    <3>5. /\ GoodCall(call'[b])
          /\ call'[b].by # 0 => call'[b].by \in Calls /\ call'[call'[b].by].phase = "done"
      BY <1>5
    <3> QED  BY <2>2, <3>2, <3>3, <3>4, <3>5, OtherCalls
  <2> QED  BY <2>1, <2>2
<1>9. ASSUME NEW x \in Keys, link'[x] # NoLink PROVE RowInv(x)'
  <2>1. CASE x = k
    <3>1. Hits(old.by, new)' = Hits(old.by, old) \cup {c}
      <4>1. \A op : Counted(op, new) <=> Counted(op, old)
        BY <1>3 DEF Counted
      <4>2. call'[c].by = old.by /\ call'[c].phase = "done" /\ Counted(call'[c].op, old)
        BY <1>1, <1>2, <1>5 DEF Counted
      <4>3. \A q \in Calls : q # c => call'[q] = call[q]
        BY <1>5
      <4> QED  BY <4>1, <4>2, <4>3 DEF Hits
    <3>2. IsFiniteSet(Hits(old.by, old))
      BY HitsAreFinite
    <3>3. c \notin Hits(old.by, old)
      BY DEF Hits
    <3>4. Cardinality(Hits(old.by, new)') = Cardinality(Hits(old.by, old)) + 1
      BY <3>1, <3>2, <3>3, OneMore
    <3>5. call'[old.by] = call[old.by] /\ Settled(old.by)'
      BY <1>4, <1>5 DEF Settled
    <3> QED  BY <1>3, <1>4, <1>6, <2>1, <3>4, <3>5 DEF RowInv
  <2>2. CASE x # k
    <3>1. link'[x] = link[x] /\ link[x] # NoLink
      BY <1>6, <1>9, <2>2
    <3>2. call[link[x].by].key = x
      BY <3>1 DEF LinkInv, RowInv
    <3>3. call'[c].by = old.by
      BY <1>2, <1>5
    <3>4. call'[c].by # link[x].by
      BY <1>4, <2>2, <3>2, <3>3
    <3>5. call[c].phase # "done" /\ \A b \in Calls : b # c => call'[b] = call[b]
      BY <1>5
    <3> QED  BY <3>1, <3>4, <3>5, OtherRows
  <2> QED  BY <2>1, <2>2
<1>10. \A x \in Keys : RowInv(x)'
  BY <1>9 DEF RowInv
<1> QED  BY <1>5, <1>7, <1>8, <1>10 DEF LinkInv

LEMMA ExpireKeeps == ASSUME LinkInv, NEW k \in Codes, Expire(k) PROVE LinkInv'
<1>1. PICK old, new : /\ old = link[k] /\ new = [old EXCEPT !.life = "past"] /\ IsLink(old)
                      /\ old.life = "later" /\ k \in Keys
  BY DEF Expire, LinkInv, LinkTypes, Keys
<1>2. new = [by |-> old.by, user |-> old.user, kind |-> old.kind, life |-> "past", hits |-> old.hits]
  BY <1>1 DEF IsLink
<1>3. link' = [link EXCEPT ![k] = new] /\ UNCHANGED call
  BY <1>1 DEF Expire
<1>4. IsLink(new) /\ new.by = old.by /\ new.user = old.user /\ new.kind = old.kind /\ new.hits = old.hits
  BY <1>2 DEF IsLink
<1>5. \A x \in Keys : /\ link'[x].by = link[x].by /\ link'[x].user = link[x].user
                      /\ link'[x].kind = link[x].kind /\ link'[x].hits = link[x].hits
                      /\ IsLink(link'[x]) /\ (link[x] = NoLink => link'[x] = NoLink)
  BY <1>1, <1>3, <1>4 DEF LinkInv, LinkTypes, NoLink
<1>6. LinkTypes'
  BY <1>3, <1>5 DEF LinkInv, LinkTypes
<1>7. DrawnOnce'
  BY <1>3 DEF LinkInv, DrawnOnce
<1>8. \A c \in Calls : CallInv(c)'
  BY <1>3, <1>5 DEF LinkInv, CallInv, GoodCall, IsCall, Deletes, Settled, Keys
<1>9. ASSUME NEW x \in Keys PROVE RowInv(x)'
  <2>1. PICK a, row, next : a = link[x].by /\ row = link[x] /\ next = link'[x]
    OBVIOUS
  <2>2. Hits(a, next)' = Hits(a, row)
    BY <1>3, <1>5, <2>1 DEF Hits, Counted
  <2> QED  BY <1>3, <1>5, <2>1, <2>2 DEF LinkInv, RowInv, Settled
<1> QED  BY <1>6, <1>7, <1>8, <1>9 DEF LinkInv

\* A call is answered while the rows stay.
LEMMA AnswerKeeps ==
    ASSUME LinkInv, NEW c \in Calls, NEW status, NEW by, Answers(c, status, by), UNCHANGED link,
           call[c].phase # "done", status # 201,
           by # 0 => /\ call[c].key \in Keys /\ link[call[c].key] # NoLink
                     /\ by = link[call[c].key].by /\ ~Counted(call[c].op, link[call[c].key])
    PROVE  LinkInv'
<1>1. PICK old : old = call[c] /\ GoodCall(old)
  BY DEF LinkInv, CallInv
<1>2. PICK v : /\ call' = [call EXCEPT ![c] = v]
               /\ v.op = old.op /\ v.user = old.user /\ v.key = old.key
               /\ v.phase = "done" /\ v.status = status /\ v.by = by /\ IsCall(v)
  BY <1>1, Answered
<1>3. GoodCall(v)
  BY <1>1, <1>2 DEF GoodCall
<1>4. v.op = "qr" => \A b \in Calls : b # c /\ call[b].op = "qr" => call[b].key # v.key
  BY <1>1, <1>2, ZenonT(60) DEF LinkInv, DrawnOnce
<1>5. /\ v.status # 201 /\ ~(v.phase = "count" /\ v.op = "view")
      /\ v.by # 0 => /\ v.key \in Keys /\ link[v.key] # NoLink /\ v.by = link[v.key].by
                     /\ ~Counted(v.op, link[v.key])
  BY <1>1, <1>2
<1> QED  BY <1>2, <1>3, <1>4, <1>5, CallGoesOn, ZenonT(60)

\* A call goes on to its next statement.
LEMMA GoesKeeps ==
    ASSUME LinkInv, NEW c \in Calls, NEW phase, Goes(c, phase), UNCHANGED link,
           \/ call[c].phase = "exists" /\ phase = "insert"
           \/ /\ call[c].phase = "find" /\ phase = "count" /\ call[c].op # "lookup"
              /\ call[c].op = "view" => link[call[c].key].kind = "redirect"
    PROVE  LinkInv'
<1>1. PICK old, v : old = call[c] /\ GoodCall(old) /\ v = [old EXCEPT !.phase = phase]
  BY DEF LinkInv, CallInv
<1>2. call' = [call EXCEPT ![c] = v]
  BY <1>1 DEF Goes
<1>3. /\ v.op = old.op /\ v.key = old.key /\ v.phase = phase
      /\ v.status = old.status /\ v.by = old.by /\ IsCall(v)
  <2>1. v = [op |-> old.op, user |-> old.user, key |-> old.key, kind |-> old.kind, phase |-> phase,
             attempt |-> old.attempt, status |-> old.status, by |-> old.by]
    BY <1>1 DEF GoodCall, IsCall
  <2> QED  BY <2>1 DEF IsCall
<1>4. GoodCall(v) /\ v.status = 0 /\ v.by = 0 /\ old.phase # "done"
  BY <1>1, <1>3 DEF GoodCall
<1>5. v.op = "qr" => \A b \in Calls : b # c /\ call[b].op = "qr" => call[b].key # v.key
  BY <1>1, <1>3 DEF LinkInv, DrawnOnce
<1>6. v.phase = "count" /\ v.op = "view" => link[v.key].kind = "redirect"
  BY <1>1, <1>3
<1>7. call[c].phase # "done" /\ v.status # 201 /\ ~(v.by # 0)
  BY <1>1, <1>4
<1> QED  BY <1>2, <1>4, <1>5, <1>6, <1>7, CallGoesOn, ZenonT(60)

LEMMA RedrawnCall ==
    ASSUME NEW old, IsCall(old), NEW k, NEW n, NEW v,
           v = [old EXCEPT !.key = k, !.attempt = n, !.phase = "exists"]
    PROVE  v = [op |-> old.op, user |-> old.user, key |-> k, kind |-> old.kind,
                phase |-> "exists", attempt |-> n, status |-> old.status, by |-> old.by]
BY DEF IsCall

\* The drawn code is taken; the id of a QR code never is.
LEMMA RedrawKeeps ==
    ASSUME LinkInv, NEW c \in Calls, Redraw(c), UNCHANGED link,
           call[c].phase \in {"exists", "insert"}, link[call[c].key] # NoLink
    PROVE  LinkInv'
<1>1. PICK old : old = call[c] /\ GoodCall(old)
  BY DEF LinkInv, CallInv
<1>2. CASE Answers(c, 503, 0)
  BY <1>2, AnswerKeeps
<1>3. CASE \E k \in Codes :
             call' = [call EXCEPT ![c] = [@ EXCEPT !.key = k, !.attempt = call[c].attempt + 1,
                                                   !.phase = "exists"]]
  <2>1. PICK k \in Codes :
          call' = [call EXCEPT ![c] = [@ EXCEPT !.key = k, !.attempt = call[c].attempt + 1,
                                                !.phase = "exists"]]
    BY <1>3
  <2>2. PICK v : v = [call[c] EXCEPT !.key = k, !.attempt = call[c].attempt + 1, !.phase = "exists"]
    OBVIOUS
  <2>3. call' = [call EXCEPT ![c] = v]
    BY <2>1, <2>2
  <2>4. PICK n : v = [op |-> old.op, user |-> old.user, key |-> k, kind |-> old.kind,
                      phase |-> "exists", attempt |-> n, status |-> old.status, by |-> old.by]
    <3>1. PICK n : v = [old EXCEPT !.key = k, !.attempt = n, !.phase = "exists"]
      BY <1>1, <2>2
    <3>2. IsCall(old)
      BY <1>1 DEF GoodCall
    <3> QED  BY <3>1, <3>2, RedrawnCall
  <2>5. old.op = "create"
    <3>1. old.op = "qr" => old.phase = "insert" /\ old.key \in QrIds
      BY <1>1 DEF GoodCall
    <3>2. old.op = "qr" => FALSE
      BY <1>1, <3>1 DEF LinkInv, RowInv, DrawnOnce, Settled, Keys
    <3> QED  BY <1>1, <3>2 DEF GoodCall
  <2>6. v.op = "create" /\ v.phase = "exists" /\ v.status = 0 /\ v.by = 0 /\ IsCall(v) /\ v.key = k
    BY <1>1, <2>4, <2>5 DEF GoodCall, IsCall
  <2>7. GoodCall(v) /\ call[c].phase # "done"
    BY <2>6 DEF GoodCall
  <2>8. /\ v.op # "qr" /\ v.phase # "count" /\ v.status # 201 /\ ~(v.by # 0)
        /\ LinkInv /\ UNCHANGED link
    BY <2>6
  <2> QED  BY <2>3, <2>7, <2>8, CallGoesOn, ZenonT(60)
<1> QED  BY <1>2, <1>3 DEF Redraw

\* A call begins.
LEMMA BeginKeeps ==
    ASSUME LinkInv, NEW c \in Calls, NEW v, call' = [call EXCEPT ![c] = v], UNCHANGED link,
           call[c].phase = "new", IsCall(v), v.status = 0, v.by = 0,
           \/ v.phase = "exists" /\ v.op = "create" /\ v.key \in Codes
           \/ /\ v.phase = "insert" /\ v.op = "qr" /\ v.key \in QrIds
              /\ \A b \in Calls : call[b].op = "qr" => call[b].key # v.key
           \/ v.phase = "delete" /\ v.op = "delete" /\ v.key \in Codes
           \/ v.phase = "find" /\ v.op \in {"lookup", "redirect"} /\ v.key \in Codes
           \/ v.phase = "find" /\ v.op \in {"view", "scan"} /\ v.key \in QrIds
    PROVE  LinkInv'
<1>1. GoodCall(v) /\ call[c].phase # "done"
  BY DEF GoodCall, Keys
<1>2. /\ v.status # 201 /\ ~(v.by # 0) /\ v.phase # "count"
      /\ v.op = "qr" => \A b \in Calls : b # c /\ call[b].op = "qr" => call[b].key # v.key
      /\ LinkInv /\ UNCHANGED link /\ call' = [call EXCEPT ![c] = v]
  OBVIOUS
<1> QED  BY <1>1, <1>2, CallGoesOn, ZenonT(60)

LEMMA StatementKeeps == ASSUME LinkInv, NEW c \in Calls, CallStep(c) PROVE LinkInv'
<1>0. PICK old, k : old = call[c] /\ GoodCall(old) /\ k = old.key
  BY DEF LinkInv, CallInv
<1>1. CASE Exists(c)
  <2>1. /\ call[c].phase = "exists" /\ UNCHANGED link
        /\ (link[call[c].key] # NoLink /\ Redraw(c)) \/ Goes(c, "insert")
    BY <1>1 DEF Exists
  <2> QED  BY <2>1, RedrawKeeps, GoesKeeps
<1>2. CASE Insert(c)
  <2>1. call[c].phase = "insert"
    BY <1>2 DEF Insert
  <2>2. CASE link[call[c].key] # NoLink /\ Redraw(c) /\ UNCHANGED link
    BY <2>1, <2>2, RedrawKeeps
  <2>3. CASE /\ link[call[c].key] = NoLink /\ link' = [link EXCEPT ![call[c].key] = NewRow(c)]
             /\ Commits(c, 201, c)
    <3>1. PICK status \in {201, 500} : Answers(c, status, c)
      BY <2>3 DEF Commits
    <3>2. Answers(c, status, c) /\ old = call[c] /\ GoodCall(old)
      BY <1>0, <3>1
    <3>3. PICK v : /\ call' = [call EXCEPT ![c] = v]
                   /\ v.op = old.op /\ v.user = old.user /\ v.key = old.key
                   /\ v.phase = "done" /\ v.status = status /\ v.by = c /\ IsCall(v)
      BY <3>2, Answered
    <3>4. v.key = k
      BY <1>0, <3>3
    <3>5. k = call[c].key /\ link[k] = NoLink /\ link' = [link EXCEPT ![k] = NewRow(c)]
      BY <1>0, <2>3
    <3>6. /\ v.op = call[c].op /\ v.user = call[c].user /\ v.status \in {201, 500}
      BY <1>0, <3>3
    <3> QED  BY <2>1, <3>3, <3>4, <3>5, <3>6, InsertKeeps, ZenonT(60)
  <2> QED  BY <1>2, <2>2, <2>3 DEF Insert
<1>3. CASE Delete(c)
  <2>1. call[c].phase = "delete"
    BY <1>3 DEF Delete
  <2>2. CASE Answers(c, 404, 0) /\ UNCHANGED link
    BY <2>1, <2>2, AnswerKeeps
  <2>3. CASE /\ MayDelete(link[call[c].key], call[c].user)
             /\ link' = [link EXCEPT ![call[c].key] = NoLink]
             /\ Commits(c, 204, link[call[c].key].by)
    <3>1. PICK by, status : by = link[k].by /\ status \in {204, 500} /\ Answers(c, status, by)
      BY <1>0, <2>3 DEF Commits
    <3>2. Answers(c, status, by) /\ old = call[c] /\ GoodCall(old)
      BY <1>0, <3>1
    <3>3. PICK v : /\ call' = [call EXCEPT ![c] = v]
                   /\ v.op = old.op /\ v.user = old.user /\ v.key = old.key
                   /\ v.phase = "done" /\ v.status = status /\ v.by = by /\ IsCall(v)
      BY <3>2, Answered
    <3>4. v.key = k
      BY <1>0, <3>3
    <3>5. k = call[c].key /\ MayDelete(link[k], call[c].user) /\ link' = [link EXCEPT ![k] = NoLink]
      BY <1>0, <2>3
    <3>6. /\ v.op = call[c].op /\ v.user = call[c].user /\ v.status \in {204, 500}
          /\ v.by = link[k].by
      BY <1>0, <3>1, <3>3
    <3> QED  BY <2>1, <3>3, <3>4, <3>5, <3>6, DeleteKeeps, ZenonT(60)
  <2> QED  BY <1>3, <2>2, <2>3 DEF Delete
<1>4. CASE Find(c)
  <2>1. call[c].phase = "find" /\ UNCHANGED link
    BY <1>4 DEF Find
  <2>2. PICK row, op : row = link[k] /\ op = old.op
    OBVIOUS
  <2>3. \/ Answers(c, 404, 0) \/ Answers(c, 410, 0)
        \/ Finds(op, old.user, row) /\ ~Counted(op, row) /\ Answers(c, 200, row.by)
        \/ Finds(op, old.user, row) /\ Counted(op, row) /\ Goes(c, "count")
    BY <1>0, <1>4, <2>2 DEF Find
  <2>4. Finds(op, old.user, row) => row # NoLink
    BY DEF Finds, NoLink
  <2>5. k \in Keys
    BY <1>0, <2>1 DEF GoodCall
  <2>6. CASE Answers(c, 404, 0) \/ Answers(c, 410, 0)
    BY <2>1, <2>6, AnswerKeeps
  <2>7. CASE Finds(op, old.user, row) /\ ~Counted(op, row) /\ Answers(c, 200, row.by)
    <3>1. PICK by : by = row.by /\ Answers(c, 200, by)
      BY <2>7
    <3>2. /\ call[c].key \in Keys /\ link[call[c].key] # NoLink
          /\ by = link[call[c].key].by /\ ~Counted(call[c].op, link[call[c].key])
          /\ call[c].phase # "done"
      BY <1>0, <2>1, <2>2, <2>4, <2>5, <2>7, <3>1
    <3> QED  BY <2>1, <3>1, <3>2, AnswerKeeps
  <2>8. CASE Finds(op, old.user, row) /\ Counted(op, row) /\ Goes(c, "count")
    <3>1. op # "lookup" /\ (op = "view" => row.kind = "redirect")
      BY <2>8 DEF Counted
    <3>2. call[c].op # "lookup" /\ (call[c].op = "view" => link[call[c].key].kind = "redirect")
      BY <1>0, <2>2, <3>1
    <3> QED  BY <2>1, <2>8, <3>2, GoesKeeps
  <2> QED  BY <2>3, <2>6, <2>7, <2>8
<1>5. CASE Count(c)
  <2>1. call[c].phase = "count"
    BY <1>5 DEF Count
  <2>2. CASE Answers(c, 404, 0) /\ UNCHANGED link
    BY <2>1, <2>2, AnswerKeeps
  <2>3. CASE /\ link[call[c].key] # NoLink /\ link' = [link EXCEPT ![call[c].key].hits = @ + 1]
             /\ Commits(c, IF call[c].op = "view" THEN 200 ELSE 302, link[call[c].key].by)
    <3>1. PICK by, status : by = link[k].by /\ status \in {200, 302, 500} /\ Answers(c, status, by)
      BY <1>0, <2>3 DEF Commits
    <3>2. Answers(c, status, by) /\ old = call[c] /\ GoodCall(old)
      BY <1>0, <3>1
    <3>3. PICK v : /\ call' = [call EXCEPT ![c] = v]
                   /\ v.op = old.op /\ v.user = old.user /\ v.key = old.key
                   /\ v.phase = "done" /\ v.status = status /\ v.by = by /\ IsCall(v)
      BY <3>2, Answered
    <3>4. v.key = k
      BY <1>0, <3>3
    <3>5. PICK row, new : row = link[k] /\ new = [row EXCEPT !.hits = @ + 1]
      OBVIOUS
    <3>6. k = call[c].key /\ link[k] # NoLink /\ link' = [link EXCEPT ![k] = new]
      BY <1>0, <2>3, <3>5
    <3>7. /\ IsLink(new) /\ new.by = link[k].by /\ new.user = link[k].user
          /\ new.kind = link[k].kind /\ new.hits = link[k].hits + 1
      <4>1. IsLink(row)
        BY <1>0, <2>1, <3>5 DEF LinkInv, LinkTypes, GoodCall
      <4> QED  BY <3>5, <4>1, CountedRow
    <3>8. /\ v.op = call[c].op /\ v.user = call[c].user /\ v.status \in {200, 302, 500}
          /\ v.by = link[k].by
      BY <1>0, <3>1, <3>3
    <3> QED  BY <2>1, <3>3, <3>4, <3>6, <3>7, <3>8, CountKeeps, ZenonT(60)
  <2> QED  BY <1>5, <2>2, <2>3 DEF Count
<1> QED  BY <1>1, <1>2, <1>3, <1>4, <1>5 DEF CallStep

LEMMA LinksRest == ASSUME LinkInv, UNCHANGED linkVars PROVE LinkInv'
<1>1. LinkTypes' /\ DrawnOnce'
  BY DEF linkVars, LinkInv, LinkTypes, DrawnOnce, IsLink
<1>2. \A c \in Calls : CallInv(c)'
  BY DEF linkVars, LinkInv, CallInv, GoodCall, IsCall, Deletes, Settled
<1>3. ASSUME NEW k \in Keys PROVE RowInv(k)'
  BY DEF linkVars, LinkInv, RowInv, Settled, Hits, Counted
<1> QED  BY <1>1, <1>2, <1>3 DEF LinkInv

LEMMA CallKeeps == ASSUME LinkInv, NEW c \in Calls, CallNext(c) PROVE LinkInv'
<1>1. ASSUME NEW u, NEW life, NEW k \in Codes, BeginCreate(c, u, k, life) PROVE LinkInv'
  <2>1. PICK w : w = [NoCall EXCEPT !.op = "create", !.user = u]
    OBVIOUS
  <2>2. w = [op |-> "create", user |-> u, key |-> Nobody, kind |-> "none", phase |-> "new",
             attempt |-> 0, status |-> 0, by |-> 0]
    BY <2>1 DEF NoCall
  <2>3. PICK v : v = [w EXCEPT !.key = k, !.kind = life, !.phase = "exists"]
    OBVIOUS
  <2>4. v = [op |-> "create", user |-> u, key |-> k, kind |-> life, phase |-> "exists",
             attempt |-> 0, status |-> 0, by |-> 0]
    BY <2>2, <2>3
  <2>5. call' = [call EXCEPT ![c] = v] /\ UNCHANGED link /\ call[c].phase = "new"
    BY <1>1, <2>1, <2>3 DEF BeginCreate, IsNext
  <2>6. /\ v.op = "create" /\ v.user = u /\ v.key = k /\ v.phase = "exists"
        /\ v.status = 0 /\ v.by = 0 /\ IsCall(v)
    BY <2>4, NewCall
  <2> QED  BY <2>5, <2>6, BeginKeeps
<1>2. ASSUME NEW u, NEW mode, NEW k \in QrIds, BeginQr(c, u, k, mode) PROVE LinkInv'
  <2>1. PICK w : w = [NoCall EXCEPT !.op = "qr", !.user = u]
    OBVIOUS
  <2>2. w = [op |-> "qr", user |-> u, key |-> Nobody, kind |-> "none", phase |-> "new",
             attempt |-> 0, status |-> 0, by |-> 0]
    BY <2>1 DEF NoCall
  <2>3. PICK v : v = [w EXCEPT !.key = k, !.kind = mode, !.phase = "insert"]
    OBVIOUS
  <2>4. v = [op |-> "qr", user |-> u, key |-> k, kind |-> mode, phase |-> "insert",
             attempt |-> 0, status |-> 0, by |-> 0]
    BY <2>2, <2>3
  <2>5. call' = [call EXCEPT ![c] = v] /\ UNCHANGED link /\ call[c].phase = "new"
    BY <1>2, <2>1, <2>3 DEF BeginQr, IsNext
  <2>6. /\ v.op = "qr" /\ v.user = u /\ v.key = k /\ v.phase = "insert"
        /\ v.status = 0 /\ v.by = 0 /\ IsCall(v)
    BY <2>4, NewCall
  <2>7. \A b \in Calls : call[b].op = "qr" => call[b].key # k
    BY <1>2 DEF BeginQr
  <2> QED  BY <2>5, <2>6, <2>7, BeginKeeps
<1>3. ASSUME NEW op \in {"lookup", "delete", "redirect", "view", "scan"}, NEW u, NEW k, Begin(c, op, u, k)
      PROVE  LinkInv'
  <2>0. PICK phase : phase = IF op = "delete" THEN "delete" ELSE "find"
    OBVIOUS
  <2>1. PICK w : w = [NoCall EXCEPT !.op = op, !.user = u]
    OBVIOUS
  <2>2. w = [op |-> op, user |-> u, key |-> Nobody, kind |-> "none", phase |-> "new",
             attempt |-> 0, status |-> 0, by |-> 0]
    BY <2>1 DEF NoCall
  <2>3. PICK v : v = [w EXCEPT !.key = k, !.phase = phase]
    OBVIOUS
  <2>4. v = [op |-> op, user |-> u, key |-> k, kind |-> "none", phase |-> phase,
             attempt |-> 0, status |-> 0, by |-> 0]
    BY <2>2, <2>3
  <2>5. call' = [call EXCEPT ![c] = v] /\ UNCHANGED link /\ call[c].phase = "new"
    BY <1>3, <2>0, <2>1, <2>3 DEF Begin, IsNext
  <2>6. /\ v.op = op /\ v.user = u /\ v.key = k /\ v.phase = phase
        /\ v.status = 0 /\ v.by = 0 /\ IsCall(v)
    BY <2>4, NewCall
  <2>7. k \in IF op \in {"view", "scan"} THEN QrIds ELSE Codes
    BY <1>3 DEF Begin
  <2> QED  BY <2>0, <2>5, <2>6, <2>7, BeginKeeps
<1>4. CASE CallStep(c)
  BY <1>4, StatementKeeps
<1>5. CASE CallFails(c)
  <2>1. call[c].phase # "done" /\ Answers(c, 500, 0) /\ UNCHANGED link
    BY <1>5 DEF CallFails
  <2> QED  BY <2>1, AnswerKeeps
<1> QED  BY <1>1, <1>2, <1>3, <1>4, <1>5 DEF CallNext

LEMMA LinksStart == LinksInit => LinkInv
<1> SUFFICES ASSUME LinksInit PROVE LinkInv
  OBVIOUS
<1>1. /\ \A c \in Calls : call[c] = NoCall
      /\ \A k \in Keys : link[k] = NoLink
      /\ call = [c \in Calls |-> call[c]] /\ link = [k \in Keys |-> link[k]]
  BY DEF LinksInit
<1>2. GoodCall(NoCall) /\ NoCall.op = "none" /\ NoCall.phase = "new" /\ NoCall.by = 0 /\ NoCall.status = 0
  BY DEF GoodCall, IsCall, NoCall
<1>3. IsLink(NoLink)
  BY DEF IsLink, NoLink
<1> QED  BY <1>1, <1>2, <1>3 DEF LinkInv, LinkTypes, DrawnOnce, CallInv, RowInv

LEMMA LinksImply == LinkInv => LinksKept
<1> SUFFICES ASSUME LinkInv, NEW c \in Calls, call[c].status = 201, ~\E d \in Calls : Deletes(d, c)
             PROVE  LET row == link[call[c].key]
                        hits == {q \in Calls : call[q].by = c /\ call[q].phase = "done"
                                                 /\ Counted(call[q].op, row)}
                    IN  row.by = c /\ row.user = call[c].user /\ row.hits = Cardinality(hits)
  BY DEF LinksKept
<1>1. PICK k, row : k = call[c].key /\ row = link[k]
  OBVIOUS
<1>2. k \in Keys /\ row.by = c
  BY <1>1 DEF LinkInv, CallInv
<1>3. row # NoLink
  BY <1>2 DEF Calls, NoLink
<1>4. row.user = call[c].user /\ row.hits = Cardinality(Hits(c, row))
  BY <1>1, <1>2, <1>3 DEF LinkInv, RowInv
<1> QED  BY <1>1, <1>2, <1>4 DEF Hits

-------------------------------------------------------------------------------
(***************************************************************************)
(* The console uses the fan-out and the links as their operations allow.   *)
(***************************************************************************)
\* A call that changes a row names one.
GoodWork(w) ==
  /\ w = [name |-> w.name, phase |-> w.phase, on |-> w.on]
  /\ w.phase = "sent" /\ w.name \in {"test", "toggle", "remove"} => w.on \in Endpoints
  /\ w.phase = "sent" /\ w.name = "replay" => w.on \in Pairs
WorkInv == DOMAIN work = Flags /\ \A f \in Flags : GoodWork(work[f])

WorkNext ==
  \/ \E f \in Flags : \E w : GoodWork(w) /\ work' = [work EXCEPT ![f] = w]
  \/ work' = [f \in Flags |-> NoWork]
  \/ UNCHANGED work

LEMMA WorkKeeps == WorkInv /\ WorkNext => WorkInv'
<1>1. GoodWork(NoWork)
  BY DEF GoodWork, NoWork
<1> QED  BY <1>1 DEF WorkInv, WorkNext

Uses == FanoutNext /\ LinkNext /\ WorkNext

LEMMA UserUses ==
    ASSUME WorkInv, NEW h \in Forms, UserStep(h)
    PROVE  Uses
<1>1. h.flag \in Flags
  BY DEF Flags
<1>2. ASSUME NEW phase, NEW on, Press(h, phase, on),
             phase = "sent" => /\ h.name \in {"test", "toggle", "remove"} => on \in Endpoints
                               /\ h.name = "replay" => on \in Pairs
      PROVE  WorkNext
  <2>1. GoodWork([name |-> h.name, phase |-> phase, on |-> on])
    BY <1>2 DEF GoodWork
  <2> QED  BY <1>1, <1>2, <2>1 DEF Press, WorkNext
<1>3. CASE h \in UrlForms /\ PressUrl(h)
  <2>1. PICK c \in 1..PanelCalls, k \in Codes :
          /\ Press(h, "call", c)
          /\ \/ BeginCreate(c, Me, k, "later")
             \/ h.name # "create" /\ Begin(c, h.name, Me, k)
    BY <1>3 DEF PressUrl
  <2>2. c \in Calls
    BY ConsoleAssumption, LinksAssumption DEF Calls, ConsoleAssumption, LinksAssumption
  <2>3. h.name \in {"create", "lookup", "delete"}
    BY <1>3 DEF UrlForms, Form
  <2>4. LinkNext
    BY <2>1, <2>2, <2>3 DEF LinkNext, CallNext
  <2> QED  BY <1>2, <1>3, <2>1, <2>4 DEF PressUrl, KeepFanout, Uses, FanoutNext
<1>4. CASE h \in QrForms /\ PressQr(h)
  <2>1. PICK c \in 1..PanelCalls, k \in QrIds : Press(h, "call", c) /\ BeginQr(c, Me, k, "static")
    BY <1>4 DEF PressQr
  <2>2. c \in Calls
    BY ConsoleAssumption, LinksAssumption DEF Calls, ConsoleAssumption, LinksAssumption
  <2>3. LinkNext
    BY <2>1, <2>2 DEF LinkNext, CallNext
  <2> QED  BY <1>2, <1>4, <2>1, <2>3 DEF PressQr, KeepFanout, Uses, FanoutNext
<1>5. CASE PressPlain(h)
  <2>1. h.name \notin {"test", "toggle", "remove", "replay"}
    BY <1>5 DEF PressPlain, PdfForms, ToolForms, KeyForms, Form
  <2> QED
    BY <1>2, <1>5, <2>1 DEF PressPlain, KeepFanout, KeepLinks, Uses, FanoutNext, LinkNext
<1>6. CASE h \in HookForms /\ PressHook(h)
  <2>1. PICK on \in HookTargets(h.name) : Press(h, "sent", on)
    BY <1>6 DEF PressHook
  <2>2. /\ h.name \in {"test", "toggle", "remove"} => on \in Endpoints
        /\ h.name = "replay" => on \in Pairs
    BY <2>1 DEF HookTargets
  <2> QED
    BY <1>2, <1>6, <2>1, <2>2 DEF PressHook, KeepFanout, KeepLinks, Uses, FanoutNext, LinkNext
<1> QED  BY <1>3, <1>4, <1>5, <1>6 DEF UserStep

\* A step in which a handler's call goes on to a phase that is not "sent".
LEMMA TurnWorks ==
    ASSUME WorkInv, NEW f \in Flags, NEW phase, phase # "sent",
           \/ \E on : work' = [work EXCEPT ![f] = [@ EXCEPT !.phase = phase, !.on = on]]
           \/ work' = [work EXCEPT ![f].phase = phase]
    PROVE  WorkNext
<1>1. PICK w : w = work[f] /\ GoodWork(w)
  BY DEF WorkInv
<1>2. ASSUME NEW on, work' = [work EXCEPT ![f] = [@ EXCEPT !.phase = phase, !.on = on]]
      PROVE  WorkNext
  <2>1. PICK v : v = [w EXCEPT !.phase = phase, !.on = on]
    OBVIOUS
  <2>2. v = [name |-> w.name, phase |-> phase, on |-> on]
    BY <1>1, <2>1 DEF GoodWork
  <2>3. GoodWork(v)
    BY <2>2 DEF GoodWork
  <2>4. work' = [work EXCEPT ![f] = v]
    BY <1>1, <1>2, <2>1
  <2> QED  BY <2>3, <2>4 DEF WorkNext
<1>3. ASSUME work' = [work EXCEPT ![f].phase = phase] PROVE WorkNext
  <2>1. PICK v : v = [w EXCEPT !.phase = phase]
    OBVIOUS
  <2>2. v = [name |-> w.name, phase |-> phase, on |-> w.on]
    BY <1>1, <2>1 DEF GoodWork
  <2>3. GoodWork(v)
    BY <2>2 DEF GoodWork
  <2>4. work' = [work EXCEPT ![f] = v]
    BY <1>1, <1>3, <2>1
  <2> QED  BY <2>3, <2>4 DEF WorkNext
<1> QED  BY <1>2, <1>3

LEMMA IdleWorks == ASSUME NEW f \in Flags, Idle(f) PROVE WorkNext
<1>1. GoodWork(NoWork)
  BY DEF GoodWork, NoWork
<1> QED  BY <1>1 DEF Idle, WorkNext

LEMMA UpdateUses ==
    ASSUME FanoutInv, NEW x \in Endpoints, NEW u, NEW topics, NEW active,
           UpdateEndpoint(x, u, topics, active)
    PROVE  FanoutNext
<1>1. PICK old, row : old = endpoint[x] /\ row = [old EXCEPT !.topics = topics, !.active = active]
  OBVIOUS
<1>2. old.state = "live" /\ Rewrite(x, row) /\ UNCHANGED delivery
  BY <1>1 DEF UpdateEndpoint, Owned
<1>3. IsRow(old)
  BY <1>1 DEF FanoutInv, FanoutTypes
<1>4. IsRow(row) /\ row.state = "live"
  BY <1>1, <1>2, <1>3 DEF IsRow
<1> QED  BY <1>2, <1>4 DEF FanoutNext, EndpointStep

LEMMA CreateUses ==
    ASSUME NEW x \in Endpoints, NEW u, NEW topics, CreateEndpoint(x, u, topics)
    PROVE  FanoutNext
<1>1. PICK row : row = [state |-> "live", user |-> u, topics |-> topics, active |-> TRUE]
  OBVIOUS
<1>2. row.state = "live" /\ IsRow(row) /\ Rewrite(x, row) /\ UNCHANGED delivery
  BY <1>1 DEF CreateEndpoint, IsRow
<1> QED  BY <1>2 DEF FanoutNext, EndpointStep

LEMMA HookUses ==
    ASSUME FanoutInv, NEW name, NEW on, HookServed(name, on),
           name \in {"test", "toggle", "remove"} => on \in Endpoints,
           name = "replay" => on \in Pairs
    PROVE  FanoutNext
<1>1. CASE name = "create" /\ \E x \in Registered : CreateEndpoint(x, Me, {Ping})
  <2>1. PICK x \in Registered : CreateEndpoint(x, Me, {Ping})
    BY <1>1
  <2>2. x \in Endpoints
    BY ConsoleAssumption DEF ConsoleAssumption
  <2> QED  BY <2>1, <2>2, CreateUses
<1>2. CASE /\ name = "toggle"
           /\ UpdateEndpoint(on, Me, endpoint[on].topics, panel.listed[on] = "paused")
  BY <1>2, UpdateUses
<1>3. CASE name = "remove" /\ DeleteEndpoint(on, Me)
  BY <1>3 DEF FanoutNext, EndpointStep
<1>4. CASE name = "replay" /\ Replay(on)
  BY <1>4 DEF FanoutNext, Moves, Replay, Statuses
<1> QED  BY <1>1, <1>2, <1>3, <1>4 DEF HookServed

LEMMA PanelUses ==
    ASSUME FanoutInv, WorkInv, NEW f \in Flags, PanelStep(f) \/ Lost(f)
    PROVE  Uses
<1>1. GoodWork(work[f])
  BY DEF WorkInv
<1>2. CASE ServePlain(f)
  <2>1. PICK verdict \in {"ok", "refused"} : Turns(f, verdict, 0)
    BY <1>2 DEF ServePlain
  <2>2. WorkNext
    BY <2>1, TurnWorks DEF Turns
  <2> QED
    BY <1>2, <2>1, <2>2 DEF ServePlain, Turns, KeepFanout, KeepLinks, Uses, FanoutNext, LinkNext
<1>3. CASE ServeHook(f)
  <2>1. PICK name, on : name = work[f].name /\ on = work[f].on
    OBVIOUS
  <2>2. /\ name \in {"test", "toggle", "remove"} => on \in Endpoints
        /\ name = "replay" => on \in Pairs
    BY <1>1, <1>3, <2>1 DEF ServeHook, GoodWork
  <2>3. \/ HookServed(name, on) /\ Turns(f, "ok", on)
        \/ HookRefused(name, on) /\ Turns(f, "refused", on) /\ KeepFanout
        \/ name = "test" /\ \E e \in Events : TestFire(e, on, Me) /\ Turns(f, "enqueue", e)
    BY <1>3, <2>1 DEF ServeHook
  <2>4. \E phase, at : phase # "sent" /\ Turns(f, phase, at)
    BY <2>3
  <2>5. WorkNext /\ LinkNext
    BY <2>4, TurnWorks DEF Turns, KeepLinks, LinkNext
  <2>6. FanoutNext
    <3>1. CASE HookServed(name, on)
      BY <2>2, <3>1, HookUses
    <3>2. CASE KeepFanout
      BY <3>2 DEF KeepFanout, FanoutNext
    <3>3. CASE \E e \in Events : TestFire(e, on, Me)
      BY <3>3 DEF TestFire, FanoutNext, EventStep
    <3> QED  BY <2>3, <3>1, <3>2, <3>3
  <2> QED  BY <2>5, <2>6 DEF Uses
<1>4. CASE Answer(f)
  <2>1. WorkNext
    BY <1>4, IdleWorks, TurnWorks DEF Answer
  <2> QED  BY <1>4, <2>1 DEF Answer, KeepFanout, KeepLinks, Uses, FanoutNext, LinkNext
<1>5. CASE Lost(f)
  <2>1. WorkNext
    BY <1>5, IdleWorks DEF Lost
  <2> QED  BY <1>5, <2>1 DEF Lost, KeepFanout, KeepLinks, Uses, FanoutNext, LinkNext
<1> QED  BY <1>2, <1>3, <1>4, <1>5 DEF PanelStep

LEMMA GetUses ==
    ASSUME NEW g \in Gets,
           Poll \/ Refresh \/ GetStep(g) \/ LoseGet(g) \/ Reopen \/ \E t : SelectTool(t)
    PROVE  Uses
<1>1. KeepLinks /\ KeepFanout
  BY DEF Poll, Refresh, LoadDeliveries, GetStep, ServeGet, Arrive, LoseGet, Reopen, SelectTool
<1>2. "busy" \in Flags
  <2>1. Form("qr", "generate", "busy") \in Forms /\ Form("qr", "generate", "busy").flag = "busy"
    BY DEF Forms, QrForms, Form
  <2> QED  BY <2>1 DEF Flags
<1>3. \/ UNCHANGED work
      \/ Idle("busy")
      \/ work' = [f \in Flags |-> NoWork]
  BY DEF Poll, Refresh, LoadDeliveries, GetStep, ServeGet, Arrive, LoadEnds, LoseGet, Reopen, SelectTool
<1>4. WorkNext
  BY <1>2, <1>3, IdleWorks DEF WorkNext
<1> QED  BY <1>1, <1>4 DEF Uses, KeepLinks, KeepFanout, FanoutNext, LinkNext

LEMMA CallUses ==
    ASSUME NEW c \in Calls, ServeCall(c) \/ ServeFails(c) \/ OtherCall(c)
    PROVE  Uses
<1>1. WorkNext
  BY DEF ServeCall, ServeFails, OtherCall, KeepConsole, consoleVars, WorkNext
<1>2. FanoutNext
  <2>1. CASE ServeCall(c)
    BY <2>1 DEF ServeCall, KeepFanout, FanoutNext, EventStep
  <2> QED  BY <2>1 DEF ServeFails, OtherCall, KeepFanout, FanoutNext
<1>3. LinkNext
  <2>1. CASE ServeCall(c) \/ ServeFails(c)
    BY <2>1 DEF ServeCall, ServeFails, LinkNext, CallNext
  <2>2. CASE OtherCall(c)
    <3>1. CASE \E k \in Codes : OtherUrl(c, k)
      <4>1. PICK k \in Codes : OtherUrl(c, k)
        BY <3>1
      <4>2. CallNext(c)
        BY <4>1 DEF OtherUrl, CallNext
      <4> QED  BY <4>2 DEF LinkNext
    <3>2. CASE \E k \in QrIds : OtherQr(c, k)
      <4>1. PICK k \in QrIds : OtherQr(c, k)
        BY <3>2
      <4>2. CallNext(c)
        BY <4>1 DEF OtherQr, CallNext
      <4> QED  BY <4>2 DEF LinkNext
    <3> QED  BY <2>2, <3>1, <3>2 DEF OtherCall
  <2> QED  BY <2>1, <2>2
<1> QED  BY <1>1, <1>2, <1>3 DEF Uses

LEMMA OtherEndpointUses ==
    ASSUME FanoutInv, NEW x \in Endpoints, OtherEndpoint(x)
    PROVE  FanoutNext
<1>1. CASE \E u \in People, topics \in {{Ping}, Topics} : CreateEndpoint(x, u, topics)
  BY <1>1, CreateUses
<1>2. CASE \E u \in People, topics \in {{Ping}, Topics}, active \in BOOLEAN :
             UpdateEndpoint(x, u, topics, active)
  BY <1>2, UpdateUses
<1>3. CASE \E u \in People : DeleteEndpoint(x, u)
  BY <1>3 DEF FanoutNext, EndpointStep
<1> QED  BY <1>1, <1>2, <1>3 DEF OtherEndpoint

\* A step of the console is one of the fan-out, one of the links, and one of the
\* handlers' calls, or leaves them alone.
LEMMA ConsoleUses == ASSUME FanoutInv, WorkInv, [Next]_vars PROVE Uses
<1>1. ASSUME NEW h \in Forms, UserStep(h) PROVE Uses
  BY <1>1, UserUses
<1>2. ASSUME NEW f \in Flags, PanelStep(f) \/ Lost(f) PROVE Uses
  BY <1>2, PanelUses
<1>3. CASE \/ Poll \/ Refresh \/ Reopen
           \/ \E g \in Gets : GetStep(g) \/ LoseGet(g)
           \/ \E t \in {"uuid", "hash", "base64", "jwt"} : SelectTool(t)
  <2>1. "log" \in Gets
    BY DEF Gets
  <2> QED  BY <1>3, <2>1, GetUses
<1>4. ASSUME NEW c \in Calls, ServeCall(c) \/ ServeFails(c) \/ OtherCall(c) PROVE Uses
  BY <1>4, CallUses
<1>5. ASSUME KeepConsole PROVE WorkNext
  BY <1>5 DEF KeepConsole, consoleVars, WorkNext
<1>6. ASSUME NEW k \in Codes, Expire(k), KeepFanout, KeepConsole PROVE Uses
  BY <1>5, <1>6 DEF Uses, LinkNext, KeepFanout, FanoutNext
<1>7. ASSUME NEW x \in Endpoints, OtherEndpoint(x) PROVE Uses
  BY <1>5, <1>7, OtherEndpointUses DEF OtherEndpoint, KeepLinks, LinkNext, Uses
<1>8. ASSUME NEW e \in Events, OtherEvent(e) \/ Enqueue(e) PROVE Uses
  BY <1>5, <1>8 DEF OtherEvent, Enqueue, FanoutNext, EventStep, KeepLinks, LinkNext, Uses
<1>9. CASE EnqueuesLost
  BY <1>5, <1>9 DEF EnqueuesLost, FanoutNext, EventStep, KeepLinks, LinkNext, Uses
<1>10. ASSUME NEW d \in Pairs,
              Delivered(Claim(d)) \/ Delivered(Settle(d)) \/ Delivered(Retry(d))
       PROVE  Uses
  <2>1. Moves(d)
    BY <1>10 DEF Delivered, Claim, Settle, Retry, Moves, Statuses
  <2> QED  BY <1>5, <1>10, <2>1 DEF Delivered, FanoutNext, KeepLinks, LinkNext, Uses
<1>11. CASE UNCHANGED vars
  BY <1>11 DEF vars, linkVars, fanoutVars, consoleVars, Uses, WorkNext, FanoutNext, LinkNext
<1> QED
  BY <1>1, <1>2, <1>3, <1>4, <1>6, <1>7, <1>8, <1>9, <1>10, <1>11 DEF Next

\* FanOutExact for any users, endpoints, topics, events and mishaps: an event of
\* the platform reaches every endpoint that wants it all the while and none that
\* never did, whatever the users change while the event bus runs the handler of
\* the webhooks module (webhooks.module.ts, DeliveryService.enqueue).
THEOREM FansOutExactly == Spec => []FanOutExact
<1>1. Init => FanoutInv /\ WorkInv
  <2>1. GoodWork(NoWork)
    BY DEF GoodWork, NoWork
  <2> QED  BY <2>1, FanoutStarts DEF Init, WorkInv
<1>2. FanoutInv /\ WorkInv /\ [Next]_vars => (FanoutInv /\ WorkInv)'
  BY ConsoleUses, FanoutKeeps, WorkKeeps DEF Uses
<1>3. FanoutInv => FanOutExact
  BY FanoutImplies
<1> QED  BY <1>1, <1>2, <1>3, PTL DEF Spec

\* LinksKept for any users, codes, ids, calls and mishaps: no other call, whoever
\* makes it and between whichever of its statements, takes an acknowledged short
\* URL or QR code away or miscounts its visits (url.service.ts, qr.service.ts and
\* their repositories).
THEOREM LinksAreKept == Spec => []LinksKept
<1>1. Init => FanoutInv /\ WorkInv /\ LinkInv
  <2>1. GoodWork(NoWork)
    BY DEF GoodWork, NoWork
  <2> QED  BY <2>1, FanoutStarts, LinksStart DEF Init, WorkInv
<1>2. FanoutInv /\ WorkInv /\ LinkInv /\ [Next]_vars => (FanoutInv /\ WorkInv /\ LinkInv)'
  <2>1. LinkInv /\ LinkNext => LinkInv'
    <3>1. LinkInv /\ UNCHANGED linkVars => LinkInv'
      BY LinksRest
    <3> QED  BY <3>1, CallKeeps, ExpireKeeps DEF LinkNext
  <2> QED  BY <2>1, ConsoleUses, FanoutKeeps, WorkKeeps DEF Uses
<1>3. LinkInv => LinksKept
  BY LinksImply
<1> QED  BY <1>1, <1>2, <1>3, PTL DEF Spec

-------------------------------------------------------------------------------
(***************************************************************************)
(* What the URL panel shows.                                               *)
(***************************************************************************)
\* The row of the key k is the user's, and was created by the call `by`.
Mine(k, by) == k \in Keys /\ link[k].user = Me /\ link[k].by = by

\* The row was deleted, and `from`, which shows it, may not have known.
Excused(by, from) ==
  /\ by \in Calls
  /\ \E d \in Calls : Deletes(d, by) /\ (d \in panel.told => from \in panel.crossed)
Known(k, by, from) == Mine(k, by) \/ Excused(by, from)

\* The call c is one of the panel, ...
Own(c) ==
  /\ c \in Calls /\ call[c].phase # "new"
  /\ call[c].user = Me /\ call[c].op \in {"create", "lookup", "delete"}
\* ... its answer shows a row, which is there when the answer is given, ...
Yields(c) == call[c].op # "delete" /\ call[c].phase = "done" /\ call[c].status < 400
Fresh(c) == Own(c) /\ (Yields(c) => Mine(call[c].key, call[c].by))
\* ... and has an excuse afterwards.
OfPanel(c) == Own(c) /\ (Yields(c) => Known(call[c].key, call[c].by, c))

\* The panel knows of deletions that were made; a call under way keeps its flag set
\* and, like what is shown, names a row that is there or has an excuse.
Sure ==
  /\ panel.told \subseteq {d \in Calls : call[d].phase = "done"}
  /\ \A f \in Flags : work[f].phase \in {"idle", "call"}
  /\ \A f \in Flags : work[f].phase = "call" => f \in panel.busy /\ OfPanel(work[f].on)
  /\ panel.shown = Nothing \/ Known(panel.shown.key, panel.shown.by, panel.shown.from)

Fields == {"busy", "shown", "tool", "told", "crossed", "listed", "log"}
PanelInv == Fields \subseteq DOMAIN panel /\ (screen = "urls" => Sure)

\* What a step of a call does to itself and to the user's rows.
LEMMA MineKept ==
    ASSUME LinkInv, NEW k, NEW by, Mine(k, by),
           KeepLinks \/ \E x \in Codes : Expire(x)
    PROVE  Mine(k, by)'
<1>1. CASE KeepLinks
  BY <1>1 DEF KeepLinks, linkVars, Mine
<1>2. ASSUME NEW x \in Codes, Expire(x) PROVE Mine(k, by)'
  <2>1. PICK row : row = link[x] /\ IsLink(row)
    BY DEF LinkInv, LinkTypes, Keys
  <2>2. PICK v : v = [row EXCEPT !.life = "past"]
    OBVIOUS
  <2>3. v.user = row.user /\ v.by = row.by
    BY <2>1, <2>2 DEF IsLink
  <2>4. link' = [link EXCEPT ![x] = v]
    BY <1>2, <2>1, <2>2 DEF Expire
  <2>5. \A y \in Keys : link'[y] = IF y = x THEN v ELSE link[y]
    BY <2>4 DEF LinkInv, LinkTypes
  <2> QED  BY <2>1, <2>3, <2>5 DEF Mine
<1> QED  BY <1>1, <1>2

LEMMA CallSteps ==
    ASSUME LinkInv, NEW c \in Calls, CallStep(c) \/ CallFails(c)
    PROVE  /\ call[c].phase \notin {"new", "done"}
           /\ call'[c].phase # "new" /\ call'[c].op = call[c].op /\ call'[c].user = call[c].user
           /\ \A d \in Calls : d # c => call'[d] = call[d]
           /\ \A k, by : Mine(k, by) =>
                \/ Mine(k, by)'
                \/ by \in Calls /\ Deletes(c, by)'
           /\ Fresh(c) => Fresh(c)'
<1>1. PICK old : old = call[c]
  OBVIOUS
<1>2. /\ GoodCall(old) /\ call = [d \in Calls |-> call[d]]
      /\ link = [k \in Keys |-> link[k]] /\ \A k \in Keys : IsLink(link[k])
  BY <1>1 DEF LinkInv, LinkTypes, CallInv
<1>3. Me # Nobody
  BY ConsoleAssumption, MishapsAssumption DEF ConsoleAssumption, MishapsAssumption
<1>4. ASSUME NEW k, NEW by, Mine(k, by) PROVE link[k] # NoLink
  BY <1>3, <1>4 DEF Mine, NoLink
\* how the call goes on
<1>5. ASSUME NEW v, call' = [call EXCEPT ![c] = v]
      PROVE  call'[c] = v /\ \A d \in Calls : d # c => call'[d] = call[d]
  BY <1>2, <1>5
<1>6. ASSUME NEW status, NEW by, Answers(c, status, by)
      PROVE  /\ call'[c].op = old.op /\ call'[c].user = old.user /\ call'[c].key = old.key
             /\ call'[c].phase = "done" /\ call'[c].status = status /\ call'[c].by = by
             /\ \A d \in Calls : d # c => call'[d] = call[d]
  <2>1. PICK v : /\ call' = [call EXCEPT ![c] = v]
                 /\ v.op = old.op /\ v.user = old.user /\ v.key = old.key
                 /\ v.phase = "done" /\ v.status = status /\ v.by = by
    BY <1>1, <1>2, <1>6, Answered
  <2> QED  BY <2>1, <1>5
<1>7. ASSUME NEW phase \in {"insert", "count"}, Goes(c, phase)
      PROVE  /\ call'[c].op = old.op /\ call'[c].user = old.user /\ call'[c].phase = phase
             /\ \A d \in Calls : d # c => call'[d] = call[d]
  <2>1. PICK v : v = [old EXCEPT !.phase = phase]
    OBVIOUS
  <2>2. v.op = old.op /\ v.user = old.user /\ v.phase = phase
    BY <1>2, <2>1 DEF GoodCall, IsCall
  <2>3. call' = [call EXCEPT ![c] = v]
    BY <1>1, <1>2, <1>7, <2>1 DEF Goes
  <2> QED  BY <1>5, <2>2, <2>3
<1>8. ASSUME Redraw(c)
      PROVE  /\ call'[c].op = old.op /\ call'[c].user = old.user
             /\ call'[c].phase = "exists" \/ (call'[c].phase = "done" /\ call'[c].status = 503)
             /\ \A d \in Calls : d # c => call'[d] = call[d]
  <2>1. CASE Answers(c, 503, 0)
    BY <1>6, <2>1
  <2>2. ASSUME NEW k \in Codes,
               call' = [call EXCEPT ![c] = [@ EXCEPT !.key = k, !.attempt = call[c].attempt + 1,
                                                     !.phase = "exists"]]
        PROVE  /\ call'[c].op = old.op /\ call'[c].user = old.user /\ call'[c].phase = "exists"
               /\ \A d \in Calls : d # c => call'[d] = call[d]
    <3>1. PICK v : v = [old EXCEPT !.key = k, !.attempt = old.attempt + 1, !.phase = "exists"]
      OBVIOUS
    <3>2. v.op = old.op /\ v.user = old.user /\ v.phase = "exists"
      BY <1>2, <3>1 DEF GoodCall, IsCall
    <3>3. call' = [call EXCEPT ![c] = v]
      BY <1>1, <1>2, <2>2, <3>1
    <3> QED  BY <1>5, <3>2, <3>3
  <2> QED  BY <1>8, <2>1, <2>2 DEF Redraw
<1>9. UNCHANGED link => \A k, by : Mine(k, by) => Mine(k, by)'
  BY DEF Mine
<1>10. CASE CallFails(c)
  <2>1. Answers(c, 500, 0) /\ UNCHANGED link /\ old.phase \notin {"new", "done"}
    BY <1>1, <1>10 DEF CallFails
  <2>2. call'[c].status = 500
    BY <1>6, <2>1
  <2> QED  BY <1>1, <1>6, <1>9, <2>1, <2>2 DEF Fresh, Own, Yields
<1>11. CASE Exists(c)
  <2>1. UNCHANGED link /\ old.phase = "exists" /\ (Redraw(c) \/ Goes(c, "insert"))
    BY <1>1, <1>11 DEF Exists
  <2>2. CASE Redraw(c)
    BY <1>1, <1>8, <1>9, <2>1, <2>2 DEF Fresh, Own, Yields
  <2>3. CASE Goes(c, "insert")
    BY <1>1, <1>7, <1>9, <2>1, <2>3 DEF Fresh, Own, Yields
  <2> QED  BY <2>1, <2>2, <2>3
<1>12. CASE Insert(c)
  <2>1. PICK k, row : k = old.key /\ row = NewRow(c)
    OBVIOUS
  <2>2. /\ old.phase = "insert" /\ old.op \in {"create", "qr"} /\ k \in Keys
        /\ \/ UNCHANGED link /\ Redraw(c)
           \/ link[k] = NoLink /\ link' = [link EXCEPT ![k] = row] /\ Commits(c, 201, c)
    BY <1>1, <1>2, <1>12, <2>1 DEF Insert, GoodCall, Keys
  <2>3. CASE UNCHANGED link /\ Redraw(c)
    BY <1>1, <1>8, <1>9, <2>2, <2>3 DEF Fresh, Own, Yields
  <2>4. CASE link[k] = NoLink /\ link' = [link EXCEPT ![k] = row] /\ Commits(c, 201, c)
    <3>1. row.by = c /\ row.user = old.user
      BY <1>1, <2>1 DEF NewRow
    <3>2. PICK status : status \in {201, 500} /\ Answers(c, status, c)
      BY <2>4 DEF Commits
    <3>3. Mine(k, c)' \/ old.user # Me
      BY <1>2, <2>2, <2>4, <3>1 DEF Mine
    <3>4. \A y, by : Mine(y, by) => Mine(y, by)'
      <4> SUFFICES ASSUME NEW y, NEW by, Mine(y, by) PROVE Mine(y, by)'
        OBVIOUS
      <4>1. y # k /\ y \in Keys
        BY <1>4, <2>4 DEF Mine
      <4> QED  BY <1>2, <2>4, <4>1 DEF Mine
    <3>5. /\ call'[c].key = k /\ call'[c].by = c /\ call'[c].phase = "done"
          /\ call'[c].op = old.op /\ call'[c].user = old.user
          /\ \A d \in Calls : d # c => call'[d] = call[d]
      BY <1>6, <2>1, <3>2
    <3>6. Fresh(c) => Fresh(c)'
      <4> SUFFICES ASSUME Fresh(c) PROVE Fresh(c)'
        OBVIOUS
      <4>1. Mine(k, c)'
        BY <1>1, <3>3 DEF Fresh, Own, Yields
      <4>2. Mine(call[c].key, call[c].by)'
        BY <3>5, <4>1 DEF Mine
      <4> QED  BY <1>1, <3>5, <4>2 DEF Fresh, Own, Yields
    <3> QED  BY <1>1, <2>2, <3>4, <3>5, <3>6
  <2> QED  BY <2>2, <2>3, <2>4
<1>13. CASE Delete(c)
  <2>1. PICK k : k = old.key
    OBVIOUS
  <2>2. /\ old.phase = "delete" /\ old.op = "delete" /\ k \in Keys
        /\ \/ UNCHANGED link /\ Answers(c, 404, 0)
           \/ /\ link[k].user = old.user /\ link' = [link EXCEPT ![k] = NoLink]
              /\ Commits(c, 204, link[k].by)
    BY <1>1, <1>2, <1>13, <2>1 DEF Delete, MayDelete, GoodCall, Keys
  <2>3. CASE UNCHANGED link /\ Answers(c, 404, 0)
    BY <1>1, <1>6, <1>9, <2>2, <2>3 DEF Fresh, Own, Yields
  <2>4. CASE /\ link[k].user = old.user /\ link' = [link EXCEPT ![k] = NoLink]
             /\ Commits(c, 204, link[k].by)
    <3>1. PICK status : status \in {204, 500} /\ Answers(c, status, link[k].by)
      BY <2>4 DEF Commits
    <3>2. /\ call'[c].phase = "done" /\ call'[c].op = "delete" /\ call'[c].user = old.user
          /\ call'[c].status = status /\ call'[c].by = link[k].by
          /\ \A d \in Calls : d # c => call'[d] = call[d]
      BY <1>6, <2>2, <3>1
    <3>3. \A by : by = link[k].by /\ link[k].user = Me => by \in Calls /\ Deletes(c, by)'
      <4> SUFFICES ASSUME NEW by, by = link[k].by, link[k].user = Me
                   PROVE  by \in Calls /\ Deletes(c, by)'
        OBVIOUS
      <4>1. link[k] # NoLink
        BY <1>3 DEF NoLink
      <4>2. Settled(by) /\ call[by].user = link[k].user
        BY <2>2, <4>1 DEF LinkInv, RowInv
      <4>3. by \in Calls /\ by # c
        BY <1>1, <2>2, <4>2 DEF Settled
      <4> QED  BY <2>4, <3>2, <4>2, <4>3 DEF Deletes
    <3>4. \A y, by : Mine(y, by) => Mine(y, by)' \/ (by \in Calls /\ Deletes(c, by)')
      <4> SUFFICES ASSUME NEW y, NEW by, Mine(y, by)
                   PROVE  Mine(y, by)' \/ (by \in Calls /\ Deletes(c, by)')
        OBVIOUS
      <4>1. CASE y = k
        BY <3>3, <4>1 DEF Mine
      <4>2. CASE y # k
        BY <1>2, <2>4, <4>2 DEF Mine
      <4> QED  BY <4>1, <4>2
    <3>5. Fresh(c) => Fresh(c)'
      BY <1>1, <2>2, <3>2 DEF Fresh, Own, Yields
    <3> QED  BY <1>1, <2>2, <3>2, <3>3, <3>4, <3>5
  <2> QED  BY <2>2, <2>3, <2>4
<1>14. CASE Find(c)
  <2>1. PICK k, row : k = old.key /\ row = link[k]
    OBVIOUS
  <2>2. /\ UNCHANGED link /\ old.phase = "find" /\ k \in Keys
        /\ \/ \E status \in {404, 410} : Answers(c, status, 0)
           \/ Finds(old.op, old.user, row) /\ Answers(c, 200, row.by)
           \/ Counted(old.op, row) /\ Goes(c, "count")
    BY <1>1, <1>2, <1>14, <2>1 DEF Find, GoodCall
  <2>3. ASSUME NEW status \in {404, 410}, Answers(c, status, 0)
        PROVE  /\ call'[c].status \in {404, 410} /\ call'[c].phase = "done"
               /\ call'[c].op = old.op /\ call'[c].user = old.user
               /\ \A d \in Calls : d # c => call'[d] = call[d]
    BY <1>6, <2>3
  <2>4. CASE \E status \in {404, 410} : Answers(c, status, 0)
    BY <1>1, <1>9, <2>2, <2>3, <2>4 DEF Fresh, Own, Yields
  <2>5. CASE Finds(old.op, old.user, row) /\ Answers(c, 200, row.by)
    <3>1. /\ call'[c].key = k /\ call'[c].by = row.by /\ call'[c].phase = "done"
          /\ call'[c].op = old.op /\ call'[c].user = old.user
          /\ \A d \in Calls : d # c => call'[d] = call[d]
      BY <1>6, <2>1, <2>5
    <3>2. Fresh(c) => Fresh(c)'
      <4> SUFFICES ASSUME Fresh(c) PROVE Fresh(c)'
        OBVIOUS
      <4>1. old.op = "lookup" /\ old.user = Me
        BY <1>1, <1>2, <2>2 DEF Fresh, Own, Yields, GoodCall
      <4>2. row.user = Me
        BY <2>5, <4>1 DEF Finds
      <4>3. Mine(call[c].key, call[c].by)'
        BY <2>1, <2>2, <3>1, <4>2 DEF Mine
      <4> QED  BY <1>1, <3>1, <4>3 DEF Fresh, Own, Yields
    <3> QED  BY <1>1, <1>9, <2>2, <3>1, <3>2
  <2>6. CASE Goes(c, "count")
    BY <1>1, <1>7, <1>9, <2>2, <2>6 DEF Fresh, Own, Yields
  <2> QED  BY <2>2, <2>4, <2>5, <2>6
<1>15. CASE Count(c)
  <2>1. PICK k, row : k = old.key /\ row = link[k]
    OBVIOUS
  <2>2. /\ old.phase = "count" /\ k \in Keys /\ old.op \in {"redirect", "view", "scan"}
        /\ \/ UNCHANGED link /\ Answers(c, 404, 0)
           \/ /\ link' = [link EXCEPT ![k].hits = @ + 1]
              /\ Commits(c, IF old.op = "view" THEN 200 ELSE 302, row.by)
    BY <1>1, <1>2, <1>15, <2>1 DEF Count, GoodCall
  <2>3. ~Fresh(c)
    BY <1>1, <2>2 DEF Fresh, Own, Yields
  <2>4. \E status, by : Answers(c, status, by)
    BY <2>2 DEF Commits
  <2>5. \A y, by : Mine(y, by) => Mine(y, by)'
    <3>1. CASE UNCHANGED link
      BY <1>9, <3>1
    <3>2. CASE link' = [link EXCEPT ![k].hits = @ + 1]
      <4>1. PICK v : v = [row EXCEPT !.hits = row.hits + 1]
        OBVIOUS
      <4>2. v.user = row.user /\ v.by = row.by
        BY <1>2, <2>1, <2>2, <4>1 DEF IsLink
      <4>3. link' = [link EXCEPT ![k] = v]
        BY <2>1, <3>2, <4>1
      <4>4. \A y \in Keys : link'[y] = IF y = k THEN v ELSE link[y]
        BY <1>2, <4>3
      <4> QED  BY <2>1, <4>2, <4>4 DEF Mine
    <3> QED  BY <2>2, <3>1, <3>2
  <2> QED  BY <1>1, <1>6, <2>2, <2>3, <2>4, <2>5
<1> QED  BY <1>10, <1>11, <1>12, <1>13, <1>14, <1>15 DEF CallStep

\* An answer to the panel, field by field.
LEMMA Answering ==
    ASSUME Fields \subseteq DOMAIN panel, NEW f, NEW c, NEW q, q = UrlAnswered(f, c)
    PROVE  /\ Fields \subseteq DOMAIN q
           /\ q.busy = panel.busy \ {f} /\ q.shown = ShownAfter(c)
           /\ call[c].op # "delete" => q.told = panel.told /\ q.crossed = panel.crossed
           /\ call[c].op = "delete" =>
                /\ q.told = panel.told \cup {c}
                /\ q.crossed = panel.crossed \cup {work[g].on : g \in panel.busy \ {f}}
<1>1. PICK p : p = Shows(f, c)
  OBVIOUS
<1>2. /\ Fields \subseteq DOMAIN p /\ p.busy = panel.busy \ {f} /\ p.shown = ShownAfter(c)
      /\ p.told = panel.told /\ p.crossed = panel.crossed
  <2>1. PICK w : w = Freed(f, TRUE)
    OBVIOUS
  <2>2. /\ Fields \subseteq DOMAIN w /\ w.busy = panel.busy \ {f}
        /\ w.told = panel.told /\ w.crossed = panel.crossed
    BY <2>1 DEF Freed, Fields
  <2>3. p = [w EXCEPT !.shown = ShownAfter(c)]
    BY <1>1, <2>1 DEF Shows
  <2> QED  BY <2>2, <2>3 DEF Fields
<1>3. CASE call[c].op = "delete"
  <2>1. PICK news, beside : /\ news = panel.told \cup {c}
                            /\ beside = panel.crossed \cup {work[g].on : g \in panel.busy \ {f}}
    OBVIOUS
  <2>2. q = [p EXCEPT !.told = news, !.crossed = beside]
    BY <1>1, <1>2, <1>3, <2>1 DEF UrlAnswered, Learns
  <2> QED  BY <1>2, <1>3, <2>1, <2>2 DEF Fields
<1>4. CASE call[c].op # "delete"
  BY <1>1, <1>2, <1>4 DEF UrlAnswered
<1> QED  BY <1>3, <1>4

\* The panel keeps its shape, whatever is pressed or answered.
LEMMA PanelShape ==
    ASSUME Fields \subseteq DOMAIN panel, [Next]_vars
    PROVE  Fields \subseteq DOMAIN panel' /\ screen' = screen
<1>1. CASE UNCHANGED <<panel, screen>>
  BY <1>1
<1>2. ASSUME NEW h \in Forms, UserStep(h) PROVE Fields \subseteq DOMAIN panel' /\ screen' = screen
  <2>1. panel' = Pressed(h) /\ screen' = screen
    BY <1>2 DEF UserStep, PressUrl, PressQr, PressPlain, PressHook, Press
  <2> QED  BY <2>1 DEF Pressed
<1>3. ASSUME NEW f \in Flags, PanelStep(f) \/ Lost(f)
      PROVE  Fields \subseteq DOMAIN panel' /\ screen' = screen
  <2>1. CASE ServePlain(f) \/ ServeHook(f)
    BY <1>1, <2>1 DEF ServePlain, ServeHook, Turns
  <2>2. CASE Answer(f)
    <3>1. PICK q : q = UrlAnswered(f, work[f].on)
      OBVIOUS
    <3>2. Fields \subseteq DOMAIN q
      BY <3>1, Answering
    <3>3. screen' = screen /\ \/ UNCHANGED panel
                              \/ panel' \in {q, Freed(f, TRUE), Freed(f, FALSE)}
      BY <2>2, <3>1 DEF Answer
    <3> QED  BY <3>2, <3>3 DEF Freed
  <2>3. CASE Lost(f)
    BY <2>3 DEF Lost, Freed
  <2> QED  BY <1>3, <2>1, <2>2, <2>3 DEF PanelStep
<1>4. CASE Poll \/ Refresh
  BY <1>1, <1>4 DEF Poll, Refresh, LoadDeliveries
<1>5. ASSUME NEW g \in Gets, GetStep(g) \/ LoseGet(g)
      PROVE  Fields \subseteq DOMAIN panel' /\ screen' = screen
  <2>1. CASE ServeGet(g)
    BY <1>1, <2>1 DEF ServeGet
  <2>2. PICK p : p = Loaded(g)
    OBVIOUS
  <2>3. Fields \subseteq DOMAIN p
    BY <2>2 DEF Loaded
  <2>4. CASE Arrive(g)
    BY <2>2, <2>3, <2>4 DEF Arrive, LoadEnds
  <2>5. CASE LoseGet(g)
    BY <2>5 DEF LoseGet, LoadEnds
  <2> QED  BY <1>5, <2>1, <2>4, <2>5 DEF GetStep
<1>6. ASSUME NEW t, SelectTool(t) PROVE Fields \subseteq DOMAIN panel' /\ screen' = screen
  BY <1>6 DEF SelectTool
<1>7. CASE Reopen
  <2>1. PICK m : m = Mounted
    OBVIOUS
  <2>2. Fields \subseteq DOMAIN m
    BY <2>1 DEF Mounted, Fields
  <2>3. panel' = [m EXCEPT !.told = panel.told, !.crossed = panel.crossed] /\ screen' = screen
    BY <1>7, <2>1 DEF Reopen
  <2> QED  BY <2>2, <2>3
<1>8. CASE UNCHANGED consoleVars
  BY <1>1, <1>8 DEF consoleVars
<1> QED
  BY <1>2, <1>3, <1>4, <1>5, <1>6, <1>7, <1>8
  DEF Next, vars, ServeCall, ServeFails, OtherCall, OtherEndpoint, OtherEvent, Enqueue, EnqueuesLost,
      Delivered, KeepConsole

\* What a call has deleted stays deleted by it, and a call that has yet to end is
\* neither that call nor the one that created the row.
LEMMA DeletesStay ==
    ASSUME LinkInv, NEW c \in Calls, call[c].phase # "done",
           \A b \in Calls : b # c => call'[b] = call[b],
           NEW d \in Calls, NEW b \in Calls, Deletes(d, b)
    PROVE  d # c /\ Deletes(d, b)'
<1>1. d # c
  BY DEF Deletes
<1>2. call[d].by # 0 /\ CallInv(d)
  BY DEF Deletes, Calls, LinkInv
<1>3. b # c
  BY <1>2 DEF CallInv, Settled, Deletes
<1> QED  BY <1>1, <1>3 DEF Deletes

\* An excuse stays one as long as the panel is told nothing.
LEMMA ExcuseStays ==
    ASSUME LinkInv, panel'.told = panel.told, panel'.crossed = panel.crossed,
           \/ call' = call
           \/ \E c \in Calls : /\ call[c].phase # "done"
                               /\ \A b \in Calls : b # c => call'[b] = call[b],
           NEW by, NEW from, Excused(by, from)
    PROVE  Excused(by, from)'
<1>1. PICK d \in Calls : Deletes(d, by) /\ (d \in panel.told => from \in panel.crossed)
  BY DEF Excused
<1>2. by \in Calls
  BY DEF Excused
<1>3. Deletes(d, by)'
  <2>1. CASE call' = call
    BY <1>1, <2>1 DEF Deletes
  <2>2. ASSUME NEW c \in Calls, call[c].phase # "done", \A b \in Calls : b # c => call'[b] = call[b]
        PROVE  Deletes(d, by)'
    BY <1>1, <1>2, <2>2, DeletesStay
  <2> QED  BY <2>1, <2>2
<1> QED  BY <1>1, <1>2, <1>3 DEF Excused

\* The panel is sure of what it shows while calls and timers go on beside it, ...
LEMMA SureOfOthers ==
    ASSUME LinkInv, Sure, UNCHANGED <<panel, work>>,
           \/ KeepLinks
           \/ \E k \in Codes : Expire(k)
           \/ \E c \in Calls : CallStep(c) \/ CallFails(c) \/ OtherCall(c)
    PROVE  Sure'
<1>1. panel' = panel /\ work' = work
  OBVIOUS
\* It is enough that a row is there or deleted by the step, and that answers stand.
<1>2. ASSUME NEW c \in Calls, call[c].phase # "done", \A d \in Calls : d # c => call'[d] = call[d],
             \A k, by : Mine(k, by) => Mine(k, by)' \/ (by \in Calls /\ Deletes(c, by)'),
             Own(c) => OfPanel(c)'
      PROVE  Sure'
  <2>1. ASSUME NEW k, NEW by, NEW from, Known(k, by, from) PROVE Known(k, by, from)'
    <3>1. CASE Mine(k, by)
      <4>1. Mine(k, by)' \/ (by \in Calls /\ Deletes(c, by)')
        BY <1>2, <3>1
      <4>2. c \notin panel'.told
        BY <1>1, <1>2 DEF Sure
      <4> QED  BY <4>1, <4>2 DEF Known, Excused
    <3>2. CASE Excused(by, from)
      BY <1>1, <1>2, <3>2, ExcuseStays DEF Known
    <3> QED  BY <2>1, <3>1, <3>2 DEF Known
  <2>2. ASSUME NEW d, OfPanel(d) PROVE OfPanel(d)'
    <3>1. CASE d = c
      BY <1>2, <2>2, <3>1 DEF OfPanel
    <3>2. CASE d # c
      <4>1. d \in Calls /\ call'[d] = call[d]
        BY <1>2, <2>2, <3>2 DEF OfPanel, Own
      <4>2. PICK k, by : k = call[d].key /\ by = call[d].by
        OBVIOUS
      <4>3. Yields(d) => Known(k, by, d)'
        BY <2>1, <2>2, <4>2 DEF OfPanel
      <4>4. Known(k, by, d)' = Known(call[d].key, call[d].by, d)'
        BY <4>1, <4>2 DEF Known, Mine, Excused, Deletes
      <4> QED  BY <2>2, <4>1, <4>3, <4>4 DEF OfPanel, Own, Yields
    <3> QED  BY <3>1, <3>2
  <2>3. ASSUME NEW f \in Flags, work[f].phase = "call" PROVE OfPanel(work[f].on)'
    <3>1. PICK d : d = work[f].on /\ OfPanel(d)
      BY <2>3 DEF Sure
    <3>2. OfPanel(d)'
      BY <2>2, <3>1
    <3>3. work'[f].on = d
      BY <1>1, <3>1
    <3> QED  BY <3>2, <3>3 DEF OfPanel, Own, Yields, Known, Mine, Excused, Deletes
  <2>4. PICK k, by, from : k = panel.shown.key /\ by = panel.shown.by /\ from = panel.shown.from
    OBVIOUS
  <2>5. panel'.shown = Nothing \/ Known(k, by, from)'
    BY <1>1, <2>1, <2>4 DEF Sure
  <2>6. panel'.shown = Nothing \/ Known(panel.shown.key, panel.shown.by, panel.shown.from)'
    BY <1>1, <2>4, <2>5 DEF Known, Mine, Excused, Deletes
  <2>7. panel'.told \subseteq {d \in Calls : call'[d].phase = "done"}
    BY <1>1, <1>2 DEF Sure
  <2> QED  BY <1>1, <2>3, <2>6, <2>7 DEF Sure
<1>3. CASE KeepLinks \/ \E k \in Codes : Expire(k)
  <2>1. call' = call
    BY <1>3 DEF KeepLinks, linkVars, Expire
  <2>2. ASSUME NEW k, NEW by, NEW from, Known(k, by, from) PROVE Known(k, by, from)'
    <3>1. CASE Mine(k, by)
      BY <1>3, <3>1, MineKept DEF Known
    <3>2. CASE Excused(by, from)
      BY <1>1, <2>1, <3>2, ExcuseStays DEF Known
    <3> QED  BY <2>2, <3>1, <3>2 DEF Known
  <2>3. ASSUME NEW f \in Flags, work[f].phase = "call" PROVE OfPanel(work[f].on)'
    <3>1. PICK d, k, by : d = work[f].on /\ k = call[d].key /\ by = call[d].by
      OBVIOUS
    <3>2. Own(d) /\ (Yields(d) => Known(k, by, d)')
      BY <2>2, <2>3, <3>1 DEF Sure, OfPanel
    <3> QED
      BY <1>1, <2>1, <3>1, <3>2, SMTT(30) DEF OfPanel, Own, Yields, Known, Mine, Excused, Deletes
  <2>4. PICK k, by, from : k = panel.shown.key /\ by = panel.shown.by /\ from = panel.shown.from
    OBVIOUS
  <2>5. panel'.shown = Nothing \/ Known(k, by, from)'
    BY <1>1, <2>2, <2>4 DEF Sure
  <2>6. panel'.shown = Nothing \/ Known(panel.shown.key, panel.shown.by, panel.shown.from)'
    BY <1>1, <2>4, <2>5 DEF Known, Mine, Excused, Deletes
  <2> QED  BY <1>1, <2>1, <2>3, <2>6 DEF Sure
<1>4. ASSUME NEW c \in Calls, CallStep(c) \/ CallFails(c) PROVE Sure'
  <2>1. /\ call[c].phase \notin {"new", "done"}
        /\ \A d \in Calls : d # c => call'[d] = call[d]
        /\ \A k, by : Mine(k, by) => Mine(k, by)' \/ (by \in Calls /\ Deletes(c, by)')
        /\ Fresh(c) => Fresh(c)'
    BY <1>4, CallSteps
  <2>2. Own(c) => OfPanel(c)'
    BY <2>1 DEF Fresh, OfPanel, Known, Yields
  <2> QED  BY <1>2, <2>1, <2>2
<1>5. ASSUME NEW c \in Calls, OtherCall(c) PROVE Sure'
  <2>1. PICK v : call' = [call EXCEPT ![c] = v] /\ call[c].phase = "new" /\ UNCHANGED link
    BY <1>5 DEF OtherCall, OtherUrl, OtherQr, Begin, BeginCreate, BeginQr, IsNext
  <2>2. \A d \in Calls : d # c => call'[d] = call[d]
    BY <2>1
  <2>3. \A k, by : Mine(k, by)' = Mine(k, by)
    BY <2>1 DEF Mine
  <2>4. ~Own(c)
    BY <2>1 DEF Own
  <2> QED  BY <1>2, <2>1, <2>2, <2>3, <2>4
<1> QED  BY <1>3, <1>4, <1>5

\* ... when the user presses a button of it, ...
LEMMA SureOfPress ==
    ASSUME LinkInv, WorkInv, PanelInv, screen = "urls", NEW h \in Forms, UserStep(h)
    PROVE  Sure'
<1>1. h \in UrlForms /\ PressUrl(h)
  <2>1. h.screen = "urls"
    BY DEF UserStep, PressUrl, PressQr, PressPlain, PressHook, Press
  <2>2. h \notin QrForms \cup PdfForms
    BY <2>1 DEF QrForms, PdfForms, Form
  <2>3. h \notin ToolForms
    BY <2>1 DEF ToolForms, Form
  <2>4. h \notin KeyForms
    BY <2>1 DEF KeyForms, Form
  <2>5. h \notin HookForms
    BY <2>1 DEF HookForms, Form
  <2> QED  BY <2>2, <2>3, <2>4, <2>5 DEF UserStep, PressPlain
<1>2. PICK c \in 1..PanelCalls, k \in Codes :
        /\ Press(h, "call", c)
        /\ \/ h.name = "create" /\ BeginCreate(c, Me, k, "later")
           \/ h.name # "create" /\ Begin(c, h.name, Me, k)
  BY <1>1 DEF PressUrl
<1>3. c \in Calls
  BY ConsoleAssumption, LinksAssumption DEF Calls, ConsoleAssumption, LinksAssumption
<1>4. h.flag \in Flags /\ h.name \in {"create", "lookup", "delete"}
  BY <1>1 DEF UrlForms, Form, Flags
<1>5. /\ panel'.busy = panel.busy \cup {h.flag} /\ panel'.shown = panel.shown
      /\ panel'.told = panel.told /\ panel'.crossed = panel.crossed
  BY <1>2 DEF Press, Pressed, PanelInv, Fields
<1>6. Sure
  BY DEF PanelInv
<1>7. PICK v : /\ call' = [call EXCEPT ![c] = v] /\ UNCHANGED link /\ call[c].phase = "new"
               /\ v.op = h.name /\ v.user = Me /\ v.phase \in {"exists", "delete", "find"}
  <2>1. CASE h.name = "create" /\ BeginCreate(c, Me, k, "later")
    <3>1. PICK v : v = [NoCall EXCEPT !.op = "create", !.user = Me, !.key = k,
                                      !.kind = "later", !.phase = "exists"]
      OBVIOUS
    <3>2. v.op = "create" /\ v.user = Me /\ v.phase = "exists"
      BY <3>1 DEF NoCall
    <3> QED  BY <2>1, <3>1, <3>2 DEF BeginCreate, IsNext
  <2>2. CASE h.name # "create" /\ Begin(c, h.name, Me, k)
    <3>1. PICK phase : phase = IF h.name = "delete" THEN "delete" ELSE "find"
      OBVIOUS
    <3>2. PICK v : v = [NoCall EXCEPT !.op = h.name, !.user = Me, !.key = k, !.phase = phase]
      OBVIOUS
    <3>3. v.op = h.name /\ v.user = Me /\ v.phase = phase
      BY <3>2 DEF NoCall
    <3> QED  BY <2>2, <3>1, <3>2, <3>3 DEF Begin, IsNext
  <2> QED  BY <1>2, <2>1, <2>2
<1>8. call'[c] = v /\ \A d \in Calls : d # c => call'[d] = call[d]
  BY <1>3, <1>7 DEF LinkInv, LinkTypes
<1>9. /\ work'[h.flag].phase = "call" /\ work'[h.flag].on = c
      /\ \A f \in Flags : f # h.flag => work'[f] = work[f]
  <2>1. work' = [work EXCEPT ![h.flag] = [name |-> h.name, phase |-> "call", on |-> c]]
    BY <1>2 DEF Press
  <2> QED  BY <1>4, <2>1 DEF WorkInv
<1>10. OfPanel(c)'
  BY <1>3, <1>4, <1>7, <1>8 DEF OfPanel, Own, Yields
<1>11. ASSUME NEW m, NEW by, NEW from, Known(m, by, from) PROVE Known(m, by, from)'
  <2>1. CASE Mine(m, by)
    BY <1>7, <2>1 DEF Known, Mine
  <2>2. CASE Excused(by, from)
    BY <1>3, <1>5, <1>7, <1>8, <2>2, ExcuseStays DEF Known
  <2> QED  BY <1>11, <2>1, <2>2 DEF Known
<1>12. ASSUME NEW f \in Flags, work'[f].phase = "call"
       PROVE  f \in panel'.busy /\ OfPanel(work[f].on)'
  <2>1. CASE f = h.flag
    BY <1>5, <1>9, <1>10, <2>1, SMTT(30) DEF OfPanel, Own, Yields, Known, Mine, Excused, Deletes
  <2>2. CASE f # h.flag
    <3>1. PICK d, m, by : d = work[f].on /\ m = call[d].key /\ by = call[d].by
      OBVIOUS
    <3>2. /\ f \in panel.busy /\ work'[f] = work[f] /\ Own(d)
          /\ Yields(d) => Known(m, by, d)'
      BY <1>6, <1>9, <1>11, <1>12, <2>2, <3>1 DEF Sure, OfPanel
    <3>3. call'[d] = call[d]
      BY <1>7, <1>8, <3>2 DEF Own
    <3> QED
      BY <1>5, <3>1, <3>2, <3>3, SMTT(30) DEF OfPanel, Own, Yields, Known, Mine, Excused, Deletes
  <2> QED  BY <2>1, <2>2
<1>13. panel'.shown = Nothing \/ Known(panel.shown.key, panel.shown.by, panel.shown.from)'
  <2>1. PICK m, by, from : m = panel.shown.key /\ by = panel.shown.by /\ from = panel.shown.from
    OBVIOUS
  <2>2. panel'.shown = Nothing \/ Known(m, by, from)'
    BY <1>5, <1>6, <1>11, <2>1 DEF Sure
  <2> QED  BY <1>5, <2>1, <2>2 DEF Known, Mine, Excused, Deletes
<1>14. panel'.told \subseteq {d \in Calls : call'[d].phase = "done"}
  BY <1>5, <1>6, <1>7, <1>8 DEF Sure
<1>15. \A f \in Flags : work'[f].phase \in {"idle", "call"}
  BY <1>6, <1>9 DEF Sure
<1> QED  BY <1>12, <1>13, <1>14, <1>15 DEF Sure

\* ... when an answer is refused or lost, or a load ends, ...
LEMMA SureOfRelease ==
    ASSUME Sure, KeepLinks, panel'.shown = panel.shown,
           panel'.told = panel.told, panel'.crossed = panel.crossed,
           \A g \in Flags : \/ work'[g].phase = "idle"
                            \/ work'[g] = work[g] /\ (g \in panel.busy => g \in panel'.busy)
    PROVE  Sure'
<1>1. call' = call /\ link' = link
  BY DEF KeepLinks, linkVars
<1>2. \A d : OfPanel(d)' = OfPanel(d)
  BY <1>1 DEF OfPanel, Own, Yields, Known, Mine, Excused, Deletes
<1>3. ASSUME NEW f \in Flags, work'[f].phase = "call" PROVE f \in panel'.busy /\ OfPanel(work[f].on)'
  <2>1. PICK d : d = work[f].on
    OBVIOUS
  <2>2. f \in panel'.busy /\ work'[f].on = d /\ OfPanel(d)
    BY <1>3, <2>1 DEF Sure
  <2>3. OfPanel(d)'
    BY <1>2, <2>2
  <2> QED  BY <2>2, <2>3 DEF OfPanel, Own, Yields, Known, Mine, Excused, Deletes
<1>4. panel'.shown = Nothing \/ Known(panel.shown.key, panel.shown.by, panel.shown.from)'
  BY <1>1 DEF Sure, Known, Mine, Excused, Deletes
<1> QED  BY <1>1, <1>3, <1>4 DEF Sure

\* ... when an answer arrives, ...
LEMMA SureOfAnswer ==
    ASSUME WorkInv, PanelInv, screen = "urls", NEW f \in Flags, Answer(f) \/ Lost(f)
    PROVE  Sure'
<1>0. Sure /\ Fields \subseteq DOMAIN panel
  BY DEF PanelInv
<1>1. PICK c : c = work[f].on
  OBVIOUS
<1>2. /\ Idle(f) /\ KeepLinks
      /\ \/ panel' = Freed(f, FALSE)
         \/ Accepted(f) /\ panel' = UrlAnswered(f, c)
  BY <1>1 DEF Answer, Lost, FirstLoad
<1>3. work'[f].phase = "idle" /\ \A g \in Flags : g # f => work'[g] = work[g]
  BY <1>2 DEF Idle, NoWork, WorkInv
<1>4. CASE panel' = Freed(f, FALSE)
  <2>1. /\ panel'.busy = panel.busy \ {f} /\ panel'.shown = panel.shown
        /\ panel'.told = panel.told /\ panel'.crossed = panel.crossed
    BY <1>0, <1>4 DEF Freed, Fields
  <2> QED  BY <1>0, <1>2, <1>3, <2>1, SureOfRelease
<1>5. CASE Accepted(f) /\ panel' = UrlAnswered(f, c)
  <2>1. /\ panel'.busy = panel.busy \ {f} /\ panel'.shown = ShownAfter(c)
        /\ call[c].op # "delete" => panel'.told = panel.told /\ panel'.crossed = panel.crossed
        /\ call[c].op = "delete" =>
             /\ panel'.told = panel.told \cup {c}
             /\ panel'.crossed = panel.crossed \cup {work[g].on : g \in panel.busy \ {f}}
    BY <1>0, <1>5, Answering
  <2>2. work[f].phase = "call" /\ call[c].phase = "done" /\ call[c].status < 400
    BY <1>0, <1>1, <1>5 DEF Accepted, Sure
  <2>3. OfPanel(c)
    BY <1>0, <1>1, <2>2 DEF Sure
  <2>4. call' = call /\ link' = link
    BY <1>2 DEF KeepLinks, linkVars
  <2>5. ASSUME NEW g \in Flags, work'[g].phase = "call"
        PROVE  g \in panel'.busy /\ OfPanel(work[g].on)'
    <3>1. PICK d : d = work[g].on
      OBVIOUS
    <3>2. g # f /\ g \in panel.busy /\ work'[g].on = d /\ OfPanel(d)
      BY <1>0, <1>3, <2>5, <3>1 DEF Sure
    <3>3. Excused(call[d].by, d) => Excused(call[d].by, d)'
      <4>1. call[c].op = "delete" => d \in panel'.crossed
        BY <2>1, <3>1, <3>2
      <4> QED  BY <2>1, <2>4, <4>1 DEF Excused, Deletes
    <3>4. OfPanel(d)'
      BY <2>4, <3>2, <3>3 DEF OfPanel, Own, Yields, Known, Mine
    <3>5. g \in panel'.busy
      BY <2>1, <3>2
    <3> QED
      BY <3>2, <3>4, <3>5 DEF OfPanel, Own, Yields, Known, Mine, Excused, Deletes
  <2>6. panel'.shown = Nothing \/ Known(panel.shown.key, panel.shown.by, panel.shown.from)'
    <3>1. CASE call[c].op = "delete"
      BY <2>1, <3>1 DEF ShownAfter
    <3>2. CASE call[c].op # "delete"
      <4>1. /\ panel'.shown.key = call[c].key /\ panel'.shown.by = call[c].by
            /\ panel'.shown.from = c
        BY <2>1, <3>2 DEF ShownAfter
      <4>2. Known(call[c].key, call[c].by, c)
        BY <2>2, <2>3, <3>2 DEF OfPanel, Yields
      <4> QED  BY <2>1, <2>4, <3>2, <4>1, <4>2 DEF Known, Mine, Excused, Deletes
    <3> QED  BY <3>1, <3>2
  <2>7. panel'.told \subseteq {d \in Calls : call'[d].phase = "done"}
    BY <1>0, <2>1, <2>2, <2>3, <2>4 DEF Sure, OfPanel, Own
  <2>8. \A g \in Flags : work'[g].phase \in {"idle", "call"}
    BY <1>0, <1>3 DEF Sure
  <2> QED  BY <2>5, <2>6, <2>7, <2>8 DEF Sure
<1> QED  BY <1>2, <1>4, <1>5

\* ... and when it is opened anew or a load ends.
LEMMA SureOfRest ==
    ASSUME WorkInv, PanelInv, screen = "urls",
           Reopen \/ \E g \in Gets : Arrive(g) \/ LoseGet(g)
    PROVE  Sure'
<1>0. Sure /\ Fields \subseteq DOMAIN panel /\ KeepLinks
  BY DEF PanelInv, Reopen, Arrive, LoseGet
<1>1. CASE Reopen
  <2>1. PICK m : m = Mounted
    OBVIOUS
  <2>2. m.shown = Nothing /\ Fields \subseteq DOMAIN m
    BY <2>1 DEF Mounted, Fields
  <2>3. /\ panel' = [m EXCEPT !.told = panel.told, !.crossed = panel.crossed]
        /\ work' = [f \in Flags |-> NoWork]
    BY <1>1, <2>1 DEF Reopen
  <2>4. panel'.shown = Nothing /\ panel'.told = panel.told
    BY <2>2, <2>3 DEF Fields
  <2>5. \A f \in Flags : work'[f].phase = "idle"
    BY <2>3 DEF NoWork
  <2>6. call' = call
    BY <1>0 DEF KeepLinks, linkVars
  <2> QED  BY <1>0, <2>4, <2>5, <2>6 DEF Sure
<1>2. ASSUME NEW g \in Gets, Arrive(g) \/ LoseGet(g) PROVE Sure'
  <2>1. PICK p : p \in {panel, Loaded(g)} /\ \/ panel' = p /\ work' = work
                                             \/ LoadEnds(g, p)
    BY <1>2 DEF Arrive, LoseGet
  <2>2. /\ p.busy = panel.busy /\ p.shown = panel.shown /\ p.told = panel.told
        /\ p.crossed = panel.crossed /\ Fields \subseteq DOMAIN p
    BY <1>0, <2>1 DEF Loaded, Fields
  <2>3. /\ panel'.shown = panel.shown /\ panel'.told = panel.told /\ panel'.crossed = panel.crossed
        /\ \/ work' = work /\ panel'.busy = panel.busy
           \/ Idle("busy") /\ panel'.busy = panel.busy \ {"busy"}
    <3>1. CASE panel' = p /\ work' = work
      BY <2>2, <3>1
    <3>2. CASE LoadEnds(g, p)
      <4>1. PICK B : /\ panel' = [p EXCEPT !.busy = B]
                     /\ \/ work' = work /\ B = p.busy
                        \/ Idle("busy") /\ B = p.busy \ {"busy"}
        BY <3>2 DEF LoadEnds
      <4> QED  BY <2>2, <4>1 DEF Fields
    <3> QED  BY <2>1, <3>1, <3>2
  <2>4. \A f \in Flags : \/ work'[f].phase = "idle"
                         \/ work'[f] = work[f] /\ (f \in panel.busy => f \in panel'.busy)
    <3>1. CASE work' = work /\ panel'.busy = panel.busy
      BY <3>1
    <3>2. CASE Idle("busy") /\ panel'.busy = panel.busy \ {"busy"}
      <4>1. \A f \in Flags : IF f = "busy" THEN work'[f].phase = "idle" ELSE work'[f] = work[f]
        BY <3>2 DEF Idle, NoWork, WorkInv
      <4> QED  BY <3>2, <4>1
    <3> QED  BY <2>3, <3>1, <3>2
  <2> QED  BY <1>0, <2>3, <2>4, SureOfRelease
<1> QED  BY <1>1, <1>2

LEMMA PanelKeeps == LinkInv /\ WorkInv /\ PanelInv /\ [Next]_vars => PanelInv'
<1> SUFFICES ASSUME LinkInv, WorkInv, PanelInv, [Next]_vars PROVE PanelInv'
  OBVIOUS
<1>1. Fields \subseteq DOMAIN panel' /\ screen' = screen
  BY PanelShape DEF PanelInv
<1> SUFFICES ASSUME screen = "urls" PROVE Sure'
  BY <1>1 DEF PanelInv
<1>2. ASSUME UNCHANGED <<panel, work>>,
             \/ KeepLinks
             \/ \E k \in Codes : Expire(k)
             \/ \E c \in Calls : CallStep(c) \/ CallFails(c) \/ OtherCall(c)
      PROVE  Sure'
  <2>1. Sure
    BY DEF PanelInv
  <2> QED  BY <1>2, <2>1, SureOfOthers
<1>3. ASSUME NEW h \in Forms, UserStep(h) PROVE Sure'
  BY <1>3, SureOfPress
<1>4. ASSUME NEW f \in Flags, PanelStep(f) \/ Lost(f) PROVE Sure'
  <2>1. ~ServePlain(f) /\ ~ServeHook(f)
    BY DEF ServePlain, ServeHook
  <2> QED  BY <1>4, <2>1, SureOfAnswer DEF PanelStep
<1>5. CASE Poll \/ Refresh \/ \E t \in {"uuid", "hash", "base64", "jwt"} : SelectTool(t)
  BY <1>5 DEF Poll, Refresh, LoadDeliveries, SelectTool
<1>6. ASSUME NEW g \in Gets, GetStep(g) \/ LoseGet(g) PROVE Sure'
  <2>1. CASE ServeGet(g)
    BY <1>2, <2>1 DEF ServeGet
  <2> QED  BY <1>6, <2>1, SureOfRest DEF GetStep
<1>7. CASE Reopen
  BY <1>7, SureOfRest
<1>8. ASSUME NEW c \in Calls, ServeCall(c) \/ ServeFails(c) \/ OtherCall(c) PROVE Sure'
  BY <1>2, <1>8 DEF ServeCall, ServeFails, OtherCall, KeepConsole, consoleVars
<1>9. CASE \E k \in Codes : Expire(k) /\ KeepFanout /\ KeepConsole
  BY <1>2, <1>9 DEF KeepConsole, consoleVars
<1>10. CASE KeepLinks /\ KeepConsole
  BY <1>2, <1>10 DEF KeepConsole, consoleVars
<1>11. CASE UNCHANGED vars
  BY <1>10, <1>11 DEF vars, KeepLinks, KeepConsole
<1> QED
  BY <1>3, <1>4, <1>5, <1>6, <1>7, <1>8, <1>9, <1>10, <1>11
  DEF Next, OtherEndpoint, OtherEvent, Enqueue, EnqueuesLost, Delivered

\* ShownIsReal for any users, codes, calls and mishaps, and whoever uses the account
\* elsewhere: a link that handleCreateShortUrl or handleLookupShortUrl has set is in the
\* table, or its user has deleted it; and if handleDeleteShortUrl has been told of
\* that deletion, only a lookup that was already under way then shows it (UrlPanel.tsx).
THEOREM ShownIsThere == Spec => []ShownIsReal
<1>1. Init => FanoutInv /\ WorkInv /\ LinkInv /\ PanelInv
  <2>1. GoodWork(NoWork)
    BY DEF GoodWork, NoWork
  <2>2. Init => PanelInv
    <3> SUFFICES ASSUME Init PROVE PanelInv
      OBVIOUS
    <3>1. panel.shown = Nothing /\ panel.told = {} /\ Fields \subseteq DOMAIN panel
      BY DEF Init, Mounted, Fields
    <3>2. \A f \in Flags : work[f].phase = "idle"
      BY DEF Init, NoWork
    <3> QED  BY <3>1, <3>2 DEF PanelInv, Sure
  <2> QED  BY <2>1, <2>2, FanoutStarts, LinksStart DEF Init, WorkInv
<1>2. FanoutInv /\ WorkInv /\ LinkInv /\ PanelInv /\ [Next]_vars =>
        (FanoutInv /\ WorkInv /\ LinkInv /\ PanelInv)'
  <2>1. LinkInv /\ LinkNext => LinkInv'
    <3>1. LinkInv /\ UNCHANGED linkVars => LinkInv'
      BY LinksRest
    <3> QED  BY <3>1, CallKeeps, ExpireKeeps DEF LinkNext
  <2> QED  BY <2>1, ConsoleUses, FanoutKeeps, WorkKeeps, PanelKeeps DEF Uses
<1>3. PanelInv => ShownIsReal
  BY DEF PanelInv, Sure, Known, Mine, Excused, ShownIsReal
<1> QED  BY <1>1, <1>2, <1>3, PTL DEF Spec
===============================================================================
