------------------------- MODULE RequestPipeline_proofs -------------------------
(***************************************************************************)
(* Theorems about RequestPipeline, for any numbers of requests, processes, *)
(* keys and mishaps and any menus: the idempotency lock, what the guard    *)
(* admits, and the budgets of the rate limiter.                            *)
(***************************************************************************)
EXTENDS RequestPipeline, FiniteSetTheorems, TLAPS

(* Types *)

Phases == {"new", "done", "lost"} \cup Active
Principal == {Anonymous} \cup {Resolved(o, dead) : o \in Offers, dead \in SUBSET ApiKeys}
Request ==
  [phase : Phases, at : Processes \cup {Nobody}, offer : Offers \cup {Nobody},
   known : SUBSET ApiKeys, who : Principal, locked : BOOLEAN, gone : BOOLEAN,
   status : Nat, by : Requests \cup {Nobody}]
Bodies == {o.body : o \in Offers}
Kept(state) == [state : {state}, by : Requests, body : Bodies, status : Nat]
Record == {NoRecord} \cup Kept("in-progress") \cup Kept("complete")
Final == {NoRecord} \cup Kept("complete")
Pending == [slot : Slots, record : Final]

TypeInv ==
  /\ menu \subseteq Offers
  /\ req \in [Requests -> Request]
  /\ idem \in [Slots -> Record]
  /\ outbox \in [Processes -> Seq(Pending)]
  /\ revoked \subseteq ApiKeys

\* How far a request is, and what it must have by then.
Sound(r) ==
  /\ req[r].phase # "new" => req[r].offer \in Offers
  /\ req[r].phase = "new" => r \notin made
  /\ req[r].phase \in Active => req[r].at \in Processes
  /\ req[r].phase \in {"lock", "get"} => Keyed(req[r].offer)
  /\ req[r].locked => req[r].phase \in Running /\ Keyed(req[r].offer)
SoundInv == \A r \in Requests : Sound(r)

-------------------------------------------------------------------------------
(* The record of a key that has not been given up is that of its one holder. *)

Sealed(r) == req[r].phase # "new" /\ Keyed(req[r].offer) /\ Slot(r) \notin reopened
Working(r) == r \in made \/ req[r].phase \in Running
HeldBy(s, r) == idem[s] # NoRecord /\ idem[s].by = r

WorkerHolds(r) == Sealed(r) /\ Working(r) => HeldBy(Slot(r), r)
TakenStaysTaken(r) == Sealed(r) /\ req[r].phase = "get" => idem[Slot(r)] # NoRecord
AnswerIsHolders(r) == Sealed(r) /\ req[r].status \in {201, 404} => HeldBy(Slot(r), req[r].by)
RequestInv == \A r \in Requests : WorkerHolds(r) /\ TakenStaysTaken(r) /\ AnswerIsHolders(r)

KeepsHolder(w) == w.slot \notin reopened => w.record # NoRecord /\ HeldBy(w.slot, w.record.by)
QueueInv == \A p \in Processes : \A i \in 1..Len(outbox[p]) : KeepsHolder(outbox[p][i])

Inv == TypeInv /\ SoundInv /\ RequestInv /\ QueueInv /\ NoOrphanLock

-------------------------------------------------------------------------------
(* Lemmas *)

LEMMA SlotSame ==
    ASSUME NEW r \in Requests, req'[r].offer = req[r].offer
    PROVE  Slot(r)' = Slot(r) /\ Keyed(req[r].offer)' = Keyed(req[r].offer)
  BY DEF Slot

LEMMA SlotInSlots ==
    ASSUME NEW o \in Offers, Keyed(o)
    PROVE  SlotOf(o) \in Slots
  BY DEF Slots

LEMMA RecordTypes ==
    ASSUME NEW r \in Requests, req[r].offer \in Offers, NEW status \in Nat
    PROVE  /\ InProgress(r) \in Record /\ InProgress(r).state = "in-progress"
           /\ InProgress(r) # NoRecord /\ InProgress(r).by = r
           /\ Complete(r, status) \in Final /\ Complete(r, status) # NoRecord
           /\ Complete(r, status).by = r
  BY DEF InProgress, Complete, NoRecord, Record, Final, Kept, Bodies

LEMMA FinalIsRecord ==
    ASSUME NEW c \in Final
    PROVE  c \in Record /\ c.state # "in-progress"
  BY DEF Final, Record, Kept, NoRecord

\* One more write in the outbox of a process.

LEMMA Push ==
    ASSUME outbox \in [Processes -> Seq(Pending)], NEW p \in Processes, NEW w \in Pending,
           outbox' = [outbox EXCEPT ![p] = Append(@, w)]
    PROVE  /\ outbox' \in [Processes -> Seq(Pending)]
           /\ \A q \in Processes : \A i \in 1..Len(outbox'[q]) :
                outbox'[q][i] = w \/ \E j \in 1..Len(outbox[q]) : outbox'[q][i] = outbox[q][j]
           /\ \A q \in Processes, s \in Slots : WritePending(q, s) => WritePending(q, s)'
           /\ WritePending(p, w.slot)'
<1>1. outbox' \in [Processes -> Seq(Pending)]
  OBVIOUS
<1>2. \A q \in Processes : q # p => outbox'[q] = outbox[q]
  OBVIOUS
<1>3. /\ Len(outbox'[p]) = Len(outbox[p]) + 1 /\ Len(outbox[p]) \in Nat
      /\ outbox'[p][Len(outbox[p]) + 1] = w
      /\ \A i \in 1..Len(outbox[p]) : outbox'[p][i] = outbox[p][i]
  OBVIOUS
<1>4. \A q \in Processes : \A i \in 1..Len(outbox'[q]) :
        outbox'[q][i] = w \/ \E j \in 1..Len(outbox[q]) : outbox'[q][i] = outbox[q][j]
  BY <1>2, <1>3
<1>5. \A q \in Processes, s \in Slots : WritePending(q, s) => WritePending(q, s)'
  <2> TAKE q \in Processes, s \in Slots
  <2>1. CASE q = p
    BY <2>1, <1>3 DEF WritePending
  <2>2. CASE q # p
    BY <2>2, <1>2 DEF WritePending
  <2> QED  BY <2>1, <2>2
<1>6. WritePending(p, w.slot)'
  BY <1>3 DEF WritePending
<1> QED  BY <1>1, <1>4, <1>5, <1>6

\* A step of one request that leaves the records as they are.
LEMMA Change ==
    ASSUME Inv, NEW r \in Requests, NEW new \in Request,
           req' = [req EXCEPT ![r] = new],
           req[r].phase # "new" => new.phase # "new" /\ new.offer = req[r].offer,
           UNCHANGED <<menu, idem>>, revoked' \subseteq ApiKeys,
           reopened \subseteq reopened', abandoned \subseteq abandoned',
           made \subseteq made', made' \subseteq made \cup {r},
           Sound(r)', WorkerHolds(r)', TakenStaysTaken(r)', AnswerIsHolders(r)',
           outbox' \in [Processes -> Seq(Pending)],
           \A q \in Processes : \A i \in 1..Len(outbox'[q]) :
             \/ KeepsHolder(outbox[q][i])'
             \/ \E j \in 1..Len(outbox[q]) : outbox'[q][i] = outbox[q][j],
           \A q \in Processes, s \in Slots : WritePending(q, s) => WritePending(q, s)',
           \A s \in Slots : Holds(r, s) => Holds(r, s)' \/ \E p \in Processes : WritePending(p, s)'
    PROVE  Inv'
<1>1. TypeInv'
  BY DEF Inv, TypeInv
<1>2. \A q \in Requests : q # r => req'[q] = req[q]
  BY DEF Inv, TypeInv
<1>3. SoundInv'
  <2> SUFFICES ASSUME NEW q \in Requests, q # r PROVE Sound(q)'
    BY DEF SoundInv
  <2>1. Sound(q)  BY DEF Inv, SoundInv
  <2> QED  BY <2>1, <1>2 DEF Sound
<1>4. RequestInv'
  <2> SUFFICES ASSUME NEW q \in Requests, q # r
               PROVE  (WorkerHolds(q) /\ TakenStaysTaken(q) /\ AnswerIsHolders(q))'
    BY DEF RequestInv
  <2>1. WorkerHolds(q) /\ TakenStaysTaken(q) /\ AnswerIsHolders(q)
    BY DEF Inv, RequestInv
  <2>2. req'[q] = req[q] /\ Slot(q)' = Slot(q)
    BY <1>2 DEF Slot
  <2> QED
    BY <2>1, <2>2 DEF WorkerHolds, TakenStaysTaken, AnswerIsHolders, Sealed, Working, HeldBy
<1>5. QueueInv'
  <2> SUFFICES ASSUME NEW q \in Processes, NEW i \in 1..Len(outbox'[q])
               PROVE  KeepsHolder(outbox[q][i])'
    BY DEF QueueInv
  <2>1. CASE KeepsHolder(outbox[q][i])'
    BY <2>1
  <2>2. CASE \E j \in 1..Len(outbox[q]) : outbox'[q][i] = outbox[q][j]
    <3>1. PICK j \in 1..Len(outbox[q]) : outbox'[q][i] = outbox[q][j]
      BY <2>2
    <3>2. KeepsHolder(outbox[q][j])
      BY DEF Inv, QueueInv
    <3> QED  BY <3>1, <3>2 DEF KeepsHolder, HeldBy
  <2> QED  BY <2>1, <2>2
<1>6. NoOrphanLock'
  <2> SUFFICES ASSUME NEW s \in Slots, idem[s].state = "in-progress", s \notin abandoned'
               PROVE  \/ \E q \in Requests : Holds(q, s)'
                      \/ \E p \in Processes : WritePending(p, s)'
    BY DEF NoOrphanLock
  <2>1. (\E q \in Requests : Holds(q, s)) \/ (\E p \in Processes : WritePending(p, s))
    BY DEF Inv, NoOrphanLock
  <2>2. ASSUME NEW q \in Requests, q # r, Holds(q, s) PROVE Holds(q, s)'
    BY <2>2, <1>2 DEF Holds, Slot
  <2> QED  BY <2>1, <2>2
<1> QED  BY <1>1, <1>3, <1>4, <1>5, <1>6 DEF Inv

LEMMA OverIsRequest ==
    ASSUME NEW r \in Requests, req[r] \in Request,
           NEW phase \in Phases, NEW status \in Nat, NEW by \in Requests \cup {Nobody}
    PROVE  Over(r, phase, status, by) \in Request
<1>0. PICK o : o = Over(r, phase, status, by)
  OBVIOUS
<1>1. o = [req[r] EXCEPT !.phase = phase, !.status = status, !.by = by,
                         !.at = Nobody, !.locked = FALSE, !.gone = FALSE]
  BY <1>0 DEF Over
<1>2. PICK x : x = req[r] /\ x \in Request
  OBVIOUS
<1>3. o \in Request
  <2>1. PICK y : y = [x EXCEPT !.phase = phase, !.status = status, !.by = by]
    OBVIOUS
  <2>2. y \in Request
    BY <1>2, <2>1 DEF Request
  <2>3. PICK z : z = [y EXCEPT !.at = Nobody]
    OBVIOUS
  <2>4. z \in Request
    BY <2>2, <2>3 DEF Request
  <2>5. o = [z EXCEPT !.locked = FALSE, !.gone = FALSE]
    BY <1>1, <1>2, <2>1, <2>3 DEF Request
  <2> QED  BY <2>4, <2>5 DEF Request
<1> QED  BY <1>0, <1>3

LEMMA AnswerKeeps ==
    ASSUME Inv, NEW r \in Requests, NEW status \in Nat, NEW by \in Requests \cup {Nobody},
           req[r].phase \in Active, Answer(r, status, by),
           UNCHANGED <<menu, idem, made, abandoned, revoked>>,
           Sealed(r) /\ status \in {201, 404} => HeldBy(Slot(r), by)
    PROVE  Inv'
<1>0. PICK new, s, w, p :
        /\ new = Over(r, "done", status, by) /\ s = Slot(r)
        /\ w = Release(r, status) /\ p = req[r].at
  OBVIOUS
<1>1. /\ req[r] \in Request /\ req[r].offer \in Offers /\ req[r].phase # "new" /\ p \in Processes
      /\ req[r].locked => req[r].phase \in Running /\ Keyed(req[r].offer) /\ s \in Slots
  BY <1>0, SlotInSlots DEF Inv, TypeInv, SoundInv, Sound, Active, Slot
<1>2. /\ new \in Request /\ new.phase = "done" /\ new.offer = req[r].offer
      /\ new.status = status /\ new.by = by /\ new.locked = FALSE
  <2>1. "done" \in Phases /\ new = Over(r, "done", status, by) /\ req[r] \in Request
    BY <1>0, <1>1 DEF Phases
  <2>2. new \in Request
    BY <2>1, OverIsRequest
  <2>3. PICK x : x = req[r] /\ x \in Request
    BY <2>1
  <2> QED  BY <2>1, <2>2, <2>3 DEF Over, Request
<1>3. req' = [req EXCEPT ![r] = new] /\ req'[r] = new
  BY <1>0 DEF Answer, Inv, TypeInv
<1>4. reopened \subseteq reopened' /\ Slot(r)' = s
  BY <1>0, <1>2, <1>3 DEF Answer, Slot
<1>5. Sound(r)'
  BY <1>1, <1>2, <1>3 DEF Sound, Active, Running
<1>6. Sealed(r)' => Sealed(r) /\ s \notin reopened'
  BY <1>0, <1>1, <1>2, <1>3, <1>4 DEF Sealed
<1>7. WorkerHolds(r) /\ WorkerHolds(r)' /\ TakenStaysTaken(r)' /\ AnswerIsHolders(r)'
  <2>1. WorkerHolds(r)
    BY DEF Inv, RequestInv
  <2>2. WorkerHolds(r)'
    BY <2>1, <1>0, <1>2, <1>3, <1>4, <1>6 DEF WorkerHolds, Working, HeldBy, Running
  <2>3. TakenStaysTaken(r)'
    BY <1>2, <1>3 DEF TakenStaysTaken
  <2>4. AnswerIsHolders(r)'
    BY <1>0, <1>2, <1>3, <1>4, <1>6 DEF AnswerIsHolders, HeldBy
  <2> QED  BY <2>1, <2>2, <2>3, <2>4
<1>8. CASE ~req[r].locked
  <2>1. outbox' = outbox
    BY <1>8 DEF Answer
  <2>2. outbox' \in [Processes -> Seq(Pending)]
    BY <2>1 DEF Inv, TypeInv
  <2>3. \A q \in Processes : \A i \in 1..Len(outbox'[q]) :
          \E j \in 1..Len(outbox[q]) : outbox'[q][i] = outbox[q][j]
    BY <2>1
  <2>4. \A q \in Processes, t \in Slots : WritePending(q, t) => WritePending(q, t)'
    BY <2>1 DEF WritePending
  <2>5. \A t \in Slots : ~Holds(r, t)
    BY <1>8 DEF Holds
  <2> QED
    BY <1>2, <1>3, <1>4, <1>5, <1>7, <2>2, <2>3, <2>4, <2>5, Change DEF Inv, TypeInv
<1>9. CASE req[r].locked
  <2>1. outbox' = [outbox EXCEPT ![p] = Append(@, w)]
    BY <1>0, <1>9 DEF Answer
  <2>2. w = [slot |-> s, record |-> IF status >= 500 THEN NoRecord ELSE Complete(r, status)]
    BY <1>0 DEF Release
  <2>3. w \in Pending /\ w.slot = s
    BY <2>2, <1>1, <1>9, RecordTypes DEF Pending, Final
  <2>4. s \notin reopened' => w.record = Complete(r, status)
    BY <2>2, <1>0, <1>9 DEF Answer
  <2>5. s \notin reopened' => HeldBy(s, r)
    BY <1>0, <1>1, <1>4, <1>7, <1>9 DEF WorkerHolds, Sealed, Working
  <2>6. KeepsHolder(w)'
    BY <2>3, <2>4, <2>5, <1>1, RecordTypes DEF KeepsHolder, HeldBy
  <2>7. /\ outbox' \in [Processes -> Seq(Pending)]
        /\ \A q \in Processes : \A i \in 1..Len(outbox'[q]) :
             outbox'[q][i] = w \/ \E j \in 1..Len(outbox[q]) : outbox'[q][i] = outbox[q][j]
        /\ \A q \in Processes, t \in Slots : WritePending(q, t) => WritePending(q, t)'
        /\ WritePending(p, s)'
    BY <2>1, <2>3, <1>1, Push DEF Inv, TypeInv
  <2>8. \A t \in Slots : Holds(r, t) => WritePending(p, t)'
    BY <2>7, <1>0 DEF Holds
  <2>9. \A q \in Processes : \A i \in 1..Len(outbox'[q]) :
          \/ KeepsHolder(outbox[q][i])'
          \/ \E j \in 1..Len(outbox[q]) : outbox'[q][i] = outbox[q][j]
    <3> TAKE q \in Processes
    <3> TAKE i \in 1..Len(outbox'[q])
    <3>1. outbox'[q][i] = w => KeepsHolder(outbox[q][i])'
      BY <2>6 DEF KeepsHolder, HeldBy
    <3> QED  BY <3>1, <2>7
  <2> QED
    BY <1>1, <1>2, <1>3, <1>4, <1>5, <1>7, <2>7, <2>8, <2>9, Change DEF Inv, TypeInv
<1> QED  BY <1>8, <1>9

\* A step of one request that writes nothing to Redis.
LEMMA MoveKeeps ==
    ASSUME Inv, NEW r \in Requests, req[r].phase \in Active, NEW new \in Request,
           req' = [req EXCEPT ![r] = new],
           new.phase \in Active, new.at = req[r].at, new.offer = req[r].offer,
           new.status = req[r].status, new.by = req[r].by,
           req[r].locked => new.locked /\ new.phase \in Running,
           new.locked => req[r].locked,
           UNCHANGED <<menu, idem, outbox, revoked, reopened, abandoned>>,
           made \subseteq made', made' \subseteq made \cup {r},
           new.phase \in {"lock", "get"} => Keyed(req[r].offer),
           Sealed(r) /\ (r \in made' \/ new.phase \in Running) => HeldBy(Slot(r), r),
           Sealed(r) /\ new.phase = "get" => idem[Slot(r)] # NoRecord
    PROVE  Inv'
<1>1. /\ req'[r] = new /\ req[r].phase # "new" /\ new.phase # "new"
      /\ req[r].offer \in Offers /\ req[r].at \in Processes /\ Sound(r)
  BY DEF Inv, TypeInv, SoundInv, Sound, Active
<1>2. Slot(r)' = Slot(r) /\ (Sealed(r)' <=> Sealed(r))
  BY <1>1 DEF Slot, Sealed
<1>3. Sound(r)'
  BY <1>1 DEF Sound, Running
<1>4. WorkerHolds(r)' /\ TakenStaysTaken(r)' /\ AnswerIsHolders(r)'
  <2>1. AnswerIsHolders(r)
    BY DEF Inv, RequestInv
  <2> QED
    BY <2>1, <1>1, <1>2 DEF WorkerHolds, Working, TakenStaysTaken, AnswerIsHolders, HeldBy
<1>5. \A s \in Slots : Holds(r, s) => Holds(r, s)'
  BY <1>1, <1>2 DEF Holds
<1>6. /\ outbox' \in [Processes -> Seq(Pending)] /\ revoked' \subseteq ApiKeys
      /\ \A q \in Processes : \A i \in 1..Len(outbox'[q]) :
           \E j \in 1..Len(outbox[q]) : outbox'[q][i] = outbox[q][j]
      /\ \A q \in Processes, s \in Slots : WritePending(q, s) => WritePending(q, s)'
  BY DEF Inv, TypeInv, WritePending
<1> QED
  BY <1>1, <1>3, <1>4, <1>5, <1>6, Change

LEMMA ArriveKeeps ==
    ASSUME Inv, NEW r \in Requests, NEW p \in Processes, NEW o \in Offers,
           Arrive(r, p, o), UNCHANGED menu
    PROVE  Inv'
<1>1. PICK new : new = [NoRequest EXCEPT !.phase = IF Guarded(o) THEN "auth" ELSE "limit",
                                         !.at = p, !.offer = o, !.known = revoked \cap {o.apiKey}]
  OBVIOUS
<1>2. Anonymous \in Principal /\ revoked \cap {o.apiKey} \in SUBSET ApiKeys
  BY DEF Principal, Inv, TypeInv
<1>3. new = [phase |-> IF Guarded(o) THEN "auth" ELSE "limit", at |-> p, offer |-> o,
             known |-> revoked \cap {o.apiKey}, who |-> Anonymous, locked |-> FALSE,
             gone |-> FALSE, status |-> 0, by |-> Nobody]
  BY <1>1 DEF NoRequest
<1>4. new \in Request /\ new.phase \in {"auth", "limit"} /\ ~new.locked /\ new.status = 0
  BY <1>2, <1>3 DEF Request, Phases, Active
<1>5. req[r].phase = "new" /\ req' = [req EXCEPT ![r] = new] /\ req'[r] = new /\ r \notin made
  BY <1>1 DEF Arrive, Inv, TypeInv, SoundInv, Sound
<1>6. UNCHANGED <<menu, idem, outbox, revoked, made, reopened, abandoned>>
  BY DEF Arrive, KeepStores, KeepQueues
<1>7. ~req[r].locked
  BY <1>5 DEF Inv, SoundInv, Sound, Running
<1>8. Sound(r)' /\ WorkerHolds(r)' /\ TakenStaysTaken(r)' /\ AnswerIsHolders(r)'
  BY <1>3, <1>4, <1>5, <1>6
     DEF Sound, WorkerHolds, Working, TakenStaysTaken, AnswerIsHolders, Running
<1>9. /\ outbox' \in [Processes -> Seq(Pending)] /\ revoked' \subseteq ApiKeys
      /\ \A q \in Processes : \A i \in 1..Len(outbox'[q]) :
           \E j \in 1..Len(outbox[q]) : outbox'[q][i] = outbox[q][j]
      /\ \A q \in Processes, s \in Slots : WritePending(q, s) => WritePending(q, s)'
      /\ \A s \in Slots : ~Holds(r, s)
  BY <1>6, <1>7 DEF Inv, TypeInv, WritePending, Holds
<1> QED
  BY <1>4, <1>5, <1>6, <1>8, <1>9, Change

LEMMA ActiveFacts ==
    ASSUME Inv, NEW r \in Requests, req[r].phase \in Active
    PROVE  /\ req[r] \in Request /\ req[r].offer \in Offers /\ req[r].at \in Processes
           /\ req[r].phase # "new" /\ Sound(r)
           /\ WorkerHolds(r) /\ TakenStaysTaken(r) /\ AnswerIsHolders(r)
  BY DEF Inv, TypeInv, SoundInv, Sound, RequestInv, Active

\* An answer that creates and finds nothing.
LEMMA RefusalKeeps ==
    ASSUME Inv, NEW r \in Requests, NEW status \in {200, 401, 403, 409, 422, 429, 500},
           req[r].phase \in Active, Answer(r, status, r), KeepStores, UNCHANGED menu
    PROVE  Inv'
<1>1. UNCHANGED <<menu, idem, made, abandoned, revoked>>
  BY DEF KeepStores
<1>2. status \in Nat /\ status \notin {201, 404}
  OBVIOUS
<1> QED  BY <1>1, <1>2, AnswerKeeps

LEMMA AuthenticateKeeps ==
    ASSUME Inv, NEW r \in Requests, Authenticate(r), UNCHANGED menu
    PROVE  Inv'
<1> DEFINE who == Resolved(req[r].offer, revoked)
<1>1. /\ req[r].phase = "auth" /\ req[r].phase \in Active /\ KeepStores
      /\ \/ Answer(r, 401, r)
         \/ Answer(r, 403, r)
         \/ req' = [req EXCEPT ![r] = [@ EXCEPT !.phase = "limit", !.who = who]] /\ KeepQueues
  BY DEF Authenticate, Active
<1>2. ASSUME NEW status \in {401, 403}, Answer(r, status, r) PROVE Inv'
  BY <1>1, <1>2, RefusalKeeps
<1>3. CASE req' = [req EXCEPT ![r] = [@ EXCEPT !.phase = "limit", !.who = who]] /\ KeepQueues
  <2>1. PICK x : x = req[r]
    OBVIOUS
  <2>2. x \in Request /\ x.phase = "auth" /\ x.offer \in Offers /\ Sound(r) /\ WorkerHolds(r)
    BY <1>1, <2>1, ActiveFacts
  <2>3. who \in Principal
    BY <2>1, <2>2 DEF Principal, Inv, TypeInv
  <2> HIDE DEF who
  <2>4. PICK new : new = [x EXCEPT !.phase = "limit", !.who = who]
    OBVIOUS
  <2>5. new \in Request
    BY <2>2, <2>3, <2>4 DEF Request, Phases, Active
  <2>6. /\ new.phase = "limit" /\ new.at = x.at /\ new.offer = x.offer
        /\ new.status = x.status /\ new.by = x.by /\ new.locked = x.locked
    BY <2>2, <2>4 DEF Request
  <2>7. req' = [req EXCEPT ![r] = new]
    BY <1>3, <2>1, <2>4 DEF Inv, TypeInv
  <2>8. ~x.locked
    BY <2>1, <2>2 DEF Sound, Running
  <2>9. Sealed(r) /\ r \in made => HeldBy(Slot(r), r)
    BY <2>2 DEF WorkerHolds, Working
  <2>10. UNCHANGED <<menu, idem, outbox, revoked, reopened, abandoned, made>>
    BY <1>1, <1>3 DEF KeepStores, KeepQueues
  <2> QED
    BY <1>1, <2>1, <2>5, <2>6, <2>7, <2>8, <2>9, <2>10, MoveKeeps DEF Active, Running
<1> QED  BY <1>1, <1>2, <1>3

\* Move, and the step to the handler without the key.
LEMMA PhaseFacts ==
    ASSUME Inv, NEW r \in Requests, req[r].phase \in Active, NEW phase \in Active
    PROVE  /\ [req[r] EXCEPT !.phase = phase] \in Request
           /\ [req[r] EXCEPT !.phase = phase].phase = phase
           /\ [req[r] EXCEPT !.phase = phase].at = req[r].at
           /\ [req[r] EXCEPT !.phase = phase].offer = req[r].offer
           /\ [req[r] EXCEPT !.phase = phase].status = req[r].status
           /\ [req[r] EXCEPT !.phase = phase].by = req[r].by
           /\ [req[r] EXCEPT !.phase = phase].locked = req[r].locked
<1>1. PICK x : x = req[r] /\ x \in Request
  BY ActiveFacts
<1> QED  BY <1>1 DEF Request, Phases

LEMMA MovedKeeps ==
    ASSUME Inv, NEW r \in Requests, req[r].phase \in Active, NEW phase \in Active,
           Move(r, phase), req[r].locked => phase \in Running,
           UNCHANGED <<menu, idem, outbox, revoked, reopened, abandoned>>,
           made \subseteq made', made' \subseteq made \cup {r},
           phase \in {"lock", "get"} => Keyed(req[r].offer),
           r \in made' \/ phase \in Running => Working(r),
           Sealed(r) /\ phase = "get" => idem[Slot(r)] # NoRecord
    PROVE  Inv'
<1>1. PICK new : new = [req[r] EXCEPT !.phase = phase]
  OBVIOUS
<1>2. /\ new \in Request /\ new.phase = phase /\ new.at = req[r].at
      /\ new.offer = req[r].offer /\ new.status = req[r].status
      /\ new.by = req[r].by /\ new.locked = req[r].locked
  BY <1>1, PhaseFacts
<1>3. req' = [req EXCEPT ![r] = new]
  BY <1>1 DEF Move, Inv, TypeInv
<1>4. Sealed(r) /\ (r \in made' \/ new.phase \in Running) => HeldBy(Slot(r), r)
  BY <1>2, ActiveFacts DEF WorkerHolds
<1> QED
  BY <1>2, <1>3, <1>4, MoveKeeps

LEMMA UnlockedRunKeeps ==
    ASSUME Inv, NEW r \in Requests, req[r].phase \in Active \ Running, Validated(r, FALSE),
           UNCHANGED <<menu, idem, outbox, made, revoked, reopened, abandoned>>, ~Sealed(r)
    PROVE  Inv'
<1>1. PICK x : x = req[r]
  OBVIOUS
<1>2. x \in Request /\ Sound(r)
  BY <1>1, ActiveFacts
<1>3. PICK new : new = [x EXCEPT !.phase = "run", !.locked = FALSE]
  OBVIOUS
<1>4. new \in Request
  BY <1>2, <1>3 DEF Request, Phases, Active
<1>5. /\ new.phase = "run" /\ new.at = x.at /\ new.offer = x.offer
      /\ new.status = x.status /\ new.by = x.by /\ ~new.locked
  BY <1>2, <1>3 DEF Request
<1>6. req' = [req EXCEPT ![r] = new]
  BY <1>1, <1>3 DEF Validated, Inv, TypeInv
<1>7. ~x.locked
  BY <1>1, <1>2 DEF Sound
<1> QED
  BY <1>1, <1>4, <1>5, <1>6, <1>7, MoveKeeps DEF Active, Running

LEMMA ConsumeKeeps ==
    ASSUME Inv, NEW r \in Requests, Consume(r), UNCHANGED menu
    PROVE  Inv'
<1>1. /\ req[r].phase = "limit" /\ req[r].phase \in Active \ Running
      /\ UNCHANGED <<menu, idem, made, abandoned, revoked>>
  BY DEF Consume, Active, Running
<1>2. ASSUME NEW status \in {422, 429}, Answer(r, status, r) PROVE Inv'
  BY <1>1, <1>2, AnswerKeeps
<1>3. CASE Keyed(req[r].offer) /\ Move(r, "lock") /\ KeepQueues
  <2>1. ~req[r].locked
    BY <1>1, ActiveFacts DEF Sound, Running
  <2> QED  BY <1>1, <1>3, <2>1, MovedKeeps DEF KeepQueues, Active, Running, Working
<1>4. CASE ~Keyed(req[r].offer) /\ Validated(r, FALSE) /\ KeepQueues
  BY <1>1, <1>4, UnlockedRunKeeps DEF KeepQueues, Sealed
<1> QED  BY <1>2, <1>3, <1>4, ZenonT(60) DEF Consume

LEMMA GetKeeps ==
    ASSUME Inv, NEW r \in Requests, Get(r), UNCHANGED menu
    PROVE  Inv'
<1>1. /\ req[r].phase = "get" /\ req[r].phase \in Active \ Running /\ KeepStores
      /\ UNCHANGED <<menu, idem, made, abandoned, revoked>>
  BY DEF Get, Active, Running, KeepStores
<1>2. ASSUME NEW status \in {409, 422}, Answer(r, status, r) PROVE Inv'
  BY <1>1, <1>2, RefusalKeeps
<1>3. CASE Vacant(idem[Slot(r)]) /\ Validated(r, FALSE) /\ KeepQueues
  <2>1. ~Sealed(r)
    BY <1>1, <1>3, ActiveFacts DEF TakenStaysTaken, Vacant
  <2> QED  BY <1>1, <1>3, <2>1, UnlockedRunKeeps DEF KeepQueues
<1>4. CASE idem[Slot(r)].state = "complete" /\ Answer(r, idem[Slot(r)].status, idem[Slot(r)].by)
  <2>1. Slot(r) \in Slots
    BY <1>1, ActiveFacts, SlotInSlots DEF Sound, Slot
  <2>2. PICK c : c = idem[Slot(r)]
    OBVIOUS
  <2>3. c \in Record /\ c.state = "complete"
    BY <1>4, <2>1, <2>2 DEF Inv, TypeInv
  <2>4. c.status \in Nat /\ c.by \in Requests \cup {Nobody} /\ c # NoRecord
    BY <2>3 DEF Record, Kept, NoRecord
  <2> QED
    BY <1>1, <1>4, <2>2, <2>4, AnswerKeeps DEF HeldBy
<1> QED  BY <1>2, <1>3, <1>4, ZenonT(60) DEF Get

LEMMA HandlerKeeps ==
    ASSUME Inv, NEW r \in Requests, UNCHANGED menu,
           Create(r) \/ Respond(r) \/ Refuse(r) \/ HandlerFails(r)
    PROVE  Inv'
<1>1. req[r].phase \in Active /\ req[r].phase \in Running
  BY DEF Create, Respond, Refuse, HandlerFails, Active, Running
<1>2. CASE Create(r)
  <2>1. /\ Move(r, "made") /\ made' = made \cup {r}
        /\ UNCHANGED <<menu, idem, outbox, revoked, reopened, abandoned>>
    BY <1>2 DEF Create, KeepQueues
  <2> QED  BY <1>1, <2>1, MovedKeeps DEF Working, Active, Running
<1>3. ASSUME NEW status \in {201, 404}, Answer(r, status, r), KeepStores PROVE Inv'
  <2>1. Sealed(r) => HeldBy(Slot(r), r)
    BY <1>1, ActiveFacts DEF WorkerHolds, Working
  <2> QED  BY <1>1, <1>3, <2>1, AnswerKeeps DEF KeepStores
<1>4. ASSUME NEW status \in {200, 500}, Answer(r, status, r), KeepStores PROVE Inv'
  BY <1>1, <1>4, RefusalKeeps
<1> QED  BY <1>2, <1>3, <1>4 DEF Respond, Refuse, HandlerFails

LEMMA FailureKeeps ==
    ASSUME Inv, NEW r \in Requests, UNCHANGED menu,
           AuthenticateFails(r) \/ ConsumeFails(r) \/ AcquireFails(r) \/ GetFails(r)
    PROVE  Inv'
<1>1. req[r].phase \in Active /\ Answer(r, 500, r) /\ KeepStores
  BY DEF AuthenticateFails, ConsumeFails, AcquireFails, GetFails, Active
<1> QED  BY <1>1, RefusalKeeps

LEMMA DisconnectKeeps ==
    ASSUME Inv, NEW r \in Requests, Disconnect(r), UNCHANGED menu
    PROVE  Inv'
<1>0. PICK x, p, s, w :
        /\ x = req[r] /\ p = req[r].at /\ s = Slot(r)
        /\ w = [slot |-> s, record |-> NoRecord]
  OBVIOUS
<1>1. /\ x.phase \in Active /\ x \in Request /\ p \in Processes /\ x.offer \in Offers
      /\ Sound(r) /\ WorkerHolds(r) /\ TakenStaysTaken(r) /\ AnswerIsHolders(r)
  BY <1>0, ActiveFacts DEF Disconnect
<1>2. PICK new : new = [x EXCEPT !.gone = TRUE]
  OBVIOUS
<1>3. /\ new \in Request /\ new.phase = x.phase /\ new.at = x.at /\ new.offer = x.offer
      /\ new.status = x.status /\ new.by = x.by /\ new.locked = x.locked
  BY <1>1, <1>2 DEF Request
<1>4. req' = [req EXCEPT ![r] = new] /\ req'[r] = new
  BY <1>0, <1>2 DEF Disconnect, Inv, TypeInv
<1>5. UNCHANGED <<menu, idem, made, abandoned, revoked>>
  BY DEF Disconnect, KeepStores
<1>6. CASE ~x.locked /\ KeepQueues
  <2>1. r \in made \/ new.phase \in Running => Working(r)
    BY <1>0, <1>3 DEF Working
  <2>2. Sealed(r) /\ (r \in made \/ new.phase \in Running) => HeldBy(Slot(r), r)
    BY <2>1, <1>1 DEF WorkerHolds
  <2>3. Sealed(r) /\ new.phase = "get" => idem[Slot(r)] # NoRecord
    BY <1>0, <1>1, <1>3 DEF TakenStaysTaken
  <2>4. new.phase \in {"lock", "get"} => Keyed(req[r].offer)
    BY <1>0, <1>1, <1>3 DEF Sound
  <2> QED
    BY <1>0, <1>1, <1>3, <1>4, <1>5, <1>6, <2>2, <2>3, <2>4, MoveKeeps DEF KeepQueues
<1>7. CASE /\ x.locked /\ outbox' = [outbox EXCEPT ![p] = Append(@, w)]
           /\ reopened' = reopened \cup {s}
  <2>1. s \in Slots
    BY <1>0, <1>1, <1>7, SlotInSlots DEF Sound, Slot
  <2>2. w \in Pending /\ w.slot = s
    BY <2>1, <1>0 DEF Pending, Final
  <2>3. /\ outbox' \in [Processes -> Seq(Pending)]
        /\ \A q \in Processes : \A i \in 1..Len(outbox'[q]) :
             outbox'[q][i] = w \/ \E j \in 1..Len(outbox[q]) : outbox'[q][i] = outbox[q][j]
        /\ \A q \in Processes, t \in Slots : WritePending(q, t) => WritePending(q, t)'
    BY <2>2, <1>1, <1>7, Push, ZenonT(60) DEF Inv, TypeInv
  <2>4. Slot(r)' = s /\ s \in reopened' /\ ~Sealed(r)'
    BY <1>0, <1>3, <1>4, <1>7 DEF Slot, Sealed
  <2>5. Sound(r)' /\ WorkerHolds(r)' /\ TakenStaysTaken(r)' /\ AnswerIsHolders(r)'
    BY <2>4, <1>0, <1>1, <1>3, <1>4, <1>5
       DEF Sound, WorkerHolds, TakenStaysTaken, AnswerIsHolders
  <2>6. \A q \in Processes : \A i \in 1..Len(outbox'[q]) :
          \/ KeepsHolder(outbox[q][i])'
          \/ \E j \in 1..Len(outbox[q]) : outbox'[q][i] = outbox[q][j]
    <3> TAKE q \in Processes
    <3> TAKE i \in 1..Len(outbox'[q])
    <3>1. outbox'[q][i] = w => KeepsHolder(outbox[q][i])'
      BY <2>2, <2>4 DEF KeepsHolder
    <3> QED  BY <3>1, <2>3
  <2>7. \A t \in Slots : Holds(r, t) => Holds(r, t)'
    BY <1>0, <1>3, <1>4, <2>4 DEF Holds
  <2>8. revoked' \subseteq ApiKeys /\ reopened \subseteq reopened' /\ x.phase # "new"
    BY <1>1, <1>5, <1>7 DEF Inv, TypeInv, Active
  <2> QED
    BY <1>0, <1>3, <1>4, <1>5, <2>3, <2>5, <2>6, <2>7, <2>8, Change
<1> QED  BY <1>0, <1>6, <1>7 DEF Disconnect

\* The write leaves its key to r.
OfHolder(w, r) == w.slot = Slot(r) /\ w.record # NoRecord /\ w.record.by = r

\* SET NX finds nothing: whoever had the key before has given it up.
LEMMA TakeKeeps ==
    ASSUME Inv, NEW r \in Requests, req[r].phase = "lock", idem[Slot(r)] = NoRecord,
           idem' = [idem EXCEPT ![Slot(r)] = InProgress(r)],
           NEW new \in Request, req' = [req EXCEPT ![r] = new],
           new.phase # "new", new.offer = req[r].offer,
           new.status \in {201, 404} => new.status = req[r].status /\ new.by = req[r].by,
           Sound(r)', UNCHANGED <<menu, made, revoked, reopened>>, abandoned \subseteq abandoned',
           outbox' \in [Processes -> Seq(Pending)],
           \A q \in Processes : \A i \in 1..Len(outbox'[q]) :
             \/ OfHolder(outbox'[q][i], r)
             \/ \E j \in 1..Len(outbox[q]) : outbox'[q][i] = outbox[q][j],
           \A q \in Processes, s \in Slots : WritePending(q, s) => WritePending(q, s)',
           \/ Slot(r) \in abandoned'
           \/ Holds(r, Slot(r))'
           \/ \E p \in Processes : WritePending(p, Slot(r))'
    PROVE  Inv'
<1>0. PICK s, x : s = Slot(r) /\ x = req[r]
  OBVIOUS
<1>1. /\ x.phase = "lock" /\ x.offer \in Offers /\ s \in Slots /\ Sound(r)
      /\ req'[r] = new /\ idem[s] = NoRecord /\ Slot(r)' = s
  BY <1>0, ActiveFacts, SlotInSlots DEF Active, Sound, Slot, Inv, TypeInv
<1>2. /\ InProgress(r) \in Record /\ InProgress(r) # NoRecord /\ InProgress(r).by = r
  BY <1>0, <1>1, RecordTypes
<1>3. /\ idem' \in [Slots -> Record] /\ idem'[s] = InProgress(r)
      /\ \A t \in Slots : t # s => idem'[t] = idem[t]
  BY <1>0, <1>1, <1>2 DEF Inv, TypeInv
<1>4. \A q \in Requests : q # r => req'[q] = req[q] /\ Slot(q)' = Slot(q)
  BY DEF Inv, TypeInv, Slot
<1>5. TypeInv'
  BY <1>3 DEF Inv, TypeInv
<1>6. SoundInv'
  <2> SUFFICES ASSUME NEW q \in Requests, q # r PROVE Sound(q)'
    BY DEF SoundInv
  <2>1. Sound(q)  BY DEF Inv, SoundInv
  <2> QED  BY <2>1, <1>4 DEF Sound
<1>7. RequestInv'
  <2> SUFFICES ASSUME NEW q \in Requests
               PROVE  (WorkerHolds(q) /\ TakenStaysTaken(q) /\ AnswerIsHolders(q))'
    BY DEF RequestInv
  <2>1. WorkerHolds(q) /\ TakenStaysTaken(q) /\ AnswerIsHolders(q)
    BY DEF Inv, RequestInv
  <2>2. CASE q = r
    <3>1. HeldBy(s, r)'
      BY <1>2, <1>3 DEF HeldBy
    <3>2. Sealed(r)' => Sealed(r)
      BY <1>0, <1>1 DEF Sealed
    <3>3. Sealed(r) => x.status \notin {201, 404}
      BY <2>1, <2>2, <1>0, <1>1 DEF AnswerIsHolders, HeldBy
    <3> QED
      BY <2>2, <3>1, <3>2, <3>3, <1>0, <1>1
         DEF WorkerHolds, TakenStaysTaken, AnswerIsHolders, HeldBy
  <2>3. CASE q # r
    <3>1. /\ Sealed(q)' = Sealed(q) /\ Working(q)' = Working(q)
          /\ req'[q] = req[q] /\ Slot(q)' = Slot(q)
      BY <2>3, <1>4 DEF Sealed, Working
    <3>2. CASE Slot(q) = s
      <4>1. ~HeldBy(s, q) /\ ~HeldBy(s, req[q].by)
        BY <1>1 DEF HeldBy
      <4>2. Sealed(q) => ~Working(q) /\ req[q].status \notin {201, 404}
        BY <2>1, <3>2, <4>1 DEF WorkerHolds, AnswerIsHolders
      <4>3. idem'[Slot(q)'] # NoRecord
        BY <3>1, <3>2, <1>2, <1>3
      <4> QED
        BY <3>1, <4>2, <4>3 DEF WorkerHolds, TakenStaysTaken, AnswerIsHolders
    <3>3. CASE Sealed(q) /\ Slot(q) # s
      <4>1. Slot(q) \in Slots
        BY <3>3, SlotInSlots DEF Sealed, Slot, Inv, SoundInv, Sound
      <4>2. idem'[Slot(q)] = idem[Slot(q)]
        BY <4>1, <3>3, <1>3
      <4> QED
        BY <2>1, <3>1, <4>2 DEF WorkerHolds, TakenStaysTaken, AnswerIsHolders, HeldBy
    <3> QED
      BY <3>1, <3>2, <3>3 DEF WorkerHolds, TakenStaysTaken, AnswerIsHolders
  <2> QED  BY <2>2, <2>3
<1>8. QueueInv'
  <2> SUFFICES ASSUME NEW q \in Processes, NEW i \in 1..Len(outbox'[q])
               PROVE  KeepsHolder(outbox[q][i])'
    BY DEF QueueInv
  <2>1. CASE OfHolder(outbox'[q][i], r)
    BY <2>1, <1>0, <1>2, <1>3 DEF OfHolder, KeepsHolder, HeldBy
  <2>2. CASE \E j \in 1..Len(outbox[q]) : outbox'[q][i] = outbox[q][j]
    <3>1. PICK j \in 1..Len(outbox[q]) : outbox'[q][i] = outbox[q][j]
      BY <2>2
    <3>2. KeepsHolder(outbox[q][j])
      BY DEF Inv, QueueInv
    <3>3. outbox[q] \in Seq(Pending)
      BY DEF Inv, TypeInv
    <3>4. outbox[q][j] \in Pending
      BY <3>3
    <3>5. outbox[q][j].slot \in Slots
      BY <3>4 DEF Pending
    <3> QED  BY <3>1, <3>2, <3>5, <1>1, <1>3 DEF KeepsHolder, HeldBy
  <2> QED  BY <2>1, <2>2
<1>9. NoOrphanLock'
  <2> SUFFICES ASSUME NEW t \in Slots, idem'[t].state = "in-progress", t \notin abandoned'
               PROVE  \/ \E q \in Requests : Holds(q, t)'
                      \/ \E p \in Processes : WritePending(p, t)'
    BY DEF NoOrphanLock
  <2>1. CASE t = s
    BY <2>1, <1>0, <1>1
  <2>2. CASE t # s
    <3>1. (\E q \in Requests : Holds(q, t)) \/ (\E p \in Processes : WritePending(p, t))
      BY <2>2, <1>3 DEF Inv, NoOrphanLock
    <3>2. ~Holds(r, t)
      BY <2>2, <1>0 DEF Holds
    <3>3. ASSUME NEW q \in Requests, q # r, Holds(q, t) PROVE Holds(q, t)'
      BY <3>3, <1>4 DEF Holds
    <3> QED  BY <3>1, <3>2, <3>3
  <2> QED  BY <2>1, <2>2
<1> QED  BY <1>5, <1>6, <1>7, <1>8, <1>9 DEF Inv

LEMMA AcquireKeeps ==
    ASSUME Inv, NEW r \in Requests, Acquire(r) \/ AcquireTwice(r), UNCHANGED menu
    PROVE  Inv'
<1>0. PICK p, w :
        p = req[r].at /\ w = Release(r, 422)
  OBVIOUS
<1>1. /\ req[r].phase = "lock" /\ req[r].phase \in Active /\ req[r] \in Request /\ p \in Processes
      /\ req[r].offer \in Offers /\ Keyed(req[r].offer) /\ ~req[r].locked /\ Slot(r) \in Slots
      /\ UNCHANGED <<menu, revoked, made, reopened>> /\ abandoned \subseteq abandoned'
  BY <1>0, ActiveFacts, SlotInSlots
     DEF Acquire, AcquireTwice, KeepQueues, Active, Running, Sound, Slot
<1>2. w = [slot |-> Slot(r), record |-> Complete(r, 422)]
  BY <1>0 DEF Release
<1>3. w \in Pending /\ w.slot = Slot(r) /\ OfHolder(w, r)
  BY <1>0, <1>1, <1>2, RecordTypes DEF Pending, OfHolder
<1>4. outbox \in [Processes -> Seq(Pending)]
  BY DEF Inv, TypeInv
<1>5. CASE /\ idem[Slot(r)] = NoRecord /\ idem' = [idem EXCEPT ![Slot(r)] = InProgress(r)]
           /\ Validated(r, TRUE) /\ outbox' = outbox
  <2>1. PICK new : new = [req[r] EXCEPT !.phase = "run", !.locked = TRUE]
    OBVIOUS
  <2>2. new \in Request
    BY <1>1, <2>1 DEF Request, Phases, Active
  <2>3. /\ new.phase = "run" /\ new.at = req[r].at /\ new.offer = req[r].offer
        /\ new.status = req[r].status /\ new.by = req[r].by /\ new.locked = TRUE
    BY <1>1, <2>1 DEF Request
  <2>4. req' = [req EXCEPT ![r] = new] /\ req'[r] = new
    BY <1>0, <1>5, <2>1 DEF Validated, Inv, TypeInv
  <2>5. Sound(r)' /\ Holds(r, Slot(r))'
    BY <1>0, <1>1, <2>3, <2>4 DEF Sound, Holds, Running, Slot
  <2>6. /\ \A q \in Processes : \A i \in 1..Len(outbox'[q]) :
             \E j \in 1..Len(outbox[q]) : outbox'[q][i] = outbox[q][j]
        /\ \A q \in Processes, t \in Slots : WritePending(q, t) => WritePending(q, t)'
    BY <1>5 DEF WritePending
  <2> QED
    BY <1>0, <1>1, <1>3, <1>4, <1>5, <2>2, <2>3, <2>4, <2>5, <2>6, TakeKeeps
<1>6. CASE /\ idem[Slot(r)] = NoRecord /\ idem' = [idem EXCEPT ![Slot(r)] = InProgress(r)]
           /\ req' = [req EXCEPT ![r] = Over(r, "done", 422, r)]
           /\ outbox' = [outbox EXCEPT ![p] = Append(@, w)]
  <2>1. PICK new : new = Over(r, "done", 422, r)
    OBVIOUS
  <2>2. new \in Request
    <3>1. req[r] \in Request /\ "done" \in Phases
      BY <1>1 DEF Phases
    <3> QED  BY <3>1, <2>1, OverIsRequest
  <2>3. new.phase = "done" /\ new.offer = req[r].offer /\ new.status = 422 /\ ~new.locked
    BY <1>0, <1>1, <2>1 DEF Over, Request
  <2>4. req' = [req EXCEPT ![r] = new] /\ req'[r] = new
    BY <1>6, <2>1 DEF Inv, TypeInv
  <2>5. Sound(r)'
    BY <1>0, <1>1, <2>3, <2>4 DEF Sound, Active
  <2>6. /\ outbox' \in [Processes -> Seq(Pending)]
        /\ \A q \in Processes : \A i \in 1..Len(outbox'[q]) :
             outbox'[q][i] = w \/ \E j \in 1..Len(outbox[q]) : outbox'[q][i] = outbox[q][j]
        /\ \A q \in Processes, t \in Slots : WritePending(q, t) => WritePending(q, t)'
        /\ WritePending(p, w.slot)'
    <3>1. p \in Processes /\ w \in Pending /\ outbox' = [outbox EXCEPT ![p] = Append(@, w)]
      BY <1>0, <1>1, <1>3, <1>6
    <3> QED  BY <3>1, <1>4, Push
  <2>7. \A q \in Processes : \A i \in 1..Len(outbox'[q]) :
          \/ OfHolder(outbox'[q][i], r)
          \/ \E j \in 1..Len(outbox[q]) : outbox'[q][i] = outbox[q][j]
    BY <1>3, <2>6
  <2>8. Slot(r)' = Slot(r)
    BY <2>3, <2>4 DEF Slot
  <2>9. WritePending(p, Slot(r))'
    BY <1>3, <2>6, <2>8
  <2>10. new.status \notin {201, 404} /\ abandoned \subseteq abandoned'
    BY <1>1, <2>3
  <2>11. /\ req[r].phase = "lock" /\ idem[Slot(r)] = NoRecord
         /\ \E q \in Processes : WritePending(q, Slot(r))'
    BY <1>0, <1>1, <1>6, <2>9
  <2> QED
    BY <2>11, <1>1, <1>6, <2>2, <2>3, <2>4, <2>5, <2>6, <2>7, <2>9, <2>10, TakeKeeps, ZenonT(60)
<1>7. CASE /\ idem[Slot(r)] = NoRecord /\ idem' = [idem EXCEPT ![Slot(r)] = InProgress(r)]
           /\ abandoned' = abandoned \cup {Slot(r)} /\ Move(r, "get") /\ outbox' = outbox
  <2>1. PICK new : new = [req[r] EXCEPT !.phase = "get"]
    OBVIOUS
  <2>2. /\ new \in Request /\ new.phase = "get" /\ new.at = req[r].at /\ new.offer = req[r].offer
        /\ new.status = req[r].status /\ new.by = req[r].by /\ new.locked = req[r].locked
    BY <1>0, <1>1, <2>1, PhaseFacts DEF Active
  <2>3. req' = [req EXCEPT ![r] = new] /\ req'[r] = new
    BY <1>7, <2>1 DEF Move, Inv, TypeInv
  <2>4. Sound(r)' /\ Slot(r)' = Slot(r)
    BY <1>0, <1>1, <2>2, <2>3 DEF Sound, Slot
  <2>5. /\ \A q \in Processes : \A i \in 1..Len(outbox'[q]) :
             \E j \in 1..Len(outbox[q]) : outbox'[q][i] = outbox[q][j]
        /\ \A q \in Processes, t \in Slots : WritePending(q, t) => WritePending(q, t)'
    BY <1>7 DEF WritePending
  <2> QED
    BY <1>0, <1>1, <1>3, <1>4, <1>7, <2>2, <2>3, <2>4, <2>5, TakeKeeps
<1>8. CASE idem[Slot(r)] # NoRecord /\ Move(r, "get") /\ UNCHANGED <<idem, outbox, abandoned>>
  <2>1. r \in made => Working(r)
    BY DEF Working
  <2> QED
    BY <1>0, <1>1, <1>8, <2>1, MovedKeeps DEF Active, Running
<1> QED
  BY <1>0, <1>5, <1>6, <1>7, <1>8 DEF Acquire, AcquireTwice, KeepQueues

\* A step of Redis: the records of keys not given up keep their holders.
LEMMA StoreKeeps ==
    ASSUME Inv, UNCHANGED <<menu, req, made>>, revoked' \subseteq ApiKeys,
           idem' \in [Slots -> Record], reopened \subseteq reopened',
           \A s \in Slots : s \notin reopened' /\ idem[s] # NoRecord =>
                            idem'[s] # NoRecord /\ idem'[s].by = idem[s].by,
           outbox' \in [Processes -> Seq(Pending)],
           \A q \in Processes : \A i \in 1..Len(outbox'[q]) :
             \E j \in 1..Len(outbox[q]) : outbox'[q][i] = outbox[q][j],
           NoOrphanLock'
    PROVE  Inv'
<1>1. TypeInv' /\ SoundInv'
  BY DEF Inv, TypeInv, SoundInv, Sound
<1>2. RequestInv'
  <2> SUFFICES ASSUME NEW q \in Requests
               PROVE  (WorkerHolds(q) /\ TakenStaysTaken(q) /\ AnswerIsHolders(q))'
    BY DEF RequestInv
  <2>1. WorkerHolds(q) /\ TakenStaysTaken(q) /\ AnswerIsHolders(q)
    BY DEF Inv, RequestInv
  <2>2. /\ Slot(q)' = Slot(q) /\ Working(q)' = Working(q) /\ req'[q] = req[q]
        /\ Sealed(q)' => Sealed(q) /\ Slot(q) \notin reopened'
    BY DEF Slot, Working, Sealed
  <2>3. Sealed(q) => Slot(q) \in Slots
    BY SlotInSlots DEF Sealed, Slot, Inv, SoundInv, Sound
  <2>4. ASSUME Sealed(q)', idem[Slot(q)] # NoRecord
        PROVE  idem'[Slot(q)] # NoRecord /\ idem'[Slot(q)].by = idem[Slot(q)].by
    BY <2>2, <2>3, <2>4
  <2> QED
    BY <2>1, <2>2, <2>4 DEF WorkerHolds, TakenStaysTaken, AnswerIsHolders, HeldBy
<1>3. QueueInv'
  <2> SUFFICES ASSUME NEW q \in Processes, NEW i \in 1..Len(outbox'[q])
               PROVE  KeepsHolder(outbox[q][i])'
    BY DEF QueueInv
  <2>1. PICK j \in 1..Len(outbox[q]) : outbox'[q][i] = outbox[q][j]
    OBVIOUS
  <2>2. KeepsHolder(outbox[q][j])
    BY DEF Inv, QueueInv
  <2>3. outbox[q] \in Seq(Pending)
    BY DEF Inv, TypeInv
  <2>4. outbox[q][j] \in Pending
    BY <2>3
  <2>5. outbox[q][j].slot \in Slots
    BY <2>4 DEF Pending
  <2> QED  BY <2>1, <2>2, <2>5 DEF KeepsHolder, HeldBy
<1> QED  BY <1>1, <1>2, <1>3 DEF Inv

LEMMA WriteKeeps ==
    ASSUME Inv, NEW p \in Processes, Write(p) \/ WriteFails(p), UNCHANGED menu
    PROVE  Inv'
<1>0. PICK h : h = Head(outbox[p])
  OBVIOUS
<1>1. /\ outbox \in [Processes -> Seq(Pending)] /\ outbox[p] # <<>>
      /\ idem \in [Slots -> Record]
      /\ outbox' = [outbox EXCEPT ![p] = Tail(@)]
      /\ UNCHANGED <<menu, req, made, revoked, reopened>>
      /\ revoked' \subseteq ApiKeys /\ abandoned \subseteq abandoned'
  BY DEF Inv, TypeInv, Write, WriteFails, Written
<1>2. /\ outbox[p] \in Seq(Pending) /\ Len(outbox[p]) \in Nat /\ Len(outbox[p]) > 0
      /\ h = outbox[p][1] /\ h \in Pending
  BY <1>0, <1>1
<1>3. h.slot \in Slots /\ h.record \in Record /\ h.record.state # "in-progress" /\ KeepsHolder(h)
  BY <1>2, FinalIsRecord DEF Pending, Inv, QueueInv
<1>4. /\ outbox' \in [Processes -> Seq(Pending)]
      /\ \A q \in Processes : q # p => outbox'[q] = outbox[q]
      /\ Len(outbox'[p]) = Len(outbox[p]) - 1
      /\ \A i \in 1..Len(outbox'[p]) : outbox'[p][i] = outbox[p][i + 1]
  BY <1>1, <1>2
<1>5. \A q \in Processes : \A i \in 1..Len(outbox'[q]) :
        \E j \in 1..Len(outbox[q]) : outbox'[q][i] = outbox[q][j]
  <2> TAKE q \in Processes
  <2>1. CASE q = p
    BY <2>1, <1>2, <1>4
  <2>2. CASE q # p
    BY <2>2, <1>4
  <2> QED  BY <2>1, <2>2
<1>6. \A q \in Processes, s \in Slots : s # h.slot /\ WritePending(q, s) => WritePending(q, s)'
  <2> TAKE q \in Processes, s \in Slots
  <2>1. CASE q = p /\ s # h.slot /\ WritePending(q, s)
    <3>1. PICK i \in 1..Len(outbox[p]) : outbox[p][i].slot = s
      BY <2>1 DEF WritePending
    <3>2. i # 1
      BY <2>1, <3>1, <1>2
    <3>3. i - 1 \in 1..Len(outbox'[p]) /\ outbox'[p][i - 1] = outbox[p][i]
      BY <3>1, <3>2, <1>2, <1>4
    <3> QED  BY <2>1, <3>1, <3>3 DEF WritePending
  <2>2. CASE q # p
    BY <2>2, <1>4 DEF WritePending
  <2> QED  BY <2>1, <2>2
<1>7. ASSUME NEW record \in Record, idem' = [idem EXCEPT ![h.slot] = record],
             record.state # "in-progress" \/ h.slot \in abandoned',
             h.slot \notin reopened /\ idem[h.slot] # NoRecord =>
               record # NoRecord /\ record.by = idem[h.slot].by
      PROVE  Inv'
  <2>1. /\ idem' \in [Slots -> Record] /\ idem'[h.slot] = record
        /\ \A s \in Slots : s # h.slot => idem'[s] = idem[s]
    BY <1>1, <1>3, <1>7
  <2>2. NoOrphanLock'
    <3> SUFFICES ASSUME NEW s \in Slots, idem'[s].state = "in-progress", s \notin abandoned'
                 PROVE  \/ \E q \in Requests : Holds(q, s)'
                        \/ \E q \in Processes : WritePending(q, s)'
      BY DEF NoOrphanLock
    <3>1. s # h.slot
      BY <1>7, <2>1
    <3>2. (\E q \in Requests : Holds(q, s)) \/ (\E q \in Processes : WritePending(q, s))
      BY <1>1, <2>1, <3>1 DEF Inv, NoOrphanLock
    <3>3. \A q \in Requests : Holds(q, s)' = Holds(q, s)
      BY <1>1 DEF Holds, Slot
    <3> QED  BY <1>6, <3>1, <3>2, <3>3
  <2>3. \A s \in Slots : s \notin reopened' /\ idem[s] # NoRecord =>
                         idem'[s] # NoRecord /\ idem'[s].by = idem[s].by
    BY <1>1, <1>7, <2>1
  <2> QED  BY <1>1, <1>4, <1>5, <2>1, <2>2, <2>3, StoreKeeps
<1>8. CASE Write(p)
  <2>1. idem' = [idem EXCEPT ![h.slot] = h.record]
    BY <1>0, <1>8 DEF Write, Written
  <2>2. h.slot \notin reopened => h.record # NoRecord /\ h.record.by = idem[h.slot].by
    BY <1>3 DEF KeepsHolder, HeldBy
  <2> QED  BY <1>3, <1>7, <2>1, <2>2
<1>9. CASE WriteFails(p)
  <2>1. idem' = [idem EXCEPT ![h.slot] = idem[h.slot]] /\ h.slot \in abandoned'
    BY <1>0, <1>9 DEF WriteFails, Written
  <2> QED  BY <1>1, <1>3, <1>7, <2>1
<1> QED  BY <1>8, <1>9

LEMMA ExpireKeeps ==
    ASSUME Inv, NEW s \in Slots, Expire(s), UNCHANGED menu
    PROVE  Inv'
<1>1. /\ idem' = [idem EXCEPT ![s] = NoRecord] /\ reopened' = reopened \cup {s}
      /\ UNCHANGED <<menu, req, outbox, revoked, made, abandoned>>
      /\ idem \in [Slots -> Record] /\ outbox \in [Processes -> Seq(Pending)]
      /\ revoked \subseteq ApiKeys
  BY DEF Expire, Inv, TypeInv
<1>2. NoRecord \in Record /\ NoRecord.state # "in-progress"
  BY DEF Record, NoRecord
<1>3. /\ idem' \in [Slots -> Record] /\ idem'[s] = NoRecord
      /\ \A t \in Slots : t # s => idem'[t] = idem[t]
  BY <1>1, <1>2
<1>4. NoOrphanLock'
  <2> SUFFICES ASSUME NEW t \in Slots, idem'[t].state = "in-progress", t \notin abandoned'
               PROVE  \/ \E q \in Requests : Holds(q, t)'
                      \/ \E q \in Processes : WritePending(q, t)'
    BY DEF NoOrphanLock
  <2>1. (\E q \in Requests : Holds(q, t)) \/ (\E q \in Processes : WritePending(q, t))
    BY <1>1, <1>2, <1>3 DEF Inv, NoOrphanLock
  <2>2. \A q \in Requests : Holds(q, t)' = Holds(q, t)
    BY <1>1 DEF Holds, Slot
  <2>3. \A q \in Processes : WritePending(q, t)' = WritePending(q, t)
    BY <1>1 DEF WritePending
  <2> QED  BY <2>1, <2>2, <2>3
<1> QED  BY <1>1, <1>3, <1>4, StoreKeeps

\* A step that touches neither requests nor records.
LEMMA IdleKeeps ==
    ASSUME Inv, revoked' \subseteq ApiKeys,
           UNCHANGED <<menu, req, idem, outbox, made, reopened, abandoned>>
    PROVE  Inv'
<1>1. idem \in [Slots -> Record] /\ outbox \in [Processes -> Seq(Pending)] /\ NoOrphanLock
  BY DEF Inv, TypeInv
<1>2. NoOrphanLock'
  BY <1>1 DEF NoOrphanLock, Holds, WritePending, Slot
<1> QED  BY <1>1, <1>2, StoreKeeps

LEMMA CrashKeeps ==
    ASSUME Inv, NEW p \in Processes, Crash(p), UNCHANGED menu
    PROVE  Inv'
<1> DEFINE lost == {r \in Requests : req[r].at = p /\ req[r].phase \in Active}
<1>1. /\ req' = [r \in Requests |-> IF r \in lost THEN Over(r, "lost", 0, Nobody) ELSE req[r]]
      /\ abandoned' = abandoned \cup {Slot(r) : r \in {q \in lost : req[q].locked}}
                        \cup {outbox[p][i].slot : i \in 1..Len(outbox[p])}
      /\ outbox' = [outbox EXCEPT ![p] = <<>>]
      /\ UNCHANGED <<menu, idem, revoked, made, reopened>>
  BY DEF Crash
<1>2. \A r \in Requests :
        \/ r \notin lost /\ req'[r] = req[r]
        \/ /\ r \in lost /\ req'[r] \in Request /\ req'[r].phase = "lost"
           /\ req'[r].offer = req[r].offer /\ req'[r].status = 0 /\ ~req'[r].locked
           /\ req[r].phase # "new" /\ req[r].offer \in Offers
  <2> SUFFICES ASSUME NEW r \in lost
               PROVE  /\ req'[r] \in Request /\ req'[r].phase = "lost"
                      /\ req'[r].offer = req[r].offer /\ req'[r].status = 0 /\ ~req'[r].locked
                      /\ req[r].phase # "new" /\ req[r].offer \in Offers
    BY <1>1
  <2>1. req'[r] = Over(r, "lost", 0, Nobody)
    BY <1>1
  <2>2. req[r] \in Request /\ req[r].phase # "new" /\ req[r].offer \in Offers /\ "lost" \in Phases
    BY ActiveFacts DEF Phases
  <2>3. req'[r] \in Request
    BY <2>1, <2>2, OverIsRequest
  <2>4. PICK x : x = req[r] /\ x \in Request
    BY <2>2
  <2> QED  BY <2>1, <2>2, <2>3, <2>4 DEF Over, Request
<1> HIDE DEF lost
<1>3. req' \in [Requests -> Request]
  <2>1. \A r \in Requests : req'[r] \in Request
    BY <1>2 DEF Inv, TypeInv
  <2> QED  BY <1>1, <2>1
<1>4. /\ outbox' \in [Processes -> Seq(Pending)] /\ outbox'[p] = <<>>
      /\ \A q \in Processes : q # p => outbox'[q] = outbox[q]
  BY <1>1 DEF Inv, TypeInv
<1>5. TypeInv'
  BY <1>1, <1>3, <1>4 DEF Inv, TypeInv
<1>6. SoundInv'
  <2> SUFFICES ASSUME NEW r \in Requests PROVE Sound(r)'
    BY DEF SoundInv
  <2>1. Sound(r)  BY DEF Inv, SoundInv
  <2> QED  BY <2>1, <1>1, <1>2 DEF Sound, Active
<1>7. RequestInv'
  <2> SUFFICES ASSUME NEW r \in Requests
               PROVE  (WorkerHolds(r) /\ TakenStaysTaken(r) /\ AnswerIsHolders(r))'
    BY DEF RequestInv
  <2>1. WorkerHolds(r) /\ TakenStaysTaken(r) /\ AnswerIsHolders(r)
    BY DEF Inv, RequestInv
  <2>2. Slot(r)' = Slot(r) /\ (Sealed(r)' => Sealed(r)) /\ (Working(r)' => Working(r))
    BY <1>1, <1>2 DEF Slot, Sealed, Working, Running
  <2> QED
    BY <2>1, <2>2, <1>1, <1>2 DEF WorkerHolds, TakenStaysTaken, AnswerIsHolders, HeldBy
<1>8. QueueInv'
  <2> SUFFICES ASSUME NEW q \in Processes, NEW i \in 1..Len(outbox'[q])
               PROVE  KeepsHolder(outbox[q][i])'
    BY DEF QueueInv
  <2>1. q # p /\ outbox'[q] = outbox[q]
    BY <1>4
  <2>2. KeepsHolder(outbox[q][i])
    BY <2>1 DEF Inv, QueueInv
  <2> QED  BY <1>1, <2>1, <2>2 DEF KeepsHolder, HeldBy
<1>9. NoOrphanLock'
  <2> SUFFICES ASSUME NEW s \in Slots, idem[s].state = "in-progress", s \notin abandoned'
               PROVE  \/ \E r \in Requests : Holds(r, s)'
                      \/ \E q \in Processes : WritePending(q, s)'
    BY <1>1 DEF NoOrphanLock
  <2>1. (\E r \in Requests : Holds(r, s)) \/ (\E q \in Processes : WritePending(q, s))
    BY <1>1 DEF Inv, NoOrphanLock
  <2>2. ASSUME NEW r \in Requests, Holds(r, s) PROVE Holds(r, s)'
    <3>1. r \notin lost
      BY <2>2, <1>1 DEF Holds
    <3> QED  BY <3>1, <2>2, <1>2 DEF Holds, Slot
  <2>3. ASSUME NEW q \in Processes, WritePending(q, s) PROVE WritePending(q, s)'
    <3>1. q # p
      BY <2>3, <1>1 DEF WritePending
    <3> QED  BY <3>1, <2>3, <1>4 DEF WritePending
  <2> QED  BY <2>1, <2>2, <2>3
<1> QED  BY <1>5, <1>6, <1>7, <1>8, <1>9 DEF Inv

-------------------------------------------------------------------------------
LEMMA InitInv == Init => Inv
<1> SUFFICES ASSUME Init PROVE Inv
  OBVIOUS
<1>1. NoRequest \in Request /\ NoRequest.phase = "new" /\ ~NoRequest.locked
  BY DEF NoRequest, Request, Principal, Phases
<1>2. NoRecord \in Record /\ NoRecord.state # "in-progress"
  BY DEF Record, NoRecord
<1>3. /\ menu \subseteq Offers /\ revoked = {} /\ made = {}
      /\ \A r \in Requests : req[r] = NoRequest
      /\ \A s \in Slots : idem[s] = NoRecord
      /\ \A p \in Processes : outbox[p] = <<>>
  BY DEF Init, Offers
<1>4. TypeInv
  BY <1>1, <1>2, <1>3 DEF Init, TypeInv
<1>5. SoundInv
  BY <1>1, <1>3 DEF SoundInv, Sound, Active, Running
<1>6. RequestInv
  BY <1>1, <1>3 DEF RequestInv, WorkerHolds, TakenStaysTaken, AnswerIsHolders, Sealed
<1>7. QueueInv
  BY <1>3 DEF QueueInv
<1>8. NoOrphanLock
  BY <1>2, <1>3 DEF NoOrphanLock
<1> QED  BY <1>4, <1>5, <1>6, <1>7, <1>8 DEF Inv

LEMMA StepInv == Inv /\ [Next]_vars => Inv'
<1> SUFFICES ASSUME Inv, [Next]_vars PROVE Inv'
  OBVIOUS
<1>1. CASE UNCHANGED vars
  <2>1. /\ UNCHANGED <<menu, req, idem, outbox, made, reopened, abandoned>>
        /\ revoked' \subseteq ApiKeys
    BY <1>1 DEF vars, Inv, TypeInv
  <2> QED  BY <2>1, IdleKeeps
<1>2. ASSUME UNCHANGED menu, NEW r \in Requests, Step(r) PROVE Inv'
  <2>1. CASE \E p \in Processes, o \in Offers : Arrive(r, p, o)
    BY <1>2, <2>1, ArriveKeeps
  <2>2. CASE Authenticate(r) \/ Consume(r) \/ Get(r)
    BY <1>2, <2>2, AuthenticateKeeps, ConsumeKeeps, GetKeeps
  <2>3. CASE AuthenticateFails(r) \/ ConsumeFails(r) \/ AcquireFails(r) \/ GetFails(r)
    BY <1>2, <2>3, FailureKeeps
  <2>4. CASE Acquire(r) \/ AcquireTwice(r)
    BY <1>2, <2>4, AcquireKeeps
  <2>5. CASE Create(r) \/ Respond(r) \/ Refuse(r) \/ HandlerFails(r)
    BY <1>2, <2>5, HandlerKeeps
  <2>6. CASE Disconnect(r)
    BY <1>2, <2>6, DisconnectKeeps
  <2> QED  BY <1>2, <2>1, <2>2, <2>3, <2>4, <2>5, <2>6 DEF Step
<1>3. ASSUME UNCHANGED menu, NEW p \in Processes, Write(p) \/ WriteFails(p) \/ Crash(p)
      PROVE  Inv'
  BY <1>3, WriteKeeps, CrashKeeps
<1>4. ASSUME UNCHANGED menu, NEW s \in Slots, Expire(s) PROVE Inv'
  BY <1>4, ExpireKeeps
<1>5. ASSUME UNCHANGED menu, NEW k \in ApiKeys, RevokeApiKey(k) PROVE Inv'
  BY <1>5, IdleKeeps DEF RevokeApiKey, KeepQueues, Inv, TypeInv
<1>6. ASSUME UNCHANGED menu, NEW b \in Budgets, WindowEnds(b) PROVE Inv'
  BY <1>6, IdleKeeps DEF WindowEnds, KeepQueues, Inv, TypeInv
<1> QED  BY <1>1, <1>2, <1>3, <1>4, <1>5, <1>6 DEF Next

LEMMA SpecInv == Spec => []Inv
  BY InitInv, StepInv, PTL DEF Spec

\* Whatever crashes, disconnects, expires or fails, a key is in progress only while
\* its holder works, while a write that ends it is under way, or after it was abandoned.
THEOREM KeysAreReleased == Spec => []NoOrphanLock
<1>1. Inv => NoOrphanLock
  BY DEF Inv
<1> QED  BY <1>1, SpecInv, PTL

\* Of all the requests that present a key in its lifetime one creates, and every
\* one that is answered is given that one's answer.
THEOREM OneExecution == Spec => []OneExecutionPerKey
<1>1. Inv => OneExecutionPerKey
  <2> SUFFICES ASSUME Inv, NEW r \in Requests, NEW q \in Requests,
                      Sealed(r), Sealed(q), Slot(r) = Slot(q)
               PROVE  /\ r \in made /\ q \in made => r = q
                      /\ req[r].status \in {201, 404} /\ req[q].status \in {201, 404}
                         => req[r].by = req[q].by
    BY DEF OneExecutionPerKey, Sealed
  <2>1. /\ WorkerHolds(r) /\ AnswerIsHolders(r)
        /\ WorkerHolds(q) /\ AnswerIsHolders(q)
    BY DEF Inv, RequestInv
  <2> QED  BY <2>1 DEF WorkerHolds, AnswerIsHolders, Working, HeldBy
<1> QED  BY <1>1, SpecInv, PTL

-------------------------------------------------------------------------------
(* What the guard has found out about a request that is past it. *)

Cleared(q) ==
  LET o == req[q].offer
  IN  /\ req[q].who # Anonymous /\ req[q].who = Resolved(o, {})
      /\ o.bearer # Expired
      /\ o.bearer = Nobody => o.apiKey \in ApiKeys \ req[q].known
      /\ RouteOf(o).auth => HasScopes(RouteOf(o), req[q].who)

Inside(q) ==
  /\ req[q].phase \notin {"new", "auth"} /\ req[q].offer \in Offers
  /\ IF Guarded(req[q].offer) THEN Cleared(q) ELSE req[q].who = Anonymous

\* The request is one that may hold the key s, past the guard and as its user.
Owns(q, s) == q \in Requests /\ Inside(q) /\ Keyed(req[q].offer) /\ Slot(q) = s
Given == {200, 201, 404}
Denied == {401, 403}

GuardSound(q) ==
  /\ req[q].known \subseteq revoked
  /\ req[q].phase = "auth" => Guarded(req[q].offer)
  /\ req[q].phase \in Active \ {"auth"} => Inside(q)
  /\ req[q].phase # "done" => req[q].status = 0 /\ req[q].by = Nobody
  /\ req[q].status \in Given =>
       /\ Inside(q)
       /\ \/ req[q].by \in {q, Nobody}
          \/ Keyed(req[q].offer) /\ Owns(req[q].by, Slot(q))
  /\ req[q].status \in Denied => req[q].phase # "new" /\ Guarded(req[q].offer)

RecordSound(s, record) ==
  record # NoRecord => Owns(record.by, s) /\ record.status \notin Denied

GuardInv ==
  /\ \A q \in Requests : GuardSound(q)
  /\ \A s \in Slots : RecordSound(s, idem[s])
  /\ \A p \in Processes : \A i \in 1..Len(outbox[p]) :
       RecordSound(outbox[p][i].slot, outbox[p][i].record)

BudgetOf(q) == Budget(RouteOf(req[q].offer), req[q].who)
LetThrough(b) == {q \in admitted : BudgetOf(q) = b}
BudgetInv ==
  /\ used \in [Budgets -> Nat]
  /\ \A q \in admitted : q \in Requests /\ Inside(q)
  /\ \A b \in Budgets :
       /\ IsFiniteSet(LetThrough(b)) /\ Cardinality(LetThrough(b)) <= used[b]
       /\ used[b] <= Scaled(b.points)

-------------------------------------------------------------------------------
(* What a step does to a request, as far as the guard and the limiter go. *)

Same(q) ==
  req'[q].offer = req[q].offer /\ req'[q].who = req[q].who /\ req'[q].known = req[q].known

Arrives(q) ==
  /\ req[q].phase = "new" /\ req'[q].offer \in Offers
  /\ req'[q].phase = IF Guarded(req'[q].offer) THEN "auth" ELSE "limit"
  /\ req'[q].known \subseteq revoked /\ req'[q].who = Anonymous
  /\ req'[q].status = 0 /\ req'[q].by = Nobody

GetsIn(q) ==
  LET who == Resolved(req[q].offer, revoked)
      t == RouteOf(req[q].offer)
  IN  /\ req[q].phase = "auth" /\ req'[q].phase = "limit"
      /\ req'[q].offer = req[q].offer /\ req'[q].known = req[q].known
      /\ req'[q].status = req[q].status /\ req'[q].by = req[q].by
      /\ who # Anonymous /\ req'[q].who = who /\ (t.auth => HasScopes(t, who))

TurnedAway(q) ==
  req[q].phase = "auth" /\ req'[q].phase = "done" /\ Same(q) /\ req'[q].status \in {401, 403, 500}

GoesOn(q) ==
  /\ req[q].phase \in Active /\ req'[q].phase \in Active /\ Same(q)
  /\ req[q].phase = "auth" <=> req'[q].phase = "auth"
  /\ req'[q].status = req[q].status /\ req'[q].by = req[q].by

\* With an answer of its own, or with the one kept under its key.
Ends(q) ==
  /\ req[q].phase \in Active \ {"auth"} /\ req'[q].phase = "done" /\ Same(q)
  /\ \/ req'[q].by = q /\ req'[q].status \notin Denied
     \/ /\ Keyed(req[q].offer) /\ idem[Slot(q)] # NoRecord
        /\ req'[q].by = idem[Slot(q)].by /\ req'[q].status = idem[Slot(q)].status

Dies(q) ==
  /\ req[q].phase \in Active /\ req'[q].phase = "lost" /\ Same(q)
  /\ req'[q].status = 0 /\ req'[q].by = Nobody

Fate(q) ==
  \/ req'[q] = req[q] \/ Arrives(q) \/ GetsIn(q) \/ TurnedAway(q)
  \/ GoesOn(q) \/ Ends(q) \/ Dies(q)

\* A record that a request behind the guard leaves under its key.
LeftBy(q, s, record) ==
  /\ req[q].phase \in Active \ {"auth"} /\ Keyed(req[q].offer) /\ Slot(q) = s
  /\ record.by = q /\ record.status \notin Denied

NewRecords ==
  \A s \in Slots :
    \/ idem'[s] = idem[s] \/ idem'[s] = NoRecord
    \/ \E p \in Processes : \E i \in 1..Len(outbox[p]) :
         outbox[p][i].slot = s /\ outbox[p][i].record = idem'[s]
    \/ \E q \in Requests : LeftBy(q, s, idem'[s])

FreshWrite(w) == w.record = NoRecord \/ \E q \in Requests : LeftBy(q, w.slot, w.record)
NewWrites ==
  \A p \in Processes : \A i \in 1..Len(outbox'[p]) :
    \/ \E j \in 1..Len(outbox[p]) : outbox'[p][i] = outbox[p][j]
    \/ FreshWrite(outbox'[p][i])

Seen == (\A q \in Requests : Fate(q)) /\ NewRecords /\ NewWrites /\ revoked \subseteq revoked'

-------------------------------------------------------------------------------
LEMMA QuietQueues == outbox' = outbox => NewWrites
  BY DEF NewWrites

LEMMA QuietRecords == idem' = idem => NewRecords
  BY DEF NewRecords

LEMMA OneMoves ==
    ASSUME Inv, NEW r \in Requests, NEW new, req' = [req EXCEPT ![r] = new]
    PROVE  req'[r] = new /\ \A q \in Requests : q # r => Fate(q)
  BY DEF Inv, TypeInv, Fate

LEMMA PushSeen ==
    ASSUME Inv, NEW r \in Requests, req[r].phase \in Active \ {"auth"}, Keyed(req[r].offer),
           NEW w, w.slot = Slot(r),
           w.record = NoRecord \/ \E n \in Nat : w = [slot |-> Slot(r), record |-> Complete(r, n)] /\ n \notin Denied,
           w = [slot |-> w.slot, record |-> w.record],
           outbox' = [outbox EXCEPT ![req[r].at] = Append(@, w)]
    PROVE  NewWrites
<1>1. req[r].offer \in Offers /\ req[r].at \in Processes /\ Slot(r) \in Slots
  BY ActiveFacts, SlotInSlots DEF Slot
<1>2. w \in Pending /\ FreshWrite(w)
  <2>1. CASE w.record = NoRecord
    BY <2>1, <1>1 DEF Pending, Final, FreshWrite
  <2>2. ASSUME NEW n \in Nat, n \notin Denied, w = [slot |-> Slot(r), record |-> Complete(r, n)]
        PROVE  w \in Pending /\ FreshWrite(w)
    <3>1. Complete(r, n) \in Final /\ Complete(r, n).by = r
      BY <1>1, RecordTypes
    <3>2. Complete(r, n).status = n
      BY DEF Complete
    <3> QED  BY <2>2, <3>1, <3>2, <1>1 DEF Pending, FreshWrite, LeftBy
  <2> QED  BY <2>1, <2>2
<1>3. \A q \in Processes : \A i \in 1..Len(outbox'[q]) :
        outbox'[q][i] = w \/ \E j \in 1..Len(outbox[q]) : outbox'[q][i] = outbox[q][j]
  BY <1>1, <1>2, Push DEF Inv, TypeInv
<1> QED  BY <1>2, <1>3 DEF NewWrites

LEMMA OverFields ==
    ASSUME NEW r \in Requests, req[r] \in Request, NEW phase, NEW status, NEW by
    PROVE  /\ Over(r, phase, status, by).phase = phase
           /\ Over(r, phase, status, by).status = status
           /\ Over(r, phase, status, by).by = by
           /\ Over(r, phase, status, by).offer = req[r].offer
           /\ Over(r, phase, status, by).who = req[r].who
           /\ Over(r, phase, status, by).known = req[r].known
<1>1. PICK x : x = req[r] /\ x \in Request
  OBVIOUS
<1> QED  BY <1>1 DEF Over, Request

LEMMA AnswerSeen ==
    ASSUME Inv, NEW r \in Requests, req[r].phase \in Active, NEW status \in Nat, NEW by,
           Answer(r, status, by), req[r].phase = "auth" \/ status \notin Denied
    PROVE  /\ req'[r].phase = "done" /\ req'[r].status = status /\ req'[r].by = by /\ Same(r)
           /\ \A q \in Requests : q # r => Fate(q)
           /\ NewWrites
<1>1. req'[r] = Over(r, "done", status, by) /\ \A q \in Requests : q # r => Fate(q)
  BY OneMoves DEF Answer
<1>2. req[r] \in Request /\ Sound(r)
  BY ActiveFacts
<1>3. NewWrites
  <2>1. CASE ~req[r].locked
    BY <2>1, QuietQueues DEF Answer
  <2>2. CASE req[r].locked
    <3>1. req[r].phase \in Active \ {"auth"} /\ Keyed(req[r].offer) /\ status \notin Denied
      BY <2>2, <1>2 DEF Sound, Running
    <3>2. PICK w : w = Release(r, status)
      OBVIOUS
    <3>3. /\ w = [slot |-> Slot(r),
                  record |-> IF status >= 500 THEN NoRecord ELSE Complete(r, status)]
          /\ w.slot = Slot(r) /\ w = [slot |-> w.slot, record |-> w.record]
      BY <3>2 DEF Release
    <3>4. \/ w.record = NoRecord
          \/ \E n \in Nat : w = [slot |-> Slot(r), record |-> Complete(r, n)] /\ n \notin Denied
      BY <3>1, <3>3
    <3>5. outbox' = [outbox EXCEPT ![req[r].at] = Append(@, w)]
      BY <2>2, <3>2 DEF Answer
    <3> QED  BY <3>1, <3>3, <3>4, <3>5, PushSeen
  <2> QED  BY <2>1, <2>2
<1> QED  BY <1>1, <1>2, <1>3, OverFields DEF Same

\* An answer is what the step of the request is.
LEMMA AnswerIsFate ==
    ASSUME Inv, NEW r \in Requests, req[r].phase \in Active, NEW status \in Nat, NEW by,
           Answer(r, status, by), KeepStores,
           \/ req[r].phase = "auth" /\ status \in {401, 403, 500}
           \/ req[r].phase # "auth" /\ status \notin Denied /\ by = r
           \/ /\ req[r].phase # "auth" /\ Keyed(req[r].offer) /\ idem[Slot(r)] # NoRecord
              /\ by = idem[Slot(r)].by /\ status = idem[Slot(r)].status /\ status \notin Denied
    PROVE  Seen
<1>1. /\ req'[r].phase = "done" /\ req'[r].status = status /\ req'[r].by = by /\ Same(r)
      /\ \A q \in Requests : q # r => Fate(q)
      /\ NewWrites
  BY AnswerSeen
<1>2. Fate(r)
  BY <1>1 DEF Fate, TurnedAway, Ends
<1>3. NewRecords /\ revoked' = revoked
  BY QuietRecords DEF KeepStores
<1> QED  BY <1>1, <1>2, <1>3 DEF Seen

\* A step that leaves Redis alone and changes only how far the request is.
LEMMA QuietFate ==
    ASSUME Inv, NEW r \in Requests, NEW new, req' = [req EXCEPT ![r] = new], Fate(r),
           UNCHANGED <<idem, outbox, revoked>>
    PROVE  Seen
<1>1. \A q \in Requests : Fate(q)
  BY OneMoves
<1> QED  BY <1>1, QuietQueues, QuietRecords DEF Seen

\* What a change of phase and lock keeps.
LEMMA MoveFields ==
    ASSUME Inv, NEW r \in Requests, req[r].phase \in Active \ {"auth"},
           NEW phase \in Active \ {"auth"}, NEW locked \in BOOLEAN, NEW new,
           new = [req[r] EXCEPT !.phase = phase, !.locked = locked] \/ new = [req[r] EXCEPT !.phase = phase],
           req' = [req EXCEPT ![r] = new]
    PROVE  GoesOn(r) /\ Fate(r)
<1>1. PICK x : x = req[r] /\ x \in Request
  BY ActiveFacts
<1>2. /\ new.phase = phase /\ new.offer = x.offer /\ new.who = x.who /\ new.known = x.known
      /\ new.status = x.status /\ new.by = x.by
  <2>1. CASE new = [x EXCEPT !.phase = phase, !.locked = locked]
    BY <2>1, <1>1 DEF Request
  <2>2. CASE new = [x EXCEPT !.phase = phase]
    BY <2>2, <1>1 DEF Request
  <2> QED  BY <2>1, <2>2, <1>1
<1>3. req'[r] = new
  BY OneMoves
<1> QED  BY <1>1, <1>2, <1>3 DEF GoesOn, Same, Fate

LEMMA ArriveSeen ==
    ASSUME Inv, NEW r \in Requests, NEW p \in Processes, NEW o \in Offers, Arrive(r, p, o)
    PROVE  Seen
<1>1. PICK new : new = [NoRequest EXCEPT !.phase = IF Guarded(o) THEN "auth" ELSE "limit",
                                         !.at = p, !.offer = o, !.known = revoked \cap {o.apiKey}]
  OBVIOUS
<1>2. /\ new.phase = (IF Guarded(o) THEN "auth" ELSE "limit") /\ new.offer = o
      /\ new.known = revoked \cap {o.apiKey} /\ new.who = Anonymous
      /\ new.status = 0 /\ new.by = Nobody
  BY <1>1 DEF NoRequest
<1>3. /\ req[r].phase = "new" /\ req' = [req EXCEPT ![r] = new] /\ req'[r] = new
      /\ UNCHANGED <<idem, outbox, revoked>>
  BY <1>1 DEF Arrive, Inv, TypeInv, KeepStores, KeepQueues
<1>4. Fate(r)
  BY <1>2, <1>3 DEF Fate, Arrives
<1> QED  BY <1>3, <1>4, QuietFate

LEMMA AuthenticateSeen ==
    ASSUME Inv, NEW r \in Requests, Authenticate(r)
    PROVE  Seen
<1>1. PICK who, t : who = Resolved(req[r].offer, revoked) /\ t = RouteOf(req[r].offer)
  OBVIOUS
<1>2. /\ req[r].phase = "auth" /\ req[r].phase \in Active /\ KeepStores
      /\ \/ Answer(r, 401, r)
         \/ Answer(r, 403, r)
         \/ /\ who # Anonymous /\ (t.auth => HasScopes(t, who)) /\ KeepQueues
            /\ req' = [req EXCEPT ![r] = [@ EXCEPT !.phase = "limit", !.who = who]]
  BY <1>1 DEF Authenticate, Active
<1>3. ASSUME NEW status \in {401, 403}, Answer(r, status, r) PROVE Seen
  BY <1>2, <1>3, AnswerIsFate
<1>4. CASE /\ who # Anonymous /\ (t.auth => HasScopes(t, who)) /\ KeepQueues
           /\ req' = [req EXCEPT ![r] = [@ EXCEPT !.phase = "limit", !.who = who]]
  <2>1. PICK x : x = req[r] /\ x \in Request
    BY <1>2, ActiveFacts
  <2>2. PICK new : new = [x EXCEPT !.phase = "limit", !.who = who]
    OBVIOUS
  <2>3. /\ new.phase = "limit" /\ new.who = who /\ new.offer = x.offer /\ new.known = x.known
        /\ new.status = x.status /\ new.by = x.by
    BY <2>1, <2>2 DEF Request
  <2>4. req' = [req EXCEPT ![r] = new] /\ req'[r] = new
    BY <1>4, <2>1, <2>2 DEF Inv, TypeInv
  <2>5. GetsIn(r)
    BY <1>1, <1>2, <1>4, <2>1, <2>3, <2>4 DEF GetsIn
  <2> QED  BY <1>2, <1>4, <2>4, <2>5, QuietFate DEF Fate, KeepStores, KeepQueues
<1> QED  BY <1>2, <1>3, <1>4

LEMMA ConsumeSeen ==
    ASSUME Inv, NEW r \in Requests, Consume(r)
    PROVE  Seen
<1>1. /\ req[r].phase = "limit" /\ req[r].phase \in Active \ {"auth"}
      /\ UNCHANGED <<idem, revoked>>
  BY DEF Consume, Active
<1>2. ASSUME NEW status \in {422, 429}, Answer(r, status, r) PROVE Seen
  <2>1. /\ req'[r].phase = "done" /\ req'[r].status = status /\ req'[r].by = r /\ Same(r)
        /\ \A q \in Requests : q # r => Fate(q)
        /\ NewWrites
    BY <1>1, <1>2, AnswerSeen DEF Denied
  <2>2. Fate(r)
    BY <1>1, <2>1 DEF Fate, Ends, Denied
  <2> QED  BY <1>1, <2>1, <2>2, QuietRecords DEF Seen
<1>3. CASE (Move(r, "lock") \/ Validated(r, FALSE)) /\ KeepQueues
  <2>1. PICK new : /\ \/ new = [req[r] EXCEPT !.phase = "lock"]
                      \/ new = [req[r] EXCEPT !.phase = "run", !.locked = FALSE]
                   /\ req' = [req EXCEPT ![r] = new]
    BY <1>3 DEF Move, Validated, Inv, TypeInv
  <2>2. "lock" \in Active \ {"auth"} /\ "run" \in Active \ {"auth"}
    BY DEF Active
  <2>3. Fate(r)
    BY <1>1, <2>1, <2>2, MoveFields
  <2> QED  BY <1>1, <1>3, <2>1, <2>3, QuietFate DEF KeepQueues
<1> QED  BY <1>2, <1>3, ZenonT(60) DEF Consume

LEMMA GetSeen ==
    ASSUME Inv, GuardInv, NEW r \in Requests, Get(r)
    PROVE  Seen
<1>1. /\ req[r].phase = "get" /\ req[r].phase \in Active \ {"auth"} /\ KeepStores
      /\ Keyed(req[r].offer) /\ Slot(r) \in Slots
  BY ActiveFacts, SlotInSlots DEF Get, Active, Sound, Slot
<1>2. ASSUME NEW status \in {409, 422}, Answer(r, status, r) PROVE Seen
  BY <1>1, <1>2, AnswerIsFate DEF Denied
<1>3. CASE Validated(r, FALSE) /\ KeepQueues
  <2>1. PICK new : new = [req[r] EXCEPT !.phase = "run", !.locked = FALSE]
    OBVIOUS
  <2>2. req' = [req EXCEPT ![r] = new] /\ "run" \in Active \ {"auth"}
    BY <1>3, <2>1 DEF Validated, Inv, TypeInv, Active
  <2>3. Fate(r)
    BY <1>1, <2>1, <2>2, MoveFields
  <2> QED  BY <1>1, <1>3, <2>2, <2>3, QuietFate DEF KeepQueues, KeepStores
<1>4. CASE idem[Slot(r)].state = "complete" /\ Answer(r, idem[Slot(r)].status, idem[Slot(r)].by)
  <2>1. PICK c : c = idem[Slot(r)]
    OBVIOUS
  <2>2. c \in Record /\ c.state = "complete"
    BY <1>1, <1>4, <2>1 DEF Inv, TypeInv
  <2>3. c.status \in Nat /\ c # NoRecord
    BY <2>2 DEF Record, Kept, NoRecord
  <2>4. c.status \notin Denied
    BY <1>1, <2>1, <2>3 DEF GuardInv, RecordSound
  <2> QED  BY <1>1, <1>4, <2>1, <2>3, <2>4, AnswerIsFate
<1> QED  BY <1>2, <1>3, <1>4, ZenonT(60) DEF Get

LEMMA HandlerSeen ==
    ASSUME Inv, NEW r \in Requests, Create(r) \/ Respond(r) \/ Refuse(r) \/ HandlerFails(r)
    PROVE  Seen
<1>1. req[r].phase \in Active \ {"auth"} /\ req[r].phase \in Running
  BY DEF Create, Respond, Refuse, HandlerFails, Active, Running
<1>2. CASE Create(r)
  <2>1. PICK new : new = [req[r] EXCEPT !.phase = "made"]
    OBVIOUS
  <2>2. /\ req' = [req EXCEPT ![r] = new] /\ "made" \in Active \ {"auth"} /\ FALSE \in BOOLEAN
        /\ UNCHANGED <<idem, outbox, revoked>>
    BY <1>2, <2>1 DEF Create, Move, Inv, TypeInv, Active, KeepQueues
  <2>3. Fate(r)
    BY <1>1, <2>1, <2>2, MoveFields
  <2> QED  BY <2>2, <2>3, QuietFate
<1>3. ASSUME NEW status \in {200, 201, 404, 500}, Answer(r, status, r), KeepStores PROVE Seen
  BY <1>1, <1>3, AnswerIsFate DEF Denied
<1> QED  BY <1>2, <1>3 DEF Respond, Refuse, HandlerFails

LEMMA FailureSeen ==
    ASSUME Inv, NEW r \in Requests,
           AuthenticateFails(r) \/ ConsumeFails(r) \/ AcquireFails(r) \/ GetFails(r)
    PROVE  Seen
<1>1. /\ req[r].phase \in Active /\ Answer(r, 500, r) /\ KeepStores /\ 500 \notin Denied
  BY DEF AuthenticateFails, ConsumeFails, AcquireFails, GetFails, Active, Denied
<1> QED  BY <1>1, AnswerIsFate

LEMMA AcquireSeen ==
    ASSUME Inv, NEW r \in Requests, Acquire(r) \/ AcquireTwice(r)
    PROVE  Seen
<1>1. /\ req[r].phase = "lock" /\ req[r].phase \in Active \ {"auth"} /\ Slot(r) \in Slots
      /\ req[r] \in Request /\ Keyed(req[r].offer) /\ revoked' = revoked
  BY ActiveFacts, SlotInSlots DEF Acquire, AcquireTwice, Active, Sound, Slot
<1>2. ASSUME idem' = [idem EXCEPT ![Slot(r)] = InProgress(r)] PROVE NewRecords
  <2>1. \A s \in Slots : s # Slot(r) => idem'[s] = idem[s]
    BY <1>2 DEF Inv, TypeInv
  <2>2. idem'[Slot(r)].by = r /\ idem'[Slot(r)].status = 0
    BY <1>1, <1>2 DEF Inv, TypeInv, InProgress
  <2>3. LeftBy(r, Slot(r), idem'[Slot(r)])
    BY <1>1, <2>2 DEF LeftBy, Denied
  <2> QED  BY <2>1, <2>3 DEF NewRecords
<1>3. ASSUME NewRecords, UNCHANGED outbox,
             Validated(r, TRUE) \/ Move(r, "get")
      PROVE  Seen
  <2>1. PICK new : /\ \/ new = [req[r] EXCEPT !.phase = "get"]
                      \/ new = [req[r] EXCEPT !.phase = "run", !.locked = TRUE]
                   /\ req' = [req EXCEPT ![r] = new]
    BY <1>3 DEF Move, Validated, Inv, TypeInv
  <2>2. "get" \in Active \ {"auth"} /\ "run" \in Active \ {"auth"}
    BY DEF Active
  <2>3. Fate(r)
    BY <1>1, <2>1, <2>2, MoveFields
  <2>4. \A q \in Requests : Fate(q)
    BY <2>1, <2>3, OneMoves
  <2> QED  BY <1>1, <1>3, <2>4, QuietQueues DEF Seen
<1>4. CASE /\ idem' = [idem EXCEPT ![Slot(r)] = InProgress(r)]
           /\ req' = [req EXCEPT ![r] = Over(r, "done", 422, r)]
           /\ outbox' = [outbox EXCEPT ![req[r].at] = Append(@, Release(r, 422))]
  <2>1. PICK w : w = Release(r, 422)
    OBVIOUS
  <2>2. /\ w = [slot |-> Slot(r), record |-> Complete(r, 422)] /\ w.slot = Slot(r)
        /\ w = [slot |-> w.slot, record |-> w.record] /\ 422 \in Nat /\ 422 \notin Denied
    BY <2>1 DEF Release, Denied
  <2>3. NewWrites
    BY <1>1, <1>4, <2>1, <2>2, PushSeen
  <2>4. req'[r] = Over(r, "done", 422, r) /\ \A q \in Requests : q # r => Fate(q)
    BY <1>4, OneMoves
  <2>5. /\ req'[r].phase = "done" /\ req'[r].status = 422 /\ req'[r].by = r /\ Same(r)
    BY <1>1, <2>4, OverFields DEF Same
  <2>6. Fate(r)
    BY <1>1, <2>5 DEF Fate, Ends, Denied
  <2> QED  BY <1>1, <1>2, <1>4, <2>3, <2>4, <2>6 DEF Seen
<1>5. \/ /\ idem' = [idem EXCEPT ![Slot(r)] = InProgress(r)] /\ UNCHANGED outbox
         /\ Validated(r, TRUE) \/ Move(r, "get")
      \/ UNCHANGED <<idem, outbox>> /\ Move(r, "get")
      \/ /\ idem' = [idem EXCEPT ![Slot(r)] = InProgress(r)]
         /\ req' = [req EXCEPT ![r] = Over(r, "done", 422, r)]
         /\ outbox' = [outbox EXCEPT ![req[r].at] = Append(@, Release(r, 422))]
  BY DEF Acquire, AcquireTwice, KeepQueues
<1> QED  BY <1>2, <1>3, <1>4, <1>5, QuietRecords

LEMMA DisconnectSeen ==
    ASSUME Inv, NEW r \in Requests, Disconnect(r)
    PROVE  Seen
<1>1. PICK x : x = req[r] /\ x \in Request /\ x.phase \in Active /\ Sound(r)
  BY ActiveFacts DEF Disconnect
<1>2. PICK new : new = [x EXCEPT !.gone = TRUE]
  OBVIOUS
<1>3. /\ new.phase = x.phase /\ new.offer = x.offer /\ new.who = x.who /\ new.known = x.known
      /\ new.status = x.status /\ new.by = x.by
  BY <1>1, <1>2 DEF Request
<1>4. req' = [req EXCEPT ![r] = new] /\ req'[r] = new /\ UNCHANGED <<idem, revoked>>
  BY <1>1, <1>2 DEF Disconnect, KeepStores, Inv, TypeInv
<1>5. Fate(r)
  BY <1>1, <1>3, <1>4 DEF Fate, GoesOn, Same
<1>6. \A q \in Requests : Fate(q)
  BY <1>4, <1>5, OneMoves
<1>7. NewWrites
  <2>1. CASE x.locked /\ outbox' = [outbox EXCEPT ![req[r].at] =
                                      Append(@, [slot |-> Slot(r), record |-> NoRecord])]
    <3>1. req[r].phase \in Active \ {"auth"} /\ Keyed(req[r].offer)
      BY <1>1, <2>1 DEF Sound, Running
    <3>2. PICK w : w = [slot |-> Slot(r), record |-> NoRecord]
      OBVIOUS
    <3>3. w.slot = Slot(r) /\ w.record = NoRecord /\ w = [slot |-> w.slot, record |-> w.record]
      BY <3>2
    <3> QED  BY <2>1, <3>1, <3>2, <3>3, PushSeen
  <2>2. CASE outbox' = outbox
    BY <2>2, QuietQueues
  <2> QED  BY <1>1, <2>1, <2>2 DEF Disconnect, KeepQueues
<1> QED  BY <1>4, <1>6, <1>7, QuietRecords DEF Seen

LEMMA WriteSeen ==
    ASSUME Inv, NEW p \in Processes, Write(p) \/ WriteFails(p)
    PROVE  Seen
<1>1. /\ outbox[p] # <<>> /\ outbox \in [Processes -> Seq(Pending)] /\ idem \in [Slots -> Record]
      /\ outbox' = [outbox EXCEPT ![p] = Tail(@)] /\ req' = req /\ revoked' = revoked
      /\ \/ idem' = [idem EXCEPT ![Head(outbox[p]).slot] = Head(outbox[p]).record]
         \/ idem' = [idem EXCEPT ![Head(outbox[p]).slot] = idem[Head(outbox[p]).slot]]
  BY DEF Write, WriteFails, Written, Inv, TypeInv
<1>2. /\ outbox[p] \in Seq(Pending) /\ Len(outbox[p]) \in Nat /\ 1 \in 1..Len(outbox[p])
      /\ Head(outbox[p]) = outbox[p][1]
  BY <1>1
<1>3. NewRecords
  <2> SUFFICES ASSUME NEW s \in Slots
               PROVE  \/ idem'[s] = idem[s]
                      \/ outbox[p][1].slot = s /\ outbox[p][1].record = idem'[s]
    BY <1>2 DEF NewRecords
  <2> QED  BY <1>1, <1>2
<1>4. NewWrites
  <2> SUFFICES ASSUME NEW q \in Processes, NEW i \in 1..Len(outbox'[q])
               PROVE  \E j \in 1..Len(outbox[q]) : outbox'[q][i] = outbox[q][j]
    BY DEF NewWrites
  <2>1. CASE q = p
    <3>1. outbox'[p] = Tail(outbox[p])
      BY <1>1
    <3>2. /\ Len(outbox'[p]) = Len(outbox[p]) - 1
          /\ \A k \in 1..Len(outbox'[p]) : outbox'[p][k] = outbox[p][k + 1]
      BY <1>2, <3>1
    <3> QED  BY <2>1, <1>2, <3>2
  <2>2. CASE q # p
    BY <2>2, <1>1
  <2> QED  BY <2>1, <2>2
<1> QED  BY <1>1, <1>3, <1>4 DEF Seen, Fate

LEMMA CrashSeen ==
    ASSUME Inv, NEW p \in Processes, Crash(p)
    PROVE  Seen
<1>1. /\ req' = [r \in Requests |->
                   IF req[r].at = p /\ req[r].phase \in Active THEN Over(r, "lost", 0, Nobody) ELSE req[r]]
      /\ outbox' = [outbox EXCEPT ![p] = <<>>] /\ UNCHANGED <<idem, revoked>>
  BY DEF Crash
<1>2. \A q \in Requests : Fate(q)
  <2> SUFFICES ASSUME NEW q \in Requests, req[q].at = p, req[q].phase \in Active
               PROVE  Fate(q)
    BY <1>1 DEF Fate
  <2>1. req'[q] = Over(q, "lost", 0, Nobody) /\ req[q] \in Request
    BY <1>1, ActiveFacts
  <2>2. /\ req'[q].phase = "lost" /\ req'[q].status = 0 /\ req'[q].by = Nobody /\ Same(q)
    BY <2>1, OverFields DEF Same
  <2> QED  BY <2>2 DEF Fate, Dies
<1>3. NewWrites
  <2> SUFFICES ASSUME NEW q \in Processes, NEW i \in 1..Len(outbox'[q])
               PROVE  \E j \in 1..Len(outbox[q]) : outbox'[q][i] = outbox[q][j]
    BY DEF NewWrites
  <2>1. q # p /\ outbox'[q] = outbox[q]
    BY <1>1 DEF Inv, TypeInv
  <2> QED  BY <2>1
<1> QED  BY <1>1, <1>2, <1>3, QuietRecords DEF Seen

LEMMA ExpireSeen ==
    ASSUME Inv, NEW s \in Slots, Expire(s)
    PROVE  Seen
<1>1. UNCHANGED <<req, outbox, revoked>> /\ idem' = [idem EXCEPT ![s] = NoRecord]
  BY DEF Expire
<1>2. NewRecords
  BY <1>1 DEF NewRecords, Inv, TypeInv
<1> QED  BY <1>1, <1>2, QuietQueues DEF Seen, Fate

LEMMA NextSeen ==
    ASSUME Inv, GuardInv, [Next]_vars
    PROVE  Seen
<1>1. CASE UNCHANGED vars
  BY <1>1, QuietQueues, QuietRecords DEF vars, Seen, Fate
<1>2. ASSUME NEW r \in Requests, Step(r) PROVE Seen
  BY <1>2, ArriveSeen, AuthenticateSeen, ConsumeSeen, AcquireSeen, GetSeen, HandlerSeen,
     FailureSeen, DisconnectSeen DEF Step
<1>3. ASSUME NEW p \in Processes, Write(p) \/ WriteFails(p) \/ Crash(p) PROVE Seen
  BY <1>3, WriteSeen, CrashSeen
<1>4. ASSUME NEW s \in Slots, Expire(s) PROVE Seen
  BY <1>4, ExpireSeen
<1>5. ASSUME NEW k \in ApiKeys, RevokeApiKey(k) PROVE Seen
  BY <1>5, QuietQueues, QuietRecords DEF RevokeApiKey, KeepQueues, Seen, Fate
<1>6. ASSUME NEW b \in Budgets, WindowEnds(b) PROVE Seen
  BY <1>6, QuietQueues, QuietRecords DEF WindowEnds, KeepQueues, Seen, Fate
<1> QED  BY <1>1, <1>2, <1>3, <1>4, <1>5, <1>6 DEF Next

-------------------------------------------------------------------------------
(* Past the guard nothing of what the guard has found changes any more. *)

LEMMA InsideStays ==
    ASSUME NEW q \in Requests, Fate(q), Inside(q)
    PROVE  Inside(q)' /\ Same(q)
<1>1. Same(q) /\ req'[q].phase \notin {"new", "auth"}
  BY DEF Fate, Inside, Arrives, GetsIn, TurnedAway, GoesOn, Ends, Dies, Same, Active
<1> QED  BY <1>1 DEF Inside, Cleared, Same

LEMMA OwnsStays ==
    ASSUME \A q \in Requests : Fate(q), NEW b, NEW s, Owns(b, s)
    PROVE  Owns(b, s)'
<1>1. b \in Requests /\ Inside(b) /\ Keyed(req[b].offer) /\ Slot(b) = s
  BY DEF Owns
<1>2. Inside(b)' /\ Same(b)
  BY <1>1, InsideStays
<1> QED  BY <1>1, <1>2 DEF Owns, Same, Slot

\* Whom the guard lets in is who the credential says, revocations or not.
LEMMA LetInIsCleared ==
    ASSUME Inv, NEW q \in Requests, GuardSound(q), GetsIn(q)
    PROVE  Inside(q)'
<1>1. PICK o : o = req[q].offer
  OBVIOUS
<1>2. /\ o \in Offers /\ Guarded(o) /\ req'[q].offer = o /\ req'[q].phase = "limit"
      /\ req'[q].who = Resolved(o, revoked) /\ Resolved(o, revoked) # Anonymous
      /\ req'[q].known = req[q].known /\ req[q].known \subseteq revoked
      /\ RouteOf(o).auth => HasScopes(RouteOf(o), Resolved(o, revoked))
  BY <1>1, ActiveFacts DEF GetsIn, GuardSound, Active
<1>3. Expired # Nobody
  BY NobodyIsNoToken
<1>4. Resolved(o, revoked) = Resolved(o, {}) /\ o.bearer # Expired
  BY <1>2, <1>3 DEF Resolved
<1>5. o.bearer = Nobody => o.apiKey \in ApiKeys \ revoked
  BY <1>2 DEF Resolved
<1> QED  BY <1>2, <1>4, <1>5 DEF Inside, Cleared

LEMMA OwnRecord ==
    ASSUME NEW q \in Requests, GuardSound(q), \A r \in Requests : Fate(r),
           NEW s, NEW record, LeftBy(q, s, record)
    PROVE  Owns(record.by, s)'
<1>1. Owns(q, s)
  BY DEF LeftBy, GuardSound, Owns
<1>2. Owns(q, s)'
  BY <1>1, OwnsStays
<1> QED  BY <1>2 DEF LeftBy

LEMMA GuardSoundStays ==
    ASSUME Inv, GuardInv, Seen, NEW q \in Requests
    PROVE  GuardSound(q)'
<1>1. GuardSound(q) /\ Fate(q) /\ revoked \subseteq revoked'
  BY DEF GuardInv, Seen
<1>2. CASE req'[q] = req[q]
  <2>1. Inside(q) => Inside(q)'
    BY <1>1, InsideStays
  <2>2. \A b : Owns(b, Slot(q)) => Owns(b, Slot(q))'
    <3>1. ASSUME NEW b, Owns(b, Slot(q)) PROVE Owns(b, Slot(q))'
      <4>1. PICK s : s = Slot(q)
        OBVIOUS
      <4>2. Owns(b, s)'
        BY <3>1, <4>1, OwnsStays DEF Seen
      <4> QED  BY <4>1, <4>2, <1>2 DEF Slot
    <3> QED  BY <3>1
  <2> QED  BY <1>1, <1>2, <2>1, <2>2 DEF GuardSound, Slot
<1>3. CASE Arrives(q)
  <2>1. ~Guarded(req'[q].offer) => Inside(q)'
    BY <1>3 DEF Arrives, Inside
  <2> QED  BY <1>1, <1>3, <2>1 DEF Arrives, GuardSound, Given, Denied
<1>4. CASE GetsIn(q)
  <2>1. Inside(q)'
    BY <1>1, <1>4, LetInIsCleared
  <2> QED  BY <1>1, <1>4, <2>1 DEF GetsIn, GuardSound, Given, Denied
<1>5. CASE TurnedAway(q)
  BY <1>1, <1>5 DEF TurnedAway, Same, GuardSound, Given, Denied, Active
<1>6. CASE GoesOn(q)
  <2>1. req[q].phase # "auth" => Inside(q)'
    BY <1>1, <1>6, InsideStays DEF GoesOn, GuardSound
  <2>2. req[q].status = 0 /\ req[q].by = Nobody
    BY <1>1, <1>6 DEF GoesOn, GuardSound, Active
  <2> QED  BY <1>1, <1>6, <2>1, <2>2 DEF GoesOn, Same, GuardSound, Given, Denied
<1>7. CASE Ends(q)
  <2>1. Inside(q)' /\ req'[q].phase = "done" /\ Same(q)
    BY <1>1, <1>7, InsideStays DEF Ends, GuardSound
  <2>2. Slot(q)' = Slot(q) /\ (Keyed(req[q].offer) => Keyed(req[q].offer)')
    BY <2>1 DEF Same, Slot
  <2>3. CASE req'[q].by = q /\ req'[q].status \notin Denied
    BY <1>1, <2>1, <2>3 DEF GuardSound, Same, Active
  <2>4. CASE /\ Keyed(req[q].offer) /\ idem[Slot(q)] # NoRecord
             /\ req'[q].by = idem[Slot(q)].by /\ req'[q].status = idem[Slot(q)].status
    <3>1. PICK s, b : s = Slot(q) /\ b = req'[q].by
      OBVIOUS
    <3>2. s \in Slots
      BY <1>7, <2>4, <3>1, ActiveFacts, SlotInSlots DEF Ends, Slot
    <3>3. Owns(b, s) /\ req'[q].status \notin Denied
      BY <2>4, <3>1, <3>2 DEF GuardInv, RecordSound
    <3>4. Owns(b, s)'
      BY <3>3, OwnsStays DEF Seen
    <3>5. Owns(req[q].by, Slot(q))'
      BY <3>1, <3>4, <2>2 DEF Owns
    <3> QED  BY <1>1, <2>1, <2>2, <2>4, <3>3, <3>5 DEF GuardSound, Same, Active
  <2> QED  BY <1>7, <2>3, <2>4 DEF Ends
<1>8. CASE Dies(q)
  BY <1>1, <1>8 DEF Dies, Same, GuardSound, Given, Denied, Active
<1> QED  BY <1>1, <1>2, <1>3, <1>4, <1>5, <1>6, <1>7, <1>8 DEF Fate

LEMMA RecordSoundStays ==
    ASSUME \A q \in Requests : Fate(q), NEW s, NEW record, RecordSound(s, record)
    PROVE  RecordSound(s, record)'
  BY OwnsStays DEF RecordSound

LEMMA GuardInvStays == Inv /\ GuardInv /\ [Next]_vars => GuardInv'
<1> SUFFICES ASSUME Inv, GuardInv, [Next]_vars PROVE GuardInv'
  OBVIOUS
<1>1. Seen /\ \A q \in Requests : Fate(q)
  BY NextSeen DEF Seen
<1>2. \A q \in Requests : GuardSound(q)'
  BY <1>1, GuardSoundStays
<1>3. ASSUME NEW q \in Requests, NEW s, NEW record, LeftBy(q, s, record)
      PROVE  Owns(record.by, s)' /\ record.status \notin Denied
  BY <1>1, <1>3, OwnRecord DEF GuardInv, LeftBy
<1>4. \A s \in Slots : RecordSound(s, idem[s])'
  <2> SUFFICES ASSUME NEW s \in Slots PROVE RecordSound(s, idem[s])'
    OBVIOUS
  <2>1. PICK c : c = idem'[s]
    OBVIOUS
  <2>2. CASE c = NoRecord
    BY <2>1, <2>2 DEF RecordSound
  <2>3. CASE c = idem[s]
    <3>1. RecordSound(s, c)
      BY <2>3 DEF GuardInv
    <3>2. RecordSound(s, c)'
      BY <3>1, <1>1, RecordSoundStays
    <3> QED  BY <3>2, <2>1 DEF RecordSound
  <2>4. ASSUME NEW p \in Processes, NEW i \in 1..Len(outbox[p]),
               outbox[p][i].slot = s, outbox[p][i].record = c
        PROVE  RecordSound(s, idem[s])'
    <3>1. RecordSound(s, c)
      BY <2>4 DEF GuardInv
    <3>2. RecordSound(s, c)'
      BY <3>1, <1>1, RecordSoundStays
    <3> QED  BY <3>2, <2>1 DEF RecordSound
  <2>5. ASSUME NEW q \in Requests, LeftBy(q, s, c) PROVE RecordSound(s, idem[s])'
    BY <1>3, <2>1, <2>5 DEF RecordSound
  <2> QED  BY <1>1, <2>1, <2>2, <2>3, <2>4, <2>5 DEF Seen, NewRecords
<1>5. \A p \in Processes : \A i \in 1..Len(outbox'[p]) :
        RecordSound(outbox[p][i].slot, outbox[p][i].record)'
  <2> SUFFICES ASSUME NEW p \in Processes, NEW i \in 1..Len(outbox'[p])
               PROVE  RecordSound(outbox[p][i].slot, outbox[p][i].record)'
    OBVIOUS
  <2>1. PICK w : w = outbox'[p][i]
    OBVIOUS
  <2>2. CASE \E j \in 1..Len(outbox[p]) : w = outbox[p][j]
    <3>1. RecordSound(w.slot, w.record)
      BY <2>2 DEF GuardInv
    <3>2. RecordSound(w.slot, w.record)'
      BY <3>1, <1>1, RecordSoundStays
    <3> QED  BY <3>2, <2>1 DEF RecordSound
  <2>3. CASE FreshWrite(w)
    BY <1>3, <2>1, <2>3 DEF FreshWrite, RecordSound
  <2> QED  BY <1>1, <2>1, <2>2, <2>3 DEF Seen, NewWrites
<1> QED  BY <1>2, <1>4, <1>5 DEF GuardInv

LEMMA GuardInvInit == Init => GuardInv
<1> SUFFICES ASSUME Init PROVE GuardInv
  OBVIOUS
<1>1. /\ NoRequest.phase = "new" /\ NoRequest.known = {} /\ NoRequest.status = 0
      /\ NoRequest.by = Nobody
  BY DEF NoRequest
<1>2. /\ \A q \in Requests : req[q] = NoRequest
      /\ \A s \in Slots : idem[s] = NoRecord
      /\ \A p \in Processes : outbox[p] = <<>>
  BY DEF Init
<1> QED  BY <1>1, <1>2 DEF GuardInv, GuardSound, RecordSound, Given, Denied, Active

LEMMA SpecGuardInv == Spec => []GuardInv
  BY SpecInv, GuardInvInit, GuardInvStays, PTL DEF Spec

\* Guarded requests of one user share a key only among themselves.
LEMMA KinOfOneUser ==
    ASSUME Inv, NEW q \in Requests, Inside(q), Guarded(req[q].offer), NEW b, Owns(b, Slot(q))
    PROVE  req[b].who.id = req[q].who.id
<1>1. PICK o, u : o = req[q].offer /\ u = req[b].offer
  OBVIOUS
<1>2. /\ o \in Offers /\ u \in Offers /\ b \in Requests /\ Inside(b)
      /\ SlotOf(o) = SlotOf(u) /\ Guarded(o)
      /\ req[q].who = Resolved(o, {})
  BY <1>1 DEF Owns, Inside, Cleared, Slot
<1>3. o.module = u.module /\ o.method = u.method /\ o.path = u.path
  BY <1>2 DEF SlotOf
<1>4. RouteOf(u) = RouteOf(o)
  BY <1>2, <1>3 DEF RouteOf, Serving
<1>5. Guarded(u)
  BY <1>2, <1>3, <1>4 DEF Guarded, GuardedOffers
<1>6. req[b].who = Resolved(u, {})
  BY <1>1, <1>2, <1>5 DEF Inside, Cleared
<1>7. Resolved(u, {}).id = Resolved(o, {}).id
  BY <1>2, <1>5 DEF SlotOf
<1> QED  BY <1>2, <1>6, <1>7

LEMMA ClosedIsGuarded ==
    ASSUME NEW o \in Offers, RouteOf(o).auth
    PROVE  Guarded(o)
  BY DEF Guarded, GuardedOffers, NeedsCredential

\* No handler of a protected route works, and no answer of one is replayed, but for
\* a request whose credential was good when it arrived and had the scopes; what is
\* replayed was answered to a request of the same user.
THEOREM ServedAreAuthorised == Spec => []ServedIsAuthorised
<1>1. Inv /\ GuardInv => ServedIsAuthorised
  <2> SUFFICES ASSUME Inv, GuardInv, NEW r \in Requests, Served(r), RouteOf(req[r].offer).auth
               PROVE  LET o == req[r].offer
                      IN  /\ o.bearer # Expired
                          /\ o.bearer = Nobody =>
                               /\ o.apiKey \in ApiKeys \ req[r].known
                               /\ \/ RouteOf(o).scopes \subseteq KeyRow[o.apiKey].scopes
                                  \/ "*" \in KeyRow[o.apiKey].scopes
                          /\ req[r].by # Nobody => req[req[r].by].who.id = req[r].who.id
    BY DEF ServedIsAuthorised
  <2>1. PICK o : o = req[r].offer
    OBVIOUS
  <2>2. GuardSound(r) /\ Inside(r)
    BY DEF GuardInv, GuardSound, Served, Given, Running, Active
  <2>3. o \in Offers /\ Guarded(o) /\ Cleared(r)
    BY <2>1, <2>2, ClosedIsGuarded DEF Inside
  <2>4. o.bearer # Expired
    BY <2>1, <2>3 DEF Cleared
  <2>5. ASSUME o.bearer = Nobody
        PROVE  /\ o.apiKey \in ApiKeys \ req[r].known
               /\ RouteOf(o).scopes \subseteq KeyRow[o.apiKey].scopes \/ "*" \in KeyRow[o.apiKey].scopes
    <3>1. o.apiKey \in ApiKeys \ req[r].known /\ HasScopes(RouteOf(o), req[r].who)
      BY <2>1, <2>3, <2>5 DEF Cleared
    <3>2. req[r].who = KeyPrincipal(o.apiKey)
      BY <2>1, <2>3, <2>5, <3>1 DEF Cleared, Resolved
    <3> QED  BY <3>1, <3>2 DEF HasScopes, KeyPrincipal
  <2>6. ASSUME req[r].by # Nobody PROVE req[req[r].by].who.id = req[r].who.id
    <3>1. req[r].by = r \/ Owns(req[r].by, Slot(r))
      BY <2>2, <2>6 DEF GuardSound, Served, Running, Given
    <3> QED  BY <2>1, <2>2, <2>3, <3>1, KinOfOneUser
  <2> QED  BY <2>1, <2>4, <2>5, <2>6
<1> QED  BY <1>1, SpecInv, SpecGuardInv, PTL

LEMMA ServedByItsRoute ==
    ASSUME NEW o \in Offers
    PROVE  RouteOf(o) \in RouteTable /\ Serves(RouteOf(o), o.module, o.method, o.path)
<1> DEFINE Serving1 == {t \in RouteTable : Serves(t, o.module, o.method, o.path)}
<1>1. Cardinality(Serving1) = 1
  BY PipelineAssumption DEF PipelineAssumption
<1>2. Serving1 # {}
  <2> HIDE DEF Serving1
  <2> QED  BY <1>1, FS_EmptySet
<1>3. RouteOf(o) = CHOOSE t \in RouteTable : Serves(t, o.module, o.method, o.path)
  BY DEF RouteOf, Serving
<1> QED  BY <1>2, <1>3

\* Nobody who asks for a public route by its own method is turned away.
THEOREM PublicStaysOpen == Spec => []PublicNeedsNoCredential
<1>1. Inv /\ GuardInv => PublicNeedsNoCredential
  <2> SUFFICES ASSUME Inv, GuardInv, NEW r \in Requests, req[r].status \in {401, 403},
                      ~RouteOf(req[r].offer).auth
               PROVE  RouteOf(req[r].offer).method # req[r].offer.method
    BY DEF PublicNeedsNoCredential
  <2>1. PICK o, t : o = req[r].offer /\ t = RouteOf(o)
    OBVIOUS
  <2>2. o \in Offers /\ Guarded(o) /\ ~t.auth
    BY <2>1 DEF GuardInv, GuardSound, Denied, Inv, SoundInv, Sound
  <2>3. ~IsPublicRoute(t.module, o.method, o.path)
    BY <2>1, <2>2 DEF Guarded, GuardedOffers, NeedsCredential
  <2>4. t \in RouteTable /\ Matches(t.path, o.path)
    BY <2>1, <2>2, ServedByItsRoute DEF Serves
  <2> QED  BY <2>1, <2>2, <2>3, <2>4 DEF IsPublicRoute
<1> QED  BY <1>1, SpecInv, SpecGuardInv, PTL

-------------------------------------------------------------------------------
(* The limiter: of every budget no more is given than it holds. *)

Limits ==
  {NoLimit, RenderLimit, ReadLimit, WriteLimit, TestLimit,
   UuidLimit, HashLimit, JwtLimit, Base64Limit}

LEMMA LimitOfRoute ==
    ASSUME NEW t \in RouteTable
    PROVE  t.limit \in Limits
<1>1. t \in AuthRoutes => t.limit = NoLimit
  BY DEF AuthRoutes, Declared, Open
<1>2. t \in UrlRoutes => t.limit = NoLimit
  BY DEF UrlRoutes, Declared, Open, Closed, Creating
<1>3. t \in QrRoutes => t.limit = NoLimit
  BY DEF QrRoutes, Declared, Open, Closed, Creating
<1>4. t \in PdfRoutes => t.limit = RenderLimit
  BY DEF PdfRoutes, Declared, Closed
<1>5. t \in EndpointRoutes => t.limit \in {ReadLimit, WriteLimit, TestLimit}
  BY DEF EndpointRoutes, Declared, Closed, Creating
<1>6. t \in DeliveryRoutes => t.limit \in {ReadLimit, WriteLimit, TestLimit}
  BY DEF DeliveryRoutes, Declared, Closed
<1>7. t \in DeveloperToolRoutes => t.limit \in {UuidLimit, HashLimit, JwtLimit, Base64Limit}
  BY DEF DeveloperToolRoutes, Declared, Closed
<1> QED
  BY <1>1, <1>2, <1>3, <1>4, <1>5, <1>6, <1>7 DEF RouteTable, Limits

\* A bucket has one limit, whatever the route.
LEMMA BucketHasOneLimit ==
    ASSUME NEW t \in RouteTable, NEW u \in RouteTable, t.limit.bucket = u.limit.bucket
    PROVE  t.limit = u.limit
<1>1. t.limit \in Limits /\ u.limit \in Limits
  BY LimitOfRoute
<1> QED
  BY <1>1 DEF Limits, NoLimit, RenderLimit, ReadLimit, WriteLimit, TestLimit,
             UuidLimit, HashLimit, JwtLimit, Base64Limit, Limit

LEMMA BudgetInBudgets ==
    ASSUME NEW q \in Requests, Inside(q)
    PROVE  BudgetOf(q) \in Budgets
<1>1. PICK o : o = req[q].offer
  OBVIOUS
<1>2. o \in Offers /\ req[q].who \in Principals(o)
  BY <1>1 DEF Inside, Cleared, Principals
<1> QED  BY <1>1, <1>2 DEF Budgets, BudgetOf

LEMMA BudgetStays ==
    ASSUME NEW q \in Requests, Inside(q), Fate(q)
    PROVE  Inside(q)' /\ BudgetOf(q)' = BudgetOf(q)
  BY InsideStays DEF BudgetOf, Same

\* A step that consumes nothing and ends no window.
LEMMA LimiterIdle ==
    ASSUME BudgetInv, \A q \in Requests : Fate(q), UNCHANGED <<used, admitted>>
    PROVE  BudgetInv'
<1>1. \A q \in admitted : q \in Requests /\ Inside(q)' /\ BudgetOf(q)' = BudgetOf(q)
  BY BudgetStays DEF BudgetInv
<1>2. \A b \in Budgets : LetThrough(b)' = LetThrough(b)
  BY <1>1 DEF LetThrough
<1> QED  BY <1>1, <1>2 DEF BudgetInv

LEMMA ConsumeWithin ==
    ASSUME Inv, GuardInv, BudgetInv, NEW r \in Requests, Consume(r), \A q \in Requests : Fate(q),
           ~UNCHANGED <<used, admitted>>
    PROVE  BudgetInv'
<1>0. PICK c : c = BudgetOf(r)
  OBVIOUS
<1>1. /\ req[r].phase = "limit" /\ used[c] < Scaled(c.points)
      /\ used' = [used EXCEPT ![c] = @ + 1] /\ admitted' = admitted \cup {r}
  BY <1>0 DEF Consume, WithinBudget, BudgetOf
<1>2. Inside(r) /\ c \in Budgets
  BY <1>0, <1>1, BudgetInBudgets DEF GuardInv, GuardSound, Active
<1>3. /\ used \in [Budgets -> Nat] /\ Scaled(c.points) \in Nat /\ used[c] \in Nat
  BY <1>2, ScaledAssumption DEF BudgetInv
<1>4. /\ used' \in [Budgets -> Nat] /\ used'[c] = used[c] + 1
      /\ \A b \in Budgets : b # c => used'[b] = used[b]
  <2>1. PICK n : n = used[c] + 1 /\ n \in Nat
    BY <1>3
  <2>2. used' = [used EXCEPT ![c] = n]
    BY <1>1, <2>1
  <2> QED  BY <1>2, <1>3, <2>1, <2>2
<1>5. \A q \in admitted' : q \in Requests /\ Inside(q)' /\ BudgetOf(q)' = BudgetOf(q)
  BY <1>1, <1>2, BudgetStays DEF BudgetInv
<1>6. ASSUME NEW b \in Budgets, b # c PROVE LetThrough(b)' = LetThrough(b)
  BY <1>0, <1>1, <1>5, <1>6 DEF LetThrough
<1>7. LetThrough(c)' = LetThrough(c) \cup {r}
  BY <1>0, <1>1, <1>5 DEF LetThrough
<1>8. /\ IsFiniteSet(LetThrough(c)') /\ Cardinality(LetThrough(c)') <= Cardinality(LetThrough(c)) + 1
      /\ Cardinality(LetThrough(c)) \in Nat /\ Cardinality(LetThrough(c)') \in Nat
  <2>1. PICK S, T : S = LetThrough(c) /\ T = LetThrough(c)'
    OBVIOUS
  <2>2. IsFiniteSet(S) /\ T = S \cup {r}
    BY <2>1, <1>2, <1>7 DEF BudgetInv
  <2>3. IsFiniteSet(T) /\ Cardinality(T) <= Cardinality(S) + 1 /\ Cardinality(S) \in Nat
        /\ Cardinality(T) \in Nat
    <3>1. /\ IsFiniteSet(S \cup {r})
          /\ Cardinality(S \cup {r}) = Cardinality(S) \/ Cardinality(S \cup {r}) = Cardinality(S) + 1
      BY <2>2, FS_AddElement
    <3>2. Cardinality(S) \in Nat
      BY <2>2, FS_CardinalityType
    <3> QED  BY <2>2, <3>1, <3>2
  <2> QED  BY <2>1, <2>3
<1>9. /\ Cardinality(LetThrough(c)') <= used'[c] /\ used'[c] <= Scaled(c.points)
  <2>1. Cardinality(LetThrough(c)) <= used[c]
    BY <1>2 DEF BudgetInv
  <2> QED  BY <2>1, <1>1, <1>3, <1>4, <1>8
<1>10. \A b \in Budgets : /\ IsFiniteSet(LetThrough(b)') /\ Cardinality(LetThrough(b)') <= used'[b]
                          /\ used'[b] <= Scaled(b.points)
  BY <1>4, <1>6, <1>8, <1>9 DEF BudgetInv
<1> QED  BY <1>4, <1>5, <1>10 DEF BudgetInv

LEMMA WindowStartsEmpty ==
    ASSUME BudgetInv, NEW c \in Budgets, WindowEnds(c)
    PROVE  BudgetInv'
<1>1. /\ used' = [used EXCEPT ![c] = 0] /\ req' = req
      /\ admitted' = {q \in admitted : BudgetOf(q) # c}
  BY DEF WindowEnds, BudgetOf
<1>2. /\ used' \in [Budgets -> Nat] /\ used'[c] = 0
      /\ \A b \in Budgets : b # c => used'[b] = used[b]
  BY <1>1 DEF BudgetInv
<1>3. \A q \in admitted' : q \in Requests /\ Inside(q)'
  BY <1>1 DEF BudgetInv, Inside, Cleared
<1>4. \A b \in Budgets : b # c => LetThrough(b)' = LetThrough(b)
  BY <1>1 DEF LetThrough, BudgetOf
<1>5. LetThrough(c)' = {}
  BY <1>1 DEF LetThrough, BudgetOf
<1>6. IsFiniteSet(LetThrough(c)') /\ Cardinality(LetThrough(c)') = 0
  BY <1>5, FS_EmptySet
<1>7. \A b \in Budgets : /\ IsFiniteSet(LetThrough(b)') /\ Cardinality(LetThrough(b)') <= used'[b]
                         /\ used'[b] <= Scaled(b.points)
  BY <1>2, <1>4, <1>6, ScaledAssumption DEF BudgetInv
<1> QED  BY <1>2, <1>3, <1>7 DEF BudgetInv

LEMMA BudgetInvStays == Inv /\ GuardInv /\ BudgetInv /\ [Next]_vars => BudgetInv'
<1> SUFFICES ASSUME Inv, GuardInv, BudgetInv, [Next]_vars PROVE BudgetInv'
  OBVIOUS
<1>1. \A q \in Requests : Fate(q)
  BY NextSeen DEF Seen
<1>2. CASE UNCHANGED <<used, admitted>>
  BY <1>1, <1>2, LimiterIdle
<1>3. ASSUME NEW r \in Requests, Step(r) PROVE Consume(r) \/ UNCHANGED <<used, admitted>>
  <2>1. CASE \E p \in Processes, o \in Offers : Arrive(r, p, o)
    BY <2>1 DEF Arrive, KeepStores
  <2>2. CASE Authenticate(r) \/ AuthenticateFails(r) \/ ConsumeFails(r)
    BY <2>2 DEF Authenticate, AuthenticateFails, ConsumeFails, KeepStores
  <2>3. CASE Acquire(r) \/ AcquireFails(r) \/ AcquireTwice(r)
    BY <2>3 DEF Acquire, AcquireFails, AcquireTwice, KeepStores
  <2>4. CASE Get(r) \/ GetFails(r)
    BY <2>4 DEF Get, GetFails, KeepStores
  <2>5. CASE Create(r) \/ Respond(r) \/ Refuse(r) \/ HandlerFails(r) \/ Disconnect(r)
    BY <2>5 DEF Create, Respond, Refuse, HandlerFails, Disconnect, KeepStores
  <2> QED  BY <1>3, <2>1, <2>2, <2>3, <2>4, <2>5 DEF Step
<1>4. ASSUME NEW p \in Processes, Write(p) \/ WriteFails(p) \/ Crash(p)
      PROVE  UNCHANGED <<used, admitted>>
  BY <1>4 DEF Write, WriteFails, Written, Crash
<1>5. ASSUME NEW s \in Slots, Expire(s) PROVE UNCHANGED <<used, admitted>>
  BY <1>5 DEF Expire
<1>6. ASSUME NEW k \in ApiKeys, RevokeApiKey(k) PROVE UNCHANGED <<used, admitted>>
  BY <1>6 DEF RevokeApiKey
<1>7. CASE UNCHANGED vars
  BY <1>2, <1>7 DEF vars
<1> QED
  BY <1>1, <1>2, <1>3, <1>4, <1>5, <1>6, <1>7, ConsumeWithin, WindowStartsEmpty DEF Next

LEMMA BudgetInvInit == Init => BudgetInv
<1> SUFFICES ASSUME Init PROVE BudgetInv
  OBVIOUS
<1>1. used = [b \in Budgets |-> 0] /\ admitted = {}
  BY DEF Init
<1>2. \A b \in Budgets : LetThrough(b) = {}
  BY <1>1 DEF LetThrough
<1> QED  BY <1>1, <1>2, FS_EmptySet, ScaledAssumption DEF BudgetInv

\* In one window a caller is let through a bucket no more often than the bucket's
\* limit and the caller's own allow, over all routes and processes together.
THEOREM BudgetsAreShared == Spec => []BudgetShared
<1>1. BudgetInv => BudgetShared
  <2> SUFFICES ASSUME BudgetInv, NEW r \in admitted
               PROVE  Cardinality({q \in admitted :
                         /\ RouteOf(req[q].offer).limit.bucket = RouteOf(req[r].offer).limit.bucket
                         /\ req[q].who = req[r].who})
                        <= Scaled(Allowance(RouteOf(req[r].offer), req[r].who))
    BY DEF BudgetShared
  <2>1. PICK c, S, T :
          /\ c = BudgetOf(r) /\ T = LetThrough(c)
          /\ S = {q \in admitted :
                    /\ RouteOf(req[q].offer).limit.bucket = RouteOf(req[r].offer).limit.bucket
                    /\ req[q].who = req[r].who}
    OBVIOUS
  <2>2. \A q \in admitted : q \in Requests /\ req[q].offer \in Offers /\ BudgetOf(q) \in Budgets
    BY BudgetInBudgets DEF BudgetInv, Inside
  <2>3. S \subseteq T
    <3> SUFFICES ASSUME NEW q \in S PROVE BudgetOf(q) = BudgetOf(r) /\ q \in admitted
      BY <2>1 DEF LetThrough
    <3>1. RouteOf(req[q].offer).limit = RouteOf(req[r].offer).limit /\ req[q].who = req[r].who
      BY <2>1, <2>2, BucketHasOneLimit, ServedByItsRoute
    <3> QED  BY <3>1, <2>1 DEF BudgetOf, Budget, Allowance
  <2>4. /\ IsFiniteSet(T) /\ Cardinality(T) <= used[c] /\ used[c] \in Nat
        /\ used[c] <= Scaled(c.points) /\ Scaled(c.points) \in Nat
    BY <2>1, <2>2, ScaledAssumption DEF BudgetInv
  <2>5. Cardinality(S) <= Cardinality(T) /\ Cardinality(S) \in Nat /\ Cardinality(T) \in Nat
    BY <2>3, <2>4, FS_Subset, FS_CardinalityType
  <2>6. c.points = Allowance(RouteOf(req[r].offer), req[r].who)
    BY <2>1 DEF BudgetOf, Budget
  <2> QED  BY <2>1, <2>4, <2>5, <2>6
<1> QED  BY <1>1, BudgetInvInit, BudgetInvStays, SpecInv, SpecGuardInv, PTL DEF Spec
===============================================================================
