----------------------------- MODULE Server_proofs -----------------------------
(***************************************************************************)
(* Theorems about Server, for any modules directories and any numbers of   *)
(* clients, permits and places in the queue: the permits of the renderer,  *)
(* and what a shutdown leaves behind.  Every behaviour of the server is    *)
(* one of its loader and one of its renderer, so that what is proved of    *)
(* each of them alone holds of the two together.                           *)
(***************************************************************************)
EXTENDS Server, ModuleLoader_proofs

(***************************************************************************)
(* The renderer: the inductive invariant.                                  *)
(***************************************************************************)
RenderStates == InFlight \cup {"none", "over"}

RenderTypes ==
  /\ render \in [Clients -> RenderStates] /\ gone \subseteq Clients
  /\ active \in Nat /\ waiting \in Seq(Clients)
  /\ browser \in BOOLEAN /\ launching \in BOOLEAN

IsWaiting(c) == \E i \in 1..Len(waiting) : waiting[i] = c

\* The queue holds exactly the requests that wait, each once.
QueueSound ==
  /\ \A i, j \in 1..Len(waiting) : waiting[i] = waiting[j] => i = j
  /\ \A c \in Clients : render[c] = "queued" <=> IsWaiting(c)
  /\ Len(waiting) <= MaxQueued
  /\ waiting # <<>> => active = MaxActive

\* What is active is held, and a launch is under way for somebody.
PermitsSound == IsFiniteSet(Holders) /\ active = Cardinality(Holders) /\ active <= MaxActive
LaunchWanted == launching => \E c \in Clients : render[c] = "launch"

RenderInv == RenderTypes /\ QueueSound /\ PermitsSound /\ LaunchWanted

(***************************************************************************)
(* The server: the inductive invariant.                                    *)
(***************************************************************************)
\* A request that its client still waits for has its connection open.
Connected ==
  \A c \in Clients : render[c] \in InFlight /\ c \notin gone => c \in open

Quiet == phase \in {"destroying", "exited"} => open = {}

\* Without the renderer nothing is rendered, and with nobody gone nothing is
\* rendered once it is destroyed.
NoBrowser ==
  /\ Renderer \notin Loaded => ~browser /\ \A c \in Clients : render[c] = "none"
  /\ gone = {} /\ Renderer \in Elements(stopped) /\ phase \in {"destroying", "exited"} => ~browser

StopsInTeardown == phase = "exited" => Len(stopped) = Len(ordered)

ServerInv == LoaderInv /\ RenderInv /\ Connected /\ Quiet /\ NoBrowser /\ StopsInTeardown

(***************************************************************************)
(* The renderer: its queue.                                                *)
(***************************************************************************)
\* A waiter that leaves is gone from the queue, and nobody else is
\* (RenderGate.remove).
LEMMA WithoutProperties ==
    ASSUME RenderTypes, QueueSound, NEW c \in Clients
    PROVE  /\ Without(c) \in Seq(Clients) /\ Len(Without(c)) <= Len(waiting)
           /\ \A i, j \in 1..Len(Without(c)) : Without(c)[i] = Without(c)[j] => i = j
           /\ \A d : (\E i \in 1..Len(Without(c)) : Without(c)[i] = d) <=> d # c /\ IsWaiting(d)
           /\ Without(c) # <<>> => waiting # <<>>
<1>1. waiting \in Seq(Clients) /\ Len(waiting) \in Nat
      /\ \A i, j \in 1..Len(waiting) : waiting[i] = waiting[j] => i = j
  BY DEF RenderTypes, QueueSound
<1>2. CASE ~IsWaiting(c)
  <2>1. Without(c) = waiting  BY <1>2 DEF Without, IsWaiting
  <2> QED  BY <1>1, <1>2, <2>1 DEF IsWaiting
<1>3. CASE IsWaiting(c)
  <2> DEFINE i == CHOOSE j \in 1..Len(waiting) : waiting[j] = c
             A == SubSeq(waiting, 1, i - 1)
             B == SubSeq(waiting, i + 1, Len(waiting))
             W == A \o B
  <2>1. i \in 1..Len(waiting) /\ waiting[i] = c  BY <1>3 DEF IsWaiting
  <2>2. Without(c) = W  BY <1>3 DEF Without, IsWaiting
  <2> HIDE DEF i
  <2>3. /\ W \in Seq(Clients) /\ Len(W) = Len(waiting) - 1
        /\ \A k \in 1..Len(W) : W[k] = IF k < i THEN waiting[k] ELSE waiting[k + 1]
    <3>1. A \in Seq(Clients) /\ Len(A) = i - 1 /\ \A k \in 1..(i - 1) : A[k] = waiting[k]
      BY <1>1, <2>1
    <3>2. /\ B \in Seq(Clients) /\ Len(B) = Len(waiting) - i
          /\ \A k \in 1..(Len(waiting) - i) : B[k] = waiting[k + i]
      BY <1>1, <2>1
    <3> HIDE DEF A, B
    <3>3. /\ W \in Seq(Clients) /\ Len(W) = (i - 1) + (Len(waiting) - i)
          /\ \A k \in 1..Len(W) : W[k] = IF k <= i - 1 THEN A[k] ELSE B[k - (i - 1)]
      <4>1. /\ W \in Seq(Clients) /\ Len(W) = Len(A) + Len(B)
            /\ \A k \in 1..(Len(A) + Len(B)) : W[k] = IF k <= Len(A) THEN A[k] ELSE B[k - Len(A)]
        BY <3>1, <3>2, ConcatProperties
      <4> HIDE DEF W
      <4> QED  BY <3>1, <3>2, <4>1
    <3> HIDE DEF W
    <3>4. ASSUME NEW k \in 1..Len(W) PROVE W[k] = IF k < i THEN waiting[k] ELSE waiting[k + 1]
      <4>1. CASE k < i  BY <1>1, <2>1, <3>1, <3>3, <4>1
      <4>2. CASE ~(k < i)
        <5>1. k - (i - 1) \in 1..(Len(waiting) - i) /\ k - (i - 1) + i = k + 1
          BY <1>1, <2>1, <3>3, <4>2
        <5> QED  BY <2>1, <3>2, <3>3, <4>2, <5>1
      <4> QED  BY <4>1, <4>2
    <3> QED  BY <1>1, <2>1, <3>3, <3>4
  <2> HIDE DEF W
  <2>4. \A k, l \in 1..Len(W) : W[k] = W[l] => k = l  BY <1>1, <2>1, <2>3
  <2>5. ASSUME NEW d, NEW k \in 1..Len(W), W[k] = d PROVE d # c /\ IsWaiting(d)
    BY <1>1, <2>1, <2>3, <2>5 DEF IsWaiting
  <2>6. ASSUME NEW d, d # c, IsWaiting(d) PROVE \E k \in 1..Len(W) : W[k] = d
    <3>1. PICK k \in 1..Len(waiting) : waiting[k] = d  BY <2>6 DEF IsWaiting
    <3>2. CASE k < i  BY <1>1, <2>1, <2>3, <3>1, <3>2
    <3>3. CASE ~(k < i)
      <4>1. k # i  BY <2>1, <2>6, <3>1
      <4>2. k - 1 \in 1..Len(W) /\ ~(k - 1 < i) /\ (k - 1) + 1 = k  BY <1>1, <2>1, <2>3, <3>3, <4>1
      <4> QED  BY <2>3, <3>1, <4>2
    <3> QED  BY <3>2, <3>3
  <2>7. waiting # <<>> /\ Len(W) <= Len(waiting)  BY <1>1, <2>1, <2>3
  <2> QED  BY <2>2, <2>3, <2>4, <2>5, <2>6, <2>7
<1>4. QED  BY <1>2, <1>3

\* The clients whose request holds a permit, after one request moves.
LEMMA HoldersMove ==
    ASSUME RenderTypes, NEW c \in Clients, NEW to \in RenderStates,
           render' = [render EXCEPT ![c] = to]
    PROVE  /\ render' \in [Clients -> RenderStates] /\ render'[c] = to
           /\ \A d \in Clients \ {c} : render'[d] = render[d]
           /\ Holders' = IF to \in Holding THEN Holders \cup {c} ELSE Holders \ {c}
  BY DEF RenderTypes, Holders

\* Requests move, but no permit and no place in the queue changes hands.
LEMMA PermitsUntouched ==
    ASSUME RenderInv, render' \in [Clients -> RenderStates], gone' \subseteq Clients,
           active' = active, waiting' = waiting, browser' \in BOOLEAN, launching' \in BOOLEAN,
           \A c \in Clients : /\ render'[c] \in Holding <=> render[c] \in Holding
                              /\ render'[c] = "queued" <=> render[c] = "queued",
           LaunchWanted'
    PROVE  RenderInv'
<1>1. RenderTypes'  BY DEF RenderInv, RenderTypes
<1>2. QueueSound'  BY DEF RenderInv, QueueSound, IsWaiting
<1>3. Holders' = Holders  BY DEF Holders
<1>4. PermitsSound'  BY <1>3 DEF RenderInv, PermitsSound
<1>5. QED  BY <1>1, <1>2, <1>4 DEF RenderInv

(***************************************************************************)
(* The renderer: its steps.                                                *)
(***************************************************************************)
LEMMA RenderBegins ==
    ASSUME RenderInit
    PROVE  RenderInv
<1>1. RenderTypes
  <2>1. render \in [Clients -> RenderStates]  BY DEF RenderInit, RenderStates
  <2>2. waiting \in Seq(Clients)  BY EmptySeq DEF RenderInit
  <2>3. gone \subseteq Clients /\ active \in Nat /\ browser \in BOOLEAN /\ launching \in BOOLEAN
    BY DEF RenderInit
  <2> QED  BY <2>1, <2>2, <2>3 DEF RenderTypes
<1>2. QueueSound
  BY RenderAssumption DEF RenderInit, QueueSound, IsWaiting, RenderAssumption
<1>3. Holders = {}  BY DEF RenderInit, Holders, Holding
<1>4. PermitsSound
  BY <1>3, FS_EmptySet, RenderAssumption DEF RenderInit, PermitsSound, RenderAssumption
<1>5. LaunchWanted  BY DEF RenderInit, LaunchWanted
<1>6. QED  BY <1>1, <1>2, <1>4, <1>5 DEF RenderInv

\* A request that waits for nothing but its check or its answer.
LEMMA OutsideKeeps ==
    ASSUME RenderInv, NEW c \in Clients, NEW to \in {"check", "over"},
           render[c] \in {"none", "check"}, render' = [render EXCEPT ![c] = to],
           UNCHANGED <<gone, active, waiting, browser, launching>>
    PROVE  RenderInv'
<1>1. render' \in [Clients -> RenderStates]  BY DEF RenderInv, RenderTypes, RenderStates, InFlight
<1>2. \A d \in Clients : /\ render'[d] \in Holding <=> render[d] \in Holding
                         /\ render'[d] = "queued" <=> render[d] = "queued"
                         /\ render[d] = "launch" => render'[d] = "launch"
  BY DEF RenderInv, RenderTypes, Holding
<1>3. LaunchWanted'  BY <1>2 DEF RenderInv, LaunchWanted
<1>4. QED  BY <1>1, <1>2, <1>3, PermitsUntouched DEF RenderInv, RenderTypes

\* RenderGate.acquire.
LEMMA AcquireKeeps ==
    ASSUME RenderInv, NEW c \in Clients, Acquire(c)
    PROVE  RenderInv'
<1>1. CASE /\ render' = [render EXCEPT ![c] = "over"]
           /\ UNCHANGED <<active, waiting, launching>>
  BY <1>1, OutsideKeeps DEF Acquire
<1>2. CASE HasPermit /\ active' = active + 1 /\ Proceed({c}) /\ UNCHANGED waiting
  <2> DEFINE to == IF browser THEN "context" ELSE "launch"
  <2>1. render[c] = "check" /\ gone' = gone /\ browser' = browser /\ waiting' = waiting
        /\ launching' = (launching \/ ~browser)
    BY <1>2 DEF Acquire, Proceed
  <2>2. to \in Holding /\ to \in RenderStates  BY DEF Holding, RenderStates, InFlight
  <2>3. render' = [render EXCEPT ![c] = to]
    BY <1>2 DEF Proceed, RenderInv, RenderTypes
  <2>4. /\ render' \in [Clients -> RenderStates] /\ render'[c] = to
        /\ \A d \in Clients \ {c} : render'[d] = render[d]
        /\ Holders' = Holders \cup {c}
    <3> HIDE DEF to
    <3> QED  BY <2>2, <2>3, HoldersMove DEF RenderInv
  <2>5. active < MaxActive /\ active \in Nat /\ MaxActive \in Nat
    BY <1>2, RenderAssumption DEF HasPermit, RenderInv, RenderTypes, RenderAssumption
  <2>6. waiting = <<>>  BY <2>5 DEF RenderInv, QueueSound
  <2>7. RenderTypes'
    BY <1>2, <2>1, <2>4, <2>5 DEF RenderInv, RenderTypes
  <2>8. QueueSound'
    BY <2>1, <2>2, <2>4, <2>6 DEF RenderInv, QueueSound, IsWaiting, Holding
  <2>9. PermitsSound'
    <3>1. c \notin Holders  BY <2>1 DEF Holders, Holding
    <3> QED  BY <1>2, <2>4, <2>5, <3>1, FS_AddElement DEF RenderInv, PermitsSound
  <2>10. LaunchWanted'
    <3>1. CASE launching
      BY <2>1, <2>4, <3>1 DEF RenderInv, LaunchWanted
    <3>2. CASE ~launching
      BY <2>1, <2>4, <3>2 DEF LaunchWanted
    <3> QED  BY <3>1, <3>2
  <2> QED  BY <2>7, <2>8, <2>9, <2>10 DEF RenderInv
<1>3. CASE /\ ~HasPermit /\ Len(waiting) < MaxQueued
           /\ waiting' = Append(waiting, c)
           /\ render' = [render EXCEPT ![c] = "queued"]
           /\ UNCHANGED <<active, launching>>
  <2>1. render[c] = "check" /\ gone' = gone /\ browser' = browser  BY DEF Acquire
  <2>2. waiting \in Seq(Clients) /\ Len(waiting) \in Nat /\ MaxQueued \in Nat
    BY RenderAssumption DEF RenderInv, RenderTypes, RenderAssumption
  <2>3. /\ waiting' \in Seq(Clients) /\ Len(waiting') = Len(waiting) + 1
        /\ waiting'[Len(waiting) + 1] = c /\ \A i \in 1..Len(waiting) : waiting'[i] = waiting[i]
    BY <1>3, <2>2
  <2>4. /\ render' \in [Clients -> RenderStates] /\ render'[c] = "queued"
        /\ \A d \in Clients \ {c} : render'[d] = render[d]
        /\ Holders' = Holders \ {c}
    BY <1>3, HoldersMove DEF RenderInv, RenderStates, InFlight, Holding
  <2>5. RenderTypes'  BY <1>3, <2>1, <2>3, <2>4 DEF RenderInv, RenderTypes
  <2>6. active = MaxActive
    BY <1>3, RenderAssumption DEF HasPermit, RenderInv, RenderTypes, PermitsSound, RenderAssumption
  <2>7. QueueSound'
    <3>1. ~IsWaiting(c)  BY <2>1 DEF RenderInv, QueueSound
    <3>2. \A i, j \in 1..Len(waiting') : waiting'[i] = waiting'[j] => i = j
      BY <2>2, <2>3, <3>1 DEF RenderInv, QueueSound, IsWaiting
    <3>3. ASSUME NEW d \in Clients
          PROVE  render'[d] = "queued" <=> \E i \in 1..Len(waiting') : waiting'[i] = d
      <4>1. (\E i \in 1..Len(waiting') : waiting'[i] = d) <=> d = c \/ IsWaiting(d)
        BY <2>2, <2>3 DEF IsWaiting
      <4> QED  BY <2>4, <4>1 DEF RenderInv, QueueSound
    <3> QED  BY <1>3, <2>2, <2>3, <2>6, <3>2, <3>3 DEF QueueSound, IsWaiting
  <2>8. PermitsSound'
    <3>1. c \notin Holders  BY <2>1 DEF Holders, Holding
    <3>2. Holders' = Holders  BY <2>4, <3>1
    <3> QED  BY <1>3, <3>2 DEF RenderInv, PermitsSound
  <2>9. LaunchWanted'  BY <1>3, <2>1, <2>4 DEF RenderInv, LaunchWanted
  <2> QED  BY <2>5, <2>7, <2>8, <2>9 DEF RenderInv
<1>4. QED  BY <1>1, <1>2, <1>3 DEF Acquire

\* A waiter times out.
LEMMA QueueTimeoutKeeps ==
    ASSUME RenderInv, NEW c \in Clients, render[c] = "queued",
           waiting' = Without(c), render' = [render EXCEPT ![c] = "over"],
           gone' \subseteq Clients, UNCHANGED <<active, browser, launching>>
    PROVE  RenderInv'
<1>1. /\ waiting' \in Seq(Clients) /\ Len(waiting') <= Len(waiting)
      /\ \A i, j \in 1..Len(waiting') : waiting'[i] = waiting'[j] => i = j
      /\ \A d : (\E i \in 1..Len(waiting') : waiting'[i] = d) <=> d # c /\ IsWaiting(d)
      /\ waiting' # <<>> => waiting # <<>>
  BY WithoutProperties DEF RenderInv
<1>2. /\ render' \in [Clients -> RenderStates] /\ render'[c] = "over"
      /\ \A d \in Clients \ {c} : render'[d] = render[d]
      /\ Holders' = Holders \ {c}
  BY HoldersMove DEF RenderInv, RenderStates, Holding
<1>3. c \notin Holders  BY DEF Holders, Holding
<1>4. RenderTypes'  BY <1>1, <1>2 DEF RenderInv, RenderTypes
<1>5. QueueSound'
  <2>1. \A d \in Clients : render'[d] = "queued" <=> \E i \in 1..Len(waiting') : waiting'[i] = d
    BY <1>1, <1>2 DEF RenderInv, QueueSound
  <2>2. Len(waiting') <= MaxQueued
    BY <1>1, RenderAssumption DEF RenderInv, RenderTypes, QueueSound, RenderAssumption
  <2> QED  BY <1>1, <2>1, <2>2 DEF RenderInv, QueueSound, IsWaiting
<1>6. PermitsSound'
  <2>1. Holders' = Holders  BY <1>2, <1>3
  <2> QED  BY <2>1 DEF RenderInv, PermitsSound
<1>7. LaunchWanted'  BY <1>2 DEF RenderInv, LaunchWanted
<1>8. QED  BY <1>4, <1>5, <1>6, <1>7 DEF RenderInv

\* The client closes its connection.
LEMMA ClientGoneKeeps ==
    ASSUME RenderInv, NEW c \in Clients, ClientGone(c)
    PROVE  RenderInv'
<1>1. gone' \subseteq Clients  BY DEF ClientGone, RenderInv, RenderTypes
<1>2. CASE render[c] = "queued"
  <2>1. render' = [render EXCEPT ![c] = "over"]  BY <1>2 DEF ClientGone, RenderInv, RenderTypes
  <2> QED  BY <1>1, <1>2, <2>1, QueueTimeoutKeeps DEF ClientGone
<1>3. CASE render[c] # "queued"
  <2>1. waiting' = waiting
    BY <1>3 DEF ClientGone, Without, RenderInv, QueueSound, IsWaiting
  <2>2. render' = [render EXCEPT ![c] = IF render[c] = "work" THEN "closing" ELSE render[c]]
    BY <1>3 DEF ClientGone, RenderInv, RenderTypes
  <2>3. render' \in [Clients -> RenderStates]
    BY <2>2 DEF RenderInv, RenderTypes, RenderStates, InFlight, Holding
  <2>4. \A d \in Clients : /\ render'[d] \in Holding <=> render[d] \in Holding
                           /\ render'[d] = "queued" <=> render[d] = "queued"
                           /\ render[d] = "launch" => render'[d] = "launch"
    BY <2>2 DEF RenderInv, RenderTypes, Holding
  <2>5. LaunchWanted'  BY <2>4 DEF ClientGone, RenderInv, LaunchWanted
  <2> QED  BY <1>1, <2>1, <2>3, <2>4, <2>5, PermitsUntouched DEF ClientGone, RenderInv, RenderTypes
<1>4. QED  BY <1>2, <1>3

\* The launch, the context, the work and what becomes of Chromium: no permit
\* changes hands.
LEMMA LaunchedKeeps ==
    ASSUME RenderInv, Launched
    PROVE  RenderInv'
<1>1. PICK ok \in BOOLEAN :
        /\ browser' = ok /\ launching' = FALSE /\ UNCHANGED <<gone, active, waiting>>
        /\ render' = [c \in Clients |-> IF render[c] = "launch"
                                        THEN IF ok THEN "context" ELSE "closing"
                                        ELSE render[c]]
  BY DEF Launched
<1>2. render' \in [Clients -> RenderStates]
  BY <1>1 DEF RenderInv, RenderTypes, RenderStates, InFlight, Holding
<1>3. \A c \in Clients : /\ render'[c] \in Holding <=> render[c] \in Holding
                         /\ render'[c] = "queued" <=> render[c] = "queued"
  BY <1>1 DEF Holding
<1>4. LaunchWanted'  BY <1>1 DEF LaunchWanted
<1>5. gone' \subseteq Clients /\ browser' \in BOOLEAN /\ launching' \in BOOLEAN
  BY <1>1 DEF RenderInv, RenderTypes
<1>6. QED  BY <1>1, <1>2, <1>3, <1>4, <1>5, PermitsUntouched

LEMMA HolderKeeps ==
    ASSUME RenderInv, NEW c \in Clients, NEW to \in {"work", "closing"},
           render[c] \in {"context", "work"}, render' = [render EXCEPT ![c] = to],
           UNCHANGED <<gone, active, waiting, browser, launching>>
    PROVE  RenderInv'
<1>1. render' \in [Clients -> RenderStates]
  BY DEF RenderInv, RenderTypes, RenderStates, InFlight, Holding
<1>2. \A d \in Clients : /\ render'[d] \in Holding <=> render[d] \in Holding
                         /\ render'[d] = "queued" <=> render[d] = "queued"
                         /\ render[d] = "launch" => render'[d] = "launch"
  BY DEF RenderInv, RenderTypes, Holding
<1>3. LaunchWanted'  BY <1>2 DEF RenderInv, LaunchWanted
<1>4. QED  BY <1>1, <1>2, <1>3, PermitsUntouched DEF RenderInv, RenderTypes

LEMMA BrowserLostKeeps ==
    ASSUME RenderInv, BrowserLost, UNCHANGED <<gone, active, waiting, launching>>
    PROVE  RenderInv'
<1>1. render' \in [Clients -> RenderStates]
  BY DEF BrowserLost, RenderInv, RenderTypes, RenderStates, InFlight, Holding
<1>2. \A d \in Clients : /\ render'[d] \in Holding <=> render[d] \in Holding
                         /\ render'[d] = "queued" <=> render[d] = "queued"
                         /\ render[d] = "launch" => render'[d] = "launch"
  BY DEF BrowserLost, Holding
<1>3. LaunchWanted'  BY <1>2 DEF RenderInv, LaunchWanted
<1>4. QED  BY <1>1, <1>2, <1>3, PermitsUntouched DEF BrowserLost, RenderInv, RenderTypes

LEMMA RenderStutters ==
    ASSUME RenderInv, UNCHANGED renderVars
    PROVE  RenderInv'
  BY DEF renderVars, RenderInv, RenderTypes, QueueSound, IsWaiting, PermitsSound, Holders, LaunchWanted

\* RenderGate.release: the permit goes to the first waiter, or back.
LEMMA ReleaseKeeps ==
    ASSUME RenderInv, NEW c \in Clients, Release(c)
    PROVE  RenderInv'
<1>1. /\ render[c] = "closing" /\ gone' = gone /\ browser' = browser /\ c \in Holders
      /\ active \in Nat /\ IsFiniteSet(Holders) /\ active = Cardinality(Holders)
  BY DEF Release, Holders, Holding, RenderInv, RenderTypes, PermitsSound
<1>2. CASE /\ waiting = <<>> /\ active' = active - 1
           /\ render' = [render EXCEPT ![c] = "over"]
           /\ UNCHANGED <<waiting, launching>>
  <2>1. /\ render' \in [Clients -> RenderStates] /\ render'[c] = "over"
        /\ \A d \in Clients \ {c} : render'[d] = render[d]
        /\ Holders' = Holders \ {c}
    BY <1>2, HoldersMove DEF RenderInv, RenderStates, Holding
  <2>2. IsFiniteSet(Holders') /\ Cardinality(Holders') = Cardinality(Holders) - 1 /\ active - 1 \in Nat
    <3> DEFINE Rest == Holders \ {c}
    <3>1. IsFiniteSet(Rest) /\ Cardinality(Rest) = Cardinality(Holders) - 1
      BY <1>1, FS_RemoveElement
    <3>2. Holders' = Rest  BY <2>1
    <3> HIDE DEF Rest
    <3>3. Cardinality(Rest) \in Nat  BY <3>1, FS_CardinalityType
    <3> QED  BY <1>1, <3>1, <3>2, <3>3
  <2>3. RenderTypes'  BY <1>1, <1>2, <2>1, <2>2 DEF RenderInv, RenderTypes
  <2>4. QueueSound'  BY <1>1, <1>2, <2>1 DEF RenderInv, QueueSound, IsWaiting
  <2>5. PermitsSound'
    BY <1>1, <1>2, <2>2, RenderAssumption DEF RenderInv, PermitsSound, RenderAssumption
  <2>6. LaunchWanted'  BY <1>1, <1>2, <2>1 DEF RenderInv, LaunchWanted
  <2> QED  BY <2>3, <2>4, <2>5, <2>6 DEF RenderInv
<1>3. CASE /\ waiting # <<>> /\ waiting' = Tail(waiting) /\ active' = active
           /\ render' = [render EXCEPT ![c] = "over",
                                       ![Head(waiting)] = IF browser THEN "context" ELSE "launch"]
           /\ launching' = (launching \/ ~browser)
  <2> DEFINE w == Head(waiting)
             to == IF browser THEN "context" ELSE "launch"
  <2>1. waiting \in Seq(Clients) /\ Len(waiting) \in Nat /\ 1 \in 1..Len(waiting)
    BY <1>3 DEF RenderInv, RenderTypes
  <2>2. w = waiting[1] /\ w \in Clients  BY <2>1
  <2>3. render[w] = "queued" /\ w # c  BY <1>1, <2>1, <2>2 DEF RenderInv, QueueSound, IsWaiting
  <2>4. to \in Holding /\ to \in RenderStates /\ to \notin {"queued", "over"}
        /\ (~browser => to = "launch")
    BY DEF Holding, RenderStates, InFlight
  <2> HIDE DEF w, to
  <2>5. render' = [render EXCEPT ![c] = "over", ![w] = to]  BY <1>3 DEF w, to
  <2>6. /\ render' \in [Clients -> RenderStates] /\ render'[c] = "over" /\ render'[w] = to
        /\ \A d \in Clients \ {c, w} : render'[d] = render[d]
    BY <2>2, <2>3, <2>4, <2>5 DEF RenderInv, RenderTypes, RenderStates
  <2>7. Holders' = (Holders \ {c}) \cup {w}
    BY <2>2, <2>3, <2>4, <2>6 DEF Holders, Holding
  <2>8. w \notin Holders  BY <2>3 DEF Holders, Holding
  <2>9. IsFiniteSet(Holders') /\ Cardinality(Holders') = Cardinality(Holders)
    <3> DEFINE Rest == Holders \ {c}
    <3>1. IsFiniteSet(Rest) /\ Cardinality(Rest) = Cardinality(Holders) - 1
      BY <1>1, FS_RemoveElement
    <3>2. w \notin Rest /\ Holders' = Rest \cup {w}  BY <2>7, <2>8
    <3>3. Cardinality(Holders) \in Int  BY <1>1
    <3> HIDE DEF Rest
    <3>4. IsFiniteSet(Rest \cup {w}) /\ Cardinality(Rest \cup {w}) = Cardinality(Rest) + 1
      BY <3>1, <3>2, FS_AddElement
    <3> QED  BY <3>1, <3>2, <3>3, <3>4
  <2>10. /\ waiting' \in Seq(Clients) /\ Len(waiting') = Len(waiting) - 1
         /\ \A i \in 1..Len(waiting') : waiting'[i] = waiting[i + 1]
    BY <1>3, <2>1, HeadTailProperties
  <2>11. RenderTypes'  BY <1>1, <1>3, <2>6, <2>10 DEF RenderInv, RenderTypes
  <2>12. QueueSound'
    <3>1. \A i, j \in 1..Len(waiting') : waiting'[i] = waiting'[j] => i = j
      BY <2>1, <2>10 DEF RenderInv, QueueSound
    <3>2. ASSUME NEW d \in Clients
          PROVE  (\E i \in 1..Len(waiting') : waiting'[i] = d) <=> d # w /\ IsWaiting(d)
      <4>1. ASSUME NEW i \in 1..Len(waiting'), waiting'[i] = d PROVE d # w /\ IsWaiting(d)
        <5>1. i + 1 \in 1..Len(waiting) /\ waiting[i + 1] = d /\ i + 1 # 1  BY <2>1, <2>10, <4>1
        <5> QED  BY <2>1, <2>2, <5>1 DEF RenderInv, QueueSound, IsWaiting
      <4>2. ASSUME d # w, IsWaiting(d) PROVE \E i \in 1..Len(waiting') : waiting'[i] = d
        <5>1. PICK i \in 1..Len(waiting) : waiting[i] = d  BY <4>2 DEF IsWaiting
        <5>2. i - 1 \in 1..Len(waiting') /\ i - 1 + 1 = i  BY <2>1, <2>2, <2>10, <4>2, <5>1
        <5> QED  BY <2>10, <5>1, <5>2
      <4> QED  BY <4>1, <4>2
    <3>3. \A d \in Clients : render'[d] = "queued" <=> \E i \in 1..Len(waiting') : waiting'[i] = d
      BY <1>1, <2>3, <2>4, <2>6, <3>2 DEF RenderInv, QueueSound
    <3>4. Len(waiting') <= MaxQueued
      BY <2>1, <2>10, RenderAssumption DEF RenderInv, QueueSound, RenderAssumption
    <3>5. active' = MaxActive  BY <1>3 DEF RenderInv, QueueSound
    <3> QED  BY <3>1, <3>3, <3>4, <3>5 DEF QueueSound, IsWaiting
  <2>13. PermitsSound'  BY <1>1, <1>3, <2>9 DEF RenderInv, PermitsSound
  <2>14. LaunchWanted'
    <3>1. CASE launching
      <4>1. PICK d \in Clients : render[d] = "launch"  BY <3>1 DEF RenderInv, LaunchWanted
      <4>2. d \notin {c, w}  BY <1>1, <2>3, <4>1
      <4> QED  BY <2>6, <4>1, <4>2 DEF LaunchWanted
    <3>2. CASE ~launching  BY <1>3, <2>2, <2>4, <2>6, <3>2 DEF LaunchWanted
    <3> QED  BY <3>1, <3>2
  <2> QED  BY <2>11, <2>12, <2>13, <2>14 DEF RenderInv
<1>4. QED  BY <1>2, <1>3 DEF Release

LEMMA RenderStepKeeps ==
    ASSUME RenderInv, [RenderNext]_renderVars
    PROVE  RenderInv'
<1>1. ASSUME NEW c \in Clients, Request(c) \/ RenderStep(c) \/ ClientGone(c) PROVE RenderInv'
  <2>1. CASE Request(c) \/ Refuse(c)  BY <2>1, OutsideKeeps DEF Request, Refuse
  <2>2. CASE QueueTimeout(c)
    BY <2>2, QueueTimeoutKeeps DEF QueueTimeout, RenderInv, RenderTypes
  <2>3. CASE ContextOpens(c) \/ WorkEnds(c)  BY <2>3, HolderKeeps DEF ContextOpens, WorkEnds
  <2> QED  BY <1>1, <2>1, <2>2, <2>3, AcquireKeeps, ReleaseKeeps, ClientGoneKeeps DEF RenderStep
<1>2. CASE Launched  BY <1>2, LaunchedKeeps
<1>3. CASE BrowserDies  BY <1>3, BrowserLostKeeps DEF BrowserDies
<1>4. CASE CloseBrowser
  <2>1. CASE BrowserLost  BY <1>4, <2>1, BrowserLostKeeps DEF CloseBrowser
  <2>2. CASE ~BrowserLost
    <3>1. UNCHANGED renderVars  BY <1>4, <2>2 DEF CloseBrowser, renderVars
    <3> QED  BY <3>1, RenderStutters
  <2> QED  BY <2>1, <2>2
<1>5. CASE UNCHANGED renderVars  BY <1>5, RenderStutters
<1>6. QED  BY <1>1, <1>2, <1>3, <1>4, <1>5 DEF RenderNext

LEMMA RenderInvariant == RenderSpec => []RenderInv
<1>1. RenderInit => RenderInv  BY RenderBegins
<1>2. RenderInv /\ [RenderNext]_renderVars => RenderInv'  BY RenderStepKeeps
<1>3. QED  BY <1>1, <1>2, PTL DEF RenderSpec

\* However requests end, a permit is held by one request and given back once;
\* none is idle while somebody waits (RenderGate), on its own or in the server.
LEMMA PermitsFollow == RenderInv => PermitsConserved
  BY DEF RenderInv, QueueSound, IsWaiting, PermitsSound, PermitsConserved

(***************************************************************************)
(* The server is its loader and its renderer.                              *)
(***************************************************************************)
\* Every step of the server is one of its loader or leaves the loader alone ...
LEMMA ServerStepLoads ==
    ASSUME [ServerNext]_serverVars
    PROVE  [LoaderNext]_loaderVars
<1>1. CASE BootStep \/ ShutdownStep
  BY <1>1 DEF BootStep, ShutdownStep, Destroy, LoaderNext, Shutdown
<1>2. ASSUME NEW c \in Clients, Arrive(c) \/ Respond(c) \/ GiveUp(c) \/ Render(c)
      PROVE  LoaderNext \/ UNCHANGED loaderVars
  BY <1>2, ServerAssumption DEF Arrive, Respond, GiveUp, Render, LoaderNext, ServerAssumption
<1>3. CASE Chromium \/ ChromiumDies  BY <1>3 DEF Chromium, ChromiumDies
<1>4. CASE \E s \in Signals : Interrupt(s)  BY <1>4 DEF Interrupt, LoaderNext
<1>5. CASE UNCHANGED serverVars  BY <1>5 DEF serverVars
<1>6. QED  BY <1>1, <1>2, <1>3, <1>4, <1>5 DEF ServerNext

\* ... and one of its renderer or leaves the renderer alone.
LEMMA ServerStepRenders ==
    ASSUME [ServerNext]_serverVars
    PROVE  [RenderNext]_renderVars
<1>1. CASE BootStep \/ ShutdownStep
  BY <1>1 DEF BootStep, ShutdownStep, Destroy, RenderNext
<1>2. ASSUME NEW c \in Clients, Arrive(c) \/ Respond(c) \/ GiveUp(c) \/ Render(c)
      PROVE  RenderNext \/ UNCHANGED renderVars
  BY <1>2 DEF Arrive, Respond, GiveUp, Render, RenderNext
<1>3. CASE Chromium \/ ChromiumDies  BY <1>3 DEF Chromium, ChromiumDies, RenderNext
<1>4. CASE \E s \in Signals : Interrupt(s)  BY <1>4 DEF Interrupt
<1>5. CASE UNCHANGED serverVars  BY <1>5 DEF serverVars
<1>6. QED  BY <1>1, <1>2, <1>3, <1>4, <1>5 DEF ServerNext

\* The process with its requests behaves as a loader and as a renderer do:
\* serving requests gives no module another turn, and shutting down does
\* nothing to a render that a crash or a close of Chromium may not do.
THEOREM ServerImplementsItsParts == ServerSpec => LoaderSpec /\ RenderSpec
<1>1. ServerInit => LoaderInit /\ RenderInit  BY DEF ServerInit
<1>2. [ServerNext]_serverVars => [LoaderNext]_loaderVars  BY ServerStepLoads
<1>3. [ServerNext]_serverVars => [RenderNext]_renderVars  BY ServerStepRenders
<1>4. QED  BY <1>1, <1>2, <1>3, PTL DEF ServerSpec, LoaderSpec, RenderSpec

\* The loader's promises hold of the server: the modules that serve requests are
\* those that could be sorted, and each finds the modules it depends on alive.
THEOREM ServerKeepsTheOrder == ServerSpec => [](SortedIffPossible /\ DependenciesAlive)
  BY ServerImplementsItsParts, SortsWhatItCan, DependenciesStayAlive, PTL

\* However requests end (done, failed, timed out, aborted, refused, without a
\* browser) RenderGate's permits are neither lost nor given twice, and none is
\* idle while somebody waits for it, in a server that boots and shuts down.
THEOREM PermitsAreConserved == ServerSpec => []PermitsConserved
<1>1. RenderInv => PermitsConserved  BY PermitsFollow
<1>2. QED  BY <1>1, ServerImplementsItsParts, RenderInvariant, PTL

(***************************************************************************)
(* The shutdown.                                                           *)
(***************************************************************************)
\* Only an arrival puts a request in flight, and nobody who is gone comes back.
LEMMA NothingNewInFlight ==
    ASSUME RenderInv,
           (\E c \in Clients : RenderStep(c)) \/ Launched \/ BrowserDies \/ CloseBrowser
    PROVE  /\ \A d \in Clients : render'[d] \in InFlight => render[d] \in InFlight
           /\ gone' = gone
<1>1. ASSUME NEW c \in Clients, RenderStep(c)
      PROVE  /\ \A d \in Clients : render'[d] \in InFlight => render[d] \in InFlight
             /\ gone' = gone
  <2>1. CASE Acquire(c)
    <3>1. gone' = gone /\ render[c] \in InFlight /\ \A d \in Clients \ {c} : render'[d] = render[d]
      BY <2>1 DEF Acquire, Proceed, RenderInv, RenderTypes, InFlight
    <3> QED  BY <3>1
  <2>2. CASE Refuse(c) \/ QueueTimeout(c) \/ ContextOpens(c) \/ WorkEnds(c)
    <3>1. gone' = gone /\ render[c] \in InFlight /\ \A d \in Clients \ {c} : render'[d] = render[d]
      BY <2>2 DEF Refuse, QueueTimeout, ContextOpens, WorkEnds, RenderInv, RenderTypes, InFlight, Holding
    <3> QED  BY <3>1
  <2>3. CASE Release(c)
    <3>1. gone' = gone /\ render[c] \in InFlight  BY <2>3 DEF Release, InFlight, Holding
    <3>2. CASE waiting = <<>>
      BY <2>3, <3>1, <3>2 DEF Release, RenderInv, RenderTypes
    <3>3. CASE waiting # <<>>
      <4>1. waiting \in Seq(Clients) /\ 1 \in 1..Len(waiting) /\ Head(waiting) = waiting[1]
            /\ Head(waiting) \in Clients
        BY <3>3 DEF RenderInv, RenderTypes
      <4>2. render[Head(waiting)] \in InFlight
        BY <4>1 DEF RenderInv, QueueSound, IsWaiting, InFlight
      <4>3. \A d \in Clients \ {c, Head(waiting)} : render'[d] = render[d]
        BY <2>3, <3>3, <4>1 DEF Release, RenderInv, RenderTypes
      <4> QED  BY <3>1, <4>2, <4>3
    <3> QED  BY <3>2, <3>3
  <2> QED  BY <1>1, <2>1, <2>2, <2>3 DEF RenderStep
<1>2. CASE Launched
  <2>1. gone' = gone /\ \A d \in Clients : render'[d] = render[d] \/ render[d] = "launch"
    BY <1>2 DEF Launched, RenderInv, RenderTypes
  <2> QED  BY <2>1 DEF InFlight, Holding
<1>3. ASSUME BrowserLost
      PROVE  \A d \in Clients : render'[d] \in InFlight => render[d] \in InFlight
  <2>1. \A d \in Clients : render'[d] = render[d] \/ render[d] \in {"context", "work"}
    BY <1>3 DEF BrowserLost, RenderInv, RenderTypes
  <2> QED  BY <2>1 DEF InFlight, Holding
<1>4. CASE BrowserDies  BY <1>3, <1>4 DEF BrowserDies
<1>5. CASE CloseBrowser  BY <1>3, <1>5 DEF CloseBrowser
<1>6. QED  BY <1>1, <1>2, <1>4, <1>5

\* A request is connected until its client gives up or it is answered.
LEMMA ConnectedKeeps ==
    ASSUME RenderInv, Connected, [ServerNext]_serverVars
    PROVE  Connected'
<1>1. ASSUME open' = open, gone' = gone,
             \A d \in Clients : render'[d] \in InFlight => render[d] \in InFlight
      PROVE  Connected'
  BY <1>1 DEF Connected
<1>2. CASE BootStep \/ ((Drained \/ Exit) /\ UNCHANGED renderVars)
  BY <1>1, <1>2 DEF BootStep, Boot, Discover, Pick, Sorted, InitModule, Listen, Drained, Exit,
                    KeepOutside, renderVars
<1>3. CASE Destroy
  <2>1. open' = open  BY <1>3 DEF Destroy, DestroyModule, KeepOutside
  <2>2. CASE CloseBrowser  BY <1>1, <2>1, <2>2, NothingNewInFlight
  <2>3. CASE UNCHANGED renderVars  BY <1>1, <2>1, <2>3 DEF renderVars
  <2> QED  BY <1>3, <2>2, <2>3 DEF Destroy
<1>4. ASSUME NEW c \in Clients, Arrive(c) PROVE Connected'
  <2>1. c \in open' /\ open \subseteq open' /\ gone' = gone
        /\ \A d \in Clients \ {c} : render'[d] = render[d]
    BY <1>4 DEF Arrive, Accept, Request, RenderInv, RenderTypes
  <2> QED  BY <2>1 DEF Connected
<1>5. ASSUME NEW c \in Clients, Respond(c) PROVE Connected'
  BY <1>5 DEF Respond, Close, Connected, renderVars, InFlight, Holding
<1>6. ASSUME NEW c \in Clients, GiveUp(c) PROVE Connected'
  <2>1. open' = open \ {c} /\ gone' = gone \cup {c} /\ \A d \in Clients \ {c} : render'[d] = render[d]
    BY <1>6 DEF GiveUp, Close, ClientGone, RenderInv, RenderTypes
  <2> QED  BY <2>1 DEF Connected
<1>7. ASSUME NEW c \in Clients, Render(c) PROVE Connected'
  BY <1>1, <1>7, NothingNewInFlight DEF Render, loaderVars
<1>8. CASE Chromium \/ ChromiumDies
  BY <1>1, <1>8, NothingNewInFlight DEF Chromium, ChromiumDies, loaderVars
<1>9. CASE \E s \in Signals : Interrupt(s)
  BY <1>1, <1>9 DEF Interrupt, Signal, renderVars
<1>10. CASE UNCHANGED serverVars  BY <1>1, <1>10 DEF serverVars, loaderVars, renderVars
<1>11. QED
  BY <1>2, <1>3, <1>4, <1>5, <1>6, <1>7, <1>8, <1>9, <1>10 DEF ServerNext, ShutdownStep

\* How a step of the loader enters and goes through the teardown.
LEMMA TeardownStep ==
    ASSUME LoaderInv, [LoaderNext]_loaderVars, phase' \in {"destroying", "exited"}
    PROVE  \/ phase = "draining" /\ open' = {} /\ stopped' = <<>> /\ phase' = "destroying"
           \/ /\ phase \in {"destroying", "exited"} /\ open' \subseteq open
              /\ \/ stopped' = stopped
                 \/ DestroyModule /\ phase' = "destroying"
              /\ phase' # phase => Len(stopped) = Len(ordered) /\ stopped' = stopped
              /\ ordered' = ordered
<1>1. CASE Boot
  BY <1>1 DEF Boot, Discover, Pick, Sorted, InitModule, Listen
<1>2. CASE Drained
  BY <1>2 DEF Drained, ConnectionsClosed, KeepHooks, KeepOutside, LoaderInv, HooksSound
<1>3. CASE DestroyModule \/ Exit
  BY <1>3 DEF DestroyModule, Exit, KeepHooks, KeepOutside, KeepSort
<1>4. CASE \E c \in Connections : Accept(c) \/ Close(c)
  BY <1>4 DEF Accept, Close, KeepHooks, KeepSort
<1>5. CASE \E s \in Signals : Signal(s)
  BY <1>5 DEF Signal, KeepHooks, KeepSort
<1>6. CASE UNCHANGED loaderVars  BY <1>6 DEF loaderVars
<1>7. QED  BY <1>1, <1>2, <1>3, <1>4, <1>5, <1>6 DEF LoaderNext, Shutdown

LEMMA QuietKeeps ==
    ASSUME LoaderInv, Quiet, StopsInTeardown, [LoaderNext]_loaderVars
    PROVE  Quiet' /\ StopsInTeardown'
<1>1. CASE phase' \notin {"destroying", "exited"}  BY <1>1 DEF Quiet, StopsInTeardown
<1>2. CASE phase' \in {"destroying", "exited"}
  <2>1. Quiet'  BY <1>2, TeardownStep DEF Quiet
  <2>2. ASSUME phase' = "exited" PROVE Len(stopped') = Len(ordered')
    <3>1. CASE phase' = phase
      <4>1. phase = "exited" /\ Len(stopped) = Len(ordered)  BY <2>2, <3>1 DEF StopsInTeardown
      <4> QED  BY <1>2, <2>2, <4>1, TeardownStep
    <3>2. CASE phase' # phase  BY <1>2, <2>2, <3>2, TeardownStep
    <3> QED  BY <3>1, <3>2
  <2> QED  BY <2>1, <2>2 DEF StopsInTeardown
<1>3. QED  BY <1>1, <1>2

\* Nobody whose client still waits is rendered for once the teardown has begun.
LEMMA NothingInFlight ==
    ASSUME Connected, Quiet, phase \in {"destroying", "exited"}
    PROVE  AnsweredBeforeTeardown /\ \A c \in Clients : render[c] \in InFlight => c \in gone
  BY DEF Connected, Quiet, AnsweredBeforeTeardown

\* A step that brings up a browser, and one that may bring in a request.
LEMMA BrowserStep ==
    ASSUME RenderInv, [ServerNext]_serverVars
    PROVE  /\ browser' => browser \/ (Launched /\ Process /\ launching)
           /\ gone \subseteq gone'
           /\ \A c \in Clients : render[c] = "none" =>
                render'[c] = "none" \/ Arrive(c)
           /\ \A c \in Clients : Arrive(c) => browser' = browser
<1>1. CASE BootStep \/ ((Drained \/ Exit) /\ UNCHANGED renderVars) \/ UNCHANGED serverVars
           \/ \E s \in Signals : Interrupt(s)
  BY <1>1 DEF BootStep, Interrupt, renderVars, serverVars, Arrive, Request
<1>2. ASSUME Destroy
      PROVE  (browser' => browser) /\ gone' = gone
             /\ \A d \in Clients : render[d] = "none" => render'[d] = "none"
  <2>1. CASE BrowserLost /\ gone' = gone  BY <2>1 DEF BrowserLost
  <2>2. CASE UNCHANGED <<browser, render, gone>>  BY <2>2
  <2> QED  BY <1>2, <2>1, <2>2 DEF Destroy, CloseBrowser, renderVars
<1>3. ASSUME NEW c \in Clients, Arrive(c) \/ Respond(c) \/ GiveUp(c)
      PROVE  browser' = browser /\ gone \subseteq gone'
             /\ \A d \in Clients : render[d] = "none" => render'[d] = "none" \/ Arrive(d)
  BY <1>3 DEF Arrive, Respond, GiveUp, Request, ClientGone, renderVars, RenderInv, RenderTypes,
              InFlight, Holding
<1>4. ASSUME NEW c \in Clients, Render(c)
      PROVE  browser' = browser /\ gone' = gone
             /\ \A d \in Clients : render[d] = "none" => render'[d] = "none"
  <2>1. browser' = browser /\ gone' = gone /\ RenderStep(c)
    BY <1>4, NothingNewInFlight
       DEF Render, RenderStep, Acquire, Refuse, QueueTimeout, ContextOpens, WorkEnds, Release
  <2>2. \A d \in Clients : render'[d] \in InFlight => render[d] \in InFlight
    BY <2>1, NothingNewInFlight
  <2>3. \A d \in Clients : render'[d] = "over" => render[d] = "over" \/ render[d] \in InFlight
    BY <2>1 DEF RenderStep, Acquire, Proceed, Refuse, QueueTimeout, ContextOpens, WorkEnds, Release,
                RenderInv, RenderTypes, InFlight, Holding
  <2>4. render' \in [Clients -> RenderStates]
    BY <2>1, RenderStepKeeps DEF RenderNext, RenderInv, RenderTypes
  <2> QED  BY <2>1, <2>2, <2>3, <2>4 DEF RenderStates, InFlight, Holding
<1>5. ASSUME Chromium \/ ChromiumDies
      PROVE  /\ browser' => browser \/ (Launched /\ Process /\ launching)
             /\ gone' = gone /\ \A d \in Clients : render[d] = "none" => render'[d] = "none"
  <2>1. CASE Chromium  BY <2>1 DEF Chromium, Launched
  <2>2. CASE ChromiumDies  BY <2>2 DEF ChromiumDies, BrowserDies, BrowserLost
  <2> QED  BY <1>5, <2>1, <2>2
<1>6. \A c \in Clients : Arrive(c) => browser' = browser  BY DEF Arrive, Request
<1>7. QED
  BY <1>1, <1>2, <1>3, <1>4, <1>5, <1>6 DEF ServerNext, ShutdownStep

\* No browser without the renderer, and none once it is destroyed, as long as
\* nobody gives up.
LEMMA NoBrowserKeeps ==
    ASSUME ServerInv, [ServerNext]_serverVars
    PROVE  NoBrowser'
<1>1. RenderInv /\ LoaderInv /\ LoaderInv' /\ [LoaderNext]_loaderVars /\ NoBrowser
  BY ServerStepLoads, LoaderStep DEF ServerInv
<1>2. Loaded' = Loaded
  <2>1. modules' = modules
    BY <1>1 DEF LoaderNext, Boot, Shutdown, Discover, Pick, Sorted, InitModule, Listen, Drained,
                DestroyModule, Exit, Accept, Close, Signal, KeepSort, loaderVars
  <2> QED  BY <2>1, ModulesStay
<1>3. browser' => browser \/ (Launched /\ \E c \in Clients : render[c] = "launch")
  BY <1>1, BrowserStep DEF RenderInv, LaunchWanted, ServerInv
<1>4. ASSUME Renderer \notin Loaded
      PROVE  ~browser' /\ \A c \in Clients : render'[c] = "none"
  <2>1. ~browser /\ \A c \in Clients : render[c] = "none"  BY <1>1, <1>4 DEF NoBrowser
  <2>2. \A c \in Clients : ~Arrive(c)  BY <1>4 DEF Arrive
  <2> QED  BY <1>1, <1>3, <2>1, <2>2, BrowserStep
<1>5. ASSUME gone' = {}, Renderer \in Elements(stopped'), phase' \in {"destroying", "exited"}
      PROVE  ~browser'
  <2>1. gone = {}  BY <1>1, <1>5, BrowserStep
  <2>2. stopped' # <<>>  BY <1>5 DEF Elements
  <2>3. /\ phase \in {"destroying", "exited"}
        /\ stopped' = stopped \/ (DestroyModule /\ phase' = "destroying")
    BY <1>1, <1>5, <2>2, TeardownStep
  <2>4. \A c \in Clients : render[c] \notin InFlight  BY <2>1, <2>3, NothingInFlight DEF ServerInv
  <2>5. browser' => browser  BY <1>3, <2>4 DEF InFlight, Holding
  <2>6. CASE Renderer \in Elements(stopped)  BY <1>1, <2>1, <2>3, <2>5, <2>6 DEF NoBrowser
  <2>7. CASE Renderer \notin Elements(stopped)
    <3>1. stopped' # stopped /\ DestroyModule  BY <1>5, <2>3, <2>7
    <3>2. NextToStop = Renderer
      <4>1. stopped \in Seq(Names) /\ stopped' = Append(stopped, NextToStop)
        BY <1>1, <3>1 DEF LoaderInv, LoaderTypes, DestroyModule
      <4>2. stopped' \in Seq(Names)  BY <1>1 DEF LoaderInv, LoaderTypes
      <4>3. NextToStop \in Names
        <5>1. Len(stopped') = Len(stopped) + 1 /\ stopped'[Len(stopped) + 1] = NextToStop
              /\ Len(stopped) \in Nat
          BY <4>1
        <5> QED  BY <4>2, <5>1
      <4> QED  BY <1>5, <2>7, <4>1, <4>3, ElementsAppend
    <3>3. Destroy
      <4>1. DestroyModule /\ stopped' # stopped /\ phase = "destroying" /\ phase' = "destroying"
        BY <2>3, <3>1 DEF DestroyModule
      <4>2. ~BootStep
        BY <4>1 DEF BootStep, Boot, Discover, Pick, Sorted, InitModule, Listen
      <4>3. ~Drained /\ ~Exit  BY <4>1 DEF Drained, Exit
      <4>4. \A c \in Clients : ~Arrive(c) /\ ~Respond(c) /\ ~GiveUp(c) /\ ~Render(c)
        BY <4>1 DEF Arrive, Accept, Respond, GiveUp, Close, Render, loaderVars, KeepHooks
      <4>5. ~Chromium /\ ~ChromiumDies /\ ~UNCHANGED serverVars
        BY <4>1 DEF Chromium, ChromiumDies, loaderVars, serverVars
      <4>6. \A s \in Signals : ~Interrupt(s)  BY <4>1 DEF Interrupt, Signal, KeepHooks
      <4> QED  BY <4>2, <4>3, <4>4, <4>5, <4>6 DEF ServerNext, ShutdownStep
    <3>4. CloseBrowser  BY <3>2, <3>3 DEF Destroy
    <3> QED  BY <3>4 DEF CloseBrowser, BrowserLost
  <2> QED  BY <2>6, <2>7
<1>6. QED  BY <1>2, <1>4, <1>5 DEF NoBrowser

LEMMA ServerStep ==
    ASSUME ServerInv, [ServerNext]_serverVars
    PROVE  ServerInv'
<1>1. LoaderInv'  BY ServerStepLoads, LoaderStep DEF ServerInv
<1>2. RenderInv'  BY ServerStepRenders, RenderStepKeeps DEF ServerInv
<1>3. Connected'  BY ConnectedKeeps DEF ServerInv
<1>4. Quiet' /\ StopsInTeardown'  BY ServerStepLoads, QuietKeeps DEF ServerInv
<1>5. NoBrowser'  BY NoBrowserKeeps
<1>6. QED  BY <1>1, <1>2, <1>3, <1>4, <1>5 DEF ServerInv

LEMMA ServerInvariant == ServerSpec => []ServerInv
<1>1. ServerInit => ServerInv
  <2> SUFFICES ASSUME ServerInit PROVE ServerInv  OBVIOUS
  <2>1. LoaderInv /\ RenderInv  BY LoaderBegins, RenderBegins DEF ServerInit
  <2>2. /\ phase = "boot" /\ gone = {} /\ browser = FALSE
        /\ \A c \in Clients : render[c] = "none"
    BY DEF ServerInit, LoaderInit, RenderInit
  <2>3. Connected  BY <2>2 DEF Connected, InFlight, Holding
  <2>4. Quiet /\ StopsInTeardown /\ NoBrowser  BY <2>2 DEF Quiet, StopsInTeardown, NoBrowser
  <2> QED  BY <2>1, <2>3, <2>4 DEF ServerInv
<1>2. ServerInv /\ [ServerNext]_serverVars => ServerInv'  BY ServerStep
<1>3. QED  BY <1>1, <1>2, PTL DEF ServerSpec

\* Shutdown cuts no request off: when the first module is destroyed, every
\* request that is still under way is one that its client has given up
\* (server.close before destroyModules).
THEOREM NobodyIsCutOff == ServerSpec => []AnsweredBeforeTeardown
<1>1. ServerInv => AnsweredBeforeTeardown
  BY NothingInFlight DEF ServerInv, AnsweredBeforeTeardown
<1>2. QED  BY <1>1, ServerInvariant, PTL

\* A process that exits leaves no browser behind, unless some client gave up
\* while its request went on (BrowserManager.close in onDestroy).
THEOREM NoBrowserIsLeft == ServerSpec => []BrowserClosedAtExit
<1>1. ServerInv => BrowserClosedAtExit
  <2> SUFFICES ASSUME ServerInv, phase = "exited", gone = {} PROVE ~browser /\ ~launching
    BY DEF BrowserClosedAtExit
  <2>1. LoaderInv /\ RenderInv /\ NoBrowser  BY DEF ServerInv
  <2>2. \A c \in Clients : render[c] \notin InFlight  BY NothingInFlight DEF ServerInv
  <2>3. ~launching  BY <2>1, <2>2 DEF RenderInv, LaunchWanted, InFlight, Holding
  <2>4. CASE Renderer \notin Loaded  BY <2>1, <2>3, <2>4 DEF NoBrowser
  <2>5. CASE Renderer \in Loaded
    <3>1. /\ Sortable /\ Len(ordered) = Len(modules) /\ modules \in Seq(Manifest)
          /\ ordered \in Seq(Names) /\ OrderSound /\ Len(ordered) \in Nat
      BY <2>1, LenProperties DEF LoaderInv, LoaderTypes, SortSound
    <3>2. Len(stopped) = Len(ordered)  BY DEF ServerInv, StopsInTeardown
    <3>3. Renderer \in Elements(ordered)  BY <2>5, <3>1, OrderedCount
    <3>4. PICK i \in 1..Len(ordered) : ordered[i] = Renderer  BY <3>3 DEF Elements
    <3>5. Len(ordered) + 1 - i \in 1..Len(stopped)
          /\ Len(ordered) + 1 - (Len(ordered) + 1 - i) = i
      BY <3>1, <3>2
    <3>6. stopped[Len(ordered) + 1 - i] = ordered[Len(ordered) + 1 - (Len(ordered) + 1 - i)]
      BY <2>1, <3>5 DEF LoaderInv, HooksSound
    <3>7. Renderer \in Elements(stopped)  BY <3>4, <3>5, <3>6 DEF Elements
    <3> QED  BY <2>1, <2>3, <3>7 DEF NoBrowser
  <2> QED  BY <2>4, <2>5
<1>2. QED  BY <1>1, ServerInvariant, PTL

===============================================================================
