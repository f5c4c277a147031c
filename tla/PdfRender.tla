------------------------------- MODULE PdfRender -------------------------------
(***************************************************************************)
(* Rendering PDF documents: RenderGate's permits and queue, BrowserManager *)
(* with its shared launch, and the way of one request through withContext. *)
(* A step ends where the code awaits; what runs after an await up to the   *)
(* next one, the code of a resumed waiter included, is one step.           *)
(***************************************************************************)
EXTENDS Integers, Sequences, FiniteSets

CONSTANTS
  Clients,   \* the requests, each made at most once
  MaxActive, \* PDF_MAX_CONCURRENT_RENDERS
  MaxQueued  \* PDF_MAX_QUEUED_RENDERS

RenderAssumption == MaxActive \in Nat \ {0} /\ MaxQueued \in Nat
ASSUME RenderAssumption

VARIABLES
  render,   \* how far the request of every client has come
  gone,     \* the clients that closed their connection before the answer
  active,   \* RenderGate.active
  waiting,  \* RenderGate.queue
  browser,  \* whether BrowserManager has a connected browser
  launching \* whether a launch is in flight

renderVars == <<render, gone, active, waiting, browser, launching>>

RenderInit ==
  /\ render = [c \in Clients |-> "none"]
  /\ gone = {} /\ active = 0 /\ waiting = <<>>
  /\ browser = FALSE /\ launching = FALSE

\* Between acquire and release: getBrowser, newContext, the work under its
\* deadline, and the finally block.
Holding == {"launch", "context", "work", "closing"}
InFlight == Holding \cup {"check", "queued"}

\* getBrowser, for the requests that have just got a permit: with a connected
\* browser they go on to newContext, else they share the launch.
Proceed(S) ==
  /\ render' = [c \in Clients |-> IF c \in S THEN IF browser THEN "context" ELSE "launch"
                                  ELSE render[c]]
  /\ launching' = (launching \/ ~browser)

\* The request arrives: a URL is checked first, and its host looked up.
Request(c) ==
  /\ render[c] = "none"
  /\ render' = [render EXCEPT ![c] = "check"]
  /\ UNCHANGED <<gone, active, waiting, browser, launching>>

\* Mutant: one permit more.
HasPermitOrOne == active <= MaxActive

HasPermit == active < MaxActive

\* The check passes, and RenderGate.acquire runs up to its await.
Acquire(c) ==
  /\ render[c] = "check"
  /\ \/ /\ c \in gone \/ (~HasPermit /\ Len(waiting) >= MaxQueued)
        /\ render' = [render EXCEPT ![c] = "over"]
        /\ UNCHANGED <<active, waiting, launching>>
     \/ /\ c \notin gone /\ HasPermit
        /\ active' = active + 1
        /\ Proceed({c}) /\ UNCHANGED waiting
     \/ /\ c \notin gone /\ ~HasPermit /\ Len(waiting) < MaxQueued
        /\ waiting' = Append(waiting, c)
        /\ render' = [render EXCEPT ![c] = "queued"]
        /\ UNCHANGED <<active, launching>>
  /\ UNCHANGED <<gone, browser>>

\* The body is too large, or the URL or its host is refused.
Refuse(c) ==
  /\ render[c] = "check"
  /\ render' = [render EXCEPT ![c] = "over"]
  /\ UNCHANGED <<gone, active, waiting, browser, launching>>

\* RenderGate.remove: a waiter that times out or aborts leaves the queue.
Without(c) ==
  IF \E i \in 1..Len(waiting) : waiting[i] = c
  THEN LET i == CHOOSE j \in 1..Len(waiting) : waiting[j] = c
       IN  SubSeq(waiting, 1, i - 1) \o SubSeq(waiting, i + 1, Len(waiting))
  ELSE waiting

QueueTimeout(c) ==
  /\ render[c] = "queued"
  /\ waiting' = Without(c)
  /\ render' = [render EXCEPT ![c] = "over"]
  /\ UNCHANGED <<gone, active, browser, launching>>

\* The client closes its connection, and the request's signal aborts.  A waiter
\* leaves the queue, work under withDeadline ends; a request that awaits its
\* check, the launch or the context does not listen and goes on.
ClientGone(c) ==
  /\ render[c] \in InFlight /\ c \notin gone
  /\ gone' = gone \cup {c}
  /\ waiting' = Without(c)
  /\ render' = [render EXCEPT ![c] = CASE @ = "queued" -> "over"
                                      [] @ = "work" -> "closing"
                                      [] OTHER -> @]
  /\ UNCHANGED <<active, browser, launching>>

\* Mutant: a launch that fails is forgotten, and nobody who shares it is told.
LaunchedSilently ==
  /\ launching
  /\ launching' = FALSE
  /\ \E ok \in BOOLEAN :
       /\ browser' = ok
       /\ render' = [c \in Clients |-> IF render[c] = "launch" /\ ok THEN "context" ELSE render[c]]
  /\ UNCHANGED <<gone, active, waiting>>

\* The launch that requests share ends, well or not.
Launched ==
  /\ launching
  /\ launching' = FALSE
  /\ \E ok \in BOOLEAN :
       /\ browser' = ok
       /\ render' = [c \in Clients |-> IF render[c] = "launch"
                                       THEN IF ok THEN "context" ELSE "closing"
                                       ELSE render[c]]
  /\ UNCHANGED <<gone, active, waiting>>

\* newContext resolves, and the work starts under its deadline; or it rejects.
ContextOpens(c) ==
  /\ render[c] = "context"
  /\ \/ browser /\ render' = [render EXCEPT ![c] = "work"]
     \/ render' = [render EXCEPT ![c] = "closing"]
  /\ UNCHANGED <<gone, active, waiting, browser, launching>>

\* The work ends, fails or exceeds its deadline.
WorkEnds(c) ==
  /\ render[c] = "work"
  /\ render' = [render EXCEPT ![c] = "closing"]
  /\ UNCHANGED <<gone, active, waiting, browser, launching>>

\* Chromium is gone: all that was under way in it fails.
BrowserLost ==
  /\ browser
  /\ browser' = FALSE
  /\ render' = [c \in Clients |-> IF render[c] \in {"context", "work"} THEN "closing" ELSE render[c]]

BrowserDies == BrowserLost /\ UNCHANGED <<gone, active, waiting, launching>>

\* The context is closed and the permit released.  The first waiter resumes
\* before any other request can ask for the permit.
Release(c) ==
  /\ render[c] = "closing"
  /\ \/ /\ waiting = <<>>
        /\ active' = active - 1
        /\ render' = [render EXCEPT ![c] = "over"]
        /\ UNCHANGED <<waiting, launching>>
     \/ /\ waiting # <<>>
        /\ waiting' = Tail(waiting)
        /\ active' = active
        /\ render' = [render EXCEPT ![c] = "over",
                                    ![Head(waiting)] = IF browser THEN "context" ELSE "launch"]
        /\ launching' = (launching \/ ~browser)
  /\ UNCHANGED <<gone, browser>>

\* Mutant: the browser is left to itself.
CloseBrowserNot == UNCHANGED renderVars

\* BrowserManager.close: the browser it knows of is closed.
CloseBrowser ==
  /\ \/ BrowserLost
     \/ ~browser /\ UNCHANGED <<browser, render>>
  /\ UNCHANGED <<gone, active, waiting, launching>>

RenderStep(c) ==
  Acquire(c) \/ Refuse(c) \/ QueueTimeout(c) \/ ContextOpens(c) \/ WorkEnds(c) \/ Release(c)

RenderNext ==
  \/ \E c \in Clients : Request(c) \/ RenderStep(c) \/ ClientGone(c)
  \/ Launched \/ BrowserDies \/ CloseBrowser

RenderSpec == RenderInit /\ [][RenderNext]_renderVars
-------------------------------------------------------------------------------
(***************************************************************************)
(* Properties.                                                             *)
(***************************************************************************)
Holders == {c \in Clients : render[c] \in Holding}

\* However requests end (done, failed, timed out, aborted, without a browser),
\* each permit is held by one request and given back once: never more renders
\* than permits, and none idle while somebody waits for it.
PermitsConserved ==
  /\ active = Cardinality(Holders) /\ active <= MaxActive
  /\ waiting # <<>> => active = MaxActive
  /\ Len(waiting) <= MaxQueued
  /\ \A c \in Clients : render[c] = "queued" <=> \E i \in 1..Len(waiting) : waiting[i] = c
===============================================================================
