--------------------------------- MODULE Server ---------------------------------
(***************************************************************************)
(* One API process with the requests it serves: ModuleLoader composed with *)
(* PdfRender.  A connection carries one request to the pdf module; it      *)
(* closes with the answer or when the client gives up, whichever is first. *)
(* onDestroy of the pdf module closes the browser.                         *)
(***************************************************************************)
EXTENDS ModuleLoader, PdfRender

CONSTANTS
  Busy,    \* bound: the deployments whose process is sent requests and signals
  Renderer \* the name of the module that renders

\* A client makes one connection and sends one request over it.
ServerAssumption == Connections = Clients /\ Busy \subseteq Deployments
ASSUME ServerAssumption

serverVars == <<loaderVars, renderVars>>

ServerInit == LoaderInit /\ RenderInit

Arrive(c) ==
  /\ modules \in Busy /\ Renderer \in Loaded
  /\ Accept(c) /\ Request(c)

\* The handler's promise settles and the answer ends the connection.
Respond(c) ==
  /\ render[c] = "over" /\ Close(c)
  /\ UNCHANGED renderVars

GiveUp(c) == Close(c) /\ ClientGone(c)

Process == phase \notin Ended

Render(c) == Process /\ RenderStep(c) /\ UNCHANGED loaderVars
Chromium == Process /\ Launched /\ UNCHANGED loaderVars
ChromiumDies == Process /\ BrowserDies /\ UNCHANGED loaderVars

BootStep == Boot /\ UNCHANGED renderVars

Destroy ==
  /\ DestroyModule
  /\ \/ NextToStop = Renderer /\ CloseBrowser
     \/ NextToStop # Renderer /\ UNCHANGED renderVars

ShutdownStep == Destroy \/ ((Drained \/ Exit) /\ UNCHANGED renderVars)

Interrupt(s) == modules \in Busy /\ Signal(s) /\ UNCHANGED renderVars

ServerNext ==
  \/ BootStep \/ ShutdownStep
  \/ \E c \in Clients : Arrive(c) \/ Respond(c) \/ GiveUp(c) \/ Render(c)
  \/ Chromium \/ ChromiumDies
  \/ \E s \in Signals : Interrupt(s)

ServerSpec == ServerInit /\ [][ServerNext]_serverVars

\* What the code awaits comes to an end: hooks return, calls to Chromium resolve
\* or reject, timers fire, and answers reach the client or the client is gone.
ServerFairness ==
  /\ WF_serverVars(BootStep) /\ WF_serverVars(ShutdownStep) /\ WF_serverVars(Chromium)
  /\ \A c \in Clients : WF_serverVars(Render(c)) /\ WF_serverVars(Respond(c))

FairServerSpec == ServerSpec /\ ServerFairness
-------------------------------------------------------------------------------
(***************************************************************************)
(* Properties.                                                             *)
(***************************************************************************)
\* Shutdown cuts no request off whose client still waits: by the time the first
\* module is destroyed, every request left is one that its client gave up.
AnsweredBeforeTeardown ==
  phase \in {"destroying", "exited"} =>
    \A c \in Clients : render[c] \in InFlight => c \in gone

\* A browser is left at the exit only if some client gave up: its request went on
\* without it, and its launch ended after the pdf module had closed the browser it
\* knew of, which was none.
BrowserClosedAtExit ==
  phase = "exited" /\ gone = {} => ~browser /\ ~launching

\* Every request comes to an end while the process lives, however many wait: the
\* permits are passed on, and whoever waits too long is refused.
RendersEnd ==
  \A c \in Clients : render[c] \in InFlight ~> (render[c] = "over" \/ phase \in Ended)

\* The first signal ends the process, whatever requests and hooks are under way.
ShutdownEnds == phase = "draining" ~> phase \in Ended
===============================================================================
