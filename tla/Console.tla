-------------------------------- MODULE Console --------------------------------
(***************************************************************************)
(* The panels of the web console over the API: the user has one panel open *)
(* at a time.  A handler of a panel calls the API and the answer comes     *)
(* back, late or never, while the user goes on with what the panel still   *)
(* offers; the log of deliveries polls while it shows one under way.       *)
(***************************************************************************)
EXTENDS ShortLinks, WebhookFanout

CONSTANTS
  Me,           \* the user of the console
  Visited,      \* bound: the screens of the behaviours
  LinkTraffic,  \* bound: <<screen, user>>, who uses short URLs elsewhere beside it
  QrTraffic,    \* bound: the screens beside which QR codes are used elsewhere
  HookTraffic,  \* bound: the screens beside which endpoints change elsewhere
  PanelCalls,   \* bound: the calls of a behaviour in which a panel is open
  Registered    \* bound: the endpoints that the webhooks panel creates

\* "login": nobody is logged in and no panel is open.
Screens == {"qr", "urls", "pdf", "dev-tools", "webhooks", "api-keys", "login"}

ConsoleAssumption ==
  /\ Me \in People /\ Visited \subseteq Screens
  /\ PanelCalls \in 0..MaxCalls /\ Registered \subseteq Endpoints
  /\ LinkTraffic \subseteq Screens \X People /\ QrTraffic \cup HookTraffic \subseteq Screens
ASSUME ConsoleAssumption

VARIABLES
  screen,  \* the panel that is open
  panel,   \* what it shows
  work,    \* of every busy flag: the handler that has set it
  gets     \* the loads under way.  Bound: one of a kind

consoleVars == <<screen, panel, work, gets>>
vars == <<linkVars, fanoutVars, consoleVars, mishaps>>

\* The flag that a handler sets while it runs and that disables its button.
Form(s, n, f) == [screen |-> s, name |-> n, flag |-> f]
UrlForms ==
  {Form("urls", "create", "urlBusy"), Form("urls", "lookup", "lookupBusy"), Form("urls", "delete", "urlBusy")}
QrForms == {Form("qr", "generate", "busy")}
PdfForms == {Form("pdf", "convert", "busy")}
ToolForms == {Form("dev-tools", n, "busy") : n \in {"uuid", "hash", "base64", "jwt"}}
KeyForms == {Form("api-keys", n, "busy") : n \in {"create", "revoke"}}
HookForms == {Form("webhooks", n, "busy") : n \in {"create", "test", "toggle", "remove", "replay"}}
Forms == UrlForms \cup QrForms \cup PdfForms \cup ToolForms \cup KeyForms \cup HookForms
Flags == {h.flag : h \in Forms}

NoWork == [name |-> "none", phase |-> "idle", on |-> 0]
\* A load begins when the panel opens, when a handler is through, or for the log.
Gets == {"mount", "reload", "log"}
NoGet == [phase |-> "free", kind |-> "none", log |-> <<>>, listed |-> <<>>]
Nothing == [key |-> Nobody, by |-> 0, from |-> 0]

\* History, which no guard reads: told are the deletions whose answer the URL panel
\* has got, crossed the calls that were under way beside such an answer.
Mounted ==
  [busy |-> {}, shown |-> Nothing, tool |-> "uuid", told |-> {}, crossed |-> {},
   listed |-> [x \in Endpoints |-> "absent"], log |-> [d \in Pairs |-> "none"]]

\* What a panel loads when it is opened, and again after a change.
FirstLoad(s) == CASE s = "webhooks" -> "endpoints" [] s = "api-keys" -> "keys" [] OTHER -> "none"
Load(kind) == [NoGet EXCEPT !.phase = "sent", !.kind = kind]
FirstGets(s) ==
  [g \in Gets |-> IF g = "mount" /\ FirstLoad(s) # "none" THEN Load(FirstLoad(s)) ELSE NoGet]

Init ==
  /\ mishaps = 0
  /\ LinksInit /\ FanoutInit
  /\ screen \in Visited
  /\ panel = Mounted
  /\ work = [f \in Flags |-> NoWork]
  /\ gets = FirstGets(screen)

KeepLinks == UNCHANGED linkVars
KeepFanout == UNCHANGED fanoutVars
KeepConsole == UNCHANGED consoleVars

-------------------------------------------------------------------------------
(***************************************************************************)
(* Handlers.                                                               *)
(***************************************************************************)
Pressed(h) == [panel EXCEPT !.busy = @ \cup {h.flag}]

Press(h, phase, on) ==
  /\ h.screen = screen /\ h.flag \notin panel.busy
  /\ panel' = Pressed(h)
  /\ work' = [work EXCEPT ![h.flag] = [name |-> h.name, phase |-> phase, on |-> on]]
  /\ NoMishap /\ UNCHANGED <<screen, gets>>

UrlOffers(name, k) == name = "delete" => panel.shown.key = k
PressUrl(h) ==
  /\ KeepFanout
  /\ \E c \in 1..PanelCalls, k \in Codes :
       /\ UrlOffers(h.name, k) /\ Press(h, "call", c)
       /\ \/ h.name = "create" /\ BeginCreate(c, Me, k, "later")
          \/ h.name # "create" /\ Begin(c, h.name, Me, k)

PressQr(h) ==
  /\ KeepFanout
  /\ \E c \in 1..PanelCalls, k \in QrIds : Press(h, "call", c) /\ BeginQr(c, Me, k, "static")

\* PDF rendering, the developer tools and the API keys: all that is kept of a
\* call is whether it is accepted.
ToolOffers(name) == screen = "dev-tools" => panel.tool = name
PressPlain(h) ==
  /\ h \in PdfForms \cup ToolForms \cup KeyForms
  /\ ToolOffers(h.name) /\ Press(h, "sent", 0)
  /\ KeepLinks /\ KeepFanout

SelectTool(t) ==
  /\ screen = "dev-tools" /\ t # panel.tool
  /\ panel' = [panel EXCEPT !.tool = t]
  /\ NoMishap /\ KeepLinks /\ KeepFanout /\ UNCHANGED <<screen, work, gets>>

\* Bound: as many test-fires as there are events.
HookTargets(name) ==
  CASE name = "create" -> {0}
    [] name = "test" -> {x \in Endpoints : panel.listed[x] # "absent" /\ \E e \in Events : event[e] = NoEvent}
    [] name \in {"toggle", "remove"} -> {x \in Endpoints : panel.listed[x] # "absent"}
    [] name = "replay" -> {d \in Pairs : panel.log[d] = "settled"}
PressHook(h) ==
  /\ \E on \in HookTargets(h.name) : Press(h, "sent", on)
  /\ KeepLinks /\ KeepFanout

Turns(f, phase, on) ==
  /\ work' = [work EXCEPT ![f] = [@ EXCEPT !.phase = phase, !.on = on]]
  /\ NoMishap /\ KeepLinks /\ UNCHANGED <<screen, panel, gets>>

\* The API serves a call whose handler there has no step of its own here.
ServePlain(f) ==
  /\ work[f].phase = "sent" /\ screen \in {"pdf", "dev-tools", "api-keys"}
  /\ \E verdict \in {"ok", "refused"} : Turns(f, verdict, 0)
  /\ KeepFanout

HookServed(name, on) ==
  \/ name = "create" /\ \E x \in Registered : CreateEndpoint(x, Me, {Ping})
  \/ name = "toggle" /\ UpdateEndpoint(on, Me, endpoint[on].topics, panel.listed[on] = "paused")
  \/ name = "remove" /\ DeleteEndpoint(on, Me)
  \/ name = "replay" /\ Replay(on)

HookRefused(name, on) ==
  \/ name = "create"
  \/ name \in {"test", "toggle", "remove"} /\ ~Owned(on, Me)
  \/ name = "replay" /\ delivery[on] # "settled"

ServeHook(f) ==
  /\ screen = "webhooks" /\ work[f].phase = "sent"
  /\ LET name == work[f].name
         on == work[f].on
     IN  \/ HookServed(name, on) /\ Turns(f, "ok", on)
         \/ HookRefused(name, on) /\ Turns(f, "refused", on) /\ KeepFanout
         \/ name = "test" /\ \E e \in Events : TestFire(e, on, Me) /\ Turns(f, "enqueue", e)

Accepted(f) ==
  LET w == work[f]
  IN  CASE w.phase = "call" -> call[w.on].phase = "done" /\ call[w.on].status < 400
        [] w.phase = "enqueue" -> event[w.on].phase = "queued"
        [] OTHER -> w.phase = "ok"
Refused(f) ==
  LET w == work[f]
  IN  CASE w.phase = "call" -> call[w.on].phase = "done" /\ call[w.on].status >= 400
        [] w.phase = "enqueue" -> event[w.on].phase = "lost"
        [] OTHER -> w.phase = "refused"

\* Mutant: the flag is cleared behind a call that went well.
FreedIfWell(f, well) == [panel EXCEPT !.busy = IF well THEN @ \ {f} ELSE @]

\* finally: whatever became of the call, the flag is cleared.
Freed(f, well) == [panel EXCEPT !.busy = @ \ {f}]

\* Mutant: the panel goes on showing what it has deleted.
ShownAfterAny(c) == [key |-> call[c].key, by |-> call[c].by, from |-> c]

\* The URL panel shows the link that a call has answered, until it is told of its
\* deletion.
ShownAfter(c) ==
  IF call[c].op = "delete" THEN Nothing ELSE [key |-> call[c].key, by |-> call[c].by, from |-> c]

Shows(f, c) == [Freed(f, TRUE) EXCEPT !.shown = ShownAfter(c)]
Learns(f, c) ==
  [Shows(f, c) EXCEPT !.told = @ \cup {c},
                      !.crossed = @ \cup {work[g].on : g \in panel.busy \ {f}}]
UrlAnswered(f, c) == IF call[c].op = "delete" THEN Learns(f, c) ELSE Shows(f, c)

Idle(f) == work' = [work EXCEPT ![f] = NoWork]

\* The answer arrives; a panel with a list loads it anew before it is done.
Answer(f) ==
  /\ \/ Refused(f) /\ Idle(f) /\ panel' = Freed(f, FALSE) /\ UNCHANGED gets
     \/ /\ Accepted(f) /\ FirstLoad(screen) = "none" /\ Idle(f) /\ UNCHANGED gets
        /\ panel' = IF screen = "urls" THEN UrlAnswered(f, work[f].on) ELSE Freed(f, TRUE)
     \/ /\ Accepted(f) /\ FirstLoad(screen) # "none"
        /\ gets' = [gets EXCEPT !["reload"] = Load(FirstLoad(screen))]
        /\ work' = [work EXCEPT ![f].phase = "reload"] /\ UNCHANGED panel
  /\ NoMishap /\ KeepLinks /\ KeepFanout /\ UNCHANGED screen

\* The call, or the answer to it, is lost on the way.
Lost(f) ==
  /\ work[f].phase \notin {"idle", "reload"}
  /\ Mishap
  /\ panel' = Freed(f, FALSE) /\ Idle(f)
  /\ KeepLinks /\ KeepFanout /\ UNCHANGED <<screen, gets>>
-------------------------------------------------------------------------------
(***************************************************************************)
(* Loads.                                                                  *)
(***************************************************************************)
\* Bound: the log is not loaded beside the load that opens the panel; a reload may
\* run beside either.
LoadDeliveries ==
  /\ screen = "webhooks" /\ gets["log"] = NoGet /\ gets["mount"] = NoGet
  /\ gets' = [gets EXCEPT !["log"] = Load("deliveries")]
  /\ NoMishap /\ KeepLinks /\ KeepFanout /\ UNCHANGED <<screen, panel, work>>

\* Mutant: a delivery in the hands of the dispatcher is not waited for.
InFlightQueued == {"pending"}

InFlight == {"pending", "delivering"}

HasPending == \E d \in Pairs : panel.log[d] \in InFlight
Poll == HasPending /\ LoadDeliveries
Refresh ==
  /\ (\E x \in Endpoints : panel.listed[x] # "absent") \/ (\E d \in Pairs : panel.log[d] # "none")
  /\ LoadDeliveries

Listed == [x \in Endpoints |->
  IF ~Owned(x, Me) THEN "absent" ELSE IF endpoint[x].active THEN "active" ELSE "paused"]
Log == [d \in Pairs |-> IF Owned(d[1], Me) THEN delivery[d] ELSE "none"]

\* The API reads what is asked for, or refuses.
ServeGet(g) ==
  /\ gets[g].phase = "sent"
  /\ \/ gets' = [gets EXCEPT ![g] = [@ EXCEPT !.phase = "served",
                   !.listed = IF gets[g].kind = "endpoints" THEN Listed ELSE <<>>,
                   !.log = IF gets[g].kind = "deliveries" THEN Log ELSE <<>>]] /\ NoMishap
     \/ gets' = [gets EXCEPT ![g].phase = "refused"] /\ Mishap
  /\ KeepLinks /\ KeepFanout /\ UNCHANGED <<screen, panel, work>>

Loaded(g) ==
  CASE gets[g].phase = "served" /\ gets[g].kind = "endpoints" -> [panel EXCEPT !.listed = gets[g].listed]
    [] gets[g].phase = "served" /\ gets[g].kind = "deliveries" -> [panel EXCEPT !.log = gets[g].log]
    [] OTHER -> panel

\* The load that a handler waits for ends the handler.
LoadEnds(g, shown) ==
  /\ gets' = [gets EXCEPT ![g] = NoGet]
  /\ panel' = [shown EXCEPT !.busy = IF g = "reload" THEN @ \ {"busy"} ELSE @]
  /\ IF g = "reload" THEN Idle("busy") ELSE UNCHANGED work

\* loadAll goes on with the deliveries.
Arrive(g) ==
  /\ gets[g].phase \in {"served", "refused"}
  /\ \/ /\ gets[g].kind = "endpoints"
        /\ panel' = Loaded(g)
        /\ gets' = [gets EXCEPT ![g] = Load("deliveries")] /\ UNCHANGED work
     \/ gets[g].kind # "endpoints" /\ LoadEnds(g, Loaded(g))
  /\ NoMishap /\ KeepLinks /\ KeepFanout /\ UNCHANGED screen

LoseGet(g) ==
  /\ gets[g].phase \in {"sent", "served", "refused"}
  /\ Mishap /\ LoadEnds(g, panel)
  /\ KeepLinks /\ KeepFanout /\ UNCHANGED screen

\* The user leaves the panel and comes back: its state is gone, and answers on
\* their way find nobody.  Bound: not while the API has yet to see a call.
Reopen ==
  /\ \A f \in Flags : work[f].phase # "sent"
  /\ Mishap
  /\ panel' = [Mounted EXCEPT !.told = panel.told, !.crossed = panel.crossed]
  /\ work' = [f \in Flags |-> NoWork]
  /\ gets' = FirstGets(screen)
  /\ KeepLinks /\ KeepFanout /\ UNCHANGED screen
-------------------------------------------------------------------------------
(***************************************************************************)
(* The API, and its other clients.                                         *)
(***************************************************************************)
\* The service emits its event in the same turn in which the insert came back.
Announces(c) == call[c].op = "qr" /\ call[c].phase = "insert" /\ call'[c].status = 201

ServeCall(c) ==
  /\ CallStep(c)
  /\ IF Announces(c) THEN \E e \in Events : Emit(e, call[c].user, "qr.code.created") ELSE KeepFanout
  /\ KeepConsole

ServeFails(c) == CallFails(c) /\ KeepFanout /\ KeepConsole

\* Anyone, the user of the console too: in another tab, or with an API key.
OtherUrl(c, k) ==
  \E u \in People :
    /\ <<screen, u>> \in LinkTraffic
    /\ BeginCreate(c, u, k, "never") \/ Begin(c, "delete", u, k) \/ Begin(c, "redirect", Nobody, k)
OtherQr(c, k) ==
  \/ BeginQr(c, Me, k, "redirect")
  \/ \E u \in People : Begin(c, "view", u, k)
  \/ Begin(c, "scan", Nobody, k)
OtherCall(c) ==
  /\ screen # "login" => c <= PanelCalls
  /\ \/ \E k \in Codes : OtherUrl(c, k)
     \/ screen \in QrTraffic /\ \E k \in QrIds : OtherQr(c, k)
  /\ NoMishap /\ KeepFanout /\ KeepConsole

\* Bound: an endpoint subscribes to the pings only, or to everything.
OtherEndpoint(x) ==
  /\ screen \in HookTraffic
  /\ \/ \E u \in People, topics \in {{Ping}, Topics} : CreateEndpoint(x, u, topics)
     \/ \E u \in People, topics \in {{Ping}, Topics}, active \in BOOLEAN : UpdateEndpoint(x, u, topics, active)
     \/ \E u \in People : DeleteEndpoint(x, u)
  /\ NoMishap /\ KeepLinks /\ KeepConsole

\* Registration and the API keys emit events of their own.
OtherEvent(e) ==
  /\ screen \in HookTraffic
  /\ \E u \in People, topic \in SubscribableTopics : Emit(e, u, topic)
  /\ NoMishap /\ KeepLinks /\ KeepConsole

Enqueue(e) == FanoutStep(e) /\ NoMishap /\ KeepLinks /\ KeepConsole
EnqueuesLost == \E lost \in SUBSET Events : FanoutsLost(lost) /\ KeepLinks /\ KeepConsole
Delivered(A) == A /\ NoMishap /\ KeepLinks /\ KeepConsole

UserStep(h) ==
  \/ h \in UrlForms /\ PressUrl(h)
  \/ h \in QrForms /\ PressQr(h)
  \/ PressPlain(h)
  \/ h \in HookForms /\ PressHook(h)
PanelStep(f) == ServePlain(f) \/ ServeHook(f) \/ Answer(f)
GetStep(g) == ServeGet(g) \/ Arrive(g)

Next ==
  \/ \E h \in Forms : UserStep(h)
  \/ \E f \in Flags : PanelStep(f) \/ Lost(f)
  \/ Poll \/ Refresh
  \/ \E g \in Gets : GetStep(g) \/ LoseGet(g)
  \/ \E t \in {"uuid", "hash", "base64", "jwt"} : SelectTool(t)
  \/ Reopen
  \/ \E c \in Calls : ServeCall(c) \/ ServeFails(c) \/ OtherCall(c)
  \/ \E k \in Codes : Expire(k) /\ KeepFanout /\ KeepConsole
  \/ \E x \in Endpoints : OtherEndpoint(x)
  \/ \E e \in Events : OtherEvent(e) \/ Enqueue(e)
  \/ EnqueuesLost
  \/ \E d \in Pairs : Delivered(Claim(d)) \/ Delivered(Settle(d)) \/ Delivered(Retry(d))

Spec == Init /\ [][Next]_vars

\* The API serves what it has received and the network answers or fails, timers
\* fire, the handlers of the event bus run on.  A delivery is not retried for ever.
Fairness ==
  /\ WF_vars(\E f \in Flags : PanelStep(f))
  /\ \A g \in Gets : WF_vars(GetStep(g))
  /\ WF_vars(Poll)
  /\ WF_vars(\E c \in Calls : ServeCall(c))
  /\ WF_vars(\E e \in Events : Enqueue(e))
  /\ WF_vars(\E d \in Pairs : Delivered(Claim(d)))
  /\ \A d \in Pairs : SF_vars(Delivered(Settle(d)))

FairSpec == Spec /\ Fairness
-------------------------------------------------------------------------------
(***************************************************************************)
(* Properties.                                                             *)
(***************************************************************************)
\* A link that the URL panel shows is in the table, or its user has deleted it:
\* elsewhere; or here, and the answer is still on its way, was lost or was an error; or
\* here, and the lookup that shows it was under way when the answer came (a lookup is
\* not disabled while a delete runs).  No handler that begins after it brings it back.
ShownIsReal ==
  screen = "urls" /\ panel.shown # Nothing =>
    \/ link[panel.shown.key].by = panel.shown.by
    \/ \E d \in Calls :
         /\ Deletes(d, panel.shown.by)
         /\ d \in panel.told => panel.shown.from \in panel.crossed

\* The log of deliveries does not go on showing as under way what has settled: it
\* catches up with every delivery, although a poll and the reload of a handler
\* overlap, arrive in either order and may fail.
LogCatchesUp ==
  \A d \in Pairs : []<>(panel.log[d] \notin {"pending", "delivering"})

\* No panel stays disabled: whatever is refused, lost or overtaken, its buttons work
\* again.
PanelsRecover == \A f \in Flags : []<>(f \notin panel.busy)
===============================================================================
