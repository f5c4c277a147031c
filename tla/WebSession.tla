------------------------------ MODULE WebSession ------------------------------
(***************************************************************************)
(* Sessions from end to end: the browser tabs of one user of the web       *)
(* client (web/src/api/client.ts, useAuth.ts) and the handlers of          *)
(* RefreshTokens that serve them.                                          *)
(*                                                                         *)
(* The tabs share localStorage, but not their JavaScript state: each has   *)
(* its own refreshInFlight.  A call of a tab goes through the `api` client *)
(* or through authorizedFetch, and refreshes the session when it is        *)
(* answered with 401.  That may happen at any time: the access token, which*)
(* is stored and replaced together with the refresh token, may have expired*)
(* however recently it was issued, and a login with a wrong password is    *)
(* answered with 401 as well.                                              *)
(***************************************************************************)
EXTENDS RefreshTokens, Naturals

CONSTANTS
    Tabs,
    ApiCalls,       \* calls through the api client and its middleware
    FetchCalls,     \* calls through authorizedFetch
    TabOf,          \* the tab that makes a call
    Others,         \* requests of others who hold a copy of a token
    NoCall,
    MaxMishaps      \* how often in all, a bound: a reply is lost, a process or a
                    \* statement fails, a refresh starts beside another one, a
                    \* token is used elsewhere

Calls == ApiCalls \cup FetchCalls

\* A handler of the server is known by who asked: a call, the login form of a
\* tab, or somebody else.
ASSUME SessionConstants ==
    /\ Requests = Calls \cup Tabs \cup Others
    /\ ApiCalls \cap FetchCalls = {}
    /\ Calls \cap Tabs = {} /\ Others \cap (Calls \cup Tabs) = {}
    /\ TabOf \in [Calls -> Tabs]
    /\ NoCall \notin Calls
    /\ MaxMishaps \in Nat

VARIABLES
    stored,     \* the pair in localStorage, or NoToken
    call,       \* [Calls -> "idle" (or about to succeed), "refreshing", "waiting"]
    flight,     \* [Tabs -> the api call that runs refreshInFlight, or NoCall]
    seen        \* what the properties need to know of the past

clientVars == <<stored, call, flight, seen>>
vars == <<serverVars, clientVars>>

TypeOK ==
    /\ ServerTypeOK
    /\ stored \in Tokens \cup {NoToken}
    /\ call \in [Calls -> {"idle", "refreshing", "waiting"}]
    /\ flight \in [Tabs -> ApiCalls \cup {NoCall}]
    /\ seen \in [mishaps : Nat, lost : BOOLEAN, overlap : BOOLEAN, elsewhere : BOOLEAN]

\* `kind` of mishap happens.
Mishap(kind) ==
    /\ seen.mishaps < MaxMishaps
    /\ seen' = [seen EXCEPT !.mishaps = @ + 1,
                           !.lost = @ \/ kind = "lost",
                           !.overlap = @ \/ kind = "overlap",
                           !.elsewhere = @ \/ kind = "elsewhere"]

Refreshing == {c \in Calls : call[c] = "refreshing"}

\* The call c, which ran a refresh, ends, and with it those that waited for it:
\* all of them retry once, which needs no further state, or fail.
FinishRefresh(c) ==
    LET through == {c} \cup {w \in ApiCalls : /\ flight[TabOf[c]] = c
                                              /\ TabOf[w] = TabOf[c]
                                              /\ call[w] = "waiting"}
    IN  /\ call' = [x \in Calls |-> IF x \in through THEN "idle" ELSE call[x]]
        /\ flight' = [flight EXCEPT ![TabOf[c]] = IF @ = c THEN NoCall ELSE @]

-----------------------------------------------------------------------------
(* Calls *)

\* Mutant: every 401 starts a refresh of its own.
MustWaitNever(c) == FALSE

\* refreshInFlight ??= ...: an api call joins the refresh of its tab, if any
MustWait(c) == c \in ApiCalls /\ flight[TabOf[c]] # NoCall

\* The refreshes under way that no single flight is meant to prevent.
Crossed(c) == {d \in Refreshing : {c, d} \subseteq ApiCalls => TabOf[c] # TabOf[d]}

\* The call c is answered with 401, and joins the refresh of its tab ...
JoinRefresh(c) ==
    /\ call[c] = "idle"
    /\ MustWait(c)
    /\ call' = [call EXCEPT ![c] = "waiting"]
    /\ UNCHANGED <<serverVars, stored, flight, seen>>

\* ... or starts one, or, if nothing is stored, gives up and changes nothing.
\* (A handler may still be at work for an earlier refresh of c that was lost.)
StartRefresh(c) ==
    /\ call[c] = "idle"
    /\ ~MustWait(c)
    /\ stored # NoToken
    /\ Present(c, "refresh", stored)
    /\ call' = [call EXCEPT ![c] = "refreshing"]
    /\ flight' = IF c \in ApiCalls THEN [flight EXCEPT ![TabOf[c]] = c] ELSE flight
    /\ IF Crossed(c) = {} THEN UNCHANGED seen ELSE Mishap("overlap")
    /\ UNCHANGED stored

\* Mutant: the new pair is not stored.
PairToStoreOld(r) == IF request[r].reply = "pair" THEN stored ELSE NoToken

\* setTokens: the new pair, or null whatever the status of the refusal is
PairToStore(r) == IF request[r].reply = "pair" THEN request[r].pair ELSE NoToken

RefreshReply(c) ==
    /\ call[c] = "refreshing"
    /\ Collect(c)
    /\ stored' = PairToStore(c)
    /\ FinishRefresh(c)
    /\ UNCHANGED <<token, past, seen>>

\* The connection breaks, or the process of the server dies: fetch rejects, and
\* localStorage stays as it is.  The handler may still run to its end.
RefreshLost(c) ==
    /\ call[c] = "refreshing"
    /\ FinishRefresh(c)
    /\ Mishap("lost")
    /\ UNCHANGED <<serverVars, stored>>

\* A reply that nobody waits for.
Discard(r) ==
    /\ Collect(r)
    /\ r \in Calls => call[r] = "idle"
    /\ r \notin Tabs
    /\ UNCHANGED <<token, past, clientVars>>

-----------------------------------------------------------------------------
(* The user, others, the clock and the server *)

LogIn(tab) ==
    /\ StartLogin(tab)
    /\ UNCHANGED clientVars

\* setSession; a refusal only shows an error
LoginReply(tab) ==
    /\ Collect(tab)
    /\ stored' = IF request[tab].reply = "pair" THEN request[tab].pair ELSE stored
    /\ UNCHANGED <<token, past, call, flight, seen>>

\* The reply is lost: nobody ever has the pair, if there is one.
LoginLost(tab) ==
    /\ Collect(tab)
    /\ Mishap("failure")
    /\ UNCHANGED <<token, past, stored, call, flight>>

\* useAuth's logout: setSession(null), and nothing is said to the server
LogOut ==
    /\ stored # NoToken
    /\ stored' = NoToken
    /\ UNCHANGED <<serverVars, call, flight, seen>>

\* Somebody else uses a token: another program of the user's, or a thief.
UseElsewhere(r) ==
    /\ \E op \in {"refresh", "logout"}, t \in Tokens : Present(r, op, t)
    /\ Mishap("elsewhere")
    /\ UNCHANGED <<stored, call, flight>>

\* A handler makes its next statement, ...
ServerStep(r) ==
    /\ Find(r) \/ Kill(r) \/ Revoke(r) \/ Issue(r)
    /\ UNCHANGED clientVars

\* ... which may throw (and does, rather than end the behaviour, when the bounded
\* set of tokens is used up), ...
ServerFails(r) ==
    /\ Throw(r)
    /\ \/ Mishap("failure")
       \/ request[r].phase = "issue" /\ (Issued = Tokens \/ FreshFamilies = {}) /\ UNCHANGED seen
    /\ UNCHANGED <<stored, call, flight>>

\* ... or dies with its process, after its caller has given up on it.  (A refresh
\* whose process dies under it is RefreshLost followed by this; a login so fails.)
ServerDies(r) ==
    /\ Abort(r)
    /\ r \in Calls => call[r] = "idle"
    /\ r \notin Tabs
    /\ UNCHANGED clientVars

-----------------------------------------------------------------------------
(* The specification *)

Init ==
    /\ ServerInit
    /\ stored = NoToken
    /\ call = [c \in Calls |-> "idle"]
    /\ flight = [tab \in Tabs |-> NoCall]
    /\ seen = [mishaps |-> 0, lost |-> FALSE, overlap |-> FALSE, elsewhere |-> FALSE]

Next ==
    \/ \E c \in Calls : JoinRefresh(c) \/ StartRefresh(c) \/ RefreshReply(c) \/ RefreshLost(c)
    \/ \E tab \in Tabs : LogIn(tab) \/ LoginReply(tab) \/ LoginLost(tab)
    \/ \E r \in Others : UseElsewhere(r)
    \/ \E r \in Requests : ServerStep(r) \/ ServerFails(r) \/ ServerDies(r) \/ Discard(r)
    \/ LogOut
    \/ \E t \in Tokens : Expire(t) /\ UNCHANGED clientVars

Spec == Init /\ [][Next]_vars

-----------------------------------------------------------------------------
(* Properties *)

\* What the client's single flight is for: nobody but this browser has used its
\* tokens, every refresh was answered, and none was under way beside one of another
\* tab or of authorizedFetch, which the single flight does not cover.
Orderly == ~seen.lost /\ ~seen.overlap /\ ~seen.elsewhere

\* Then the server never takes the browser for a thief, ...
HonestSessionSurvives == Orderly => past.killed = {}

\* ... and whenever no refresh is under way, the pair in localStorage is the one
\* pair of its session that is not revoked, and with which the session can go on.
StoredPairIsLive ==
    Orderly /\ Refreshing = {} /\ stored # NoToken =>
        Unrevoked(token[stored].family) = {stored}

=============================================================================
