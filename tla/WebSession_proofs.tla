-------------------------- MODULE WebSession_proofs --------------------------
(***************************************************************************)
(* Theorems about WebSession: the server's guarantees hold whatever the    *)
(* tabs and others do, and it never takes an orderly browser for a thief.  *)
(***************************************************************************)
EXTENDS WebSession, RefreshTokens_proofs

LEMMA ServerStepOrStutter == [Next]_vars => [ServerNext]_serverVars
  <1> SUFFICES ASSUME [Next]_vars PROVE [ServerNext]_serverVars
    OBVIOUS
  <1> USE SessionConstants
  <1>1. ASSUME NEW c \in Calls,
               JoinRefresh(c) \/ StartRefresh(c) \/ RefreshReply(c) \/ RefreshLost(c)
        PROVE  ServerNext \/ UNCHANGED serverVars
    <2>1. c \in Requests
      OBVIOUS
    <2>2. CASE JoinRefresh(c) \/ RefreshLost(c)
      BY <2>2 DEF JoinRefresh, RefreshLost
    <2>3. CASE StartRefresh(c)
      <3>1. stored \in Tokens
        BY <2>3 DEF StartRefresh, Present, Issued
      <3> QED
        BY <2>1, <2>3, <3>1 DEF StartRefresh, ServerNext
    <2>4. CASE RefreshReply(c)
      BY <2>1, <2>4 DEF RefreshReply, ServerNext
    <2> QED
      BY <1>1, <2>2, <2>3, <2>4
  <1>2. ASSUME NEW tab \in Tabs, LogIn(tab) \/ LoginReply(tab) \/ LoginLost(tab)
        PROVE  ServerNext
    <2>1. tab \in Requests
      OBVIOUS
    <2> QED
      BY <1>2, <2>1 DEF LogIn, LoginReply, LoginLost, ServerNext
  <1>3. ASSUME NEW r \in Others, UseElsewhere(r) PROVE ServerNext
    <2>1. r \in Requests
      OBVIOUS
    <2> QED
      BY <1>3, <2>1 DEF UseElsewhere, ServerNext
  <1>4. ASSUME NEW r \in Requests,
               ServerStep(r) \/ ServerFails(r) \/ ServerDies(r) \/ Discard(r)
        PROVE  ServerNext
    BY <1>4 DEF ServerStep, ServerFails, ServerDies, Discard, ServerNext, Statement
  <1>5. CASE LogOut \/ UNCHANGED vars
    BY <1>5 DEF LogOut, vars
  <1>6. ASSUME NEW t \in Tokens, Expire(t) PROVE ServerNext
    BY <1>6 DEF ServerNext
  <1> QED
    BY <1>1, <1>2, <1>3, <1>4, <1>5, <1>6 DEF Next

\* The tabs and those who hold copies of their tokens use the server as anybody may.
THEOREM UsesServer == Spec => ServerSpec
  BY ServerStepOrStutter, PTL DEF Spec, Init, ServerSpec

\* So what the server promises to anybody holds end to end: rotation leaves no two
\* generations alive, no dead session is revived, and a session on which no two
\* handlers clash has one live token, or none once it has ended.
THEOREM SessionsAreSafe ==
    Spec => /\ [](RotatedIsRevoked /\ OneLiveToken /\ EndedSessionsAreDead)
            /\ DeadSessionsStayDead
  BY UsesServer, RotationIsSafe, OneTokenPerSession, EndedIsDead, DeadIsForever, PTL

-----------------------------------------------------------------------------
(* Types *)

LEMMA ServerTypes == Spec => []TypeInv
  BY UsesServer, TypeInvInit, StepKeepsTypes, PTL DEF ServerSpec

LEMMA MishapFacts ==
    ASSUME TypeOK, NEW kind, Mishap(kind)
    PROVE  /\ seen' \in [mishaps : Nat, lost : BOOLEAN, overlap : BOOLEAN, elsewhere : BOOLEAN]
           /\ Orderly' => Orderly /\ kind \notin {"lost", "overlap", "elsewhere"}
  <1>1. /\ seen \in [mishaps : Nat, lost : BOOLEAN, overlap : BOOLEAN, elsewhere : BOOLEAN]
        /\ seen' = [seen EXCEPT !.mishaps = seen.mishaps + 1,
                               !.lost = seen.lost \/ kind = "lost",
                               !.overlap = seen.overlap \/ kind = "overlap",
                               !.elsewhere = seen.elsewhere \/ kind = "elsewhere"]
    BY DEF TypeOK, Mishap
  <1>2. /\ seen'.mishaps = seen.mishaps + 1
        /\ seen'.lost = (seen.lost \/ kind = "lost")
        /\ seen'.overlap = (seen.overlap \/ kind = "overlap")
        /\ seen'.elsewhere = (seen.elsewhere \/ kind = "elsewhere")
    BY <1>1
  <1>3. seen' \in [mishaps : Nat, lost : BOOLEAN, overlap : BOOLEAN, elsewhere : BOOLEAN]
    <2>1. (seen.lost \/ kind = "lost") \in BOOLEAN
          /\ (seen.overlap \/ kind = "overlap") \in BOOLEAN
          /\ (seen.elsewhere \/ kind = "elsewhere") \in BOOLEAN
      BY Zenon
    <2>2. PICK n, a, b, e :
            /\ n = seen.mishaps + 1 /\ a = (seen.lost \/ kind = "lost")
            /\ b = (seen.overlap \/ kind = "overlap") /\ e = (seen.elsewhere \/ kind = "elsewhere")
      BY Zenon
    <2>3. n \in Nat /\ a \in BOOLEAN /\ b \in BOOLEAN /\ e \in BOOLEAN
      <3>1. n \in Nat
        BY <1>1, <2>2
      <3> QED
        BY <3>1, <2>1, <2>2, Zenon
    <2>4. seen' = [seen EXCEPT !.mishaps = n, !.lost = a, !.overlap = b, !.elsewhere = e]
      BY <1>1, <2>2, Zenon
    <2> QED
      BY <1>1, <2>3, <2>4
  <1> QED
    BY <1>2, <1>3 DEF Orderly

\* What the tabs do to their own state.
LEMMA FinishTypes ==
    ASSUME TypeOK, NEW c \in Calls, FinishRefresh(c)
    PROVE  /\ call' \in [Calls -> {"idle", "refreshing", "waiting"}]
           /\ flight' \in [Tabs -> ApiCalls \cup {NoCall}]
  <1>1. TabOf[c] \in Tabs
    BY SessionConstants
  <1> QED
    BY <1>1 DEF FinishRefresh, TypeOK

LEMMA TypeOKStep == TypeInv /\ TypeInv' /\ TypeOK /\ [Next]_vars => TypeOK'
  <1> SUFFICES ASSUME TypeInv, TypeInv', TypeOK, [Next]_vars PROVE TypeOK'
    OBVIOUS
  <1> DEFINE Seens == [mishaps : Nat, lost : BOOLEAN, overlap : BOOLEAN, elsewhere : BOOLEAN]
  <1>0. ServerTypeOK' /\ ServerTypeOK
    BY DEF TypeInv
  <1>1. CASE UNCHANGED clientVars
    BY <1>0, <1>1 DEF TypeOK, clientVars
  <1>2. ASSUME NEW c \in Calls, JoinRefresh(c) PROVE TypeOK'
    BY <1>0, <1>2 DEF JoinRefresh, TypeOK
  <1>3. ASSUME NEW c \in Calls, StartRefresh(c) PROVE TypeOK'
    <2>1. TabOf[c] \in Tabs
      BY SessionConstants
    <2>2. /\ call' \in [Calls -> {"idle", "refreshing", "waiting"}]
          /\ flight' \in [Tabs -> ApiCalls \cup {NoCall}] /\ stored' = stored
      BY <1>3, <2>1 DEF StartRefresh, TypeOK
    <2>3. seen' \in Seens
      BY <1>3, MishapFacts DEF StartRefresh, TypeOK
    <2> QED
      BY <1>0, <2>2, <2>3 DEF TypeOK
  <1>4. ASSUME NEW c \in Calls, RefreshReply(c) \/ RefreshLost(c) PROVE TypeOK'
    <2>1. c \in Requests /\ request[c].pair \in Tokens \cup {NoToken}
      BY <1>0, SessionConstants DEF ServerTypeOK, Handlers
    <2>2. stored' \in Tokens \cup {NoToken}
      BY <1>4, <2>1 DEF RefreshReply, RefreshLost, PairToStore, TypeOK
    <2>3. seen' \in Seens
      BY <1>4, MishapFacts DEF RefreshReply, RefreshLost, TypeOK
    <2> QED
      BY <1>0, <1>4, <2>2, <2>3, FinishTypes DEF RefreshReply, RefreshLost, TypeOK
  <1>5. ASSUME NEW tab \in Tabs, LoginReply(tab) \/ LoginLost(tab) PROVE TypeOK'
    <2>1. tab \in Requests /\ request[tab].pair \in Tokens \cup {NoToken}
      BY <1>0, SessionConstants DEF ServerTypeOK, Handlers
    <2>2. stored' \in Tokens \cup {NoToken} /\ UNCHANGED <<call, flight>>
      BY <1>5, <2>1 DEF LoginReply, LoginLost, TypeOK
    <2>3. seen' \in Seens
      BY <1>5, MishapFacts DEF LoginReply, LoginLost, TypeOK
    <2> QED
      BY <1>0, <2>2, <2>3 DEF TypeOK
  <1>6. ASSUME NEW r \in Requests, UseElsewhere(r) \/ ServerFails(r) PROVE TypeOK'
    <2>1. UNCHANGED <<stored, call, flight>>
      BY <1>6 DEF UseElsewhere, ServerFails
    <2>2. seen' \in Seens
      BY <1>6, MishapFacts DEF UseElsewhere, ServerFails, TypeOK
    <2> QED
      BY <1>0, <2>1, <2>2 DEF TypeOK
  <1>7. CASE LogOut
    BY <1>0, <1>7 DEF LogOut, TypeOK
  <1>8. ASSUME NEW r \in Requests, ServerStep(r) \/ ServerDies(r) \/ Discard(r) PROVE TypeOK'
    BY <1>1, <1>8 DEF ServerStep, ServerDies, Discard
  <1>9. ASSUME NEW tab \in Tabs, LogIn(tab) PROVE TypeOK'
    BY <1>1, <1>9 DEF LogIn
  <1>10. ASSUME NEW r \in Others, UseElsewhere(r) PROVE TypeOK'
    BY <1>6, <1>10, SessionConstants
  <1> QED
    BY <1>1, <1>2, <1>3, <1>4, <1>5, <1>6, <1>7, <1>8, <1>9, <1>10 DEF Next, vars

\* The types of the tabs and the server, for any numbers of tabs, calls and tokens.
THEOREM TypeCorrect == Spec => []TypeOK
  <1>1. Init /\ TypeInv => TypeOK
    BY DEF Init, TypeInv, TypeOK
  <1> QED
    BY <1>1, TypeOKStep, ServerTypes, PTL DEF Spec
-----------------------------------------------------------------------------
(* What keeps an orderly browser from being taken for a thief *)

\* Every handler of a call is that of its refresh, there is one refresh at a time,
\* and nobody but the login forms and that refresh is heard by the server.
OneAtATime ==
    /\ \A c \in Calls : IF call[c] = "refreshing"
                        THEN request[c].op = "refresh" /\ request[c].phase # "kill"
                        ELSE request[c] = NoRequest
    /\ \A tab \in Tabs : request[tab].op \in {"none", "login"}
    /\ \A r \in Others : request[r] = NoRequest
    /\ \A c, d \in Refreshing : c = d
    /\ \A c \in Refreshing \cap ApiCalls : flight[TabOf[c]] = c

\* The pair whose token t is has the session to itself.
Sole(t) == t \in Issued /\ Unrevoked(token[t].family) = {t}

AtRest == Refreshing = {} /\ stored # NoToken
StoredSole == AtRest => Sole(stored)

RefreshSole(c) ==
    /\ request[c].phase \in {"find", "revoke"} => Unrevoked(FamilyOf(c)) = {request[c].token}
    /\ request[c].phase = "issue" => Unrevoked(FamilyOf(c)) = {}
    /\ request[c].phase = "answered" /\ request[c].reply = "pair" =>
         Sole(request[c].pair) /\ token[request[c].pair].family = FamilyOf(c)

\* The form of the tab has been given a pair that it has not stored yet.
Handed(tab) == request[tab].phase = "answered" /\ request[tab].reply = "pair"
HandedFamily(tab) == token[request[tab].pair].family

\* No two of the forms, the refresh and localStorage have to do with one session.
Apart(tab) ==
    Handed(tab) =>
        /\ Sole(request[tab].pair)
        /\ \A other \in Tabs : Handed(other) /\ other # tab => HandedFamily(other) # HandedFamily(tab)
        /\ \A c \in Refreshing : FamilyOf(c) # HandedFamily(tab)
        /\ AtRest => token[stored].family # HandedFamily(tab)

Honest ==
    /\ past.killed = {}
    /\ OneAtATime
    /\ StoredSole
    /\ \A c \in Refreshing : RefreshSole(c)
    /\ \A tab \in Tabs : Apart(tab)

OrderlyIsHonest == Orderly => Honest

\* A pair keeps its session to itself while nothing happens to the session.
LEMMA SoleStays ==
    ASSUME TypeInv, TokensGrow, NEW t, Sole(t), NEW f, f = token[t].family,
           Unrevoked(f)' = Unrevoked(f)
    PROVE  Sole(t)' /\ token'[t].family = token[t].family
  <1>1. t \in Tokens /\ token[t].state # "unissued"
    BY DEF Sole, Issued
  <1>2. t \in Issued' /\ token'[t].family = f
    BY <1>1 DEF TokensGrow, Issued
  <1> QED
    BY <1>2 DEF Sole, Unrevoked

\* A token that is being refreshed stays in its session.
LEMMA RefresherFamily ==
    ASSUME TypeInv, TokensGrow, OneAtATime, NEW c \in Refreshing, request'[c].token = request[c].token
    PROVE  FamilyOf(c)' = FamilyOf(c)
  <1>1. c \in Requests /\ request[c].op = "refresh"
    BY SessionConstants DEF Refreshing, OneAtATime
  <1>2. request[c].token \in Tokens /\ token[request[c].token].state # "unissued"
    BY <1>1 DEF TypeInv, RequestOK
  <1> QED
    BY <1>2 DEF FamilyOf, TokensGrow

\* A step that starts and ends no refresh, and hands nothing out.
LEMMA HonestByParts ==
    ASSUME TypeInv, TokensGrow, Honest, past'.killed = {}, OneAtATime', Refreshing' = Refreshing,
           AtRest' => AtRest /\ stored' = stored,
           \A tab \in Tabs : Handed(tab)' => Handed(tab) /\ request'[tab].pair = request[tab].pair,
           \A c \in Refreshing : request'[c].token = request[c].token /\ RefreshSole(c)',
           \A f \in Families : (\A c \in Refreshing : FamilyOf(c) # f) =>
                               Unrevoked(f)' = Unrevoked(f)
    PROVE  Honest'
  <1>1. \A t : Sole(t) => token[t].family \in Families
    BY DEF Sole, Issued, TypeInv, TokensOK
  <1>2. ASSUME NEW t, Sole(t), \A c \in Refreshing : FamilyOf(c) # token[t].family
        PROVE  Sole(t)' /\ token'[t].family = token[t].family
    BY <1>1, <1>2, SoleStays
  <1>3. \A c \in Refreshing : FamilyOf(c)' = FamilyOf(c)
    BY RefresherFamily DEF Honest
  <1>4. StoredSole'
    <2> SUFFICES ASSUME AtRest' PROVE Sole(stored)'
      BY DEF StoredSole
    <2>1. AtRest /\ stored' = stored /\ Sole(stored)
      BY DEF Honest, StoredSole
    <2>2. PICK t : t = stored
      OBVIOUS
    <2>3. Sole(t)'
      BY <1>2, <2>1, <2>2 DEF AtRest
    <2> QED
      BY <2>1, <2>2, <2>3 DEF Sole
  <1>5. ASSUME NEW tab \in Tabs, Handed(tab)'
        PROVE  /\ Handed(tab) /\ Sole(request[tab].pair)' /\ HandedFamily(tab)' = HandedFamily(tab)
               /\ request'[tab].pair = request[tab].pair
    <2>1. PICK t : t = request[tab].pair
      OBVIOUS
    <2>2. /\ Handed(tab) /\ request'[tab].pair = t /\ Sole(t)
          /\ \A c \in Refreshing : FamilyOf(c) # token[t].family
      BY <1>5, <2>1 DEF Honest, Apart, HandedFamily
    <2>3. Sole(t)' /\ token'[t].family = token[t].family
      BY <1>2, <2>2
    <2> QED
      BY <2>1, <2>2, <2>3 DEF Sole, HandedFamily
  <1>6. ASSUME NEW tab \in Tabs PROVE Apart(tab)'
    <2> SUFFICES ASSUME Handed(tab)'
                 PROVE  /\ Sole(request[tab].pair)'
                        /\ \A other \in Tabs : Handed(other)' /\ other # tab =>
                             HandedFamily(other)' # HandedFamily(tab)'
                        /\ \A c \in Refreshing' : FamilyOf(c)' # HandedFamily(tab)'
                        /\ AtRest' => token'[stored'].family # HandedFamily(tab)'
      BY DEF Apart
    <2>1. Apart(tab) /\ Handed(tab)
      BY <1>5 DEF Honest
    <2>2. AtRest' => token'[stored'].family # HandedFamily(tab)'
      <3> SUFFICES ASSUME AtRest' PROVE token'[stored].family # HandedFamily(tab)
        BY <1>5
      <3>1. AtRest /\ Sole(stored)
        BY DEF Honest, StoredSole
      <3>2. token'[stored].family = token[stored].family
        BY <1>2, <3>1 DEF AtRest
      <3> QED
        BY <2>1, <3>1, <3>2 DEF Apart
    <2> QED
      BY <1>3, <1>5, <2>1, <2>2 DEF Apart
  <1> QED
    BY <1>4, <1>6 DEF Honest

\* The records of OneAtATime when one handler changes.
LEMMA OneAtATimeByParts ==
    ASSUME ServerTypeOK, OneAtATime, NEW r \in Calls \cup Tabs, NEW h, request' = [request EXCEPT ![r] = h],
           UNCHANGED <<call, flight>>,
           r \in Calls => call[r] = "refreshing" /\ h.op = "refresh" /\ h.phase # "kill",
           r \in Tabs => h.op \in {"none", "login"}
    PROVE  OneAtATime' /\ Refreshing' = Refreshing
  <1>1. /\ r \in Requests /\ request'[r] = h
        /\ \A s \in Requests : s # r => request'[s] = request[s]
    BY SessionConstants DEF ServerTypeOK
  <1>2. Refreshing' = Refreshing
    BY DEF Refreshing
  <1> QED
    BY <1>1, <1>2, SessionConstants DEF OneAtATime

\* Whose handler may be where.
LEMMA WhoIsServed ==
    ASSUME TypeInv, OneAtATime, NEW r \in Requests, request[r] # NoRequest
    PROVE  /\ r \in Refreshing \/ r \in Tabs
           /\ request[r].phase \in {"find", "revoke"} => r \in Refreshing
           /\ request[r].phase # "kill"
  <1>1. RequestOK(r) /\ (r \in Calls \/ r \in Tabs \/ r \in Others)
    BY SessionConstants DEF TypeInv
  <1> QED
    BY <1>1 DEF OneAtATime, Refreshing, RequestOK

LEMMA RefresherFacts ==
    ASSUME TypeInv, Honest, NEW c \in Refreshing
    PROVE  /\ c \in Calls /\ c \in Requests /\ call[c] = "refreshing" /\ c \notin Tabs
           /\ request[c].op = "refresh" /\ request[c].token \in Tokens
           /\ token[request[c].token].state # "unissued"
           /\ FamilyOf(c) \in Families /\ RefreshSole(c)
           /\ \A d \in Refreshing : d = c
  <1>1. c \in Calls /\ c \in Requests /\ call[c] = "refreshing" /\ c \notin Tabs
    BY SessionConstants DEF Refreshing
  <1>2. request[c].op = "refresh" /\ RefreshSole(c) /\ \A d \in Refreshing : d = c
    BY <1>1 DEF Honest, OneAtATime
  <1> QED
    BY <1>1, <1>2, FamilyOfType DEF TypeInv, RequestOK

\* A step of the handler of the one refresh that changes at most its own session.
LEMMA RefreshStep ==
    ASSUME TypeInv, TokensGrow, Honest, NEW c \in Refreshing, NEW h,
           request' = [request EXCEPT ![c] = h], h.op = request[c].op, h.token = request[c].token,
           h.phase # "kill", RefreshSole(c)', past'.killed = {}, UNCHANGED <<stored, call, flight>>,
           \A f \in Families : FamilyOf(c) # f => Unrevoked(f)' = Unrevoked(f)
    PROVE  Honest'
  <1>1. c \in Calls /\ call[c] = "refreshing" /\ c \in Requests /\ c \notin Tabs
        /\ request[c].op = "refresh" /\ \A d \in Refreshing : d = c
    BY RefresherFacts
  <1>2. OneAtATime' /\ Refreshing' = Refreshing
    BY <1>1, OneAtATimeByParts DEF Honest, TypeInv
  <1>3. request'[c] = h /\ \A s \in Tabs : request'[s] = request[s]
    BY <1>1, SessionConstants DEF TypeInv, ServerTypeOK
  <1>4. \A tab \in Tabs : Handed(tab)' => Handed(tab) /\ request'[tab].pair = request[tab].pair
    BY <1>3 DEF Handed
  <1>5. AtRest' => AtRest /\ stored' = stored
    BY <1>2 DEF AtRest
  <1> QED
    BY <1>1, <1>2, <1>3, <1>4, <1>5, HonestByParts

LEMMA FindHonest ==
    ASSUME TypeInv, TokensGrow, Honest, NEW r \in Requests, Find(r), UNCHANGED <<stored, call, flight>>
    PROVE  Honest'
  <1>1. r \in Refreshing /\ request[r].phase = "find"
    BY WhoIsServed DEF Find, Honest, NoRequest
  <1>2. /\ request[r].op = "refresh" /\ Unrevoked(FamilyOf(r)) = {request[r].token} /\ r \in Requests
    BY <1>1, RefresherFacts DEF RefreshSole
  <1>3. token[request[r].token].state # "revoked"
    BY <1>2 DEF Unrevoked
  <1>4. Answer(r, "refused", NoToken) \/ Proceed(r, "revoke")
    BY <1>2, <1>3, FindCases DEF Find
  <1>5. PICK h : h = request'[r]
    OBVIOUS
  <1>6. /\ request' = [request EXCEPT ![r] = h] /\ h.op = request[r].op
        /\ h.token = request[r].token /\ h.phase # "kill"
        /\ \/ h.phase = "answered" /\ h.reply = "refused"
           \/ h.phase = "revoke"
    BY <1>2, <1>4, <1>5 DEF TypeInv, ServerTypeOK, Handlers, Answer, Answered, Proceed
  <1>7. token' = token /\ past'.killed = {}
    BY DEF Find, Honest, TypeInv, ServerTypeOK, Pasts
  <1>8. RefreshSole(r)'
    BY <1>2, <1>5, <1>6, <1>7 DEF RefreshSole, FamilyOf, Unrevoked
  <1>9. \A f \in Families : Unrevoked(f)' = Unrevoked(f)
    BY <1>7 DEF Unrevoked
  <1> QED
    BY <1>1, <1>6, <1>7, <1>8, <1>9, RefreshStep

LEMMA RevokeHonest ==
    ASSUME TypeInv, TokensGrow, Honest, NEW r \in Requests, Revoke(r), UNCHANGED <<stored, call, flight>>
    PROVE  Honest'
  <1>1. r \in Refreshing /\ request[r].phase = "revoke"
    BY WhoIsServed DEF Revoke, Honest, NoRequest
  <1>2. /\ request[r].op = "refresh" /\ Unrevoked(FamilyOf(r)) = {request[r].token} /\ r \in Requests
        /\ request[r].token \in Tokens /\ token[request[r].token].state # "unissued"
    BY <1>1, RefresherFacts DEF RefreshSole
  <1>3. Proceed(r, "issue") /\ past' = past
    BY <1>2 DEF Revoke
  <1>4. PICK h : h = request'[r]
    OBVIOUS
  <1>5. /\ request' = [request EXCEPT ![r] = h] /\ h.op = request[r].op
        /\ h.token = request[r].token /\ h.phase = "issue"
    BY <1>2, <1>3, <1>4 DEF TypeInv, ServerTypeOK, Handlers, Proceed
  <1>6. /\ token' = [token EXCEPT ![request[r].token].state = "revoked"]
        /\ token \in [Tokens -> TokenRows]
    BY DEF Revoke, TypeInv, ServerTypeOK
  <1>7. /\ token'[request[r].token].state = "revoked"
        /\ token'[request[r].token].family = FamilyOf(r)
        /\ \A t \in Tokens : t # request[r].token => token'[t] = token[t]
    BY <1>2, <1>6 DEF TokenRows, FamilyOf
  <1>8. \A f \in Families : FamilyOf(r) # f => Unrevoked(f)' = Unrevoked(f)
    BY <1>7 DEF Unrevoked, FamilyOf
  <1>9. Unrevoked(FamilyOf(r))' = {}
    <2>1. FamilyOf(r)' = FamilyOf(r)
      BY <1>4, <1>5, <1>7 DEF FamilyOf
    <2>2. \A t \in Unrevoked(FamilyOf(r))' : t = request[r].token
      BY <1>2, <1>7, <2>1 DEF Unrevoked
    <2> QED
      BY <1>7, <2>1, <2>2 DEF Unrevoked
  <1>10. RefreshSole(r)'
    BY <1>4, <1>5, <1>9 DEF RefreshSole
  <1> QED
    BY <1>1, <1>3, <1>5, <1>8, <1>10, RefreshStep DEF Honest

LEMMA ThrowHonest ==
    ASSUME TypeInv, TokensGrow, Honest, NEW r \in Requests, Throw(r), UNCHANGED <<stored, call, flight>>
    PROVE  Honest'
  <1>1. PICK h : h = Answered(r, "error", NoToken)
    OBVIOUS
  <1>2. /\ h.op = request[r].op /\ h.token = request[r].token
        /\ h.phase = "answered" /\ h.reply = "error"
        /\ request' = [request EXCEPT ![r] = h] /\ request'[r] = h
        /\ UNCHANGED <<token, past>> /\ request[r] # NoRequest
    BY <1>1 DEF Throw, Answer, Answered, TypeInv, ServerTypeOK, NoRequest
  <1>3. \A f \in Families : Unrevoked(f)' = Unrevoked(f)
    BY <1>2 DEF Unrevoked
  <1>4. CASE r \in Refreshing
    <2>1. RefreshSole(r)'
      BY <1>2 DEF RefreshSole
    <2> QED
      BY <1>2, <1>3, <1>4, <2>1, RefreshStep DEF Honest
  <1>5. CASE r \in Tabs
    <2>1. request[r].op \in {"none", "login"} /\ r \notin Calls
      BY <1>5, SessionConstants DEF Honest, OneAtATime
    <2>2. OneAtATime' /\ Refreshing' = Refreshing
      BY <1>2, <1>5, <2>1, OneAtATimeByParts DEF Honest, TypeInv
    <2>3. \A s \in Requests : s # r => request'[s] = request[s]
      BY <1>2 DEF TypeInv, ServerTypeOK
    <2>4. \A tab \in Tabs : Handed(tab)' => Handed(tab) /\ request'[tab].pair = request[tab].pair
      BY <1>2, <2>3, SessionConstants DEF Handed
    <2>5. \A c \in Refreshing : request'[c] = request[c] /\ RefreshSole(c)
      BY <2>1, <2>3, RefresherFacts
    <2>6. \A c \in Refreshing : request'[c].token = request[c].token /\ RefreshSole(c)'
      BY <1>2, <2>5 DEF RefreshSole, FamilyOf, Sole, Issued, Unrevoked
    <2>7. AtRest' => AtRest /\ stored' = stored
      BY <2>2 DEF AtRest
    <2> QED
      BY <1>2, <1>3, <2>2, <2>4, <2>6, <2>7, HonestByParts DEF Honest
  <1> QED
    BY <1>2, <1>4, <1>5, WhoIsServed DEF Honest

\* A refresh or a login issues a pair.
LEMMA IssueHonest ==
    ASSUME TypeInv, TokensGrow, Honest, NEW r \in Requests, Issue(r), UNCHANGED <<stored, call, flight>>
    PROVE  Honest'
  <1>1. PICK t \in Tokens, f \in Families :
          /\ token[t].state = "unissued"
          /\ token' = [token EXCEPT ![t] =
                         [state |-> "live", family |-> f, parent |-> request[r].token]]
          /\ Answer(r, "pair", t)
          /\ \/ request[r].op = "login" /\ f \in FreshFamilies
             \/ request[r].op = "refresh" /\ f = FamilyOf(r)
    BY IssueGrows
  <1>2. PICK h : h = Answered(r, "pair", t)
    OBVIOUS
  <1>3. /\ h.op = request[r].op /\ h.token = request[r].token
        /\ h.phase = "answered" /\ h.reply = "pair" /\ h.pair = t
        /\ request' = [request EXCEPT ![r] = h] /\ request'[r] = h
        /\ past' = past /\ past'.killed = {} /\ request[r] # NoRequest /\ request[r].phase = "issue"
        /\ \A s \in Requests : s # r => request'[s] = request[s]
    <2>1. /\ h.op = request[r].op /\ h.token = request[r].token
          /\ h.phase = "answered" /\ h.reply = "pair" /\ h.pair = t
      BY <1>2 DEF Answered
    <2>2. request' = [request EXCEPT ![r] = h] /\ request \in [Requests -> Handlers]
      BY <1>1, <1>2 DEF Answer, TypeInv, ServerTypeOK
    <2>3. past' = past /\ past'.killed = {} /\ request[r].phase = "issue"
      BY DEF Issue, Honest
    <2>4. request[r] # NoRequest
      BY <2>3 DEF NoRequest
    <2> QED
      BY <2>1, <2>2, <2>3, <2>4
  <1>4. /\ token'[t].family = f /\ token'[t].state = "live"
        /\ \A u \in Tokens : u # t => token'[u] = token[u]
        /\ token[t].family = NoFamily /\ f # NoFamily
    BY <1>1, TokenConstants DEF TypeInv, ServerTypeOK, TokensOK, Unissued
  <1>5. /\ \A g \in Families : g # f => Unrevoked(g)' = Unrevoked(g)
        /\ Unrevoked(f)' = Unrevoked(f) \cup {t}
    BY <1>1, <1>4 DEF Unrevoked
  <1>6. CASE r \in Refreshing
    <2>1. request[r].op = "refresh" /\ f = FamilyOf(r) /\ Unrevoked(f) = {}
          /\ request[r].token \in Tokens /\ token[request[r].token].state # "unissued"
      BY <1>1, <1>3, <1>6, RefresherFacts DEF RefreshSole
    <2>2. FamilyOf(r)' = f
      BY <1>1, <1>3, <1>4, <2>1 DEF FamilyOf
    <2>3. Sole(t)'
      BY <1>1, <1>4, <1>5, <2>1 DEF Sole, Issued, Unrevoked
    <2>4. RefreshSole(r)'
      BY <1>3, <1>4, <2>2, <2>3 DEF RefreshSole, Sole
    <2> QED
      BY <1>3, <1>5, <1>6, <2>1, <2>4, RefreshStep DEF Honest
  <1>7. CASE r \in Tabs
    <2>1. /\ request[r].op \in {"none", "login"} /\ r \notin Calls
          /\ f \in FreshFamilies
      BY <1>1, <1>7, SessionConstants DEF Honest, OneAtATime
    <2>2. OneAtATime' /\ Refreshing' = Refreshing
      BY <1>3, <1>7, <2>1, OneAtATimeByParts DEF Honest, TypeInv
    <2>3. \A u \in Tokens : token[u].family # f
      BY <2>1 DEF FreshFamilies
    <2>4. Unrevoked(f) = {}
      BY <2>3 DEF Unrevoked
    <2>5. Sole(t)'
      BY <1>1, <1>4, <1>5, <2>4 DEF Sole, Issued, Unrevoked
    <2>6. ASSUME NEW u, Sole(u)
          PROVE  Sole(u)' /\ token'[u].family = token[u].family /\ token[u].family # f
      <3>1. u \in Tokens /\ token[u].family # f /\ token[u].family \in Families
        BY <2>3, <2>6 DEF Sole, Issued, TypeInv, TokensOK
      <3> QED
        BY <2>6, <3>1, <1>5, SoleStays
    <2>7. ASSUME NEW c \in Refreshing
          PROVE  /\ request'[c] = request[c] /\ FamilyOf(c)' = FamilyOf(c) /\ FamilyOf(c) # f
                 /\ RefreshSole(c)'
      <3>1. /\ c \in Requests /\ c # r /\ request'[c] = request[c] /\ request[c].token \in Tokens
            /\ FamilyOf(c) \in Families /\ RefreshSole(c)
        BY <1>3, <1>7, RefresherFacts
      <3>2. FamilyOf(c) # f
        BY <2>3, <3>1 DEF FamilyOf
      <3>3. FamilyOf(c)' = FamilyOf(c)
        BY <3>1, RefresherFamily DEF Honest
      <3>4. Unrevoked(FamilyOf(c))' = Unrevoked(FamilyOf(c))
        BY <3>1, <3>2, <3>3, <1>5 DEF Unrevoked
      <3>5. PICK p : p = request[c].pair
        OBVIOUS
      <3>6. Sole(p) => Sole(p)' /\ token'[p].family = token[p].family
        BY <2>6
      <3>7. request'[c].pair = p /\ (Sole(p)' => Sole(request[c].pair)')
        BY <3>1, <3>5 DEF Sole
      <3> QED
        BY <3>1, <3>2, <3>3, <3>4, <3>5, <3>6, <3>7 DEF RefreshSole
    <2>8. StoredSole'
      <3> SUFFICES ASSUME AtRest' PROVE Sole(stored)'
        BY DEF StoredSole
      <3>1. Sole(stored)
        BY <2>2 DEF AtRest, Honest, StoredSole
      <3>2. PICK u : u = stored
        OBVIOUS
      <3> QED
        BY <2>6, <3>1, <3>2 DEF Sole
    <2>9. /\ Handed(r)' /\ HandedFamily(r)' = f
          /\ Sole(request[r].pair)'
      BY <1>3, <1>4, <2>5 DEF Handed, HandedFamily, Sole
    <2>10. ASSUME NEW tab \in Tabs, tab # r, Handed(tab)'
           PROVE  /\ Handed(tab) /\ Sole(request[tab].pair)'
                  /\ HandedFamily(tab)' = HandedFamily(tab) /\ HandedFamily(tab) # f
      <3>1. request'[tab] = request[tab] /\ Handed(tab)
        BY <1>3, <2>10, SessionConstants DEF Handed
      <3>2. PICK u : u = request[tab].pair /\ Sole(u)
        BY <2>10, <3>1 DEF Honest, Apart
      <3>3. Sole(u)' /\ token'[u].family = token[u].family /\ token[u].family # f
        BY <2>6, <3>2
      <3> QED
        BY <3>1, <3>2, <3>3 DEF Sole, HandedFamily
    <2>11. AtRest' => AtRest /\ token'[stored'].family = token[stored].family /\ token[stored].family # f
      BY <2>2, <2>6 DEF AtRest, Honest, StoredSole
    <2>12. ASSUME NEW tab \in Tabs PROVE Apart(tab)'
      <3>1. CASE tab = r
        BY <3>1, <2>2, <2>7, <2>9, <2>10, <2>11 DEF Apart
      <3>2. CASE tab # r
        <4>1. Apart(tab)
          BY DEF Honest
        <4> QED
          BY <3>2, <4>1, <2>2, <2>7, <2>9, <2>10, <2>11 DEF Apart
      <3> QED
        BY <3>1, <3>2
    <2>13. \A c \in Refreshing' : RefreshSole(c)'
      BY <2>2, <2>7
    <2> QED
      BY <1>3, <2>2, <2>8, <2>12, <2>13 DEF Honest
  <1> QED
    BY <1>3, <1>6, <1>7, WhoIsServed DEF Honest

LEMMA ExpireHonest ==
    ASSUME TypeInv, TokensGrow, Honest,
           UNCHANGED <<request, past, stored, call, flight>>,
           token' = token \/ \E t \in Tokens : Expire(t)
    PROVE  Honest'
  <1>1. \A f \in Families : Unrevoked(f)' = Unrevoked(f)
    BY DEF Unrevoked, Expire, TypeInv, ServerTypeOK, TokenRows
  <1>2. OneAtATime' /\ Refreshing' = Refreshing /\ (AtRest' => AtRest)
    BY DEF Honest, OneAtATime, Refreshing, AtRest
  <1>3. ASSUME NEW c \in Refreshing PROVE RefreshSole(c)'
    <2>1. FamilyOf(c) \in Families /\ RefreshSole(c) /\ FamilyOf(c)' = FamilyOf(c)
      BY RefresherFacts, RefresherFamily DEF Honest
    <2>2. Unrevoked(FamilyOf(c))' = Unrevoked(FamilyOf(c))
      BY <1>1, <2>1 DEF Unrevoked
    <2>3. PICK p : p = request[c].pair
      OBVIOUS
    <2>4. Sole(p) => Sole(p)' /\ token'[p].family = token[p].family
      <3>1. Sole(p) => token[p].family \in Families
        BY DEF Sole, Issued, TypeInv, TokensOK
      <3> QED
        BY <1>1, <3>1, SoleStays
    <2>5. Sole(p)' => Sole(request[c].pair)'
      BY <2>3 DEF Sole
    <2> QED
      BY <2>1, <2>2, <2>3, <2>4, <2>5 DEF RefreshSole
  <1>4. \A tab \in Tabs : Handed(tab)' => Handed(tab)
    BY DEF Handed
  <1> QED
    BY <1>1, <1>2, <1>3, <1>4, HonestByParts DEF Honest

\* A form that asks, gives up or has nothing to store.
LEMMA FormHonest ==
    ASSUME TypeInv, TokensGrow, Honest, NEW tab \in Tabs,
           request'[tab].op \in {"none", "login"}, request'[tab].phase # "answered",
           \A s \in Requests : s # tab => request'[s] = request[s],
           UNCHANGED <<token, past, call, flight>>,
           AtRest' => AtRest /\ stored' = stored
    PROVE  Honest'
  <1>1. OneAtATime' /\ Refreshing' = Refreshing
    <2>1. Refreshing' = Refreshing
      BY DEF Refreshing
    <2> QED
      BY <2>1, SessionConstants DEF Honest, OneAtATime
  <1>2. \A other \in Tabs : Handed(other)' =>
          Handed(other) /\ request'[other].pair = request[other].pair
    BY SessionConstants DEF Handed
  <1>3. \A c \in Refreshing : request'[c] = request[c] /\ RefreshSole(c)
    BY RefresherFacts
  <1>4. \A c \in Refreshing : request'[c].token = request[c].token /\ RefreshSole(c)'
    BY <1>3 DEF RefreshSole, FamilyOf, Sole, Issued, Unrevoked
  <1>5. \A f \in Families : Unrevoked(f)' = Unrevoked(f)
    BY DEF Unrevoked
  <1> QED
    BY <1>1, <1>2, <1>4, <1>5, HonestByParts DEF Honest

LEMMA LogInHonest ==
    ASSUME TypeInv, TokensGrow, Honest, NEW tab \in Tabs, LogIn(tab) \/ LoginLost(tab)
    PROVE  Honest'
  <1>1. PICK h : /\ request' = [request EXCEPT ![tab] = h]
                 /\ h.op \in {"none", "login"} /\ h.phase # "answered"
    <2>1. /\ NoRequest.op = "none" /\ NoRequest.phase = "idle"
          /\ [NoRequest EXCEPT !.op = "login", !.phase = "issue"].op = "login"
          /\ [NoRequest EXCEPT !.op = "login", !.phase = "issue"].phase = "issue"
      BY DEF NoRequest
    <2> QED
      BY <2>1 DEF LogIn, StartLogin, LoginLost, Collect
  <1>2. /\ request'[tab].op \in {"none", "login"} /\ request'[tab].phase # "answered"
        /\ \A s \in Requests : s # tab => request'[s] = request[s]
    BY <1>1, SessionConstants DEF TypeInv, ServerTypeOK
  <1>3. UNCHANGED <<token, past, stored, call, flight>>
    BY DEF LogIn, StartLogin, LoginLost, clientVars
  <1>4. AtRest' => AtRest /\ stored' = stored
    BY <1>3 DEF AtRest, Refreshing
  <1> QED
    BY <1>2, <1>3, <1>4, FormHonest

LEMMA LogOutHonest ==
    ASSUME TypeInv, TokensGrow, Honest, LogOut
    PROVE  Honest'
  <1>1. UNCHANGED <<token, request, past, call, flight>> /\ ~AtRest'
    BY DEF LogOut, serverVars, AtRest
  <1>2. OneAtATime' /\ Refreshing' = Refreshing
    BY <1>1 DEF Honest, OneAtATime, Refreshing
  <1>3. \A c \in Refreshing : RefreshSole(c)'
    BY <1>1 DEF Honest, RefreshSole, FamilyOf, Sole, Issued, Unrevoked
  <1>4. \A f \in Families : Unrevoked(f)' = Unrevoked(f)
    BY <1>1 DEF Unrevoked
  <1>5. \A tab \in Tabs : Handed(tab)' => Handed(tab)
    BY <1>1 DEF Handed
  <1> QED
    BY <1>1, <1>2, <1>3, <1>4, <1>5, HonestByParts DEF Honest

LEMMA JoinHonest ==
    ASSUME TypeInv, TokensGrow, TypeOK, Honest, NEW c \in Calls, JoinRefresh(c)
    PROVE  Honest'
  <1>1. /\ UNCHANGED <<token, request, past, stored, flight>>
        /\ call[c] = "idle" /\ call' = [call EXCEPT ![c] = "waiting"]
    BY DEF JoinRefresh, serverVars
  <1>2. /\ call'[c] = "waiting" /\ \A d \in Calls : d # c => call'[d] = call[d]
    BY <1>1 DEF TypeOK
  <1>3. Refreshing' = Refreshing
    BY <1>1, <1>2 DEF Refreshing
  <1>4. OneAtATime'
    BY <1>1, <1>2, <1>3 DEF Honest, OneAtATime
  <1>5. \A d \in Refreshing : RefreshSole(d)'
    BY <1>1 DEF Honest, RefreshSole, FamilyOf, Sole, Issued, Unrevoked
  <1>6. \A f \in Families : Unrevoked(f)' = Unrevoked(f)
    BY <1>1 DEF Unrevoked
  <1>7. \A tab \in Tabs : Handed(tab)' => Handed(tab)
    BY <1>1 DEF Handed
  <1>8. AtRest' => AtRest
    BY <1>1, <1>3 DEF AtRest
  <1> QED
    BY <1>1, <1>3, <1>4, <1>5, <1>6, <1>7, <1>8, HonestByParts DEF Honest

\* setSession: what the form has been given takes the place of what was stored.
LEMMA LoginReplyHonest ==
    ASSUME TypeInv, TokensGrow, TypeOK, Honest, NEW tab \in Tabs, LoginReply(tab)
    PROVE  Honest'
  <1>1. /\ request[tab].phase = "answered" /\ request' = [request EXCEPT ![tab] = NoRequest]
        /\ token' = token /\ past' = past /\ call' = call /\ flight' = flight
        /\ stored' = IF request[tab].reply = "pair" THEN request[tab].pair ELSE stored
    BY DEF LoginReply, Collect
  <1>2. NoRequest.op = "none" /\ NoRequest.phase = "idle"
    BY DEF NoRequest
  <1>3. CASE request[tab].reply # "pair"
    <2>1. AtRest' => AtRest /\ stored' = stored
      BY <1>1, <1>3 DEF AtRest, Refreshing
    <2>2. /\ request'[tab].op \in {"none", "login"} /\ request'[tab].phase # "answered"
          /\ \A s \in Requests : s # tab => request'[s] = request[s]
      BY <1>1, <1>2, SessionConstants DEF TypeInv, ServerTypeOK
    <2> QED
      BY <1>1, <2>1, <2>2, FormHonest
  <1>4. CASE request[tab].reply = "pair"
    <2>1. Handed(tab) /\ Apart(tab) /\ stored' = request[tab].pair
      BY <1>1, <1>4 DEF Handed, Honest
    <2>2. OneAtATime' /\ Refreshing' = Refreshing
      <3>1. tab \notin Calls
        BY SessionConstants
      <3> QED
        BY <1>1, <1>2, <3>1, OneAtATimeByParts DEF Honest, TypeInv
    <2>3. /\ request'[tab] = NoRequest
          /\ \A s \in Requests : s # tab => request'[s] = request[s]
      BY <1>1, SessionConstants DEF TypeInv, ServerTypeOK
    <2>4. \A t : Sole(t) => Sole(t)'
      BY <1>1 DEF Sole, Issued, Unrevoked
    <2>5. StoredSole'
      BY <2>1 , <1>1 DEF StoredSole, Apart, Sole, Issued, Unrevoked
    <2>6. ASSUME NEW c \in Refreshing
          PROVE  RefreshSole(c)' /\ FamilyOf(c)' = FamilyOf(c)
      <3>1. request'[c] = request[c] /\ RefreshSole(c)
        BY <2>3, RefresherFacts
      <3> QED
        BY <1>1, <3>1 DEF RefreshSole, FamilyOf, Sole, Issued, Unrevoked
    <2>7. ASSUME NEW other \in Tabs, Handed(other)'
          PROVE  /\ other # tab /\ Handed(other) /\ request'[other] = request[other]
                 /\ HandedFamily(other)' = HandedFamily(other)
      <3>1. other # tab
        BY <1>2, <2>3, <2>7 DEF Handed
      <3>2. request'[other] = request[other]
        BY <2>3, <3>1, SessionConstants
      <3> QED
        BY <1>1, <2>7, <3>1, <3>2 DEF Handed, HandedFamily
    <2>8. ASSUME NEW other \in Tabs PROVE Apart(other)'
      <3> SUFFICES ASSUME Handed(other)'
                   PROVE  /\ Sole(request[other].pair)'
                          /\ \A third \in Tabs : Handed(third)' /\ third # other =>
                               HandedFamily(third)' # HandedFamily(other)'
                          /\ \A c \in Refreshing' : FamilyOf(c)' # HandedFamily(other)'
                          /\ AtRest' => token'[stored'].family # HandedFamily(other)'
        BY DEF Apart
      <3>1. Apart(other) /\ Handed(other) /\ other # tab /\ request'[other] = request[other]
        BY <2>7 DEF Honest
      <3>2. Sole(request[other].pair)'
        BY <1>1, <3>1 DEF Apart, Sole, Issued, Unrevoked
      <3>3. token'[stored'].family = HandedFamily(tab)
        BY <1>1, <2>1 DEF HandedFamily
      <3> QED
        BY <2>1, <2>2, <2>6, <2>7, <3>1, <3>2, <3>3 DEF Apart
    <2> QED
      BY <1>1, <2>2, <2>5, <2>6, <2>8 DEF Honest
  <1> QED
    BY <1>3, <1>4

\* A call that starts the one refresh presents what is stored.
LEMMA StartRefreshHonest ==
    ASSUME TypeInv, TypeOK, Honest, NEW c \in Calls, StartRefresh(c), Crossed(c) = {}
    PROVE  Honest'
  <1>1. PICK h : h = [NoRequest EXCEPT !.op = "refresh", !.phase = "find", !.token = stored]
    OBVIOUS
  <1>2. h.op = "refresh" /\ h.phase = "find" /\ h.token = stored
    BY <1>1 DEF NoRequest
  <1>3. /\ call[c] = "idle" /\ stored # NoToken /\ request[c] = NoRequest
        /\ token' = token /\ past' = past /\ stored' = stored
        /\ call' = [call EXCEPT ![c] = "refreshing"]
        /\ request' = [request EXCEPT ![c] = h]
    BY <1>1 DEF StartRefresh, Present
  <1>4. Refreshing = {}
    <2> SUFFICES ASSUME NEW d \in Refreshing PROVE FALSE
      OBVIOUS
    <2>1. {c, d} \subseteq ApiCalls /\ TabOf[c] = TabOf[d]
      BY DEF Crossed
    <2>2. flight[TabOf[d]] = d
      BY <2>1 DEF Honest, OneAtATime
    <2>3. flight[TabOf[c]] = NoCall
      BY <2>1 DEF StartRefresh, MustWait
    <2> QED
      BY <2>1, <2>2, <2>3, SessionConstants DEF Refreshing
  <1>5. /\ c \in Requests /\ request'[c] = h
        /\ \A s \in Requests : s # c => request'[s] = request[s]
        /\ call'[c] = "refreshing" /\ \A d \in Calls : d # c => call'[d] = call[d]
    BY <1>3, SessionConstants DEF TypeInv, ServerTypeOK, TypeOK
  <1>6. Refreshing' = {c}
    BY <1>4, <1>5 DEF Refreshing
  <1>7. Sole(stored)
    BY <1>3, <1>4 DEF Honest, StoredSole, AtRest
  <1>8. c \in ApiCalls => flight'[TabOf[c]] = c
    BY SessionConstants DEF StartRefresh, TypeOK
  <1>9. OneAtATime'
    <2>1. \A d \in Calls : IF call'[d] = "refreshing"
                           THEN request'[d].op = "refresh" /\ request'[d].phase # "kill"
                           ELSE request'[d] = NoRequest
      BY <1>2, <1>5, SessionConstants DEF Honest, OneAtATime
    <2>2. /\ \A tab \in Tabs : request'[tab].op \in {"none", "login"}
          /\ \A r \in Others : request'[r] = NoRequest
      BY <1>5, SessionConstants DEF Honest, OneAtATime
    <2> QED
      BY <1>6, <1>8, <2>1, <2>2 DEF OneAtATime
  <1>10. FamilyOf(c)' = token[stored].family
    BY <1>2, <1>3, <1>5 DEF FamilyOf
  <1>11. RefreshSole(c)'
    <2>1. Unrevoked(FamilyOf(c))' = {stored}
      BY <1>3, <1>7, <1>10 DEF Sole, Unrevoked
    <2> QED
      BY <1>2, <1>5, <2>1 DEF RefreshSole
  <1>12. ASSUME NEW tab \in Tabs PROVE Apart(tab)'
    <2> SUFFICES ASSUME Handed(tab)'
                 PROVE  /\ Sole(request[tab].pair)'
                        /\ \A other \in Tabs : Handed(other)' /\ other # tab =>
                             HandedFamily(other)' # HandedFamily(tab)'
                        /\ FamilyOf(c)' # HandedFamily(tab)'
      BY <1>6 DEF Apart, AtRest
    <2>1. \A other \in Tabs : request'[other] = request[other]
      BY <1>5, SessionConstants
    <2>2. Handed(tab) /\ Apart(tab) /\ HandedFamily(tab)' = HandedFamily(tab)
      BY <1>3, <2>1 DEF Handed, HandedFamily, Honest
    <2>3. Sole(request[tab].pair)'
      BY <1>3, <2>1, <2>2 DEF Apart, Sole, Issued, Unrevoked
    <2>4. AtRest
      BY <1>3, <1>4 DEF AtRest
    <2> QED
      BY <1>3, <1>10, <2>1, <2>2, <2>3, <2>4 DEF Apart, Handed, HandedFamily
  <1>13. StoredSole'
    BY <1>6 DEF StoredSole, AtRest
  <1> QED
    BY <1>3, <1>6, <1>9, <1>11, <1>12, <1>13 DEF Honest

\* setTokens: the refresh is over, and its pair or nothing is stored.
LEMMA RefreshReplyHonest ==
    ASSUME TypeInv, TypeOK, Honest, NEW c \in Calls, RefreshReply(c)
    PROVE  Honest'
  <1>1. /\ call[c] = "refreshing" /\ request[c].phase = "answered"
        /\ request' = [request EXCEPT ![c] = NoRequest]
        /\ token' = token /\ past' = past
        /\ stored' = IF request[c].reply = "pair" THEN request[c].pair ELSE NoToken
        /\ FinishRefresh(c)
    BY DEF RefreshReply, Collect, PairToStore
  <1>2. c \in Refreshing
    BY <1>1 DEF Refreshing
  <1>3. c \in Requests /\ c \notin Tabs /\ RefreshSole(c) /\ \A d \in Refreshing : d = c
    BY <1>2, RefresherFacts
  <1>4. request'[c] = NoRequest /\ \A s \in Requests : s # c => request'[s] = request[s]
    BY <1>1, <1>3 DEF TypeInv, ServerTypeOK
  <1>5. call'[c] = "idle" /\ \A d \in Calls : call'[d] = "idle" \/ call'[d] = call[d]
    BY <1>1 DEF FinishRefresh
  <1>6. \A d \in Calls : d # c => call[d] # "refreshing"
    BY <1>3 DEF Refreshing
  <1>7. Refreshing' = {}
    BY <1>5, <1>6 DEF Refreshing
  <1>8. OneAtATime'
    <2>1. \A d \in Calls : call'[d] # "refreshing" /\ request'[d] = NoRequest
      BY <1>4, <1>5, <1>6, SessionConstants DEF Honest, OneAtATime
    <2>2. /\ \A tab \in Tabs : request'[tab].op \in {"none", "login"}
          /\ \A r \in Others : request'[r] = NoRequest
      BY <1>4, <1>3, SessionConstants DEF Honest, OneAtATime
    <2> QED
      BY <1>7, <2>1, <2>2 DEF OneAtATime
  <1>9. AtRest' => /\ stored' = request[c].pair /\ Sole(request[c].pair)
                   /\ token[request[c].pair].family = FamilyOf(c)
    BY <1>1, <1>3 DEF AtRest, RefreshSole
  <1>10. StoredSole'
    BY <1>1, <1>9 DEF StoredSole, Sole, Issued, Unrevoked
  <1>11. ASSUME NEW tab \in Tabs PROVE Apart(tab)'
    <2> SUFFICES ASSUME Handed(tab)'
                 PROVE  /\ Sole(request[tab].pair)'
                        /\ \A other \in Tabs : Handed(other)' /\ other # tab =>
                             HandedFamily(other)' # HandedFamily(tab)'
                        /\ AtRest' => token'[stored'].family # HandedFamily(tab)'
      BY <1>7 DEF Apart
    <2>1. \A other \in Tabs : request'[other] = request[other]
      BY <1>3, <1>4, SessionConstants
    <2>2. Handed(tab) /\ Apart(tab) /\ HandedFamily(tab)' = HandedFamily(tab)
      BY <1>1, <2>1 DEF Handed, HandedFamily, Honest
    <2>3. Sole(request[tab].pair)'
      BY <1>1, <2>1, <2>2 DEF Apart, Sole, Issued, Unrevoked
    <2> QED
      BY <1>1, <1>2, <1>9, <2>1, <2>2, <2>3 DEF Apart, Handed, HandedFamily
  <1> QED
    BY <1>1, <1>7, <1>8, <1>10, <1>11 DEF Honest

\* As long as things are orderly the user's browser is honest, whatever it does.
LEMMA OrderlyStep ==
    TypeInv /\ TokensGrow /\ TypeOK /\ OrderlyIsHonest /\ [Next]_vars => OrderlyIsHonest'
  <1> SUFFICES ASSUME TypeInv, TokensGrow, TypeOK, OrderlyIsHonest, [Next]_vars, Orderly'
               PROVE  Honest'
    BY DEF OrderlyIsHonest
  <1>0. \A kind : Mishap(kind) => Orderly /\ kind \notin {"lost", "overlap", "elsewhere"}
    BY MishapFacts
  <1>1. ASSUME UNCHANGED seen PROVE Honest
    BY <1>1 DEF Orderly, OrderlyIsHonest
  <1>2. ASSUME NEW kind, Mishap(kind)
        PROVE  Honest /\ kind \notin {"lost", "overlap", "elsewhere"}
    BY <1>2, <1>0 DEF OrderlyIsHonest
  <1>3. ASSUME NEW c \in Calls,
               JoinRefresh(c) \/ StartRefresh(c) \/ RefreshReply(c) \/ RefreshLost(c)
        PROVE  Honest'
    <2>1. CASE JoinRefresh(c)
      BY <2>1, <1>1, JoinHonest DEF JoinRefresh
    <2>2. CASE StartRefresh(c)
      <3>1. Honest /\ Crossed(c) = {}
        BY <2>2, <1>1, <1>2 DEF StartRefresh
      <3> QED
        BY <2>2, <3>1, StartRefreshHonest
    <2>3. CASE RefreshReply(c)
      BY <2>3, <1>1, RefreshReplyHonest DEF RefreshReply
    <2>4. CASE RefreshLost(c)
      BY <2>4, <1>2 DEF RefreshLost
    <2> QED
      BY <1>3, <2>1, <2>2, <2>3, <2>4
  <1>4. ASSUME NEW tab \in Tabs, LogIn(tab) \/ LoginReply(tab) \/ LoginLost(tab)
        PROVE  Honest'
    <2>1. Honest
      BY <1>4, <1>1, <1>2 DEF LogIn, LoginReply, LoginLost, clientVars
    <2> QED
      BY <1>4, <2>1, LogInHonest, LoginReplyHonest
  <1>5. ASSUME NEW r \in Others, UseElsewhere(r) PROVE Honest'
    BY <1>5, <1>2 DEF UseElsewhere
  <1>6. ASSUME NEW r \in Requests,
               ServerStep(r) \/ ServerFails(r) \/ ServerDies(r) \/ Discard(r)
        PROVE  Honest'
    <2>1. Honest /\ UNCHANGED <<stored, call, flight>>
      BY <1>6, <1>1, <1>2 DEF ServerStep, ServerFails, ServerDies, Discard, clientVars
    <2>2. CASE ServerStep(r)
      <3>1. ~Kill(r)
        <4>1. request[r].phase = "kill" => request[r] # NoRequest
          BY DEF NoRequest
        <4> QED
          BY <2>1, <4>1, WhoIsServed DEF Kill, Honest
      <3> QED
        BY <2>1, <2>2, <3>1, FindHonest, RevokeHonest, IssueHonest DEF ServerStep
    <2>3. CASE ServerFails(r)
      BY <2>1, <2>3, ThrowHonest DEF ServerFails
    <2>4. ~(ServerDies(r) \/ Discard(r))
      <3> SUFFICES ASSUME request[r].phase # "idle", r \in Calls => call[r] = "idle", r \notin Tabs
                   PROVE  FALSE
        BY DEF ServerDies, Discard, Abort, Collect
      <3>1. request[r] # NoRequest
        BY DEF NoRequest
      <3> QED
        BY <2>1, <3>1, WhoIsServed DEF Honest, Refreshing
    <2> QED
      BY <1>6, <2>2, <2>3, <2>4
  <1>7. CASE LogOut
    BY <1>7, <1>1, LogOutHonest DEF LogOut
  <1>8. CASE UNCHANGED vars \/ \E t \in Tokens : Expire(t) /\ UNCHANGED clientVars
    <2>1. Honest /\ UNCHANGED <<request, past, stored, call, flight>>
      BY <1>8, <1>1 DEF vars, clientVars, serverVars, Expire
    <2>2. token' = token \/ \E t \in Tokens : Expire(t)
      BY <1>8 DEF vars, serverVars
    <2> QED
      BY <2>1, <2>2, ExpireHonest
  <1> QED
    BY <1>3, <1>4, <1>5, <1>6, <1>7, <1>8 DEF Next

LEMMA OrderlyInvariant == Spec => []OrderlyIsHonest
  <1>1. Init => OrderlyIsHonest
    <2> SUFFICES ASSUME Init PROVE Honest
      BY DEF OrderlyIsHonest
    <2>1. /\ past.killed = {} /\ stored = NoToken /\ Refreshing = {}
          /\ \A r \in Requests : request[r] = NoRequest
          /\ \A c \in Calls : call[c] = "idle"
      BY DEF Init, ServerInit, Refreshing
    <2>2. NoRequest.op = "none" /\ NoRequest.phase = "idle"
      BY DEF NoRequest
    <2>3. OneAtATime
      BY <2>1, <2>2, SessionConstants DEF OneAtATime
    <2>4. \A tab \in Tabs : ~Handed(tab)
      BY <2>1, <2>2, SessionConstants DEF Handed
    <2> QED
      BY <2>1, <2>3, <2>4 DEF Honest, StoredSole, AtRest, Apart
  <1>2. [Next]_vars /\ TypeInv => TokensGrow
    BY ServerStepOrStutter, StepKeepsTypes
  <1> QED
    BY <1>1, <1>2, OrderlyStep, ServerTypes, TypeCorrect, PTL DEF Spec

\* The server never takes an orderly browser for a thief: with any number of tabs
\* and calls, and whatever refreshes are refused or fail, revokeRefreshTokenFamily is
\* not reached as long as nobody else uses the tokens, every refresh is answered and
\* no two of them overlap that refreshInFlight does not keep apart.
THEOREM HonestSessionIsSafe == Spec => []HonestSessionSurvives
  <1>1. OrderlyIsHonest => HonestSessionSurvives
    BY DEF OrderlyIsHonest, Honest, HonestSessionSurvives
  <1> QED
    BY <1>1, OrderlyInvariant, PTL

\* What such a browser keeps in localStorage between two refreshes is the one pair
\* of its session that is not revoked.
THEOREM StoredPairStaysLive == Spec => []StoredPairIsLive
  <1>1. OrderlyIsHonest => StoredPairIsLive
    BY DEF OrderlyIsHonest, Honest, StoredSole, AtRest, Sole, StoredPairIsLive
  <1> QED
    BY <1>1, OrderlyInvariant, PTL

-----------------------------------------------------------------------------
(* An orderly browser trades a token in once *)

LEMMA OrderlyStays == TypeOK /\ [Next]_vars /\ Orderly' => Orderly
  <1> SUFFICES ASSUME TypeOK, [Next]_vars, Orderly' PROVE Orderly
    OBVIOUS
  <1>1. ASSUME UNCHANGED seen PROVE Orderly
    BY <1>1 DEF Orderly
  <1>2. \A kind : Mishap(kind) => Orderly
    BY MishapFacts
  <1>3. UNCHANGED seen \/ \E kind : Mishap(kind)
    BY DEF Next, JoinRefresh, StartRefresh, RefreshReply, RefreshLost, LogIn, LoginReply, LoginLost,
           UseElsewhere, ServerStep, ServerFails, ServerDies, Discard, LogOut, clientVars, vars
  <1> QED
    BY <1>1, <1>2, <1>3

\* The token t has not been traded in.
Unused(t) == \A u \in Issued : token[u].parent # t

\* Also a refresh that has revoked its token and not yet issued a pair is the first.
UsedOnce ==
    /\ SingleUse
    /\ \A c \in Requests : request[c].phase = "issue" /\ request[c].token # NoToken =>
                             Unused(request[c].token)

LEMMA UsedOnceStep ==
    TypeInv /\ RotatedIsRevoked /\ Honest /\ UsedOnce /\ [Next]_vars => UsedOnce'
  <1> SUFFICES ASSUME TypeInv, RotatedIsRevoked, Honest, UsedOnce, [Next]_vars PROVE UsedOnce'
    OBVIOUS
  <1>1. [ServerNext]_serverVars /\ TokensGrow /\ TypeInv'
    BY ServerStepOrStutter, StepKeepsTypes
  <1>2. \A u \in Issued : u \in Issued' /\ token'[u].parent = token[u].parent
    BY <1>1 DEF TokensGrow, Issued
  <1>3. ASSUME \A t \in Tokens : token[t].state = "unissued" => token'[t] = token[t]
        PROVE  Issued' = Issued /\ \A t : Unused(t)' = Unused(t)
    <2>1. Issued' = Issued
      BY <1>2, <1>3 DEF Issued
    <2> QED
      BY <1>2, <2>1 DEF Unused
  <1>4. ASSUME NEW c \in Requests, request[c].phase = "issue", request[c].token # NoToken
        PROVE  c \in Refreshing /\ request[c].op = "refresh"
    <2>1. request[c] # NoRequest /\ request[c].op # "login"
      BY <1>4 DEF TypeInv, RequestOK, NoRequest
    <2>2. c \notin Tabs
      BY <1>4, <2>1 DEF Honest, OneAtATime, TypeInv, RequestOK
    <2> QED
      BY <2>1, <2>2, WhoIsServed, RefresherFacts DEF Honest
  <1>5. ASSUME NEW c \in Requests, NEW p, p = request'[c].token, p # NoToken,
               request'[c].phase = "issue", request'[c] # request[c]
        PROVE  Unused(p)'
    <2>1. request'[c].token = request[c].token
      BY <1>1, <1>5, HandlerSteps
    <2>2. Revoke(c) /\ request[c].op = "refresh" /\ request[c].phase = "revoke"
      BY <1>1, <1>5, HandlerSteps DEF Revoke
    <2>3. c \in Refreshing
      BY <2>2, WhoIsServed DEF Honest, NoRequest
    <2>4. token[request[c].token].state # "revoked"
      BY <2>2, <2>3, RefresherFacts DEF RefreshSole, Unrevoked
    <2>5. Unused(p)
      BY <2>1, <1>5, <2>4 DEF Unused, RotatedIsRevoked
    <2>6. ~\E r \in Requests : Issue(r)
      <3> SUFFICES ASSUME NEW r \in Requests, Issue(r) PROVE FALSE
        OBVIOUS
      <3>1. r # c /\ \A s \in Requests : s # r => request'[s] = request[s]
        BY <2>2 DEF Issue, Answer, TypeInv, ServerTypeOK
      <3> QED
        BY <1>5, <3>1
    <2> QED
      BY <1>1, <1>3, <2>5, <2>6, NewTokens
  <1>6. CASE ~\E r \in Requests : Issue(r)
    <2>1. Issued' = Issued /\ \A t : Unused(t)' = Unused(t)
      BY <1>1, <1>3, <1>6, NewTokens
    <2>2. SingleUse'
      BY <1>2, <2>1 DEF UsedOnce, SingleUse
    <2>3. ASSUME NEW c \in Requests, NEW p, p = request'[c].token, p # NoToken,
                 request'[c].phase = "issue", request'[c] = request[c]
          PROVE  Unused(p)'
      BY <2>1, <2>3 DEF UsedOnce
    <2>4. \A c \in Requests : \A p :
            p = request'[c].token /\ p # NoToken /\ request'[c].phase = "issue" => Unused(p)'
      BY <1>5, <2>3
    <2> QED
      BY <2>2, <2>4 DEF UsedOnce, Unused
  <1>7. ASSUME NEW r \in Requests, Issue(r) PROVE UsedOnce'
    <2>1. PICK t \in Tokens, f \in Families :
            /\ token[t].state = "unissued"
            /\ token' = [token EXCEPT ![t] =
                           [state |-> "live", family |-> f, parent |-> request[r].token]]
            /\ Answer(r, "pair", t)
      BY <1>7, IssueGrows
    <2>2. /\ token'[t].parent = request[r].token
          /\ \A u \in Tokens : u # t => token'[u] = token[u]
          /\ Issued' = Issued \cup {t} /\ t \notin Issued
      BY <2>1 DEF TypeInv, ServerTypeOK, Issued
    <2>3. /\ request[r].phase = "issue" /\ request'[r].phase = "answered"
          /\ \A s \in Requests : s # r => request'[s] = request[s]
      BY <1>7, <2>1 DEF Issue, Answer, Answered, TypeInv, ServerTypeOK
    <2>4. request[r].token # NoToken => Unused(request[r].token)
      BY <2>3 DEF UsedOnce
    <2>5. SingleUse'
      <3> SUFFICES ASSUME NEW u \in Issued', NEW v \in Issued',
                          token'[u].parent = token'[v].parent, token'[u].parent # NoToken
                   PROVE  u = v
        BY DEF SingleUse
      <3>1. CASE u # t /\ v # t
        BY <2>2, <3>1 DEF UsedOnce, SingleUse, Issued
      <3>2. CASE ~(u = t <=> v = t)
        BY <2>2, <2>4, <3>2 DEF Unused, Issued
      <3> QED
        BY <3>1, <3>2
    <2>6. ASSUME NEW c \in Requests, NEW p, p = request'[c].token, p # NoToken,
                 request'[c].phase = "issue"
          PROVE  Unused(p)'
      <3>1. c # r /\ request'[c] = request[c]
        BY <2>3, <2>6
      <3>2. Unused(p) /\ c \in Refreshing
        BY <1>4, <2>6, <3>1 DEF UsedOnce
      <3>3. request[r].token = NoToken
        BY <1>4, <2>3, <3>1, <3>2, RefresherFacts
      <3> QED
        BY <2>2, <2>6, <3>1, <3>2, <3>3 DEF Unused, Issued
    <2> QED
      BY <2>5, <2>6 DEF UsedOnce, Unused
  <1> QED
    BY <1>6, <1>7

\* Refresh tokens are single-use, as auth.routes.ts:48 says, for a client that never
\* runs two refreshes at a time: no token is traded in twice while nobody else uses
\* the tokens, every refresh is answered and none overlaps another.
THEOREM OrderlyUseIsSingle == Spec => [](Orderly => SingleUse)
  <1>1. Init => (Orderly => UsedOnce)
    BY DEF Init, ServerInit, UsedOnce, SingleUse, Issued, Unissued, NoRequest
  <1>2. /\ TypeInv /\ TypeOK /\ RotatedIsRevoked /\ OrderlyIsHonest /\ (Orderly => UsedOnce)
        /\ [Next]_vars
        => (Orderly => UsedOnce)'
    BY OrderlyStays, UsedOnceStep DEF OrderlyIsHonest
  <1>3. (Orderly => UsedOnce) => (Orderly => SingleUse)
    BY DEF UsedOnce
  <1>4. Spec => []RotatedIsRevoked
    BY SessionsAreSafe, PTL
  <1> QED
    BY <1>1, <1>2, <1>3, <1>4, ServerTypes, TypeCorrect, OrderlyInvariant, PTL DEF Spec

=============================================================================
