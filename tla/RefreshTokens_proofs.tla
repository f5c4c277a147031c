------------------------ MODULE RefreshTokens_proofs ------------------------
(***************************************************************************)
(* Theorems about RefreshTokens, for any numbers of tokens, sessions and   *)
(* concurrent requests.                                                    *)
(***************************************************************************)
EXTENDS RefreshTokens, TLAPS

-----------------------------------------------------------------------------
(* Types *)

LEMMA NoRequestType == NoRequest \in Handlers
  BY DEF NoRequest, Handlers

LEMMA AnswerType ==
    ASSUME NEW r \in Requests, request \in [Requests -> Handlers],
           NEW reply \in {"pair", "refused", "error", "done"}, NEW pair \in Tokens \cup {NoToken},
           Answer(r, reply, pair)
    PROVE  request' \in [Requests -> Handlers]
  BY DEF Answer, Answered, Handlers

LEMMA ProceedType ==
    ASSUME NEW r \in Requests, request \in [Requests -> Handlers],
           NEW phase \in {"kill", "revoke", "issue"}, Proceed(r, phase)
    PROVE  request' \in [Requests -> Handlers]
  BY DEF Proceed, Handlers

\* What refresh() and logout() do with the row they found.
LEMMA FindCases ==
    ASSUME NEW r \in Requests, NEW state, AfterFind(r, state)
    PROVE  \/ state = "revoked" /\ request[r].op = "logout" /\ Answer(r, "done", NoToken)
           \/ state = "revoked" /\ request[r].op = "refresh" /\ Proceed(r, "kill")
           \/ state = "expired" /\ request[r].op = "refresh" /\ Answer(r, "refused", NoToken)
           \/ ~(state = "revoked" /\ request[r].op \in {"refresh", "logout"}) /\ Proceed(r, "revoke")
  BY DEF AfterFind

\* Every token presented has been issued, every issued token has a family, and
\* what a handler is about to do fits what it was asked for.
TokensOK ==
    \A t \in Tokens : IF token[t].state # "unissued"
                      THEN token[t].family \in Families ELSE token[t] = Unissued

RequestOK(r) ==
    /\ request[r].op \in {"refresh", "logout"} =>
         request[r].token \in Tokens /\ token[request[r].token].state # "unissued"
    /\ request[r].op \notin {"refresh", "logout"} => request[r].token = NoToken
    /\ request[r].phase \in {"find", "kill", "revoke"} => request[r].op \in {"refresh", "logout"}
    /\ request[r].phase = "issue" => request[r].op \in {"login", "refresh"}
    /\ request[r].phase = "issue" /\ request[r].op = "refresh"
         => token[request[r].token].state = "revoked"

TypeInv ==
    /\ ServerTypeOK
    /\ TokensOK
    /\ \A r \in Requests : RequestOK(r)

LEMMA TypeInvInit == ServerInit => TypeInv
  BY NoRequestType, TokenConstants
  DEF ServerInit, TypeInv, ServerTypeOK, TokensOK, RequestOK, Issued, TokenRows, Pasts,
      Unissued, NoRequest

LEMMA FamilyOfType ==
    ASSUME TypeInv, NEW r \in Requests, request[r].op \in {"refresh", "logout"}
    PROVE  FamilyOf(r) \in Families
  BY DEF TypeInv, RequestOK, TokensOK, FamilyOf, Issued

-----------------------------------------------------------------------------
(* What a step does to the tokens *)

\* No step takes an issued token back, moves it to another family or forgets where
\* it comes from, and none undoes a revocation.
TokensGrow ==
    \A t \in Tokens :
        token[t].state # "unissued" =>
            /\ token'[t].state # "unissued"
            /\ token'[t].family = token[t].family
            /\ token'[t].parent = token[t].parent
            /\ token[t].state = "revoked" => token'[t].state = "revoked"

LEMMA SameTokensGrow == ASSUME token' = token PROVE TokensGrow
  BY DEF TokensGrow

\* A handler that is not the one at work stays as it should be, ...
LEMMA OtherRequestOK ==
    ASSUME TypeInv, TokensGrow, NEW s \in Requests, request'[s] = request[s]
    PROVE  RequestOK(s)'
  <1>1. RequestOK(s)
    BY DEF TypeInv
  <1>2. ASSUME request[s].op \in {"refresh", "logout"}
        PROVE  /\ token'[request[s].token].state # "unissued"
               /\ token[request[s].token].state = "revoked"
                    => token'[request[s].token].state = "revoked"
    <2>1. request[s].token \in Tokens /\ token[request[s].token].state # "unissued"
      BY <1>1, <1>2 DEF RequestOK
    <2> QED
      BY <2>1 DEF TokensGrow
  <1> QED
    BY <1>1, <1>2 DEF RequestOK

\* ... and so does the one that answers.
LEMMA AnswerOK ==
    ASSUME TypeInv, TokensGrow, ServerTypeOK', TokensOK', NEW r \in Requests,
           NEW reply, NEW pair, Answer(r, reply, pair)
    PROVE  TypeInv'
  <1>1. request'[r].op = request[r].op /\ request'[r].token = request[r].token
        /\ request'[r].phase = "answered"
    BY DEF Answer, Answered, TypeInv, ServerTypeOK
  <1>2. RequestOK(r)'
    <2>1. RequestOK(r)
      BY DEF TypeInv
    <2>2. request[r].op \in {"refresh", "logout"} => token'[request[r].token].state # "unissued"
      BY <2>1 DEF RequestOK, TokensGrow
    <2> QED
      BY <1>1, <2>1, <2>2 DEF RequestOK
  <1>3. ASSUME NEW s \in Requests, s # r PROVE RequestOK(s)'
    <2>1. request'[s] = request[s]
      BY <1>3 DEF Answer, TypeInv, ServerTypeOK
    <2> QED
      BY <2>1, OtherRequestOK
  <1> QED
    BY <1>2, <1>3 DEF TypeInv

-----------------------------------------------------------------------------
(* Every step keeps the types *)

\* A step that changes one handler, h, keeps the types if it keeps those of h.
LEMMA TypeInvByParts ==
    ASSUME TypeInv, TokensGrow, NEW r \in Requests, NEW h \in Handlers,
           request' = [request EXCEPT ![r] = h], RequestOK(r)',
           token' \in [Tokens -> TokenRows], TokensOK', past' \in Pasts
    PROVE  TypeInv'
  <1>1. ServerTypeOK'
    BY DEF TypeInv, ServerTypeOK
  <1>2. ASSUME NEW s \in Requests, s # r PROVE RequestOK(s)'
    <2>1. request'[s] = request[s]
      BY <1>2 DEF TypeInv, ServerTypeOK
    <2> QED
      BY <2>1, OtherRequestOK
  <1> QED
    BY <1>1, <1>2 DEF TypeInv

LEMMA KillGrows ==
    ASSUME TypeInv, NEW r \in Requests, Kill(r)
    PROVE  /\ TokensGrow /\ TokensOK' /\ token' \in [Tokens -> TokenRows]
           /\ FamilyOf(r) \in Families
  <1>1. token \in [Tokens -> TokenRows] /\ FamilyOf(r) \in Families
    BY FamilyOfType DEF TypeInv, ServerTypeOK, Kill, RequestOK
  <1>2. ASSUME NEW t \in Tokens
        PROVE  /\ token'[t] \in TokenRows
               /\ token'[t].family = token[t].family /\ token'[t].parent = token[t].parent
               /\ token'[t].state # token[t].state =>
                    token[t].state \in {"live", "expired"} /\ token'[t].state = "revoked"
               /\ token[t].state = "unissued" => token'[t] = token[t]
    BY <1>1 DEF Kill, KillFamily, Unrevoked, TokenRows
  <1>3. token' \in [Tokens -> TokenRows]
    BY <1>1, <1>2 DEF Kill, KillFamily
  <1> QED
    BY <1>1, <1>2, <1>3 DEF TokensGrow, TokensOK, TypeInv, Unissued, TokenRows

LEMMA RevokeGrows ==
    ASSUME TypeInv, NEW r \in Requests, Revoke(r)
    PROVE  /\ TokensGrow /\ TokensOK' /\ token' \in [Tokens -> TokenRows]
           /\ FamilyOf(r) \in Families /\ request[r].op \in {"refresh", "logout"}
           /\ request[r].token \in Tokens /\ token'[request[r].token].state = "revoked"
  <1>1. token \in [Tokens -> TokenRows] /\ FamilyOf(r) \in Families
    BY FamilyOfType DEF TypeInv, ServerTypeOK, Revoke, RequestOK
  <1>2. /\ request[r].token \in Tokens /\ token[request[r].token].state # "unissued"
        /\ request[r].op \in {"refresh", "logout"}
    BY DEF TypeInv, RequestOK, Revoke
  <1>3. token' \in [Tokens -> TokenRows]
    BY <1>1, <1>2 DEF Revoke, TokenRows
  <1>4. /\ token'[request[r].token].state = "revoked"
        /\ \A t \in Tokens : /\ token'[t].family = token[t].family
                             /\ token'[t].parent = token[t].parent
                             /\ t # request[r].token => token'[t] = token[t]
    BY <1>1, <1>2 DEF Revoke, TokenRows
  <1>5. TokensGrow
    BY <1>2, <1>4 DEF TokensGrow
  <1>6. TokensOK'
    BY <1>2, <1>4 DEF TokensOK, TypeInv, Unissued
  <1> QED
    BY <1>1, <1>2, <1>3, <1>4, <1>5, <1>6

\* What a new token may look like: its parent is the token just revoked, or none.
LEMMA IssueGrows ==
    ASSUME TypeInv, NEW r \in Requests, Issue(r)
    PROVE  /\ TokensGrow /\ TokensOK' /\ token' \in [Tokens -> TokenRows]
           /\ \E t \in Tokens, f \in Families :
                /\ token[t].state = "unissued"
                /\ token' = [token EXCEPT ![t] =
                               [state |-> "live", family |-> f, parent |-> request[r].token]]
                /\ Answer(r, "pair", t)
                /\ \/ request[r].op = "login" /\ f \in FreshFamilies
                   \/ request[r].op = "refresh" /\ f = FamilyOf(r)
  <1>1. request[r].op \in {"login", "refresh"} /\ request[r].token \in Tokens \cup {NoToken}
    BY DEF Issue, TypeInv, RequestOK, ServerTypeOK, Handlers
  <1>2. PICK t \in Tokens \ Issued,
             f \in IF request[r].op = "login" THEN FreshFamilies ELSE {FamilyOf(r)} :
               /\ token' = [token EXCEPT ![t] =
                              [state |-> "live", family |-> f, parent |-> request[r].token]]
               /\ Answer(r, "pair", t)
    BY DEF Issue
  <1>3. /\ f \in Families
        /\ \/ request[r].op = "login" /\ f \in FreshFamilies
           \/ request[r].op = "refresh" /\ f = FamilyOf(r)
    BY <1>1, <1>2, FamilyOfType DEF FreshFamilies
  <1>4. token[t].state = "unissued"
    BY <1>2 DEF Issued
  <1>5. /\ token'[t] = [state |-> "live", family |-> f, parent |-> request[r].token]
        /\ \A u \in Tokens : u # t => token'[u] = token[u]
        /\ token' \in [Tokens -> TokenRows]
    BY <1>1, <1>2, <1>3 DEF TypeInv, ServerTypeOK, TokenRows
  <1>6. TokensGrow
    BY <1>4, <1>5 DEF TokensGrow
  <1>7. TokensOK'
    BY <1>3, <1>5 DEF TokensOK, TypeInv
  <1> QED
    BY <1>2, <1>3, <1>4, <1>5, <1>6, <1>7

LEMMA ExpireGrows ==
    ASSUME TypeInv, NEW t \in Tokens, Expire(t)
    PROVE  TokensGrow /\ TokensOK' /\ token' \in [Tokens -> TokenRows]
  <1>1. token' \in [Tokens -> TokenRows]
    BY DEF TypeInv, ServerTypeOK, Expire, TokenRows
  <1>2. /\ token'[t].family = token[t].family /\ token'[t].parent = token[t].parent
        /\ token[t].state = "live" /\ token'[t].state = "expired"
        /\ \A u \in Tokens : u # t => token'[u] = token[u]
    BY DEF TypeInv, ServerTypeOK, Expire, TokenRows
  <1> QED
    BY <1>1, <1>2 DEF TokensGrow, TokensOK, TypeInv, Unissued

\* The handlers that leave the tokens alone.
LEMMA QuietStepKeepsTypes ==
    ASSUME TypeInv, NEW r \in Requests,
           \/ StartLogin(r)
           \/ \E op \in {"refresh", "logout"}, t \in Tokens : Present(r, op, t)
           \/ Find(r)
           \/ Throw(r)
           \/ Abort(r)
           \/ Collect(r) /\ UNCHANGED <<token, past>>
    PROVE  TypeInv' /\ token' = token
  <1> USE DEF TypeInv, ServerTypeOK
  <1>1. token' = token /\ past' \in Pasts /\ TokensGrow /\ TokensOK'
    <2>1. token' = token
      BY DEF StartLogin, Present, Find, Throw, Abort
    <2>2. past' \in Pasts
      <3>1. CASE Find(r)
        <4>1. FamilyOf(r) \in Families
          BY <3>1, FamilyOfType DEF Find, RequestOK
        <4> QED
          BY <3>1, <4>1 DEF Find, Pasts
      <3> QED
        BY <3>1 DEF StartLogin, Present, Throw, Abort
    <2> QED
      BY <2>1, <2>2, SameTokensGrow DEF TokensOK
  <1>2. CASE StartLogin(r)
    <2> DEFINE h == [NoRequest EXCEPT !.op = "login", !.phase = "issue"]
    <2>1. h \in Handlers /\ request' = [request EXCEPT ![r] = h] /\ RequestOK(r)'
      BY <1>2 DEF StartLogin, NoRequest, Handlers, RequestOK
    <2> QED
      BY <1>1, <2>1, TypeInvByParts
  <1>3. ASSUME NEW op \in {"refresh", "logout"}, NEW t \in Tokens, Present(r, op, t)
        PROVE  TypeInv'
    <2> DEFINE h == [NoRequest EXCEPT !.op = op, !.phase = "find", !.token = t]
    <2>1. h \in Handlers /\ request' = [request EXCEPT ![r] = h]
      BY <1>3 DEF Present, NoRequest, Handlers
    <2>2. request'[r].op = op /\ request'[r].phase = "find" /\ request'[r].token = t
      BY <2>1 DEF NoRequest
    <2>3. RequestOK(r)'
      BY <1>1, <1>3, <2>2 DEF Present, Issued, RequestOK
    <2> QED
      BY <1>1, <2>1, <2>3, TypeInvByParts
  <1>4. CASE Find(r)
    <2>1. ASSUME NEW reply \in {"done", "refused"}, Answer(r, reply, NoToken)
          PROVE  TypeInv'
      BY <1>1, <2>1, AnswerType, AnswerOK
    <2>2. ASSUME NEW phase \in {"kill", "revoke"}, Proceed(r, phase)
          PROVE  TypeInv'
      <3>1. request' \in [Requests -> Handlers]
        BY <2>2, ProceedType
      <3>2. request'[r].op = request[r].op /\ request'[r].token = request[r].token
            /\ request'[r].phase = phase
        BY <2>2 DEF Proceed, Handlers
      <3>3. RequestOK(r)'
        BY <1>1, <1>4, <2>2, <3>2 DEF Find, RequestOK
      <3>4. request' = [request EXCEPT ![r] = request'[r]] /\ request'[r] \in Handlers
        BY <2>2, <3>1 DEF Proceed
      <3> QED
        BY <1>1, <3>3, <3>4, TypeInvByParts
    <2> QED
      BY <1>4, <2>1, <2>2, FindCases DEF Find
  <1>5. CASE Throw(r)
    BY <1>1, <1>5, AnswerType, AnswerOK DEF Throw
  <1>6. CASE Abort(r) \/ Collect(r)
    <2>1. request' = [request EXCEPT ![r] = NoRequest] /\ NoRequest \in Handlers
      BY <1>6, NoRequestType DEF Abort, Collect
    <2>2. RequestOK(r)'
      BY <2>1 DEF NoRequest, RequestOK
    <2> QED
      BY <1>1, <2>1, <2>2, TypeInvByParts
  <1> QED
    BY <1>1, <1>2, <1>3, <1>4, <1>5, <1>6

LEMMA StepKeepsTypes == TypeInv /\ [ServerNext]_serverVars => TypeInv' /\ TokensGrow
  <1> SUFFICES ASSUME TypeInv, [ServerNext]_serverVars PROVE TypeInv' /\ TokensGrow
    OBVIOUS
  <1>1. CASE UNCHANGED serverVars
    BY <1>1, SameTokensGrow
    DEF serverVars, TypeInv, ServerTypeOK, TokensOK, RequestOK
  <1>2. ASSUME NEW r \in Requests,
               \/ StartLogin(r)
               \/ \E op \in {"refresh", "logout"}, t \in Tokens : Present(r, op, t)
               \/ Find(r) \/ Throw(r) \/ Abort(r)
               \/ Collect(r) /\ UNCHANGED <<token, past>>
        PROVE  TypeInv' /\ TokensGrow
    BY <1>2, QuietStepKeepsTypes, SameTokensGrow
  <1>3. ASSUME NEW r \in Requests, Kill(r) PROVE TypeInv' /\ TokensGrow
    <2>1. past' \in Pasts /\ request' \in [Requests -> Handlers] /\ Answer(r, "refused", NoToken)
      BY <1>3, KillGrows, AnswerType DEF Kill, Pasts, TypeInv, ServerTypeOK
    <2> QED
      BY <1>3, <2>1, KillGrows, AnswerOK DEF ServerTypeOK
  <1>4. ASSUME NEW r \in Requests, Revoke(r) PROVE TypeInv' /\ TokensGrow
    <2>1. past' \in Pasts
      <3>1. past \in Pasts /\ FamilyOf(r) \in Families
        BY <1>4, RevokeGrows DEF TypeInv, ServerTypeOK
      <3>2. past' = past \/ past' = [past EXCEPT !.closed = @ \cup {FamilyOf(r)}]
        BY <1>4 DEF Revoke
      <3> QED
        BY <3>1, <3>2 DEF Pasts
    <2>2. CASE request[r].op = "logout"
      BY <1>4, <2>1, <2>2, RevokeGrows, AnswerType, AnswerOK
      DEF Revoke, TypeInv, ServerTypeOK
    <2>3. CASE request[r].op # "logout"
      <3>1. Proceed(r, "issue") /\ request' \in [Requests -> Handlers]
        BY <1>4, <2>3, ProceedType DEF Revoke, TypeInv, ServerTypeOK
      <3>2. /\ request'[r].op = request[r].op /\ request'[r].token = request[r].token
            /\ request'[r].phase = "issue"
            /\ request' = [request EXCEPT ![r] = request'[r]] /\ request'[r] \in Handlers
        BY <3>1 DEF Proceed, Handlers, TypeInv, ServerTypeOK
      <3>3. RequestOK(r)'
        BY <1>4, <2>3, <3>2, RevokeGrows DEF RequestOK
      <3> QED
        BY <1>4, <2>1, <3>2, <3>3, RevokeGrows, TypeInvByParts
    <2> QED
      BY <2>2, <2>3
  <1>5. ASSUME NEW r \in Requests, Issue(r) PROVE TypeInv' /\ TokensGrow
    <2>1. PICK t \in Tokens : Answer(r, "pair", t)
      BY <1>5, IssueGrows
    <2>2. past' \in Pasts /\ request' \in [Requests -> Handlers]
      BY <1>5, <2>1, AnswerType DEF Issue, TypeInv, ServerTypeOK
    <2> QED
      BY <1>5, <2>1, <2>2, IssueGrows, AnswerOK DEF ServerTypeOK
  <1>6. ASSUME NEW t \in Tokens, Expire(t) PROVE TypeInv' /\ TokensGrow
    <2>1. request' = request /\ past' = past
      BY <1>6 DEF Expire
    <2>2. ASSUME NEW s \in Requests PROVE RequestOK(s)'
      BY <1>6, <2>1, ExpireGrows, OtherRequestOK
    <2> QED
      BY <1>6, <2>1, <2>2, ExpireGrows DEF TypeInv, ServerTypeOK
  <1> QED
    BY <1>1, <1>2, <1>3, <1>4, <1>5, <1>6 DEF ServerNext, Statement

\* The types of the server's state, for any numbers of tokens and requests.
THEOREM ServerTypeCorrect == ServerSpec => []ServerTypeOK
  <1>1. TypeInv => ServerTypeOK
    BY DEF TypeInv
  <1> QED
    BY <1>1, TypeInvInit, StepKeepsTypes, PTL DEF ServerSpec

-----------------------------------------------------------------------------
(* A rotated token is dead before its successor exists *)

\* Only an Issue makes a token of an unissued one.
LEMMA NewTokens ==
    ASSUME TypeInv, [ServerNext]_serverVars
    PROVE  \/ \E r \in Requests : Issue(r)
           \/ \A t \in Tokens : token[t].state = "unissued" => token'[t] = token[t]
  <1>1. CASE UNCHANGED serverVars
    BY <1>1 DEF serverVars
  <1>2. ASSUME NEW r \in Requests, Kill(r)
        PROVE  \A t \in Tokens : token[t].state = "unissued" => token'[t] = token[t]
    BY <1>2 DEF Kill, KillFamily, Unrevoked
  <1>3. ASSUME NEW r \in Requests, Revoke(r)
        PROVE  \A t \in Tokens : token[t].state = "unissued" => token'[t] = token[t]
    BY <1>3 DEF Revoke, TypeInv, ServerTypeOK, RequestOK
  <1>4. ASSUME NEW t \in Tokens, Expire(t)
        PROVE  \A u \in Tokens : token[u].state = "unissued" => token'[u] = token[u]
    BY <1>4 DEF Expire, TypeInv, ServerTypeOK
  <1> QED
    BY <1>1, <1>2, <1>3, <1>4
    DEF ServerNext, Statement, StartLogin, Present, Find, Throw, Abort

LEMMA RotationStep ==
    TypeInv /\ RotatedIsRevoked /\ [ServerNext]_serverVars => RotatedIsRevoked'
  <1> SUFFICES ASSUME TypeInv, RotatedIsRevoked, [ServerNext]_serverVars,
                      NEW t \in Tokens, token'[t].state # "unissued",
                      token'[t].parent # NoToken
               PROVE  token'[token'[t].parent].state = "revoked"
    BY DEF RotatedIsRevoked, Issued
  <1>1. TokensGrow /\ token \in [Tokens -> TokenRows]
    BY StepKeepsTypes DEF TypeInv, ServerTypeOK
  <1>2. CASE token[t].state # "unissued"
    <2>1. token'[t].parent = token[t].parent
      BY <1>1, <1>2 DEF TokensGrow
    <2>2. token[t].parent \in Tokens /\ token[token[t].parent].state = "revoked"
      BY <1>1, <1>2, <2>1 DEF RotatedIsRevoked, Issued, TokenRows
    <2> QED
      BY <1>1, <2>1, <2>2 DEF TokensGrow
  <1>3. CASE token[t].state = "unissued"
    <2>1. PICK r \in Requests : Issue(r)
      BY <1>3, NewTokens
    <2>2. PICK u \in Tokens, f \in Families :
            /\ token' = [token EXCEPT ![u] =
                           [state |-> "live", family |-> f, parent |-> request[r].token]]
            /\ request[r].op = "login" \/ request[r].op = "refresh"
      BY <2>1, IssueGrows
    <2>3. u = t /\ token'[t].parent = request[r].token
      BY <1>1, <1>3, <2>2
    <2>4. request[r].token \in Tokens /\ token[request[r].token].state = "revoked"
      BY <2>1, <2>2, <2>3 DEF Issue, TypeInv, RequestOK
    <2> QED
      BY <1>1, <2>3, <2>4 DEF TokensGrow
  <1> QED
    BY <1>2, <1>3

\* The old token is revoked before its successor exists: neither a crash nor a
\* failing statement between the two statements of refresh() leaves both alive.
THEOREM RotationIsSafe == ServerSpec => []RotatedIsRevoked
  <1>1. ServerInit => RotatedIsRevoked
    BY DEF ServerInit, RotatedIsRevoked, Issued, Unissued
  <1> QED
    BY <1>1, TypeInvInit, StepKeepsTypes, RotationStep, PTL DEF ServerSpec

-----------------------------------------------------------------------------
(* A dead session stays dead *)

\* A handler that has found its token gets on with it in one of three ways.
LEMMA HandlerSteps ==
    ASSUME TypeInv, [ServerNext]_serverVars, NEW s \in Requests, request'[s] # request[s],
           request'[s].phase \in {"kill", "revoke", "issue"}, request'[s].token # NoToken
    PROVE  /\ request'[s].op = request[s].op /\ request'[s].token = request[s].token
           /\ \/ Find(s) /\ token[request[s].token].state = "revoked" /\ request'[s].phase = "kill"
              \/ Find(s) /\ token[request[s].token].state # "revoked" /\ request'[s].phase = "revoke"
              \/ Revoke(s) /\ request[s].op = "refresh" /\ request'[s].phase = "issue"
  <1> USE DEF TypeInv, ServerTypeOK
  <1>1. ASSUME NEW r \in Requests, NEW reply, NEW pair, Answer(r, reply, pair)
        PROVE  FALSE
    BY <1>1 DEF Answer, Answered
  <1>2. ASSUME NEW r \in Requests, NEW phase, Proceed(r, phase)
        PROVE  /\ r = s /\ request'[s].phase = phase
               /\ request'[s].op = request[s].op /\ request'[s].token = request[s].token
    BY <1>2 DEF Proceed, Handlers
  <1>3. ASSUME NEW r \in Requests, Find(r)
        PROVE  r = s /\ \/ token[request[s].token].state = "revoked" /\ Proceed(s, "kill")
                        \/ token[request[s].token].state # "revoked" /\ Proceed(s, "revoke")
    <2>1. request[r].op \in {"refresh", "logout"} /\ AfterFind(r, token[request[r].token].state)
      BY <1>3 DEF Find, RequestOK
    <2> QED
      BY <1>1, <1>2, <2>1, FindCases
  <1>4. ASSUME NEW r \in Requests, Revoke(r)
        PROVE  r = s /\ request[s].op = "refresh" /\ Proceed(s, "issue")
    <2>1. request[r].op \in {"refresh", "logout"}
      BY <1>4 DEF Revoke, RequestOK
    <2> QED
      BY <1>1, <1>2, <1>4, <2>1 DEF Revoke
  <1>5. ASSUME NEW r \in Requests, Kill(r) \/ Issue(r) \/ Throw(r)
        PROVE  FALSE
    BY <1>1, <1>5 DEF Kill, Issue, Throw
  <1>6. ASSUME NEW r \in Requests, StartLogin(r) \/ Abort(r) \/ Collect(r)
        PROVE  FALSE
    <2>1. ASSUME NEW h, h.token = NoToken, request' = [request EXCEPT ![r] = h]
          PROVE  FALSE
      BY <2>1
    <2>2. /\ NoRequest.token = NoToken
          /\ [NoRequest EXCEPT !.op = "login", !.phase = "issue"].token = NoToken
      BY DEF NoRequest
    <2> QED
      BY <1>6, <2>1, <2>2 DEF StartLogin, Abort, Collect
  <1>7. ASSUME NEW r \in Requests, NEW op, NEW t, Present(r, op, t)
        PROVE  FALSE
    BY <1>7 DEF Present, NoRequest
  <1>8. CASE \E r \in Requests : Find(r)
    BY <1>2, <1>3, <1>8
  <1>9. CASE \E r \in Requests : Revoke(r)
    BY <1>2, <1>4, <1>9
  <1> QED
    BY <1>5, <1>6, <1>7, <1>8, <1>9 DEF ServerNext, Statement, serverVars, Expire

LEMMA DeadStep ==
    ASSUME TypeInv, [ServerNext]_serverVars, NEW f \in Families, Dead(f)
    PROVE  Dead(f)'
  <1> USE DEF TypeInv, ServerTypeOK
  <1>1. TokensGrow /\ TypeInv'
    BY StepKeepsTypes
  <1>2. \A r \in Requests :
          request[r].phase \in {"kill", "revoke", "issue"} /\ request[r].token # NoToken
            /\ FamilyOf(r) = f => request[r].phase = "kill" \/ request[r].op = "logout"
    BY DEF Dead, WorksOn
  <1>3. PICK u \in Tokens : token[u].family = f
    BY DEF Dead, FreshFamilies
  <1>4. token[u].state # "unissued"
    BY <1>3, TokenConstants DEF TokensOK, Unissued
  <1>5. (f \notin FreshFamilies)'
    BY <1>1, <1>3, <1>4 DEF TokensGrow, FreshFamilies
  <1>6. \A t \in Tokens : token[t].family = f => token[t].state = "revoked"
    BY TokenConstants DEF Dead, Unrevoked, TokensOK, Unissued, TokenRows
  <1>7. ASSUME NEW r \in Requests, Issue(r)
        PROVE  \A t \in Tokens : token[t].state = "unissued" => token'[t].family # f
    <2>1. PICK t \in Tokens, g \in Families :
            /\ token' = [token EXCEPT ![t] =
                           [state |-> "live", family |-> g, parent |-> request[r].token]]
            /\ \/ request[r].op = "login" /\ g \in FreshFamilies
               \/ request[r].op = "refresh" /\ g = FamilyOf(r)
      BY <1>7, IssueGrows
    <2>2. g # f
      <3>1. CASE g \in FreshFamilies
        BY <3>1 DEF Dead
      <3>2. CASE request[r].op = "refresh" /\ g = FamilyOf(r)
        BY <1>2, <1>7, <3>2, TokenConstants DEF Issue, RequestOK
      <3> QED
        BY <2>1, <3>1, <3>2
    <2> QED
      BY <2>1, <2>2, TokenConstants DEF TokensOK, Unissued
  <1>8. \A t \in Tokens : token'[t].family = f => token'[t].state = "revoked"
    <2> SUFFICES ASSUME NEW t \in Tokens, token'[t].family = f
                 PROVE  token'[t].state = "revoked"
      OBVIOUS
    <2>1. CASE token[t].state # "unissued"
      BY <1>1, <1>6, <2>1 DEF TokensGrow
    <2>2. CASE token[t].state = "unissued"
      BY <1>7, <2>2, NewTokens, TokenConstants DEF TokensOK, Unissued
    <2> QED
      BY <2>1, <2>2
  <1>9. Unrevoked(f)' = {}
    BY <1>8 DEF Unrevoked
  <1>10. ASSUME NEW s \in Requests,
                request'[s].phase \in {"kill", "revoke", "issue"}, request'[s].token # NoToken,
                token'[request'[s].token].family = f
         PROVE  request'[s].phase = "kill" \/ request'[s].op = "logout"
    <2>1. CASE request'[s] = request[s]
      <3>1. request[s].token \in Tokens /\ token[request[s].token].state # "unissued"
        BY <1>10, <2>1 DEF RequestOK
      <3>2. FamilyOf(s) = f
        BY <1>1, <1>10, <2>1, <3>1 DEF TokensGrow, FamilyOf
      <3> QED
        BY <1>2, <1>10, <2>1, <3>2
    <2>2. CASE request'[s] # request[s]
      <3>1. /\ request'[s].token = request[s].token
            /\ request'[s].op = request[s].op
            /\ Find(s) \/ Revoke(s)
        BY <1>10, <2>2, HandlerSteps
      <3>2. request[s].token \in Tokens /\ token[request[s].token].state # "unissued"
        BY <3>1 DEF Find, Revoke, RequestOK
      <3>3. token[request[s].token].family = f
        BY <1>1, <1>10, <3>1, <3>2 DEF TokensGrow
      <3>4. CASE Find(s)
        BY <1>6, <1>10, <2>2, <3>2, <3>3, <3>4, HandlerSteps DEF Find, Revoke
      <3>5. CASE Revoke(s)
        BY <1>2, <1>10, <3>1, <3>3, <3>5, TokenConstants, <3>2 DEF Revoke, FamilyOf
      <3> QED
        BY <3>1, <3>4, <3>5
    <2> QED
      BY <2>1, <2>2
  <1> QED
    BY <1>5, <1>9, <1>10 DEF Dead, WorksOn, FamilyOf

\* Once nothing of a session is alive and nothing will revive it, no later request,
\* retry or reuse of an old token does.
THEOREM DeadIsForever == ServerSpec => DeadSessionsStayDead
  <1>1. TypeInv /\ [ServerNext]_serverVars =>
          [\A f \in Families : Dead(f) => Dead(f)']_serverVars
    BY DeadStep
  <1> QED
    BY <1>1, TypeInvInit, StepKeepsTypes, PTL DEF ServerSpec, DeadSessionsStayDead

-----------------------------------------------------------------------------
(* One live token per session, and none of a session that has ended *)

\* With at most one handler at work on a session, at most one of its tokens is not
\* revoked: it is the one that the handler is about to revoke, and there is none
\* while the handler is about to issue the next.  A session that has ended stays so.
FamilyInv(f) ==
    /\ \A r, s \in WorksOn(f) : r = s
    /\ \A t, u \in Unrevoked(f) : t = u
    /\ \A r \in WorksOn(f) : request[r].phase = "revoke" =>
                              \A t \in Unrevoked(f) : t = request[r].token
    /\ \A r \in WorksOn(f) : request[r].phase = "issue" => Unrevoked(f) = {}
    /\ f \in past.killed \cup past.closed =>
         /\ f \notin FreshFamilies
         /\ Unrevoked(f) = {}
         /\ \A r \in WorksOn(f) : request[r].op = "refresh" => request[r].phase = "kill"

SessionInv == \A f \in Families \ past.clashed : FamilyInv(f)

\* A new session has no tokens and no handlers.
LEMMA FreshIsEmpty ==
    ASSUME TypeInv, NEW f \in FreshFamilies
    PROVE  Unrevoked(f) = {} /\ WorksOn(f) = {}
  <1>1. Unrevoked(f) = {}
    BY DEF FreshFamilies, Unrevoked
  <1>2. ASSUME NEW r \in WorksOn(f) PROVE FALSE
    <2>1. request[r].token \in Tokens
      BY <1>2 DEF WorksOn, TypeInv, ServerTypeOK, Handlers
    <2> QED
      BY <1>2, <2>1 DEF WorksOn, FamilyOf, FreshFamilies
  <1> QED
    BY <1>1, <1>2

\* Whoever works on f after a step has done so before, unchanged or with its
\* revocation behind it, or has just found its token, alone.
LEMMA WorkersStep ==
    ASSUME TypeInv, [ServerNext]_serverVars, NEW f \in Families, f \notin past'.clashed,
           NEW s \in WorksOn(f)'
    PROVE  /\ request'[s].op = request[s].op /\ request'[s].token = request[s].token
           /\ request[s].token \in Tokens /\ FamilyOf(s) = f
           /\ \/ s \in WorksOn(f) /\ request'[s] = request[s]
              \/ /\ s \in WorksOn(f) /\ Revoke(s) /\ request[s].op = "refresh"
                 /\ request'[s].phase = "issue"
              \/ /\ WorksOn(f) = {} /\ Find(s)
                 /\ request'[s].phase = IF token[request[s].token].state = "revoked"
                                        THEN "kill" ELSE "revoke"
  <1> USE DEF TypeInv, ServerTypeOK
  <1>1. /\ s \in Requests /\ request'[s].phase \in {"kill", "revoke", "issue"}
        /\ request'[s].token # NoToken /\ token'[request'[s].token].family = f
    BY DEF WorksOn, FamilyOf
  <1>2. request'[s].op = request[s].op /\ request'[s].token = request[s].token
    BY <1>1, HandlerSteps
  <1>3. request[s].token \in Tokens /\ token[request[s].token].state # "unissued"
    BY <1>1, <1>2 DEF RequestOK, Handlers
  <1>4. FamilyOf(s) = f
    BY <1>1, <1>2, <1>3, StepKeepsTypes DEF TokensGrow, FamilyOf
  <1>5. CASE request'[s] = request[s]
    BY <1>1, <1>2, <1>3, <1>4, <1>5 DEF WorksOn
  <1>6. CASE request'[s] # request[s] /\ Find(s)
    <2>1. WorksOn(f) = {}
      BY <1>1, <1>4, <1>6 DEF Find, Pasts
    <2> QED
      BY <1>1, <1>2, <1>3, <1>4, <1>6, <2>1, HandlerSteps DEF Find, Revoke
  <1>7. CASE request'[s] # request[s] /\ ~Find(s)
    <2>1. Revoke(s) /\ request[s].op = "refresh" /\ request'[s].phase = "issue"
      BY <1>1, <1>7, HandlerSteps
    <2> QED
      BY <1>1, <1>2, <1>3, <1>4, <2>1, TokenConstants DEF Revoke, WorksOn
  <1> QED
    BY <1>5, <1>6, <1>7

\* A step that issues no token of f leaves it none that it had not.
LEMMA UnrevokedStep ==
    ASSUME TypeInv, [ServerNext]_serverVars, NEW f \in Families, NEW t \in Unrevoked(f)'
    PROVE  \/ t \in Unrevoked(f)
           \/ token[t].state = "unissued" /\ \E r \in Requests : Issue(r)
  <1>1. t \in Tokens /\ token'[t].family = f /\ token'[t].state \in {"live", "expired"}
    BY DEF Unrevoked
  <1>2. CASE token[t].state = "unissued"
    BY <1>1, <1>2, NewTokens DEF Unrevoked
  <1>3. CASE token[t].state # "unissued"
    BY <1>1, <1>3, StepKeepsTypes
    DEF TokensGrow, Unrevoked, TypeInv, ServerTypeOK, TokenRows
  <1> QED
    BY <1>2, <1>3

\* A new token of f finds nothing else of f: neither a token nor another handler.
LEMMA IssueStep ==
    ASSUME TypeInv, [ServerNext]_serverVars, NEW f \in Families, f \notin past'.clashed,
           FamilyInv(f), NEW r \in Requests, Issue(r)
    PROVE  \/ Unrevoked(f)' \subseteq Unrevoked(f)
           \/ /\ Unrevoked(f) = {} /\ WorksOn(f)' = {}
              /\ \A t, u \in Unrevoked(f)' : t = u
              /\ f \notin past.killed \cup past.closed
  <1> USE DEF TypeInv, ServerTypeOK
  <1>1. PICK n \in Tokens, g \in Families :
          /\ token' = [token EXCEPT ![n] =
                         [state |-> "live", family |-> g, parent |-> request[r].token]]
          /\ Answer(r, "pair", n)
          /\ \/ request[r].op = "login" /\ g \in FreshFamilies
             \/ request[r].op = "refresh" /\ g = FamilyOf(r)
    BY IssueGrows
  <1>2. /\ token'[n].family = g
        /\ \A t \in Tokens : t # n => token'[t] = token[t]
    BY <1>1
  <1>3. request'[r].phase = "answered" /\ \A s \in Requests : s # r => request'[s] = request[s]
    BY <1>1 DEF Answer, Answered
  <1>4. CASE g # f
    BY <1>2, <1>4 DEF Unrevoked
  <1>5. CASE g = f
    <2>1. /\ Unrevoked(f) = {} /\ WorksOn(f) \subseteq {r}
          /\ f \notin past.killed \cup past.closed
      <3>1. CASE f \in FreshFamilies
        BY <3>1, FreshIsEmpty DEF FamilyInv
      <3>2. CASE request[r].op = "refresh" /\ f = FamilyOf(r)
        <4>1. r \in WorksOn(f) /\ request[r].phase = "issue"
          BY <3>2, TokenConstants DEF Issue, RequestOK, WorksOn
        <4> QED
          BY <3>2, <4>1 DEF FamilyInv
      <3> QED
        BY <1>1, <1>5, <3>1, <3>2
    <2>2. WorksOn(f)' = {}
      <3> SUFFICES ASSUME NEW s \in WorksOn(f)' PROVE FALSE
        OBVIOUS
      <3>1. s \in WorksOn(f) \/ Find(s)
        BY WorkersStep
      <3>2. s \in Requests /\ request'[s].phase \in {"kill", "revoke", "issue"}
        BY DEF WorksOn
      <3>3. s # r
        BY <1>3, <3>2
      <3>4. Find(s)
        BY <2>1, <3>1, <3>3
      <3>5. request'[s].phase = "find"
        BY <1>3, <3>2, <3>3, <3>4 DEF Find
      <3> QED
        BY <3>2, <3>5
    <2>3. Unrevoked(f)' \subseteq {n}
      BY <1>2, <2>1 DEF Unrevoked
    <2> QED
      BY <2>1, <2>2, <2>3
  <1> QED
    BY <1>4, <1>5

\* A handler's own revocation leaves nothing of its session.
LEMMA RevokeStep ==
    ASSUME TypeInv, [ServerNext]_serverVars, NEW f \in Families, FamilyInv(f),
           NEW r \in WorksOn(f), Revoke(r)
    PROVE  Unrevoked(f)' = {}
  <1> USE DEF TypeInv, ServerTypeOK
  <1>1. r \in Requests /\ request[r].phase = "revoke"
    BY DEF WorksOn, Revoke
  <1>2. /\ token'[request[r].token].state = "revoked"
        /\ \A t \in Tokens : t # request[r].token => token'[t] = token[t]
    BY <1>1, RevokeGrows DEF Revoke
  <1>3. \A t \in Unrevoked(f) : t = request[r].token
    BY <1>1 DEF FamilyInv
  <1> QED
    BY <1>2, <1>3 DEF Unrevoked

\* The revocation of a family leaves nothing of it.
LEMMA KillStep ==
    ASSUME TypeInv, NEW f \in Families, NEW r \in Requests, Kill(r), FamilyOf(r) = f
    PROVE  Unrevoked(f)' = {}
  <1>1. token \in [Tokens -> TokenRows]
    BY DEF TypeInv, ServerTypeOK
  <1>2. ASSUME NEW t \in Tokens PROVE t \notin Unrevoked(f)'
    <2>1. CASE t \in Unrevoked(f)
      BY <1>1, <2>1 DEF Kill, KillFamily, Unrevoked, TokenRows
    <2>2. CASE t \notin Unrevoked(f)
      BY <1>1, <2>2 DEF Kill, KillFamily, Unrevoked
    <2> QED
      BY <2>1, <2>2
  <1> QED
    BY <1>2 DEF Unrevoked

\* The step in which r ends the session f: by revoking all of it, or by a logout.
Ends(r, f) ==
    /\ FamilyOf(r) = f
    /\ \/ Kill(r)
       \/ Revoke(r) /\ request[r].op = "logout"

\* The history of clashes and endings only grows, and grows by the session at hand.
LEMMA PastStep ==
    ASSUME TypeInv, [ServerNext]_serverVars
    PROVE  /\ past.clashed \subseteq past'.clashed
           /\ \A f \in Families :
                f \in past'.killed \cup past'.closed =>
                  \/ f \in past.killed \cup past.closed
                  \/ \E r \in Requests : Ends(r, f)
  <1> USE DEF TypeInv, ServerTypeOK, Pasts
  <1> DEFINE Grown == /\ past.clashed \subseteq past'.clashed
                      /\ \A f \in Families :
                           f \in past'.killed \cup past'.closed =>
                             \/ f \in past.killed \cup past.closed
                             \/ \E r \in Requests : Ends(r, f)
  <1>1. CASE past' = past
    BY <1>1
  <1>2. ASSUME NEW r \in Requests, Kill(r) PROVE Grown
    <2>1. /\ past'.clashed = past.clashed /\ past'.closed = past.closed
          /\ past'.killed = past.killed \cup {FamilyOf(r)}
      BY <1>2 DEF Kill
    <2>2. \A f \in Families : f = FamilyOf(r) => Ends(r, f)
      BY <1>2 DEF Ends
    <2> QED
      BY <2>1, <2>2
  <1>3. ASSUME NEW r \in Requests, Revoke(r), past' # past PROVE Grown
    <2>1. request[r].op = "logout" /\ past' = [past EXCEPT !.closed = @ \cup {FamilyOf(r)}]
      BY <1>3 DEF Revoke
    <2>2. /\ past'.clashed = past.clashed /\ past'.killed = past.killed
          /\ past'.closed = past.closed \cup {FamilyOf(r)}
      BY <2>1
    <2>3. \A f \in Families : f = FamilyOf(r) => Ends(r, f)
      BY <1>3, <2>1 DEF Ends
    <2> QED
      BY <2>2, <2>3
  <1>4. ASSUME NEW r \in Requests, Find(r), past' # past PROVE Grown
    <2>1. past' = [past EXCEPT !.clashed = @ \cup {FamilyOf(r)}]
      BY <1>4 DEF Find
    <2> QED
      BY <2>1
  <1>5. \/ past' = past
        \/ \E r \in Requests : Kill(r)
        \/ \E r \in Requests : Revoke(r)
        \/ \E r \in Requests : Find(r)
    BY DEF ServerNext, Statement, serverVars, StartLogin, Present, Issue, Throw, Abort, Expire
  <1>6. Grown
    BY <1>1, <1>2, <1>3, <1>4, <1>5
  <1> QED
    BY <1>6

LEMMA FamilyStep ==
    ASSUME TypeInv, [ServerNext]_serverVars, NEW f \in Families, f \notin past'.clashed,
           FamilyInv(f)
    PROVE  FamilyInv(f)'
  <1> USE DEF TypeInv, ServerTypeOK
  <1>1. CASE \E r \in Requests : Issue(r) /\ ~(Unrevoked(f)' \subseteq Unrevoked(f))
    <2>1. PICK r \in Requests : Issue(r) /\ ~(Unrevoked(f)' \subseteq Unrevoked(f))
      BY <1>1
    <2>2. /\ WorksOn(f)' = {} /\ \A t, u \in Unrevoked(f)' : t = u
          /\ f \notin past.killed \cup past.closed
      BY <2>1, IssueStep
    <2>3. past' = past
      BY <2>1 DEF Issue
    <2> QED
      BY <2>2, <2>3 DEF FamilyInv
  <1>2. CASE Unrevoked(f)' \subseteq Unrevoked(f)
    <2>1. ASSUME NEW r \in WorksOn(f)', NEW s \in WorksOn(f)' PROVE r = s
      <3>1. CASE r \in WorksOn(f) /\ s \in WorksOn(f)
        BY <3>1 DEF FamilyInv
      <3>2. CASE r \notin WorksOn(f) \/ s \notin WorksOn(f)
        <4>1. WorksOn(f) = {} /\ Find(r) /\ Find(s)
          BY <3>2, WorkersStep
        <4>2. r \in Requests /\ s \in Requests /\ request'[s].phase # "find"
          BY DEF WorksOn
        <4>3. request' = [request EXCEPT ![r] = request'[r]]
          BY <4>1, <4>2, FindCases DEF Find, Answer, Proceed
        <4> QED
          BY <4>1, <4>2, <4>3 DEF Find
      <3> QED
        BY <3>1, <3>2
    <2>2. ASSUME NEW t \in Unrevoked(f)', NEW u \in Unrevoked(f)' PROVE t = u
      BY <1>2 DEF FamilyInv
    <2>3. ASSUME NEW r \in WorksOn(f)', request'[r].phase = "revoke", NEW t \in Unrevoked(f)'
          PROVE  t = request'[r].token
      <3>1. t \in Unrevoked(f) /\ request'[r].token = request[r].token
        BY <1>2, WorkersStep
      <3>2. CASE r \in WorksOn(f) /\ request'[r] = request[r]
        BY <2>3, <3>1, <3>2 DEF FamilyInv
      <3>3. CASE Find(r) /\ token[request[r].token].state # "revoked"
        <4>1. request[r].token \in Unrevoked(f)
          <5>1. /\ request[r].token \in Tokens /\ FamilyOf(r) = f
                /\ r \in Requests /\ request[r].op \in {"refresh", "logout"}
            BY <3>3, WorkersStep DEF Find, RequestOK, WorksOn
          <5>2. token[request[r].token].state # "unissued"
            BY <5>1 DEF RequestOK
          <5> QED
            BY <3>3, <5>1, <5>2 DEF Unrevoked, FamilyOf, TokenRows
        <4> QED
          BY <3>1, <4>1 DEF FamilyInv
      <3> QED
        BY <2>3, <3>2, <3>3, WorkersStep
    <2>4. ASSUME NEW r \in WorksOn(f)', request'[r].phase = "issue"
          PROVE  Unrevoked(f)' = {}
      <3>1. CASE r \in WorksOn(f) /\ request'[r] = request[r]
        BY <1>2, <2>4, <3>1 DEF FamilyInv
      <3>2. CASE r \in WorksOn(f) /\ Revoke(r)
        BY <3>2, RevokeStep
      <3> QED
        BY <2>4, <3>1, <3>2, WorkersStep
    <2>5. ASSUME f \in past'.killed \cup past'.closed
          PROVE  /\ (f \notin FreshFamilies)'
                 /\ Unrevoked(f)' = {}
                 /\ \A r \in WorksOn(f)' : request'[r].op = "refresh" => request'[r].phase = "kill"
      <3>1. ASSUME NEW t \in Tokens, token[t].family = f PROVE (f \notin FreshFamilies)'
        <4>1. token[t].state # "unissued"
          BY <3>1, TokenConstants DEF TokensOK, Unissued
        <4> QED
          BY <3>1, <4>1, StepKeepsTypes DEF TokensGrow, FreshFamilies
      <3>2. CASE f \in past.killed \cup past.closed
        <4>1. /\ f \notin FreshFamilies /\ Unrevoked(f) = {}
              /\ \A r \in WorksOn(f) : request[r].op = "refresh" => request[r].phase = "kill"
          BY <3>2 DEF FamilyInv
        <4>2. (f \notin FreshFamilies)'
          BY <3>1, <4>1 DEF FreshFamilies
        <4>3. ASSUME NEW r \in WorksOn(f)', request'[r].op = "refresh"
              PROVE  request'[r].phase = "kill"
          <5>1. CASE r \in WorksOn(f) /\ request'[r] = request[r]
            BY <4>1, <4>3, <5>1
          <5>2. CASE r \in WorksOn(f) /\ Revoke(r) /\ request[r].op = "refresh"
            BY <4>1, <5>2 DEF Revoke
          <5>3. CASE Find(r) /\ token[request[r].token].state # "revoked"
            <6>1. /\ request[r].token \in Tokens /\ FamilyOf(r) = f
                  /\ r \in Requests /\ request[r].op = "refresh"
              BY <4>3, <5>3, WorkersStep DEF WorksOn
            <6>2. token[request[r].token].state # "unissued"
              BY <6>1 DEF RequestOK
            <6>3. request[r].token \in Unrevoked(f)
              BY <5>3, <6>1, <6>2 DEF Unrevoked, FamilyOf, TokenRows
            <6> QED
              BY <4>1, <6>3
          <5> QED
            BY <5>1, <5>2, <5>3, WorkersStep
        <4> QED
          BY <1>2, <4>1, <4>2, <4>3
      <3>3. ASSUME NEW r \in Requests, Ends(r, f)
            PROVE  Unrevoked(f)' = {} /\ WorksOn(f)' = {} /\ (f \notin FreshFamilies)'
        <4>1. request[r].token \in Tokens /\ r \in WorksOn(f)
          BY <3>3, TokenConstants DEF Ends, Kill, Revoke, RequestOK, WorksOn
        <4>2. Unrevoked(f)' = {}
          BY <3>3, <4>1, KillStep, RevokeStep DEF Ends
        <4>3. /\ request'[r].phase = "answered"
              /\ \A s \in Requests : s # r => request'[s] = request[s]
          BY <3>3 DEF Ends, Kill, Revoke, Answer, Answered
        <4>4. WorksOn(f)' = {}
          <5> SUFFICES ASSUME NEW s \in WorksOn(f)' PROVE FALSE
            OBVIOUS
          <5>1. s \in WorksOn(f)
            BY <4>1, WorkersStep
          <5>2. s = r /\ request'[s].phase # "answered"
            BY <4>1, <5>1 DEF FamilyInv, WorksOn
          <5> QED
            BY <4>3, <5>2
        <4> QED
          BY <3>1, <3>3, <4>1, <4>2, <4>4 DEF Ends, FamilyOf
      <3>4. CASE f \notin past.killed \cup past.closed
        <4>1. PICK r \in Requests : Ends(r, f)
          BY <2>5, <3>4, PastStep
        <4>2. Unrevoked(f)' = {} /\ WorksOn(f)' = {} /\ (f \notin FreshFamilies)'
          BY <3>3, <4>1
        <4> QED
          BY <4>2
      <3> QED
        BY <3>2, <3>4
    <2> QED
      BY <2>1, <2>2, <2>3, <2>4, <2>5 DEF FamilyInv
  <1> QED
    BY <1>1, <1>2, UnrevokedStep

LEMMA SessionStep ==
    TypeInv /\ SessionInv /\ [ServerNext]_serverVars => SessionInv'
  <1> SUFFICES ASSUME TypeInv, SessionInv, [ServerNext]_serverVars,
                      NEW f \in Families \ past'.clashed
               PROVE  FamilyInv(f)'
    BY DEF SessionInv
  <1>1. f \in Families /\ f \notin past'.clashed /\ FamilyInv(f)
    BY PastStep DEF SessionInv
  <1> QED
    BY <1>1, FamilyStep

LEMMA SessionInvInit == ServerInit => SessionInv
  <1> SUFFICES ASSUME ServerInit, NEW f \in Families PROVE FamilyInv(f)
    BY DEF SessionInv
  <1>1. Unrevoked(f) = {} /\ WorksOn(f) = {} /\ f \notin past.killed \cup past.closed
    BY DEF ServerInit, Unissued, NoRequest, Unrevoked, WorksOn
  <1> QED
    BY <1>1 DEF FamilyInv

LEMMA SessionInvariant == ServerSpec => [](TypeInv /\ SessionInv)
  BY TypeInvInit, StepKeepsTypes, SessionInvInit, SessionStep, PTL DEF ServerSpec

\* As long as no two handlers have worked on a session at once, it never has two
\* tokens that are not revoked ...
THEOREM OneTokenPerSession == ServerSpec => []OneLiveToken
  <1>1. SessionInv => OneLiveToken
    BY DEF SessionInv, FamilyInv, OneLiveToken
  <1> QED
    BY <1>1, SessionInvariant, PTL

\* ... and none after a reuse was detected or its user logged out.
THEOREM EndedIsDead == ServerSpec => []EndedSessionsAreDead
  <1>1. TypeInv /\ SessionInv => EndedSessionsAreDead
    BY DEF TypeInv, ServerTypeOK, SessionInv, FamilyInv, EndedSessionsAreDead, Pasts
  <1> QED
    BY <1>1, SessionInvariant, PTL

=============================================================================
