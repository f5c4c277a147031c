---------------------------- MODULE RefreshTokens ----------------------------
(***************************************************************************)
(* Sessions on the server: the RefreshToken table and the handlers of      *)
(* /auth/login, /auth/refresh and /auth/logout (src/modules/auth).         *)
(*                                                                         *)
(* Every statement of auth.repository.ts is a step of its own.  Nothing    *)
(* keeps two requests from working on the same token or family: the        *)
(* handlers take no lock and run in no transaction.                        *)
(***************************************************************************)
CONSTANTS
    Tokens,     \* refresh tokens that can ever be generated, a bound
    Families,   \* values of familyId, a bound
    Requests,   \* requests that can be in progress at once, a bound
    NoToken, NoFamily

ASSUME TokenConstants == NoToken \notin Tokens /\ NoFamily \notin Families

VARIABLES
    token,      \* [Tokens -> TokenRows]: the RefreshToken table
    request,    \* [Requests -> Handlers]: the handlers in progress
    past        \* what the properties need to know of the past

serverVars == <<token, request, past>>

-----------------------------------------------------------------------------
(* Types *)

\* state: "unissued" (no such row), "revoked" (revokedAt is set), or else "live"
\* or, once expiresAt has passed, "expired".
\* `parent`, the token that was rotated into this one, is history.
TokenRows == [state : {"unissued", "live", "expired", "revoked"},
              family : Families \cup {NoFamily},
              parent : Tokens \cup {NoToken}]

\* The phases name the statement that the handler is about to make.  A handler
\* that has "answered" has the reply to give: a pair (named by its refresh token),
\* a 401, a 500, or just success.
Handlers == [op : {"none", "login", "refresh", "logout"},
             phase : {"idle", "find", "kill", "revoke", "issue", "answered"},
             token : Tokens \cup {NoToken},
             reply : {"none", "pair", "refused", "error", "done"},
             pair : Tokens \cup {NoToken}]

\* clashed: families on which two handlers have worked at once
\* killed: families revoked because of reuse;  closed: by a logout
Pasts == [clashed : SUBSET Families, killed : SUBSET Families, closed : SUBSET Families]

NoRequest == [op |-> "none", phase |-> "idle", token |-> NoToken,
              reply |-> "none", pair |-> NoToken]
Unissued == [state |-> "unissued", family |-> NoFamily, parent |-> NoToken]

ServerTypeOK ==
    /\ token \in [Tokens -> TokenRows]
    /\ request \in [Requests -> Handlers]
    /\ past \in Pasts

-----------------------------------------------------------------------------
(* Helpers *)

Issued == {t \in Tokens : token[t].state # "unissued"}
Live(f) == {t \in Tokens : token[t].family = f /\ token[t].state = "live"}
Unrevoked(f) == {t \in Tokens : token[t].family = f /\ token[t].state \in {"live", "expired"}}
FreshFamilies == Families \ {token[t].family : t \in Tokens}

FamilyOf(r) == token[request[r].token].family

\* Handlers between the statement that found the token and their last one.
WorksOn(f) ==
    {r \in Requests : /\ request[r].phase \in {"kill", "revoke", "issue"}
                      /\ request[r].token # NoToken
                      /\ FamilyOf(r) = f}

Answered(r, reply, pair) ==
    [op |-> request[r].op, phase |-> "answered", token |-> request[r].token,
     reply |-> reply, pair |-> pair]

\* Mutant: the fields of the answer are swapped.
AnswerSwapped(r, reply, pair) ==
    request' = [request EXCEPT ![r] = Answered(r, pair, reply)]

Answer(r, reply, pair) == request' = [request EXCEPT ![r] = Answered(r, reply, pair)]

Proceed(r, phase) == request' = [request EXCEPT ![r].phase = phase]

-----------------------------------------------------------------------------
(* Requests come and go *)

\* A login, or a registration: the password has been verified, or the account
\* created, and it remains to issue the first pair of a new family.
StartLogin(r) ==
    /\ request[r] = NoRequest
    /\ request' = [request EXCEPT ![r] = [NoRequest EXCEPT !.op = "login", !.phase = "issue"]]
    /\ UNCHANGED <<token, past>>

\* Somebody who has once been given the token t presents it.
Present(r, op, t) ==
    /\ request[r] = NoRequest
    /\ t \in Issued
    /\ request' = [request EXCEPT ![r] =
                     [NoRequest EXCEPT !.op = op, !.phase = "find", !.token = t]]
    /\ UNCHANGED <<token, past>>

\* The reply reaches the one who asked.
Collect(r) ==
    /\ request[r].phase = "answered"
    /\ request' = [request EXCEPT ![r] = NoRequest]

\* The process dies with the handler, after any of its statements.
Abort(r) ==
    /\ request[r].phase \notin {"idle", "answered"}
    /\ request' = [request EXCEPT ![r] = NoRequest]
    /\ UNCHANGED <<token, past>>

\* expiresAt passes, which no handler asks for once the token is revoked.
Expire(t) ==
    /\ token[t].state = "live"
    /\ token' = [token EXCEPT ![t].state = "expired"]
    /\ UNCHANGED <<request, past>>

-----------------------------------------------------------------------------
(* The statements of the handlers *)

\* Mutant: refresh() does not revoke the token that it rotates.
AfterFindKeepsOld(r, state) ==
    CASE request[r].op = "logout" /\ state = "revoked" -> Answer(r, "done", NoToken)
      [] request[r].op = "refresh" /\ state = "revoked" -> Proceed(r, "kill")
      [] request[r].op = "refresh" /\ state = "expired" -> Answer(r, "refused", NoToken)
      [] OTHER -> Proceed(r, IF request[r].op = "refresh" THEN "issue" ELSE "revoke")

\* Mutant: refresh() does not look at revokedAt.
AfterFindTrustsRevoked(r, state) ==
    CASE request[r].op = "logout" /\ state = "revoked" -> Answer(r, "done", NoToken)
      [] request[r].op = "refresh" /\ state = "expired" -> Answer(r, "refused", NoToken)
      [] OTHER -> Proceed(r, "revoke")

\* findRefreshTokenByHash, and what refresh() and logout() conclude from the row.
AfterFind(r, state) ==
    CASE request[r].op = "logout" /\ state = "revoked" -> Answer(r, "done", NoToken)
      [] request[r].op = "refresh" /\ state = "revoked" -> Proceed(r, "kill")
      [] request[r].op = "refresh" /\ state = "expired" -> Answer(r, "refused", NoToken)
      [] OTHER -> Proceed(r, "revoke")

Find(r) ==
    /\ request[r].phase = "find"
    /\ AfterFind(r, token[request[r].token].state)
    /\ past' = IF WorksOn(FamilyOf(r)) = {} THEN past
               ELSE [past EXCEPT !.clashed = @ \cup {FamilyOf(r)}]
    /\ UNCHANGED token

\* Mutant: the where clause asks for revokedAt to be set.
KillFamilyInverted(f) == token' = token /\ f \in Families

\* revokeRefreshTokenFamily
KillFamily(f) ==
    token' = [t \in Tokens |->
                IF t \in Unrevoked(f) THEN [token[t] EXCEPT !.state = "revoked"] ELSE token[t]]

Kill(r) ==
    /\ request[r].phase = "kill"
    /\ KillFamily(FamilyOf(r))
    /\ Answer(r, "refused", NoToken)
    /\ past' = [past EXCEPT !.killed = @ \cup {FamilyOf(r)}]

\* revokeRefreshToken, which does not ask whether somebody else has revoked it
Revoke(r) ==
    /\ request[r].phase = "revoke"
    /\ token' = [token EXCEPT ![request[r].token].state = "revoked"]
    /\ IF request[r].op = "logout"
       THEN /\ Answer(r, "done", NoToken)
            /\ past' = [past EXCEPT !.closed = @ \cup {FamilyOf(r)}]
       ELSE Proceed(r, "issue") /\ UNCHANGED past

\* issueTokenPair: a token of the family of the one it replaces, or of a new family
Issue(r) ==
    /\ request[r].phase = "issue"
    /\ \E t \in Tokens \ Issued :
         \E f \in IF request[r].op = "login" THEN FreshFamilies ELSE {FamilyOf(r)} :
           /\ token' = [token EXCEPT ![t] =
                          [state |-> "live", family |-> f, parent |-> request[r].token]]
           /\ Answer(r, "pair", t)
    /\ UNCHANGED past

\* A statement throws: the caller gets a 500, and what the statements before it
\* wrote stays written.  (Or, before the first, the rate limiter refuses.)
Throw(r) ==
    /\ request[r].phase \in {"find", "kill", "revoke", "issue"}
    /\ Answer(r, "error", NoToken)
    /\ UNCHANGED <<token, past>>

-----------------------------------------------------------------------------
(* The specification: anybody may present any token at any time *)

ServerInit ==
    /\ token = [t \in Tokens |-> Unissued]
    /\ request = [r \in Requests |-> NoRequest]
    /\ past = [clashed |-> {}, killed |-> {}, closed |-> {}]

Statement(r) == Find(r) \/ Kill(r) \/ Revoke(r) \/ Issue(r) \/ Throw(r)

ServerNext ==
    \/ \E r \in Requests :
         \/ StartLogin(r)
         \/ \E op \in {"refresh", "logout"}, t \in Tokens : Present(r, op, t)
         \/ Statement(r)
         \/ Abort(r)
         \/ Collect(r) /\ UNCHANGED <<token, past>>
    \/ \E t \in Tokens : Expire(t)

ServerSpec == ServerInit /\ [][ServerNext]_serverVars

-----------------------------------------------------------------------------
(* Properties *)

\* The old token is always dead before its successor exists, so that no crash or
\* failed statement between the two leaves both alive.
RotatedIsRevoked ==
    \A t \in Issued : token[t].parent # NoToken => token[token[t].parent].state = "revoked"

\* A session, once nothing of it is alive and no rotation of it is under way,
\* never comes back: no late request and no retry revives it.
Dead(f) ==
    /\ f \notin FreshFamilies
    /\ Unrevoked(f) = {}
    /\ \A r \in WorksOn(f) : request[r].phase = "kill" \/ request[r].op = "logout"

DeadSessionsStayDead == [][\A f \in Families : Dead(f) => Dead(f)']_serverVars

\* As long as no two handlers have worked on a family at once, it has at most one
\* token that is not revoked ...
OneLiveToken ==
    \A f \in Families \ past.clashed : \A t, u \in Unrevoked(f) : t = u

\* ... and none after a reuse was detected or the user logged out.
EndedSessionsAreDead ==
    \A f \in (past.killed \cup past.closed) \ past.clashed : Unrevoked(f) = {}

-----------------------------------------------------------------------------
(* What a description of the API says and the code does not do *)

\* auth.routes.ts:48: "Refresh tokens are single-use."  Two requests that present
\* one token at the same time both find it live, and both are given a pair.
SingleUse ==
    \A t, u \in Issued : token[t].parent = token[u].parent /\ token[t].parent # NoToken => t = u

=============================================================================
