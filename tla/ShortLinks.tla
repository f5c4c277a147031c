------------------------------ MODULE ShortLinks ------------------------------
(***************************************************************************)
(* Short URLs and QR codes: the links that the url and qr modules create,  *)
(* read, delete and follow.  A call of the API is a record; a step is one  *)
(* statement of the database, and other calls come between the statements  *)
(* of one call.                                                            *)
(***************************************************************************)
EXTENDS Integers, FiniteSets, Mishaps

CONSTANTS
  Codes,       \* the short codes the generator draws from
  QrIds,       \* the ids of the QR codes, drawn once each
  MaxCalls,    \* bound: the calls of one behaviour
  MaxAttempts  \* MAX_GENERATION_ATTEMPTS

LinksAssumption ==
  /\ MaxCalls \in Nat /\ MaxAttempts \in Nat \ {0}
  /\ Codes \cap QrIds = {}
ASSUME LinksAssumption

VARIABLES
  link,   \* the tables of short URLs, by code, and of QR codes, by id
  call    \* the calls: what they ask for, how far they are, what they answer

linkVars == <<link, call>>

Calls == 1..MaxCalls
Keys == Codes \cup QrIds

\* by: the call that created the row; kind: "url" or the mode of a QR code.
NoLink == [by |-> 0, user |-> Nobody, kind |-> "none", life |-> "none", hits |-> 0]
NoCall ==
  [op |-> "none", user |-> Nobody, key |-> Nobody, kind |-> "none", phase |-> "new",
   attempt |-> 0, status |-> 0, by |-> 0]

LinksInit ==
  /\ link = [k \in Keys |-> NoLink]
  /\ call = [c \in Calls |-> NoCall]

\* Calls are numbered in the order in which they begin.
IsNext(c) == call[c].phase = "new" /\ \A b \in 1..(c - 1) : call[b].phase # "new"

Goes(c, phase) == call' = [call EXCEPT ![c].phase = phase]
Answers(c, status, by) ==
  call' = [call EXCEPT ![c] = [@ EXCEPT !.phase = "done", !.status = status, !.by = by]]

\* A statement that changed a row is answered for, or its result is lost.
Commits(c, status, by) ==
  \/ Answers(c, status, by) /\ NoMishap
  \/ Answers(c, 500, by) /\ Mishap

-------------------------------------------------------------------------------
\* POST /urls: the first code is drawn before the first await.
BeginCreate(c, u, k, life) ==
  /\ IsNext(c) /\ k \in Codes
  /\ call' = [call EXCEPT ![c] = [NoCall EXCEPT !.op = "create", !.user = u, !.key = k,
                                                !.kind = life, !.phase = "exists"]]
  /\ UNCHANGED link

\* POST /qr: the id is new, and the code rendered, before the row is inserted.
BeginQr(c, u, k, mode) ==
  /\ IsNext(c) /\ k \in QrIds /\ \A b \in Calls : call[b].op = "qr" => call[b].key # k
  /\ call' = [call EXCEPT ![c] = [NoCall EXCEPT !.op = "qr", !.user = u, !.key = k,
                                                !.kind = mode, !.phase = "insert"]]
  /\ UNCHANGED link

\* GET /urls/:code, DELETE /urls/:code, GET /urls/:code/redirect, GET /qr/:id,
\* GET /qr/:id/scan.
Begin(c, op, u, k) ==
  /\ IsNext(c)
  /\ k \in IF op \in {"view", "scan"} THEN QrIds ELSE Codes
  /\ call' = [call EXCEPT ![c] = [NoCall EXCEPT !.op = op, !.user = u, !.key = k,
                                                !.phase = IF op = "delete" THEN "delete" ELSE "find"]]
  /\ UNCHANGED link

\* The drawn code is taken: another one, or 503 after the last attempt.
Redraw(c) ==
  \/ call[c].attempt + 1 = MaxAttempts /\ Answers(c, 503, 0)
  \/ /\ call[c].attempt + 1 < MaxAttempts
     /\ \E k \in Codes :
          call' = [call EXCEPT ![c] = [@ EXCEPT !.key = k, !.attempt = call[c].attempt + 1,
                                                  !.phase = "exists"]]

Exists(c) ==
  /\ call[c].phase = "exists"
  /\ \/ link[call[c].key] # NoLink /\ Redraw(c)
     \/ link[call[c].key] = NoLink /\ Goes(c, "insert")
  /\ NoMishap /\ UNCHANGED link

NewRow(c) ==
  IF call[c].op = "qr"
  THEN [by |-> c, user |-> call[c].user, kind |-> call[c].kind, life |-> "never", hits |-> 0]
  ELSE [by |-> c, user |-> call[c].user, kind |-> "url", life |-> call[c].kind, hits |-> 0]

\* The unique index decides between two calls that both found the code free.
Insert(c) ==
  LET k == call[c].key
  IN  /\ call[c].phase = "insert"
      /\ \/ link[k] # NoLink /\ Redraw(c) /\ NoMishap /\ UNCHANGED link
         \/ link[k] = NoLink /\ link' = [link EXCEPT ![k] = NewRow(c)] /\ Commits(c, 201, c)

\* Mutant: the row is deleted by its code alone.
MayDeleteAny(row, user) == row # NoLink

\* deleteMany where shortCode and userId.
MayDelete(row, user) == row # NoLink /\ row.user = user

Delete(c) ==
  LET k == call[c].key
  IN  /\ call[c].phase = "delete"
      /\ \/ /\ MayDelete(link[k], call[c].user)
            /\ link' = [link EXCEPT ![k] = NoLink] /\ Commits(c, 204, link[k].by)
         \/ ~MayDelete(link[k], call[c].user) /\ Answers(c, 404, 0) /\ NoMishap /\ UNCHANGED link

\* The row a call may have: anyone follows a link, its owner reads it.
Finds(op, user, row) ==
  CASE op = "redirect" -> row # NoLink
    [] op = "scan" -> row.kind = "redirect"
    [] OTHER -> row # NoLink /\ row.user = user

\* A redirect, a scan, and the owner's look at a redirecting QR code are counted.
Counted(op, row) == op \in {"redirect", "scan"} \/ (op = "view" /\ row.kind = "redirect")

Find(c) ==
  LET row == link[call[c].key]
      op == call[c].op
  IN  /\ call[c].phase = "find"
      /\ \/ ~Finds(op, call[c].user, row) /\ Answers(c, 404, 0)
         \/ Finds(op, call[c].user, row) /\ op = "redirect" /\ row.life = "past" /\ Answers(c, 410, 0)
         \/ Finds(op, call[c].user, row) /\ ~Counted(op, row) /\ Answers(c, 200, row.by)
         \/ /\ Finds(op, call[c].user, row) /\ Counted(op, row)
            /\ op = "redirect" => row.life # "past"
            /\ Goes(c, "count")
      /\ NoMishap /\ UNCHANGED link

\* update where the code or the id, increment by 1: of the row that has the code
\* now, which may be another one than the one found, or none.
Count(c) ==
  LET k == call[c].key
  IN  /\ call[c].phase = "count"
      /\ \/ link[k] = NoLink /\ Answers(c, 404, 0) /\ NoMishap /\ UNCHANGED link
         \/ /\ link[k] # NoLink
            /\ link' = [link EXCEPT ![k].hits = @ + 1]
            /\ Commits(c, IF call[c].op = "view" THEN 200 ELSE 302, link[k].by)

\* A statement fails before it changes anything.
CallFails(c) ==
  /\ call[c].phase \notin {"new", "done"}
  /\ Mishap /\ Answers(c, 500, 0)
  /\ UNCHANGED link

CallStep(c) == Exists(c) \/ Insert(c) \/ Delete(c) \/ Find(c) \/ Count(c)

\* expiresAt passes.
Expire(k) ==
  /\ link[k].life = "later"
  /\ link' = [link EXCEPT ![k].life = "past"]
  /\ NoMishap /\ UNCHANGED call
-------------------------------------------------------------------------------
Deletes(d, c) ==
  /\ call[d].op = "delete" /\ call[d].phase = "done" /\ call[d].by = c
  /\ call[d].user = call[c].user

\* What the API has acknowledged it keeps: the row stays under its code or id, with
\* its creator, until the creator deletes it, whoever draws the same code or
\* presents it; and its count is that of the calls it has answered, however many
\* arrive at once.
LinksKept ==
  \A c \in Calls :
    call[c].status = 201 =>
      LET row == link[call[c].key]
          hits == {q \in Calls : call[q].by = c /\ call[q].phase = "done"
                                   /\ Counted(call[q].op, row)}
      IN  \/ \E d \in Calls : Deletes(d, c)
          \/ row.by = c /\ row.user = call[c].user /\ row.hits = Cardinality(hits)
===============================================================================
