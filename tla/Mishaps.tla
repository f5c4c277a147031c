---- MODULE Mishaps ----
(***************************************************************************)
(* The users, and the bad luck of a behaviour.  ShortLinks, WebhookFanout  *)
(* and the panels of Console draw on one allowance of it: a statement      *)
(* fails, a call or its answer is lost, a process dies, the user comes     *)
(* back to a panel.                                                        *)
(***************************************************************************)
EXTENDS Naturals

CONSTANTS
  People,     \* AuthUser rows: who owns a link or an endpoint
  Nobody,     \* follows or scans without signing in; owns nothing
  MaxMishaps  \* bound: how often something goes wrong in one behaviour

MishapsAssumption == Nobody \notin People /\ MaxMishaps \in Nat
ASSUME MishapsAssumption

VARIABLE mishaps

Mishap == mishaps < MaxMishaps /\ mishaps' = mishaps + 1
NoMishap == UNCHANGED mishaps
====
