----------------------------- MODULE MCWebSession -----------------------------
(***************************************************************************)
(* Instances of WebSession, and of RefreshTokens as the part of it that    *)
(* serves the tabs, for TLC.                                               *)
(***************************************************************************)
EXTENDS WebSession, TLC

CONSTANTS a1, a2, f1, o1, tabA

\* All calls are made by one tab.  A second tab would not look at this tab's
\* refreshInFlight, which is what the calls through authorizedFetch do not do either.
OneTab == [c \in Calls |-> tabA]

\* Tokens, families and the calls of a kind carry no order and no meaning of their own.
Symmetry == Permutations(Tokens) \cup Permutations(Families) \cup Permutations(ApiCalls)
=============================================================================
