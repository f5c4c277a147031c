--------------------------- MODULE MCWebhookDispatch ---------------------------
(***************************************************************************)
(* Instances of WebhookDispatch for TLC.                                   *)
(***************************************************************************)
EXTENDS WebhookDispatch, TLC

CONSTANTS d1, d2, d3, d4, e1, e2

\* Every delivery goes to the same endpoint: deliveries are interchangeable.
OneEndpoint == [d \in Deliveries |-> e1]

\* The first delivery has an endpoint of its own.
TwoEndpoints == [d \in Deliveries |-> IF d = d1 THEN e1 ELSE e2]

\* Dispatchers and claim ids are always interchangeable; deliveries are when
\* they share their endpoint.
SymmetricActors == Permutations(Dispatchers) \cup Permutations(ClaimIds)
SymmetricAll == SymmetricActors \cup Permutations(Deliveries)

=============================================================================
