--------------------------- MODULE MCRequestPipeline ---------------------------
(***************************************************************************)
(* An instance of RequestPipeline for TLC: one user with a session and an  *)
(* API key, and three menus: creations that share an idempotency key,      *)
(* calls that share a rate-limit bucket, and calls that the guard sorts.   *)
(***************************************************************************)
EXTENDS RequestPipeline, TLC

CONSTANT k1

Keys == k1 :> [user |-> "u1", scopes |-> {"url:write", "devtools:encoding"}, rateLimit |-> 20]

Offer(module, method, path, bearer, apiKey, key, body) ==
  [module |-> module, method |-> method, path |-> path, bearer |-> bearer,
   apiKey |-> apiKey, key |-> key, body |-> body]

\* A creation by a session and by an API key of its user, under one key.
Creations ==
  {Offer("url", "post", <<>>, "u1", Nobody, "a", "b1"),
   Offer("url", "post", <<>>, Nobody, k1, "a", "b2"),
   Offer("url", "post", <<>>, "u1", Nobody, "a", "invalid")}

Encodings ==
  {Offer("developer-tools", "post", <<"base64", way>>, Nobody, k1, NoKey, "b1") :
     way \in {"encode", "decode"}}

\* Public routes, a missing scope, and an expired token beside a good API key.
Admissions ==
  {Offer("url", method, <<"x", "redirect">>, Nobody, Nobody, NoKey, "b1") :
     method \in {"get", "head"}}
  \cup {Offer("url", "get", <<"x">>, Nobody, k1, NoKey, "b1"),
        Offer("url", "post", <<>>, Expired, k1, NoKey, "b1"),
        Offer("url", "post", <<>>, "u1", Nobody, NoKey, "invalid")}

AllMenus == {Creations, Encodings, Admissions}

\* Twenty points let one request through, sixty let three.
OnePerTwenty(points) == points \div 20

Interchangeable == Permutations(Requests) \cup Permutations(Processes)
===============================================================================
