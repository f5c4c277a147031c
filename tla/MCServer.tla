-------------------------------- MODULE MCServer --------------------------------
(***************************************************************************)
(* Instances of Server for TLC: every way in which three modules may       *)
(* depend on each other, directories that must be refused, and the shape   *)
(* of the repository's own modules under load.                             *)
(***************************************************************************)
EXTENDS Server, TLC

Alphabetical == "auth" :> 1 @@ "pdf" :> 2 @@ "url" :> 3 @@ "none" :> 4

Module(name, deps) == [name |-> name, base |-> name, deps |-> deps, valid |-> TRUE]

\* Up to two dependencies in either order, one named twice, one that is missing.
SomeDeps ==
  {<<>>, <<"none">>, <<"auth", "auth">>, <<"pdf", "auth">>}
    \cup {<<n>> : n \in {"auth", "pdf", "url"}}
    \cup {<<"auth", "url">>, <<"pdf", "url">>}

Graphs == {<<Module("auth", a), Module("pdf", p), Module("url", u)>> : a, p, u \in SomeDeps}

\* The repository: every other module depends on auth.
Star == <<Module("auth", <<>>), Module("pdf", <<"auth">>), Module("url", <<"auth">>)>>

\* A module that is destroyed before the renderer, and one after.
Chain == <<Module("auth", <<>>), Module("pdf", <<"auth">>), Module("url", <<"pdf">>)>>

Faulty ==
  {<<>>,
   <<Module("auth", <<>>), [Module("pdf", <<>>) EXCEPT !.base = "auth"]>>,
   <<Module("auth", <<>>), Module("auth", <<>>)>>,
   <<Module("auth", <<>>), [Module("pdf", <<>>) EXCEPT !.valid = FALSE]>>}

AllDeployments == Graphs \cup {Star, Chain} \cup Faulty
BusyDeployments == {Star, Chain}
===============================================================================
