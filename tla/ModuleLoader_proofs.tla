-------------------------- MODULE ModuleLoader_proofs --------------------------
(***************************************************************************)
(* Theorems about ModuleLoader, for any modules directories, names and     *)
(* numbers of connections and signals: what the order that the sort finds  *)
(* is good for, and that it finds one exactly if there is one.             *)
(***************************************************************************)
EXTENDS ModuleLoader, FiniteSetTheorems, SequenceTheorems, TLAPS

(***************************************************************************)
(* The inductive invariant.                                                *)
(***************************************************************************)
Phases ==
  {"boot", "sorting", "init", "up", "draining", "destroying", "exited", "failed", "killed"}

LoaderTypes ==
  /\ modules \in Seq(Manifest) /\ phase \in Phases
  /\ queue \subseteq Loaded /\ inDegree \in [Names -> Int]
  /\ ordered \in Seq(Names) /\ started \in Seq(Names) /\ stopped \in Seq(Names)

Dependencies == [n \in Names |-> DepsOf(n)]

\* The places in a list of dependencies whose name a list of names lacks.
MissingFrom(deps, names) == {i \in 1..Len(deps) : deps[i] \notin Elements(names)}

\* Every name is ordered once, and after the names it depends on.
OrderSound ==
  /\ \A i, j \in 1..Len(ordered) : ordered[i] = ordered[j] => i = j
  /\ \A i \in 1..Len(ordered) : ordered[i] \in Loaded
  /\ \A i \in 1..Len(ordered) : \A m \in Elements(Dependencies[ordered[i]]) :
       \E j \in 1..(i - 1) : ordered[j] = m

\* So that no ordered names wait for each other.
OrderedNotCyclic ==
  \A S \in SUBSET Elements(ordered) :
    S # {} => \E n \in S : Elements(Dependencies[n]) \cap S = {}

\* What the sort counts: the dependencies that are still to be ordered.
SortSound ==
  /\ phase = "boot" => ordered = <<>>
  /\ phase \notin {"boot", "failed", "killed"} => Sortable
  /\ phase = "sorting" =>
       /\ \A x \in Loaded : inDegree[x] = Cardinality(MissingFrom(Dependencies[x], ordered))
       /\ queue = {x \in Loaded : x \notin Elements(ordered) /\ MissingFrom(Dependencies[x], ordered) = {}}
  /\ phase \in {"init", "up", "draining", "destroying", "exited"} => Len(ordered) = Len(modules)

\* The sort fails for a reason.
FailureSound ==
  phase = "failed" /\ started = <<>> /\ Len(ordered) < Len(modules) => ~Sortable \/ Cyclic

\* The modules are initialised in their order, all of them before the server
\* listens, and destroyed in the reverse order.
HooksSound ==
  /\ Len(started) <= Len(ordered) /\ \A i \in 1..Len(started) : started[i] = ordered[i]
  /\ Len(stopped) <= Len(ordered)
  /\ \A i \in 1..Len(stopped) : stopped[i] = ordered[Len(ordered) + 1 - i]
  /\ phase \in {"boot", "sorting"} => started = <<>>
  /\ phase \in {"boot", "sorting", "init", "failed", "up", "draining"} => stopped = <<>>
  /\ phase \in {"up", "draining", "destroying", "exited"} => Len(started) = Len(ordered)

LoaderInv ==
  LoaderTypes /\ OrderSound /\ OrderedNotCyclic /\ SortSound /\ FailureSound /\ HooksSound

(***************************************************************************)
(* Lists of names.                                                         *)
(***************************************************************************)
\* What a list holds once a name is appended (Array.push).
LEMMA ElementsAppend ==
    ASSUME NEW s \in Seq(Names), NEW n \in Names
    PROVE  /\ Append(s, n) \in Seq(Names) /\ Len(Append(s, n)) = Len(s) + 1 /\ Len(s) \in Nat
           /\ \A i \in 1..Len(s) : Append(s, n)[i] = s[i]
           /\ Append(s, n)[Len(s) + 1] = n
           /\ Elements(Append(s, n)) = Elements(s) \cup {n}
<1>1. /\ Append(s, n) \in Seq(Names) /\ Len(Append(s, n)) = Len(s) + 1 /\ Len(s) \in Nat
      /\ \A i \in 1..Len(s) : Append(s, n)[i] = s[i]
      /\ Append(s, n)[Len(s) + 1] = n
  OBVIOUS
<1>2. 1..Len(Append(s, n)) = 1..Len(s) \cup {Len(s) + 1}  BY <1>1
<1>3. QED  BY <1>1, <1>2 DEF Elements

\* A non-empty set of names has an alphabetically first one: what the sort of
\* the queue brings to its front.
LEMMA FirstExists ==
    ASSUME NEW Q \in SUBSET Names, Q # {}
    PROVE  \E n \in Q : \A m \in Q : Rank[n] <= Rank[m]
<1> DEFINE Before(n) == {m \in Q : Rank[m] < Rank[n]}
           Befores == {Before(n) : n \in Q}
<1>1. IsFiniteSet(Q)  BY LoaderAssumption, FS_Subset DEF LoaderAssumption
<1>2. Befores \subseteq FiniteSubsetsOf(Q) /\ Befores # {}
  <2>1. Befores \subseteq SUBSET Q /\ Befores # {}  OBVIOUS
  <2> HIDE DEF Befores
  <2> QED  BY <1>1, <2>1, FS_FiniteSubsetsOfFinite
<1>3. PICK T \in Befores : \A U \in Befores : ~(<<U, T>> \in StrictSubsetOrdering(Q))
  <2> HIDE DEF Befores
  <2> QED  BY <1>2, FS_StrictSubsetOrderingWellFounded, WFMin
<1>4. PICK n \in Q : T = Before(n)  BY <1>3
<1>5. ASSUME NEW m \in Q, Rank[m] < Rank[n] PROVE FALSE
  <2>1. Before(m) \in Befores /\ Before(m) \in SUBSET Q /\ T \in SUBSET Q  BY <1>4
  <2>2. Rank[m] \in Nat /\ Rank[n] \in Nat /\ \A k \in Q : Rank[k] \in Nat
    BY LoaderAssumption DEF LoaderAssumption
  <2>3. Before(m) \subseteq T  BY <1>4, <1>5, <2>2
  <2>4. m \in T /\ m \notin Before(m)  BY <1>4, <1>5, <2>2
  <2>5. <<Before(m), T>> \in StrictSubsetOrdering(Q)
    <3> HIDE DEF Before
    <3> QED  BY <2>1, <2>3, <2>4 DEF StrictSubsetOrdering
  <2> QED  BY <1>3, <2>1, <2>5
<1>6. \A k \in Q : Rank[k] \in Nat  BY LoaderAssumption DEF LoaderAssumption
<1>7. QED  BY <1>5, <1>6

\* The places that a name leaves when it is ordered.
LEMMA MissingLess ==
    ASSUME NEW deps \in Seq(Names), NEW s \in Seq(Names), NEW n \in Names, n \notin Elements(s)
    PROVE  /\ IsFiniteSet(MissingFrom(deps, s)) /\ IsFiniteSet(MissingFrom(deps, Append(s, n)))
           /\ Cardinality(MissingFrom(deps, s)) \in Nat
           /\ Cardinality(MissingFrom(deps, Append(s, n)))
                = Cardinality(MissingFrom(deps, s)) - Occurrences(n, deps)
<1> DEFINE M == MissingFrom(deps, s)
           P == {i \in 1..Len(deps) : deps[i] = n}
<1>1. MissingFrom(deps, Append(s, n)) = M \ P /\ M \cap P = P
  BY ElementsAppend DEF MissingFrom
<1>2. IsFiniteSet(M)
  <2>1. M \subseteq 1..Len(deps)  BY DEF MissingFrom
  <2> QED  BY <2>1, FS_Interval, FS_Subset
<1>3. IsFiniteSet(M \ P) /\ Cardinality(M \ P) = Cardinality(M) - Cardinality(M \cap P)
  <2> HIDE DEF M, P
  <2> QED  BY <1>2, FS_Difference
<1>4. QED  BY <1>1, <1>2, <1>3, FS_CardinalityType DEF Occurrences

\* What is read from a manifest.
LEMMA ModulesTypes ==
    ASSUME modules \in Seq(Manifest)
    PROVE  /\ Len(modules) \in Nat
           /\ \A i \in 1..Len(modules) : modules[i].name \in Names /\ modules[i].deps \in Seq(Names)
<1>1. Len(modules) \in Nat  BY LenProperties
<1>2. \A i \in 1..Len(modules) : modules[i] \in Manifest  BY ElementOfSeq
<1>3. QED  BY <1>1, <1>2 DEF Manifest

LEMMA CountTo ==
    ASSUME NEW k \in Nat
    PROVE  IsFiniteSet(1..k) /\ Cardinality(1..k) = k
<1>1. IsFiniteSet(1..k) /\ Cardinality(1..k) = IF 1 > k THEN 0 ELSE k - 1 + 1
  BY FS_Interval
<1>2. QED  BY <1>1

\* Distinct modules have as many names as there are modules.
LEMMA LoadedCount ==
    ASSUME modules \in Seq(Manifest), Sortable
    PROVE  IsFiniteSet(Loaded) /\ Cardinality(Loaded) = Len(modules) /\ Loaded \subseteq Names
<1> DEFINE f == [i \in 1..Len(modules) |-> modules[i].name]
<1>1. f \in Bijection(1..Len(modules), Loaded)
  BY DEF Bijection, Injection, Surjection, IsInjective, Loaded, Sortable, NamesUnique
<1>2. IsFiniteSet(1..Len(modules)) /\ Cardinality(1..Len(modules)) = Len(modules)
  BY ModulesTypes, CountTo
<1>3. ExistsBijection(1..Len(modules), Loaded)  BY <1>1 DEF ExistsBijection
<1>4. Loaded \subseteq Names  BY ModulesTypes DEF Loaded
<1>5. QED  BY <1>2, <1>3, <1>4, FS_Bijection

\* What is ordered are all modules exactly if it is as long.
LEMMA OrderedCount ==
    ASSUME modules \in Seq(Manifest), Sortable, ordered \in Seq(Names), OrderSound
    PROVE  Len(ordered) = Len(modules) <=> Elements(ordered) = Loaded
<1> DEFINE f == [i \in 1..Len(ordered) |-> ordered[i]]
<1>1. f \in Bijection(1..Len(ordered), Elements(ordered))
  BY DEF Bijection, Injection, Surjection, IsInjective, Elements, OrderSound
<1>2. IsFiniteSet(1..Len(ordered)) /\ Cardinality(1..Len(ordered)) = Len(ordered)
  BY LenProperties, CountTo
<1>3. IsFiniteSet(Elements(ordered)) /\ Cardinality(Elements(ordered)) = Len(ordered)
  BY <1>1, <1>2, FS_Bijection DEF ExistsBijection
<1>4. Elements(ordered) \subseteq Loaded  BY DEF OrderSound, Elements
<1>5. QED  BY <1>3, <1>4, LoadedCount, FS_Subset

\* What was read from the directory never changes.
LEMMA ModulesStay ==
    ASSUME modules' = modules
    PROVE  /\ Loaded' = Loaded /\ Dependencies' = Dependencies
           /\ Sortable' = Sortable /\ Cyclic' = Cyclic
<1>1. Loaded' = Loaded  BY DEF Loaded
<1>2. Dependencies' = Dependencies  BY DEF Dependencies, DepsOf, TheModule
<1>3. Sortable' = Sortable
  BY <1>1 DEF Sortable, NamesUnique, BasesUnique, NothingMissing, Elements
<1>4. Cyclic' = Cyclic  BY DEF Cyclic, Loaded, DepsOf, TheModule, Elements
<1>5. QED  BY <1>1, <1>2, <1>3, <1>4

\* The dependencies of a module are names.
LEMMA DepsTypes ==
    ASSUME modules \in Seq(Manifest), NEW n \in Loaded
    PROVE  /\ n \in Names /\ DepsOf(n) \in Seq(Names) /\ Dependencies[n] = DepsOf(n)
           /\ Len(DepsOf(n)) \in Nat /\ (\A i \in 1..Len(DepsOf(n)) : DepsOf(n)[i] \in Names)
           /\ (Sortable => Elements(DepsOf(n)) \subseteq Loaded)
<1> DEFINE i == CHOOSE j \in 1..Len(modules) : modules[j].name = n
<1>1. i \in 1..Len(modules) /\ modules[i].name = n  BY DEF Loaded
<1>2. DepsOf(n) = modules[i].deps  BY DEF DepsOf, TheModule
<1> HIDE DEF i
<1>3. n \in Names /\ DepsOf(n) \in Seq(Names)  BY <1>1, <1>2, ModulesTypes
<1>4. Dependencies[n] = DepsOf(n)  BY <1>3 DEF Dependencies
<1>5. Sortable => Elements(DepsOf(n)) \subseteq Loaded
  BY <1>1, <1>2, ModulesTypes DEF Sortable, NothingMissing
<1>6. Len(DepsOf(n)) \in Nat /\ \A j \in 1..Len(DepsOf(n)) : DepsOf(n)[j] \in Names
  BY <1>3, LenProperties, ElementOfSeq
<1>7. QED  BY <1>3, <1>4, <1>5, <1>6

(***************************************************************************)
(* The steps.                                                              *)
(***************************************************************************)
LEMMA LoaderBegins ==
    ASSUME LoaderInit
    PROVE  LoaderInv
<1>1. modules \in Seq(Manifest)  BY LoaderAssumption DEF LoaderInit, LoaderAssumption
<1>2. LoaderTypes  BY <1>1 DEF LoaderInit, LoaderTypes, Phases
<1>3. OrderSound /\ OrderedNotCyclic  BY DEF LoaderInit, OrderSound, OrderedNotCyclic, Elements
<1>4. SortSound /\ FailureSound /\ HooksSound  BY DEF LoaderInit, SortSound, FailureSound, HooksSound
<1>5. QED  BY <1>2, <1>3, <1>4 DEF LoaderInv

\* A step that leaves the sort's variables alone, and leaves what it found as it is.
Settled == {"init", "up", "draining", "destroying", "exited"}

LEMMA SortKept ==
    ASSUME LoaderInv, KeepSort,
           phase' = "boot" => phase = "boot",
           phase' = "sorting" => phase = "sorting",
           phase' \in Phases, phase' \in Settled => phase \in Settled \/ Len(ordered) = Len(modules),
           phase' \in Settled => phase \in Settled \/ phase = "sorting"
    PROVE  OrderSound' /\ OrderedNotCyclic' /\ SortSound'
<1>1. modules' = modules /\ queue' = queue /\ inDegree' = inDegree /\ ordered' = ordered
  BY DEF KeepSort
<1>2. OrderSound'  BY <1>1, ModulesStay DEF LoaderInv, OrderSound, Elements
<1>3. OrderedNotCyclic'  BY <1>1, ModulesStay DEF LoaderInv, OrderedNotCyclic
<1>4. SortSound'
  <2>1. (phase = "boot" => ordered = <<>>)'  BY <1>1 DEF LoaderInv, SortSound
  <2>2. (phase \notin {"boot", "failed", "killed"} => Sortable)'
    BY <1>1, ModulesStay DEF LoaderInv, SortSound, Settled, Phases
  <2>3. (phase \in Settled => Len(ordered) = Len(modules))'
    BY <1>1 DEF LoaderInv, SortSound, Settled
  <2>4. ASSUME phase = "sorting"
        PROVE  /\ \A x \in Loaded' : inDegree'[x] = Cardinality(MissingFrom(Dependencies[x], ordered))'
               /\ queue' = {x \in Loaded : x \notin Elements(ordered) /\ MissingFrom(Dependencies[x], ordered) = {}}'
    BY <1>1, <2>4, ModulesStay DEF LoaderInv, SortSound, MissingFrom, Elements
  <2> QED  BY <2>1, <2>2, <2>3, <2>4 DEF SortSound, Settled
<1>5. QED  BY <1>2, <1>3, <1>4

LEMMA DiscoverKeeps ==
    ASSUME LoaderInv, Discover
    PROVE  LoaderInv'
<1>1. /\ modules' = modules /\ ordered' = ordered /\ started' = started /\ stopped' = stopped
      /\ phase = "boot" /\ ordered = <<>> /\ started = <<>> /\ stopped = <<>>
  <2>1. phase = "boot" /\ ordered = <<>> /\ started = <<>>
    BY DEF Discover, LoaderInv, SortSound, HooksSound
  <2>2. stopped = <<>>  BY <2>1 DEF LoaderInv, HooksSound
  <2> QED  BY <2>1, <2>2 DEF Discover, KeepHooks
<1>2. OrderSound' /\ OrderedNotCyclic'
  BY <1>1 DEF OrderSound, OrderedNotCyclic, Elements
<1>3. CASE ~Sortable /\ phase' = "failed" /\ UNCHANGED <<queue, inDegree>>
  <2>1. LoaderTypes'  BY <1>1, <1>3, ModulesStay DEF LoaderInv, LoaderTypes, Phases
  <2>2. SortSound' /\ FailureSound'  BY <1>1, <1>3, ModulesStay DEF SortSound, FailureSound
  <2>3. HooksSound'  BY <1>1, <1>3 DEF LoaderInv, HooksSound
  <2> QED  BY <1>2, <2>1, <2>2, <2>3 DEF LoaderInv
<1>4. CASE /\ Sortable /\ phase' = "sorting"
           /\ inDegree' = [n \in Names |-> IF n \in Loaded THEN Len(DepsOf(n)) ELSE 0]
           /\ queue' = {n \in Loaded : Len(DepsOf(n)) = 0}
  <2>1. \A x \in Loaded : /\ x \in Names /\ Dependencies[x] \in Seq(Names)
                        /\ Dependencies[x] = DepsOf(x) /\ Len(Dependencies[x]) \in Nat
    BY DepsTypes DEF LoaderInv, LoaderTypes
  <2>2. \A x \in Loaded : MissingFrom(Dependencies[x], <<>>) = 1..Len(Dependencies[x])
    BY DEF MissingFrom, Elements
  <2>3. LoaderTypes'  BY <1>1, <1>4, <2>1, ModulesStay DEF LoaderInv, LoaderTypes, Phases
  <2>4. SortSound'
    <3>1. \A x : MissingFrom(Dependencies[x], ordered)' = MissingFrom(Dependencies[x], <<>>)
      BY <1>1, ModulesStay DEF MissingFrom, Elements
    <3>2. \A x \in Loaded' : inDegree'[x] = Cardinality(MissingFrom(Dependencies[x], ordered))'
      <4> SUFFICES ASSUME NEW x \in Loaded
                   PROVE  inDegree'[x] = Cardinality(MissingFrom(Dependencies[x], <<>>))
        BY <1>1, <3>1, ModulesStay
      <4> QED  BY <1>4, <2>1, <2>2, CountTo
    <3>3. queue' = {x \in Loaded : x \notin Elements(<<>>) /\ MissingFrom(Dependencies[x], <<>>) = {}}
      BY <1>4, <2>1, <2>2 DEF Elements
    <3>4. Sortable' /\ Loaded' = Loaded  BY <1>1, <1>4, ModulesStay
    <3> QED  BY <1>1, <1>4, <3>1, <3>2, <3>3, <3>4 DEF SortSound
  <2>5. FailureSound'  BY <1>4 DEF FailureSound
  <2>6. HooksSound'  BY <1>1, <1>4 DEF LoaderInv, HooksSound
  <2> QED  BY <1>2, <2>3, <2>4, <2>5, <2>6 DEF LoaderInv
<1>5. QED  BY <1>3, <1>4 DEF Discover

\* One turn of the sort: what it counts stays what there is to order.
LEMMA PickKeeps ==
    ASSUME LoaderInv, Pick
    PROVE  LoaderInv'
<1> DEFINE n == CHOOSE x \in queue : \A y \in queue : Rank[x] <= Rank[y]
           Less(x) == inDegree[x] - Occurrences(n, DepsOf(x))
           After(x) == MissingFrom(Dependencies[x], Append(ordered, n))
           Before(x) == MissingFrom(Dependencies[x], ordered)
           Freed == {x \in Loaded : n \in Elements(DepsOf(x)) /\ Less(x) = 0}
<1>1. /\ modules \in Seq(Manifest) /\ ordered \in Seq(Names) /\ queue \subseteq Loaded
      /\ inDegree \in [Names -> Int] /\ phase = "sorting" /\ Sortable /\ started = <<>> /\ stopped = <<>>
      /\ \A x \in Loaded : inDegree[x] = Cardinality(Before(x))
      /\ queue = {x \in Loaded : x \notin Elements(ordered) /\ Before(x) = {}}
  BY DEF Pick, LoaderInv, LoaderTypes, SortSound, HooksSound
<1>2. \A x \in Loaded : /\ x \in Names /\ Dependencies[x] \in Seq(Names) /\ Dependencies[x] = DepsOf(x)
                        /\ Elements(DepsOf(x)) \subseteq Loaded
  BY <1>1, DepsTypes
<1>3. n \in queue
  <2>1. queue \in SUBSET Names /\ queue # {}  BY <1>1, <1>2 DEF Pick
  <2> QED  BY <2>1, FirstExists
<1> HIDE DEF n
<1>4. n \in Names /\ n \in Loaded /\ n \notin Elements(ordered) /\ Before(n) = {}  BY <1>1, <1>2, <1>3
<1>5. /\ modules' = modules /\ phase' = phase /\ started' = started /\ stopped' = stopped
      /\ ordered' = Append(ordered, n)
      /\ inDegree' = [x \in Names |-> IF x \in Loaded THEN Less(x) ELSE 0]
      /\ queue' = (queue \ {n}) \cup Freed
  <2>1. \A x \in Loaded :
          [y \in Names |-> IF y \in Loaded THEN inDegree[y] - Occurrences(n, DepsOf(y)) ELSE 0][x] = Less(x)
    BY <1>2
  <2>2. \A x \in Loaded : x \in Names  BY <1>2
  <2> QED  BY <2>1, <2>2 DEF Pick, KeepHooks, n
<1>6. /\ ordered' \in Seq(Names) /\ Len(ordered') = Len(ordered) + 1 /\ Len(ordered) \in Nat
      /\ \A i \in 1..Len(ordered) : ordered'[i] = ordered[i]
      /\ ordered'[Len(ordered) + 1] = n
      /\ Elements(ordered') = Elements(ordered) \cup {n}
  BY <1>1, <1>4, <1>5, ElementsAppend
<1>7. \A x \in Loaded : /\ After(x) \subseteq Before(x) /\ Less(x) = Cardinality(After(x))
                        /\ IsFiniteSet(After(x)) /\ Less(x) \in Int
  <2> SUFFICES ASSUME NEW x \in Loaded
               PROVE  /\ After(x) \subseteq Before(x) /\ Less(x) = Cardinality(After(x))
                      /\ IsFiniteSet(After(x)) /\ Less(x) \in Int
    OBVIOUS
  <2>1. /\ IsFiniteSet(After(x)) /\ Cardinality(After(x)) = Cardinality(Before(x)) - Occurrences(n, DepsOf(x))
    BY <1>1, <1>2, <1>4, MissingLess
  <2>2. Cardinality(After(x)) \in Nat  BY <2>1, FS_CardinalityType
  <2>3. After(x) \subseteq Before(x)  BY <1>5, <1>6 DEF MissingFrom
  <2>4. Less(x) = Cardinality(After(x))  BY <1>1, <2>1
  <2> HIDE DEF After, Before, Less
  <2> QED  BY <2>1, <2>2, <2>3, <2>4
<1>8. Elements(DepsOf(n)) \subseteq Elements(ordered)
  BY <1>2, <1>4 DEF MissingFrom, Elements
<1>9. \A x \in Elements(ordered) : x \in Loaded /\ Elements(DepsOf(x)) \subseteq Elements(ordered)
  <2> SUFFICES ASSUME NEW i \in 1..Len(ordered)
               PROVE  ordered[i] \in Loaded /\ Elements(DepsOf(ordered[i])) \subseteq Elements(ordered)
    BY DEF Elements
  <2>1. ordered[i] \in Loaded  BY DEF LoaderInv, OrderSound
  <2>2. \A m \in Elements(Dependencies[ordered[i]]) : \E j \in 1..(i - 1) : ordered[j] = m
    BY DEF LoaderInv, OrderSound
  <2>3. ASSUME NEW m \in Elements(Dependencies[ordered[i]]) PROVE m \in Elements(ordered)
    <3>1. PICK j \in 1..(i - 1) : ordered[j] = m  BY <2>2
    <3>2. j \in 1..Len(ordered)  BY <1>6
    <3> QED  BY <3>1, <3>2 DEF Elements
  <2> QED  BY <1>2, <2>1, <2>3
<1>10. LoaderTypes'
  <2>1. Freed \subseteq Loaded /\ queue' \subseteq Loaded  BY <1>1, <1>5
  <2>2. inDegree' \in [Names -> Int]  BY <1>5, <1>7
  <2> QED  BY <1>5, <1>6, <2>1, <2>2, ModulesStay DEF LoaderInv, LoaderTypes
<1>11. OrderSound'
  <2>1. \A i \in 1..Len(ordered) : ordered[i] # n  BY <1>4 DEF Elements
  <2>2. \A i, j \in 1..Len(ordered') : ordered'[i] = ordered'[j] => i = j
    BY <1>6, <2>1 DEF LoaderInv, OrderSound
  <2>3. \A i \in 1..Len(ordered') : ordered'[i] \in Loaded
    BY <1>4, <1>6 DEF LoaderInv, OrderSound
  <2>4. ASSUME NEW i \in 1..Len(ordered'), NEW m \in Elements(Dependencies[ordered'[i]])
        PROVE  \E j \in 1..(i - 1) : ordered'[j] = m
    <3>1. CASE i = Len(ordered) + 1
      <4>1. m \in Elements(ordered)  BY <1>2, <1>4, <1>6, <1>8, <2>4, <3>1
      <4>2. PICK j \in 1..Len(ordered) : ordered[j] = m  BY <4>1 DEF Elements
      <4> QED  BY <1>6, <3>1, <4>2
    <3>2. CASE i # Len(ordered) + 1
      <4>1. i \in 1..Len(ordered) /\ ordered'[i] = ordered[i]  BY <1>6, <3>2
      <4>2. PICK j \in 1..(i - 1) : ordered[j] = m  BY <2>4, <4>1 DEF LoaderInv, OrderSound
      <4> QED  BY <1>6, <4>1, <4>2
    <3> QED  BY <3>1, <3>2
  <2> QED  BY <1>5, <2>2, <2>3, <2>4, ModulesStay DEF OrderSound
<1>12. OrderedNotCyclic'
  <2> SUFFICES ASSUME NEW S \in SUBSET Elements(ordered'), S # {}
               PROVE  \E x \in S : Elements(Dependencies[x]) \cap S = {}
    BY <1>5, ModulesStay DEF OrderedNotCyclic
  <2>1. CASE S \subseteq {n}
    BY <1>2, <1>4, <1>8, <2>1
  <2>2. CASE ~(S \subseteq {n})
    <3>1. S \ {n} \in SUBSET Elements(ordered) /\ S \ {n} # {}  BY <1>6, <2>2
    <3>2. PICK x \in S \ {n} : Elements(Dependencies[x]) \cap (S \ {n}) = {}
      BY <3>1 DEF LoaderInv, OrderedNotCyclic
    <3>3. n \notin Elements(Dependencies[x])  BY <1>2, <1>4, <1>9, <3>1
    <3> QED  BY <3>2, <3>3
  <2> QED  BY <2>1, <2>2
<1>13. SortSound'
  <2>1. \A x \in Loaded : inDegree'[x] = Cardinality(After(x))  BY <1>2, <1>5, <1>7
  <2>2. queue' = {x \in Loaded : x \notin Elements(ordered') /\ After(x) = {}}
    <3>1. ASSUME NEW x \in Loaded
          PROVE  x \in queue' <=> x \notin Elements(ordered') /\ After(x) = {}
      <4>1. Less(x) = 0 <=> After(x) = {}  BY <1>7, FS_EmptySet
      <4>2. n \in Elements(DepsOf(x)) => x \notin Elements(ordered) /\ x # n  BY <1>4, <1>8, <1>9
      <4>3. n \notin Elements(DepsOf(x)) => After(x) = Before(x)
        BY <1>2, <1>5, <1>6 DEF MissingFrom, Elements
      <4>4. x \in queue <=> x \notin Elements(ordered) /\ Before(x) = {}  BY <1>1
      <4>5. x \in queue => After(x) = {}  BY <1>7, <4>4
      <4>6. x \in queue' <=> (x \in queue /\ x # n) \/ (n \in Elements(DepsOf(x)) /\ Less(x) = 0)
        BY <1>5
      <4> HIDE DEF After, Before, Less
      <4> QED  BY <1>6, <4>1, <4>2, <4>3, <4>4, <4>5, <4>6
    <3>2. queue' \subseteq Loaded  BY <1>1, <1>5
    <3> QED  BY <3>1, <3>2
  <2>3. Loaded' = Loaded /\ Sortable' /\ Dependencies' = Dependencies  BY <1>1, <1>5, ModulesStay
  <2> QED  BY <1>1, <1>5, <2>1, <2>2, <2>3 DEF SortSound
<1>14. FailureSound'  BY <1>1, <1>5 DEF FailureSound
<1>15. HooksSound'  BY <1>1, <1>5, <1>6 DEF HooksSound
<1>16. QED  BY <1>10, <1>11, <1>12, <1>13, <1>14, <1>15 DEF LoaderInv

\* When the queue is empty too early, the names that are left wait for each other.
LEMMA LeftOverIsCyclic ==
    ASSUME LoaderInv, phase = "sorting", queue = {}, Len(ordered) # Len(modules)
    PROVE  Cyclic
<1> DEFINE S == Loaded \ Elements(ordered)
<1>1. /\ modules \in Seq(Manifest) /\ ordered \in Seq(Names) /\ Sortable /\ OrderSound
      /\ {x \in Loaded : x \notin Elements(ordered) /\ MissingFrom(Dependencies[x], ordered) = {}} = {}
  BY DEF LoaderInv, LoaderTypes, SortSound
<1>2. Elements(ordered) \subseteq Loaded  BY DEF LoaderInv, OrderSound, Elements
<1>3. S # {}  BY <1>1, <1>2, OrderedCount
<1>4. ASSUME NEW n \in S PROVE Elements(DepsOf(n)) \cap S # {}
  <2>1. Dependencies[n] = DepsOf(n) /\ Elements(DepsOf(n)) \subseteq Loaded  BY <1>1, DepsTypes
  <2>2. MissingFrom(DepsOf(n), ordered) # {}  BY <1>1, <2>1
  <2>3. PICK i \in 1..Len(DepsOf(n)) : DepsOf(n)[i] \notin Elements(ordered)
    BY <2>2 DEF MissingFrom
  <2>4. DepsOf(n)[i] \in Elements(DepsOf(n))  BY DEF Elements
  <2> QED  BY <2>1, <2>3, <2>4
<1>5. QED  BY <1>3, <1>4 DEF Cyclic

LEMMA SortedKeeps ==
    ASSUME LoaderInv, Sorted
    PROVE  LoaderInv'
<1>1. /\ modules' = modules /\ queue' = queue /\ inDegree' = inDegree /\ ordered' = ordered
      /\ started' = started /\ stopped' = stopped /\ phase = "sorting" /\ queue = {}
      /\ started = <<>> /\ stopped = <<>>
      /\ phase' = IF Len(ordered) = Len(modules) THEN "init" ELSE "failed"
  BY DEF Sorted, KeepSort, KeepHooks, LoaderInv, HooksSound
<1>2. OrderSound' /\ OrderedNotCyclic' /\ SortSound'
  BY <1>1, SortKept DEF KeepSort, Settled, Phases
<1>3. LoaderTypes'  BY <1>1, ModulesStay DEF LoaderInv, LoaderTypes, Phases
<1>4. FailureSound'
  <2>1. CASE Len(ordered) = Len(modules)  BY <1>1, <2>1 DEF FailureSound
  <2>2. CASE Len(ordered) # Len(modules)
    BY <1>1, <2>2, LeftOverIsCyclic, ModulesStay DEF FailureSound
  <2> QED  BY <2>1, <2>2
<1>5. HooksSound'
  BY <1>1 DEF LoaderInv, HooksSound
<1>6. QED  BY <1>2, <1>3, <1>4, <1>5 DEF LoaderInv

\* onInit of one module.
LEMMA InitModuleKeeps ==
    ASSUME LoaderInv, InitModule
    PROVE  LoaderInv'
<1>1. /\ modules' = modules /\ queue' = queue /\ inDegree' = inDegree /\ ordered' = ordered
      /\ stopped' = stopped /\ phase = "init" /\ phase' \in {"init", "failed"}
      /\ Len(started) < Len(ordered) /\ Len(ordered) = Len(modules)
      /\ started' = started \/ started' = Append(started, ordered[Len(started) + 1])
      /\ stopped = <<>>
  BY DEF InitModule, KeepSort, LoaderInv, HooksSound, SortSound
<1>2. OrderSound' /\ OrderedNotCyclic' /\ SortSound'
  BY <1>1, SortKept DEF KeepSort, Settled, Phases
<1>3. /\ started \in Seq(Names) /\ ordered \in Seq(Names) /\ Len(started) \in Nat /\ Len(ordered) \in Nat
      /\ ordered[Len(started) + 1] \in Names
  <2>1. started \in Seq(Names) /\ ordered \in Seq(Names)  BY DEF LoaderInv, LoaderTypes
  <2>2. Len(started) \in Nat /\ Len(ordered) \in Nat  BY <2>1, LenProperties
  <2>3. Len(started) + 1 \in 1..Len(ordered)  BY <1>1, <2>2
  <2> QED  BY <2>1, <2>2, <2>3, ElementOfSeq
<1>4. /\ started' \in Seq(Names) /\ Len(started') <= Len(ordered)
      /\ \A i \in 1..Len(started') : started'[i] = ordered[i]
  <2>1. CASE started' = started  BY <1>1, <1>3, <2>1 DEF LoaderInv, HooksSound
  <2>2. CASE started' = Append(started, ordered[Len(started) + 1])
    BY <1>1, <1>3, <2>2, ElementsAppend DEF LoaderInv, HooksSound
  <2> QED  BY <1>1, <2>1, <2>2
<1>5. LoaderTypes'  BY <1>1, <1>4, ModulesStay DEF LoaderInv, LoaderTypes, Phases
<1>6. FailureSound'
  <2>1. Len(ordered)' = Len(modules)'  BY <1>1
  <2>2. Len(modules) \in Nat  BY ModulesTypes DEF LoaderInv, LoaderTypes
  <2> QED  BY <1>1, <2>1, <2>2 DEF FailureSound
<1>7. HooksSound'  BY <1>1, <1>4 DEF LoaderInv, HooksSound
<1>8. QED  BY <1>2, <1>5, <1>6, <1>7 DEF LoaderInv

\* The steps that change the phase alone, or nothing that is ordered or hooked.
LEMMA ProgressKeeps ==
    ASSUME LoaderInv, KeepSort, KeepHooks,
           \/ phase' = phase
           \/ phase = "init" /\ phase' = "up" /\ Len(started) = Len(ordered)
           \/ phase = "up" /\ phase' = "draining"
           \/ phase = "draining" /\ phase' = "destroying"
           \/ phase = "destroying" /\ phase' = "exited"
           \/ phase' = "killed"
    PROVE  LoaderInv'
<1>1. /\ modules' = modules /\ queue' = queue /\ inDegree' = inDegree /\ ordered' = ordered
      /\ started' = started /\ stopped' = stopped /\ phase \in Phases
  BY DEF KeepSort, KeepHooks, LoaderInv, LoaderTypes
<1>2. phase' \in Phases  BY <1>1 DEF Phases
<1>3. OrderSound' /\ OrderedNotCyclic' /\ SortSound'
  BY <1>2, SortKept DEF Settled
<1>4. LoaderTypes'  BY <1>1, <1>2, ModulesStay DEF LoaderInv, LoaderTypes
<1>5. FailureSound'  BY <1>1, ModulesStay DEF LoaderInv, FailureSound
<1>6. HooksSound'  BY <1>1 DEF LoaderInv, HooksSound
<1>7. QED  BY <1>3, <1>4, <1>5, <1>6 DEF LoaderInv

\* onDestroy of one module.
LEMMA DestroyModuleKeeps ==
    ASSUME LoaderInv, DestroyModule
    PROVE  LoaderInv'
<1>1. /\ modules' = modules /\ queue' = queue /\ inDegree' = inDegree /\ ordered' = ordered
      /\ started' = started /\ phase = "destroying" /\ phase' = phase
      /\ Len(stopped) < Len(ordered)
      /\ stopped' = Append(stopped, ordered[Len(ordered) - Len(stopped)])
  BY DEF DestroyModule, KeepSort, NextToStop
<1>2. OrderSound' /\ OrderedNotCyclic' /\ SortSound'
  BY <1>1, SortKept DEF KeepSort, Settled, Phases
<1>3. /\ stopped \in Seq(Names) /\ ordered \in Seq(Names) /\ Len(stopped) \in Nat /\ Len(ordered) \in Nat
      /\ ordered[Len(ordered) - Len(stopped)] \in Names
  <2>1. stopped \in Seq(Names) /\ ordered \in Seq(Names)  BY DEF LoaderInv, LoaderTypes
  <2>2. Len(stopped) \in Nat /\ Len(ordered) \in Nat  BY <2>1, LenProperties
  <2>3. Len(ordered) - Len(stopped) \in 1..Len(ordered)  BY <1>1, <2>2
  <2> QED  BY <2>1, <2>2, <2>3, ElementOfSeq
<1>4. /\ stopped' \in Seq(Names) /\ Len(stopped') = Len(stopped) + 1
      /\ \A i \in 1..Len(stopped) : stopped'[i] = stopped[i]
      /\ stopped'[Len(stopped) + 1] = ordered[Len(ordered) - Len(stopped)]
  BY <1>1, <1>3, ElementsAppend
<1>5. \A i \in 1..Len(stopped') : stopped'[i] = ordered[Len(ordered) + 1 - i]
  <2> SUFFICES ASSUME NEW i \in 1..Len(stopped') PROVE stopped'[i] = ordered[Len(ordered) + 1 - i]
    OBVIOUS
  <2>1. CASE i \in 1..Len(stopped)  BY <1>4, <2>1 DEF LoaderInv, HooksSound
  <2>2. CASE i = Len(stopped) + 1
    <3>1. Len(ordered) + 1 - i = Len(ordered) - Len(stopped)  BY <1>3, <2>2
    <3> QED  BY <1>4, <2>2, <3>1
  <2> QED  BY <1>3, <1>4, <2>1, <2>2
<1>6. LoaderTypes'  BY <1>1, <1>4, ModulesStay DEF LoaderInv, LoaderTypes
<1>7. FailureSound'  BY <1>1 DEF FailureSound
<1>8. HooksSound'
  <2>1. Len(stopped') <= Len(ordered)  BY <1>1, <1>3, <1>4
  <2> QED  BY <1>1, <1>5, <2>1 DEF LoaderInv, HooksSound
<1>9. QED  BY <1>2, <1>6, <1>7, <1>8 DEF LoaderInv

LEMMA LoaderStep ==
    ASSUME LoaderInv, [LoaderNext]_loaderVars
    PROVE  LoaderInv'
<1>1. CASE Boot
  <2>1. CASE Listen  BY <2>1, ProgressKeeps DEF Listen
  <2> QED  BY <1>1, <2>1, DiscoverKeeps, PickKeeps, SortedKeeps, InitModuleKeeps DEF Boot
<1>2. CASE Shutdown
  <2>1. CASE Drained \/ Exit  BY <2>1, ProgressKeeps DEF Drained, Exit
  <2> QED  BY <1>2, <2>1, DestroyModuleKeeps DEF Shutdown
<1>3. CASE \E c \in Connections : Accept(c) \/ Close(c)
  BY <1>3, ProgressKeeps DEF Accept, Close
<1>4. CASE \E s \in Signals : Signal(s)
  <2>1. PICK s \in Signals : Signal(s)  BY <1>4
  <2>2. KeepSort /\ KeepHooks
        /\ (phase' = "killed" \/ (phase = "up" /\ phase' = "draining") \/ phase' = phase)
    BY <2>1 DEF Signal
  <2> QED  BY <2>2, ProgressKeeps
<1>5. CASE UNCHANGED loaderVars
  <2>1. KeepSort /\ KeepHooks /\ phase' = phase  BY <1>5 DEF loaderVars, KeepSort, KeepHooks
  <2> QED  BY <2>1, ProgressKeeps
<1>6. QED  BY <1>1, <1>2, <1>3, <1>4, <1>5 DEF LoaderNext

LEMMA LoaderInvariant == LoaderSpec => []LoaderInv
<1>1. LoaderInit => LoaderInv  BY LoaderBegins
<1>2. LoaderInv /\ [LoaderNext]_loaderVars => LoaderInv'  BY LoaderStep
<1>3. QED  BY <1>1, <1>2, PTL DEF LoaderSpec

(***************************************************************************)
(* The theorems.                                                           *)
(***************************************************************************)
\* The loader sorts a directory exactly if its modules have an order: what it
\* goes on to initialise is well formed, complete and without a circle, and a
\* process that ends before any hook ran had a reason to (ModuleLoader.load).
THEOREM SortsWhatItCan == LoaderSpec => []SortedIffPossible
<1>1. LoaderInv => SortedIffPossible
  <2> SUFFICES ASSUME LoaderInv PROVE SortedIffPossible  OBVIOUS
  <2>1. ASSUME phase \in Settled PROVE Sortable /\ ~Cyclic
    <3>1. Sortable /\ Len(ordered) = Len(modules)
      BY <2>1 DEF LoaderInv, SortSound, Settled
    <3>2. modules \in Seq(Manifest) /\ ordered \in Seq(Names) /\ OrderSound
      BY DEF LoaderInv, LoaderTypes
    <3>3. Elements(ordered) = Loaded  BY <3>1, <3>2, OrderedCount
    <3>4. \A n \in Loaded : Dependencies[n] = DepsOf(n)  BY <3>2, DepsTypes
    <3> QED  BY <3>1, <3>3, <3>4 DEF LoaderInv, OrderedNotCyclic, Cyclic
  <2> QED  BY <2>1 DEF SortedIffPossible, LoaderInv, FailureSound, Settled
<1>2. QED  BY <1>1, LoaderInvariant, PTL

\* While a module is initialised and not yet destroyed, so is every module that
\* it depends on: its hooks and requests never meet one that is not there.
THEOREM DependenciesStayAlive == LoaderSpec => []DependenciesAlive
<1>1. LoaderInv => DependenciesAlive
  <2> SUFFICES ASSUME LoaderInv, NEW n \in Loaded, Alive(n), NEW m \in Elements(DepsOf(n))
               PROVE  Alive(m)
    BY DEF DependenciesAlive
  <2>1. /\ Len(ordered) \in Nat /\ Len(started) \in Nat /\ Len(stopped) \in Nat
        /\ Len(started) <= Len(ordered) /\ Len(stopped) <= Len(ordered)
    BY LenProperties DEF LoaderInv, LoaderTypes, HooksSound
  <2>2. PICK i \in 1..Len(started) : started[i] = n  BY DEF Alive, Elements
  <2>3. i \in 1..Len(ordered) /\ ordered[i] = n  BY <2>1, <2>2 DEF LoaderInv, HooksSound
  <2>4. Dependencies[n] = DepsOf(n)  BY DepsTypes DEF LoaderInv, LoaderTypes
  <2>5. PICK j \in 1..(i - 1) : ordered[j] = m  BY <2>3, <2>4 DEF LoaderInv, OrderSound
  <2>6. j \in 1..Len(started) /\ started[j] = m /\ j \in 1..Len(ordered)
    BY <2>1, <2>2, <2>5 DEF LoaderInv, HooksSound
  <2>7. ASSUME NEW k \in 1..Len(stopped), stopped[k] = m PROVE FALSE
    <3>1. Len(ordered) + 1 - k \in 1..Len(ordered)  BY <2>1
    <3>2. ordered[Len(ordered) + 1 - k] = m  BY <2>7 DEF LoaderInv, HooksSound
    <3>3. j = Len(ordered) + 1 - k  BY <2>5, <2>6, <3>1, <3>2 DEF LoaderInv, OrderSound
    <3>4. Len(ordered) + 1 - i \in 1..Len(stopped)  BY <2>1, <2>3, <2>5, <3>3
    <3>5. stopped[Len(ordered) + 1 - i] = ordered[Len(ordered) + 1 - (Len(ordered) + 1 - i)]
      BY <3>4 DEF LoaderInv, HooksSound
    <3>6. Len(ordered) + 1 - (Len(ordered) + 1 - i) = i  BY <2>1, <2>3
    <3>7. stopped[Len(ordered) + 1 - i] = n  BY <2>3, <3>5, <3>6
    <3> QED  BY <3>4, <3>7 DEF Alive, Elements
  <2> QED  BY <2>6, <2>7 DEF Alive, Elements
<1>2. QED  BY <1>1, LoaderInvariant, PTL

===============================================================================
