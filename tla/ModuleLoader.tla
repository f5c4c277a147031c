------------------------------ MODULE ModuleLoader ------------------------------
(***************************************************************************)
(* The life of one API process: it discovers the modules, sorts them by    *)
(* their dependencies, initialises them in that order, listens, and on a   *)
(* signal waits for its connections, destroys the modules in reverse order *)
(* and exits.  The steps are those of the code: the sort's loop turn by    *)
(* turn, then one step for every awaited hook.                             *)
(***************************************************************************)
EXTENDS Integers, Sequences, FiniteSets

CONSTANTS
  Names,        \* the names that modules may have or depend on
  Rank,         \* their alphabetical order
  Deployments,  \* the contents of the modules directory: sequences of manifests
  Connections,  \* the connections, each made at most once
  Signals       \* SIGINT and SIGTERM

\* A manifest: its name and basePath, the names it depends on (an array, which
\* may repeat a name), and whether it is well formed.
Manifest == [name : Names, base : STRING, deps : Seq(Names), valid : BOOLEAN]

LoaderAssumption ==
  /\ IsFiniteSet(Names) /\ Rank \in [Names -> Nat]
  /\ \A x, y \in Names : Rank[x] = Rank[y] => x = y
  /\ Deployments \subseteq Seq(Manifest)
ASSUME LoaderAssumption

VARIABLES
  modules,   \* the manifests, in the order of their directories
  phase,     \* how far the process has come
  queue,     \* of the sort: the names all of whose dependencies are ordered
  inDegree,  \* of the sort: the dependencies of each that are not ordered yet
  ordered,   \* the load order found so far
  started,   \* the names initialised, in order
  stopped,   \* the names whose turn to be destroyed has come, in order
  open,      \* the open connections
  served,    \* the connections that were made and are closed
  caught     \* the signals already received: their handlers are gone (once)

loaderVars ==
  <<modules, phase, queue, inDegree, ordered, started, stopped, open, served, caught>>

Elements(s) == {s[i] : i \in 1..Len(s)}
Loaded == {modules[i].name : i \in 1..Len(modules)}
TheModule(n) == modules[CHOOSE i \in 1..Len(modules) : modules[i].name = n]
DepsOf(n) == TheModule(n).deps

NamesUnique == \A i, j \in 1..Len(modules) : modules[i].name = modules[j].name => i = j
BasesUnique == \A i, j \in 1..Len(modules) : modules[i].base = modules[j].base => i = j
NothingMissing == \A i \in 1..Len(modules) : Elements(modules[i].deps) \subseteq Loaded
Sortable ==
  /\ modules # <<>>
  /\ \A i \in 1..Len(modules) : modules[i].valid
  /\ NamesUnique /\ BasesUnique /\ NothingMissing

LoaderInit ==
  /\ modules \in Deployments
  /\ phase = "boot"
  /\ queue = {} /\ inDegree = [n \in Names |-> 0]
  /\ ordered = <<>> /\ started = <<>> /\ stopped = <<>>
  /\ open = {} /\ served = {} /\ caught = {}

KeepSort == UNCHANGED <<modules, queue, inDegree, ordered>>
KeepHooks == UNCHANGED <<started, stopped>>
KeepOutside == UNCHANGED <<open, served, caught>>

\* discoverModuleDirs, loadManifest and the checks before the sort.
Discover ==
  /\ phase = "boot"
  /\ \/ ~Sortable /\ phase' = "failed" /\ UNCHANGED <<queue, inDegree>>
     \/ /\ Sortable
        /\ phase' = "sorting"
        /\ inDegree' = [n \in Names |-> IF n \in Loaded THEN Len(DepsOf(n)) ELSE 0]
        /\ queue' = {n \in Loaded : Len(DepsOf(n)) = 0}
  /\ UNCHANGED <<modules, ordered>> /\ KeepHooks /\ KeepOutside

\* Mutant: a dependency that is named twice counts once.
OccurrencesOnce(n, deps) == IF n \in Elements(deps) THEN 1 ELSE 0

Occurrences(n, deps) == Cardinality({i \in 1..Len(deps) : deps[i] = n})

\* One turn of the loop: the first name of the sorted queue is ordered.
Pick ==
  /\ phase = "sorting" /\ queue # {}
  /\ LET n == CHOOSE x \in queue : \A y \in queue : Rank[x] <= Rank[y]
         less == [x \in Names |-> IF x \in Loaded THEN inDegree[x] - Occurrences(n, DepsOf(x)) ELSE 0]
     IN  /\ ordered' = Append(ordered, n)
         /\ inDegree' = less
         /\ queue' = (queue \ {n}) \cup
                     {x \in Loaded : n \in Elements(DepsOf(x)) /\ less[x] = 0}
  /\ UNCHANGED <<modules, phase>> /\ KeepHooks /\ KeepOutside

\* The queue is empty: whatever is not ordered is part of a cycle or needs one.
Sorted ==
  /\ phase = "sorting" /\ queue = {}
  /\ phase' = IF Len(ordered) = Len(modules) THEN "init" ELSE "failed"
  /\ KeepSort /\ KeepHooks /\ KeepOutside

\* onInit of the next module returns, or throws and ends the process.
InitModule ==
  /\ phase = "init" /\ Len(started) < Len(ordered)
  /\ \/ started' = Append(started, ordered[Len(started) + 1]) /\ phase' = phase
     \/ started' = started /\ phase' = "failed"
  /\ KeepSort /\ UNCHANGED stopped /\ KeepOutside

\* Every router is mounted, and the server listens.
Listen ==
  /\ phase = "init" /\ Len(started) = Len(ordered)
  /\ phase' = "up"
  /\ KeepSort /\ KeepHooks /\ KeepOutside

Accept(c) ==
  /\ phase = "up" /\ c \notin open \cup served
  /\ open' = open \cup {c}
  /\ UNCHANGED <<phase, served, caught>> /\ KeepSort /\ KeepHooks

\* The response is sent, or the client closes its end.
Close(c) ==
  /\ c \in open
  /\ open' = open \ {c} /\ served' = served \cup {c}
  /\ UNCHANGED <<phase, caught>> /\ KeepSort /\ KeepHooks

Ended == {"failed", "exited", "killed"}
Booting == {"boot", "sorting", "init"}

\* The handlers are installed after listen, and each serves once: the signal's
\* default ends the process before and after.  The first of the two starts the
\* shutdown, the other finds shuttingDown.
Signal(s) ==
  /\ phase \notin Ended
  /\ phase' = IF phase \in Booting \/ s \in caught THEN "killed"
              ELSE IF phase = "up" THEN "draining" ELSE phase
  /\ caught' = caught \cup {s}
  /\ UNCHANGED <<open, served>> /\ KeepSort /\ KeepHooks

\* Mutant: shutdown does not wait for server.close.
ConnectionsIgnored == TRUE

\* Mutant: a connection counts as open for good (keep-alive).
ConnectionsNeverMade == open = {} /\ served = {}

ConnectionsClosed == open = {}

Drained ==
  /\ phase = "draining" /\ ConnectionsClosed
  /\ phase' = "destroying"
  /\ KeepSort /\ KeepHooks /\ KeepOutside

\* Mutant: the modules are destroyed in the order of their initialisation.
NextToStopForward == ordered[Len(stopped) + 1]

\* Which module's turn it is to be destroyed: [...modules].reverse().
NextToStop == ordered[Len(ordered) - Len(stopped)]

\* onDestroy of a module, if it has one; that it throws is logged and ignored.
DestroyModule ==
  /\ phase = "destroying" /\ Len(stopped) < Len(ordered)
  /\ stopped' = Append(stopped, NextToStop)
  /\ UNCHANGED <<phase, started>> /\ KeepSort /\ KeepOutside

\* The database and Redis are disconnected, and the process exits.
Exit ==
  /\ phase = "destroying" /\ Len(stopped) = Len(ordered)
  /\ phase' = "exited"
  /\ KeepSort /\ KeepHooks /\ KeepOutside

Boot == Discover \/ Pick \/ Sorted \/ InitModule \/ Listen
Shutdown == Drained \/ DestroyModule \/ Exit

LoaderNext ==
  \/ Boot \/ Shutdown
  \/ \E c \in Connections : Accept(c) \/ Close(c)
  \/ \E s \in Signals : Signal(s)

LoaderSpec == LoaderInit /\ [][LoaderNext]_loaderVars
-------------------------------------------------------------------------------
(***************************************************************************)
(* Properties.                                                             *)
(***************************************************************************)
\* Some modules wait for each other: each of them depends on one of them.
Cyclic ==
  \E S \in SUBSET Loaded :
    S # {} /\ \A n \in S : Elements(DepsOf(n)) \cap S # {}

\* A directory of modules is sorted exactly if it has an order: no name or path
\* is used twice, nothing is missing and no modules depend on each other in a
\* circle; an array that names a dependency twice is no obstacle.
SortedIffPossible ==
  /\ phase \in {"init", "up", "draining", "destroying", "exited"} => Sortable /\ ~Cyclic
  /\ phase = "failed" /\ started = <<>> /\ Len(ordered) < Len(modules) => ~Sortable \/ Cyclic

Alive(n) == n \in Elements(started) /\ n \notin Elements(stopped)

\* From its initialisation to its end a module can count on the modules it
\* depends on: they were initialised before it, and are destroyed after it.
DependenciesAlive ==
  \A n \in Loaded : Alive(n) => \A m \in Elements(DepsOf(n)) : Alive(m)
===============================================================================
