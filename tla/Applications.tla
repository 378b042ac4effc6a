------------------------------ MODULE Applications -----------------------------
(***************************************************************************)
(* ApplicationMgr and the Server's use of it: applications are mounted on  *)
(* URL roots, a default one is made when it is needed, and a request goes  *)
(* to the application of its path.                                         *)
(***************************************************************************)
EXTENDS UrlPaths, FiniteSets

CONSTANTS
    Apps,           \* applications of the program: name and root
    Paths,          \* paths that are asked for
    NDEBUG          \* a release build

VARIABLES
    map,        \* ApplicationMgr::_map
    sealed,     \* ApplicationMgr::_mounted
    runs,       \* applications whose _mounted is set
    off,        \* applications whose _disabled is set
    running,    \* Server::_running
    given,      \* history: what the first call of DefaultApp returned
    taken       \* history: applications that were accepted, in this order

appVars == <<map, sealed, runs, off, running, given, taken>>

NoApp == [name |-> "none", root |-> <<>>]
Abortive == [name |-> "ABORTIVE-APP", root |-> <<"/">>]
DefaultApplication == [name |-> "default", root |-> <<"/">>]

\* What FindByURL gives when no application is found.
Otherwise == IF NDEBUG THEN Abortive ELSE NoApp

\* Mutant: the map is in ascending order.
FindByURL_ascending(apps, path) ==
    LET here == {a \in apps : iStartsWith(path, a.root)}
    IN  IF here = {} THEN Otherwise
        ELSE CHOOSE a \in here : \A b \in here \ {a} : iLess(a.root, b.root)

\* The map is in descending order.  The search starts at lower_bound, the first
\* root that is not greater than the path, and takes the first that is a prefix.
FindByURL(apps, path) ==
    LET from == {a \in apps : ~iLess(path, a.root)}
        here == {a \in from : iStartsWith(path, a.root)}
    IN  IF here = {} THEN Otherwise
        ELSE CHOOSE a \in here : \A b \in here \ {a} : iLess(b.root, a.root)

FindByName(name) == IF \E a \in map : a.name = name THEN CHOOSE a \in map : a.name = name
                    ELSE IF NDEBUG /\ name = Abortive.name THEN Abortive ELSE NoApp

\* std::map::insert does nothing when the root is there already.
Insert(apps, a) == IF \E b \in apps : iEquals(b.root, a.root) THEN apps ELSE apps \cup {a}

-------------------------------------------------------------------------------
AppInit == /\ map = {} /\ sealed = FALSE /\ runs = {} /\ off = {}
           /\ running = FALSE
           /\ given = NoApp
           /\ taken = <<>>

\* Server::Mount: refused after Run, and for a name that is taken.
MountApplication(a) ==
    /\ ~sealed
    /\ FindByName(a.name) = NoApp
    /\ a \notin ToSet(taken)
    /\ map' = Insert(map, a)
    /\ taken' = Append(taken, a)
    /\ UNCHANGED <<sealed, runs, off, running, given>>

CreateDefault ==
    /\ map' = Insert(map, DefaultApplication)
    /\ taken' = Append(taken, DefaultApplication)

\* PrepareApp, which the Server's own AddHandler calls.
PrepareApp ==
    /\ map = {}
    /\ CreateDefault
    /\ UNCHANGED <<sealed, runs, off, running, given>>

DefaultApp ==
    /\ given = NoApp
    /\ IF FindByURL(map, <<"/">>) = NoApp THEN CreateDefault ELSE UNCHANGED <<map, taken>>
    /\ given' = FindByURL(map', <<"/">>)
    /\ UNCHANGED <<sealed, runs, off, running>>

\* Run mounts the applications; start_accept makes a default one if there is none.
Run ==
    /\ ~running
    /\ running' = TRUE
    /\ sealed' = TRUE
    /\ runs' = map
    /\ IF map = {} THEN CreateDefault ELSE UNCHANGED <<map, taken>>
    /\ UNCHANGED <<off, given>>

Enable(a) == /\ a = FindByName(a.name) /\ a \in off
             /\ off' = off \ {a}
             /\ UNCHANGED <<map, sealed, runs, running, given, taken>>

Disable(a) == /\ a = FindByName(a.name) /\ a \notin off
              /\ off' = off \cup {a}
              /\ UNCHANGED <<map, sealed, runs, running, given, taken>>

AppNext == \/ \E a \in Apps : MountApplication(a)
           \/ PrepareApp \/ DefaultApp \/ Run
           \/ \E a \in Apps : Enable(a) \/ Disable(a)

AppSpec == AppInit /\ [][AppNext]_appVars

-------------------------------------------------------------------------------
(* Properties *)

\* A request goes to the application with the longest root that its path begins
\* with, case aside, and of those with equal roots to the one that came first.
RightApplication ==
    \A path \in Paths :
        LET here == {i \in DOMAIN taken : iStartsWith(path, taken[i].root)}
            best == {i \in here : \A j \in here : \/ Len(taken[j].root) < Len(taken[i].root)
                                                  \/ Len(taken[j].root) = Len(taken[i].root) /\ i <= j}
        IN  FindByURL(map, path) = IF here = {} THEN Otherwise ELSE taken[CHOOSE i \in best : TRUE]

\* The application that DefaultApp gives to the program, to add handlers to, is
\* the one that is asked for "/" once the server runs.
DefaultServes == running /\ given # NoApp => FindByURL(map, <<"/">>) = given
================================================================================
