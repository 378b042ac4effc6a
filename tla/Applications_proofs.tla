-------------------------- MODULE Applications_proofs --------------------------
(***************************************************************************)
(* Theorems about what applications are asked for: the websocket           *)
(* connections of one (WsRegistry), which application of the server a path *)
(* belongs to (Applications), and which handler of it (Routing).           *)
(*                                                                         *)
(* WsRegistry, for any connections, threads and ids, as long as programs   *)
(* rename no connection to the empty id (renaming to ids that other        *)
(* connections have is allowed).  EntriesAreHeld is inductive together     *)
(* with IdNotEmpty: a connection that has an entry has a non-empty id, so  *)
(* the destructor of its holding context does not skip the removal.        *)
(* NoNullContext follows: what is held is alive, so All() locks every      *)
(* pointer successfully.                                                   *)
(*                                                                         *)
(* Applications, for any applications and paths that are strings.  The     *)
(* invariant is that the map has, of every root, the application that came *)
(* first (MapOfFirsts).  The rest is about FindByURL: a root that is a     *)
(* prefix of the path is not greater than it, so lower_bound skips none of *)
(* them, and of two such roots the longer is the greater.                  *)
(*                                                                         *)
(* Routing, for any routes and requests that are strings.  The invariant   *)
(* says what the calls of AddHandler have made of each table (InMap,       *)
(* InList): an item for each url that differs from the others, with the    *)
(* handler of the last call for each method, and patterns in the order in  *)
(* which they came first.  What each search finds is then said of the      *)
(* calls alone (Searched), as the reference Due does.                      *)
(***************************************************************************)
EXTENDS WsRegistry, Applications, Routing, SequenceTheorems, WellFoundedInduction, TLAPS

-------------------------------------------------------------------------------
(* WsRegistry *)

NonEmptyNames == \A c \in Conns : EmptyId \notin NewIds[c]

\* Once past OnOpen, a connection has an id.
IdNotEmpty == \A c \in Conns : hold[c] \in {"held", "dying"} => id[c] # EmptyId

RegistryInv == TypeOK /\ EntriesAreHeld /\ IdNotEmpty /\ NoNullContext

\* What an entry refers to can be locked.
LEMMA EntryAlive ==
    ASSUME TypeOK, EntriesAreHeld, NEW i \in Ids, storage[i] # NoConn
    PROVE  Lock(storage[i]) = storage[i] /\ storage[i] \in Conns
BY DEF TypeOK, EntriesAreHeld, Lock, Alive

\* The initial state satisfies the invariant.
LEMMA RegistryInit == Init => RegistryInv
BY RegistryAssumption DEF Init, RegistryInv, TypeOK, EntriesAreHeld, IdNotEmpty, NoNullContext

\* Every step keeps the invariant.
LEMMA RegistryNext ==
    ASSUME NonEmptyNames, RegistryInv, [Next]_vars
    PROVE  RegistryInv'
<1> USE RegistryAssumption
<1> USE DEF RegistryInv
<1>1. ASSUME NEW c \in Conns, Create(c) PROVE RegistryInv'
  BY <1>1 DEF Create, TypeOK, EntriesAreHeld, IdNotEmpty, NoNullContext
<1>2. ASSUME NEW c \in Conns, AddWebSocketConnection(c) PROVE RegistryInv'
  <2> DEFINE i == IF id[c] = EmptyId THEN Uuid[c] ELSE id[c]
  <2>1. i \in Ids /\ i # EmptyId
    BY DEF TypeOK
  <2>2. \A j \in Ids : storage[j] # c
    BY <1>2 DEF AddWebSocketConnection, EntriesAreHeld, TypeOK
  <2>3. /\ hold' = [hold EXCEPT ![c] = "held"]
        /\ id' = [id EXCEPT ![c] = i]
        /\ storage' = IF storage[i] = NoConn THEN [storage EXCEPT ![i] = c] ELSE storage
        /\ ctxs' = ctxs /\ snap' = snap
    BY <1>2 DEF AddWebSocketConnection
  <2> HIDE DEF i
  <2>4. TypeOK'
    BY <2>1, <2>3 DEF TypeOK
  <2>5. EntriesAreHeld'
    BY <2>1, <2>2, <2>3 DEF TypeOK, EntriesAreHeld
  <2>6. IdNotEmpty' /\ NoNullContext'
    BY <2>1, <2>3 DEF TypeOK, IdNotEmpty, NoNullContext
  <2> QED
    BY <2>4, <2>5, <2>6
<1>3. ASSUME NEW c \in Conns, DestroyContext(c) PROVE RegistryInv'
  <2>1. TypeOK'
    BY <1>3 DEF DestroyContext, TypeOK
  <2>2. EntriesAreHeld'
    BY <1>3 DEF DestroyContext, TypeOK, EntriesAreHeld, IdNotEmpty
  <2>3. IdNotEmpty' /\ NoNullContext'
    BY <1>3 DEF DestroyContext, TypeOK, IdNotEmpty, NoNullContext
  <2> QED
    BY <2>1, <2>2, <2>3
<1>4. ASSUME NEW c \in Conns, RemoveWebSocketConnection(c) PROVE RegistryInv'
  <2>1. TypeOK'
    BY <1>4 DEF RemoveWebSocketConnection, TypeOK
  <2>2. EntriesAreHeld'
    BY <1>4 DEF RemoveWebSocketConnection, TypeOK, EntriesAreHeld
  <2>3. IdNotEmpty' /\ NoNullContext'
    BY <1>4 DEF RemoveWebSocketConnection, TypeOK, IdNotEmpty, NoNullContext
  <2> QED
    BY <2>1, <2>2, <2>3
<1>5. ASSUME NEW c \in Conns, NEW new_id \in Ids, RenameID(c, new_id) PROVE RegistryInv'
  <2> DEFINE cnt == storage[id[c]]
  <2>1. id[c] \in Ids /\ cnt # NoConn
    BY <1>5 DEF RenameID, TypeOK
  <2>2. Lock(cnt) = cnt /\ cnt \in Conns
    BY <2>1, EntryAlive
  <2>3. /\ storage' = [storage EXCEPT ![id[c]] = NoConn, ![new_id] = cnt]
        /\ id' = [id EXCEPT ![cnt] = new_id]
        /\ UNCHANGED <<hold, ctxs, snap>>
    BY <1>5, <2>1, <2>2 DEF RenameID
  <2>4. new_id # EmptyId
    BY <1>5 DEF RenameID, NonEmptyNames
  <2>5. id[cnt] = id[c] /\ hold[cnt] \in {"held", "dying"}
    BY <2>1 DEF EntriesAreHeld
  <2>6. \A j \in Ids : storage[j] = cnt => j = id[c]
    BY <2>1, <2>2, <2>5 DEF EntriesAreHeld
  <2> HIDE DEF cnt
  <2>7. TypeOK'
    BY <2>1, <2>2, <2>3 DEF TypeOK
  <2>8. EntriesAreHeld'
    BY <2>1, <2>2, <2>3, <2>5, <2>6 DEF TypeOK, EntriesAreHeld
  <2>9. IdNotEmpty' /\ NoNullContext'
    BY <2>2, <2>3, <2>4 DEF TypeOK, IdNotEmpty, NoNullContext
  <2> QED
    BY <2>7, <2>8, <2>9
<1>6. ASSUME NEW t \in Threads, NEW i \in Ids, Get(t, i) PROVE RegistryInv'
  <2>1. Lock(storage[i]) = storage[i] /\ storage[i] \in Conns
    BY <1>6, EntryAlive DEF Get
  <2> QED
    BY <1>6, <2>1 DEF Get, TypeOK, EntriesAreHeld, IdNotEmpty, NoNullContext
<1>7. ASSUME NEW t \in Threads, All(t) PROVE RegistryInv'
  <2>1. \A i \in Registered : Lock(storage[i]) \in Conns
    BY EntryAlive DEF Registered
  <2>2. snap' = [snap EXCEPT ![t] = {Lock(storage[i]) : i \in Registered}]
    BY <1>7 DEF All
  <2>3. {Lock(storage[i]) : i \in Registered} \subseteq Conns
    BY <2>1
  <2>4. TypeOK'
    BY <1>7, <2>2, <2>3 DEF All, TypeOK
  <2>5. NoNullContext'
    BY <2>2, <2>3 DEF TypeOK, NoNullContext
  <2> QED
    BY <1>7, <2>4, <2>5 DEF All, EntriesAreHeld, IdNotEmpty
<1>8. ASSUME NEW t \in Threads, NEW c \in Conns,
             CreateUnholdConnectionLife(t, c) \/ DropContext(t, c)
      PROVE  RegistryInv'
  BY <1>8 DEF CreateUnholdConnectionLife, DropContext, TypeOK, EntriesAreHeld,
              IdNotEmpty, NoNullContext
<1>9. ASSUME NEW t \in Threads, DropList(t) PROVE RegistryInv'
  BY <1>9 DEF DropList, TypeOK, EntriesAreHeld, IdNotEmpty, NoNullContext
<1>10. CASE UNCHANGED vars
  BY <1>10 DEF vars, TypeOK, EntriesAreHeld, IdNotEmpty, NoNullContext
<1> QED
  BY <1>1, <1>2, <1>3, <1>4, <1>5, <1>6, <1>7, <1>8, <1>9, <1>10 DEF Next

\* Without empty names the invariant holds in every behaviour.
THEOREM RegistryInvariance == NonEmptyNames => (Spec => []RegistryInv)
<1> SUFFICES ASSUME NonEmptyNames PROVE Spec => []RegistryInv
  OBVIOUS
<1>1. RegistryInv /\ [Next]_vars => RegistryInv'
  BY RegistryNext
<1> QED
  BY <1>1, RegistryInit, PTL DEF Spec

\* A ContextList never contains a null pointer, so the assertion of ContextIMP's
\* constructor holds.
THEOREM ContextsNotNull == NonEmptyNames => (Spec => []NoNullContext)
<1>1. RegistryInv => NoNullContext
  BY DEF RegistryInv
<1> QED
  BY <1>1, RegistryInvariance, PTL

\* A connection whose holding context is gone has no entry any more, and an
\* entry's key is the id of its connection.
THEOREM NothingLeftBehind == NonEmptyNames => (Spec => []EntriesAreHeld)
<1>1. RegistryInv => EntriesAreHeld
  BY DEF RegistryInv
<1> QED
  BY <1>1, RegistryInvariance, PTL

-------------------------------------------------------------------------------
(* A connection whose names are its own is found.  RenameID on a context of c   *)
(* renames whatever connection the entry of c's id is of, which may be another  *)
(* one; OwnNames says that such a mix-up never reaches an exclusive connection. *)

OwnNames == \A e \in Conns : Exclusive(e) =>
    /\ id[e] \in Names(e) \cup {EmptyId}
    /\ \A d \in Conns \ {e} : id[d] \notin Names(e)

FoundInv == RegistryInv /\ OwnNames /\ OpenAreFound

\* Every step keeps it.
LEMMA FoundNext ==
    ASSUME NonEmptyNames, FoundInv, [Next]_vars
    PROVE  FoundInv'
<1> USE RegistryAssumption
<1>t. TypeOK /\ EntriesAreHeld /\ IdNotEmpty
  BY DEF FoundInv, RegistryInv
<1>e. \A e \in Conns : EmptyId \notin Names(e)
  BY DEF Names, NonEmptyNames
<1>r. RegistryInv'
  BY RegistryNext DEF FoundInv
<1> SUFFICES OwnNames' /\ OpenAreFound'
  BY <1>r DEF FoundInv
<1>1. ASSUME NEW c \in Conns, Create(c) PROVE OwnNames' /\ OpenAreFound'
  BY <1>1, <1>t DEF Create, TypeOK, FoundInv, OwnNames, OpenAreFound
<1>2. ASSUME NEW c \in Conns, AddWebSocketConnection(c) PROVE OwnNames' /\ OpenAreFound'
  <2> DEFINE i == IF id[c] = EmptyId THEN Uuid[c] ELSE id[c]
  <2>1. i \in Ids
    BY <1>t DEF TypeOK
  <2>2. /\ hold[c] = "OnOpen"
        /\ hold' = [hold EXCEPT ![c] = "held"]
        /\ id' = [id EXCEPT ![c] = i]
        /\ storage' = IF storage[i] = NoConn THEN [storage EXCEPT ![i] = c] ELSE storage
    BY <1>2 DEF AddWebSocketConnection
  <2>3. Exclusive(c) => i \in Names(c)
    BY DEF FoundInv, OwnNames, Names
  <2>4. \A e \in Conns \ {c} : Exclusive(e) => i \notin Names(e)
    BY DEF FoundInv, OwnNames, Names, Exclusive
  <2> HIDE DEF i
  <2>5. OwnNames'
    BY <1>t, <2>1, <2>2, <2>3, <2>4 DEF TypeOK, FoundInv, OwnNames
  <2>6. ASSUME NEW e \in Conns, Exclusive(e), hold'[e] = "held" PROVE storage'[id'[e]] = e
    <3>1. CASE e = c
      <4>1. storage[i] = NoConn
        BY <1>t, <2>1, <2>2, <2>3, <2>6, <3>1 DEF TypeOK, EntriesAreHeld, FoundInv, OwnNames
      <4> QED
        BY <1>t, <2>1, <2>2, <3>1, <4>1 DEF TypeOK
    <3>2. CASE e # c
      <4>1. hold[e] = "held" /\ id'[e] = id[e] /\ storage[id[e]] = e /\ id[e] \in Ids
        BY <1>t, <2>2, <2>6, <3>2 DEF TypeOK, FoundInv, OpenAreFound
      <4> QED
        BY <1>t, <2>1, <2>2, <4>1 DEF TypeOK
    <3> QED
      BY <3>1, <3>2
  <2> QED
    BY <2>5, <2>6 DEF OpenAreFound
<1>3. ASSUME NEW c \in Conns, DestroyContext(c) PROVE OwnNames' /\ OpenAreFound'
  BY <1>3, <1>t DEF DestroyContext, TypeOK, FoundInv, OwnNames, OpenAreFound
<1>4. ASSUME NEW c \in Conns, RemoveWebSocketConnection(c) PROVE OwnNames' /\ OpenAreFound'
  <2>1. /\ hold' = [hold EXCEPT ![c] = "gone"]
        /\ storage' = [storage EXCEPT ![id[c]] = NoConn]
        /\ id' = id
    BY <1>4 DEF RemoveWebSocketConnection
  <2>2. ASSUME NEW e \in Conns, Exclusive(e), hold'[e] = "held" PROVE storage'[id'[e]] = e
    <3>1. e # c /\ hold[e] = "held" /\ storage[id[e]] = e
      BY <1>t, <2>1, <2>2 DEF TypeOK, FoundInv, OpenAreFound
    <3>2. id[e] # id[c]
      BY <1>t, <2>2, <3>1 DEF IdNotEmpty, FoundInv, OwnNames
    <3> QED
      BY <1>t, <2>1, <3>1, <3>2 DEF TypeOK
  <2> QED
    BY <2>1, <2>2 DEF FoundInv, OwnNames, OpenAreFound
<1>5. ASSUME NEW c \in Conns, NEW new_id \in Ids, RenameID(c, new_id)
      PROVE  OwnNames' /\ OpenAreFound'
  <2> DEFINE cnt == storage[id[c]]
  <2>1. id[c] \in Ids /\ cnt # NoConn /\ new_id \in NewIds[c]
    BY <1>5, <1>t DEF RenameID, TypeOK
  <2>2. Lock(cnt) = cnt /\ cnt \in Conns
    BY <1>t, <2>1, EntryAlive
  <2>3. /\ storage' = [storage EXCEPT ![id[c]] = NoConn, ![new_id] = cnt]
        /\ id' = [id EXCEPT ![cnt] = new_id]
        /\ hold' = hold
    BY <1>5, <2>1, <2>2 DEF RenameID
  <2>4. id[cnt] = id[c] /\ id[c] # EmptyId
    BY <1>t, <2>1, <2>2 DEF EntriesAreHeld, IdNotEmpty
  <2> HIDE DEF cnt
  <2>5. new_id \in Names(c)
    BY <2>1 DEF Names
  <2>6. ASSUME NEW e \in Conns, Exclusive(e), c = e \/ cnt = e PROVE c = cnt
    BY <2>2, <2>4, <2>6 DEF FoundInv, OwnNames
  <2>7. \A e \in Conns \ {c} : Exclusive(e) => new_id \notin Names(e)
    BY <2>5 DEF Exclusive
  <2>8. OwnNames'
    BY <1>t, <2>2, <2>3, <2>5, <2>6, <2>7 DEF TypeOK, FoundInv, OwnNames
  <2>9. ASSUME NEW e \in Conns, Exclusive(e), hold'[e] = "held" PROVE storage'[id'[e]] = e
    <3>1. hold[e] = "held" /\ storage[id[e]] = e /\ id[e] \in Ids /\ id[e] # EmptyId
      BY <1>t, <2>3, <2>9 DEF TypeOK, FoundInv, OpenAreFound, IdNotEmpty
    <3>2. CASE e = cnt
      BY <1>t, <2>1, <2>2, <2>3, <3>2 DEF TypeOK
    <3>3. CASE e # cnt
      <4>1. e # c
        BY <2>6, <2>9, <3>3
      <4>2. id[e] # id[c] /\ id[e] # new_id
        BY <2>7, <2>9, <3>1, <4>1 DEF FoundInv, OwnNames
      <4> QED
        BY <1>t, <2>1, <2>2, <2>3, <3>1, <3>3, <4>2 DEF TypeOK
    <3> QED
      BY <3>2, <3>3
  <2> QED
    BY <2>8, <2>9 DEF OpenAreFound
<1>6. CASE UNCHANGED <<id, storage, hold>>
  BY <1>6 DEF FoundInv, OwnNames, OpenAreFound
<1> QED
  BY <1>1, <1>2, <1>3, <1>4, <1>5, <1>6
     DEF Next, Get, All, CreateUnholdConnectionLife, DropContext, DropList, vars

\* An open connection whose names are its own is found under its id, however the
\* others collide and rename each other.
THEOREM OpenConnectionsFound == NonEmptyNames => (Spec => []OpenAreFound)
<1> SUFFICES ASSUME NonEmptyNames PROVE Spec => []OpenAreFound
  OBVIOUS
<1>1. Init => FoundInv
  BY RegistryInit, RegistryAssumption DEF Init, FoundInv, OwnNames, OpenAreFound, Names, NonEmptyNames
<1>2. FoundInv /\ [Next]_vars => FoundInv'
  BY FoundNext
<1>3. FoundInv => OpenAreFound
  BY DEF FoundInv
<1> QED
  BY <1>1, <1>2, <1>3, PTL DEF Spec

-------------------------------------------------------------------------------
(* Applications *)

\* The characters of urls and paths, as the order of the map knows them.
Characters == {"/", "a", "A", "b", "B", "index", "{{}}", "("}

\* The program gives roots that are strings, and strings are asked for.
Strings == /\ \A a \in Apps : a.root \in Seq(Characters)
           /\ Paths \subseteq Seq(Characters)

\* Application i came before all others of the same root, case aside.
FirstOf(all, i) == \A j \in 1..(i - 1) : ~iEquals(all[j].root, all[i].root)

\* The map has of every root the application that came first.
Firsts(all, apps) ==
    /\ all \in Seq(Apps \cup {DefaultApplication})
    /\ apps = {all[i] : i \in {k \in 1..Len(all) : FirstOf(all, k)}}

MapOfFirsts == Firsts(taken, map)

\* A set of numbers that is not empty has a least one.
LEMMA Least ==
    ASSUME NEW S \in SUBSET Nat, S # {}
    PROVE  \E m \in S : \A i \in S : m <= i
<1> DEFINE R == OpToRel(<, Nat)
<1>1. PICK m \in S : \A i \in S : ~(<<i, m>> \in R)
  <2> HIDE DEF R
  <2> QED
    BY NatLessThanWellFounded, WFMin DEF R
<1>2. \A i \in S : i < m => <<i, m>> \in R
  BY DEF OpToRel
<1> HIDE DEF R
<1>3. \A i \in S : ~(i < m)
  BY <1>1, <1>2
<1> QED
  BY <1>3

\* Every character has a place in the order, the same for both cases.
LEMMA RankTypes ==
    /\ \A c \in Characters : Rank(c) \in Nat
    /\ \A c, d \in Characters : Lower(c) = Lower(d) => Rank(c) = Rank(d)
<1>1. /\ DOMAIN Order = 1..6
      /\ Order[1] = "/" /\ Order[2] = "a" /\ Order[3] = "b"
      /\ Order[4] = "index" /\ Order[5] = "{{}}" /\ Order[6] = "("
  BY DEF Order
<1>2. ASSUME NEW c \in Characters PROVE \E i \in DOMAIN Order : Order[i] = Lower(c)
  <2>1. Lower(c) \in {"/", "a", "b", "index", "{{}}", "("}
    BY DEF Characters, Lower
  <2>2. \A x \in {"/", "a", "b", "index", "{{}}", "("} : \E i \in 1..6 : Order[i] = x
    <3>1. 1 \in 1..6 /\ 2 \in 1..6 /\ 3 \in 1..6 /\ 4 \in 1..6 /\ 5 \in 1..6 /\ 6 \in 1..6
      OBVIOUS
    <3> QED
      BY <1>1, <3>1, Zenon
  <2> QED
    BY <1>1, <2>1, <2>2, Zenon
<1>3. \A c \in Characters : Rank(c) \in DOMAIN Order
  BY <1>2 DEF Rank
<1>4. \A c, d \in Characters : Lower(c) = Lower(d) => Rank(c) = Rank(d)
  BY DEF Rank
<1>5. DOMAIN Order \subseteq Nat
  <2>1. 1..6 \subseteq Nat
    OBVIOUS
  <2> QED
    BY <1>1, <2>1, Zenon
<1> QED
  BY <1>3, <1>4, <1>5, Zenon

\* Of two strings that a path begins with the longer one is greater, and neither
\* is after the path: lower_bound skips no root that the path begins with.
LEMMA PrefixOrder ==
    ASSUME NEW path \in Seq(Characters), NEW l \in Seq(Characters), NEW r \in Seq(Characters),
           iStartsWith(path, l), iStartsWith(path, r)
    PROVE  /\ iLess(l, r) <=> Len(l) < Len(r)
           /\ ~iLess(path, l)
           /\ iEquals(l, r) <=> Len(l) = Len(r)
<1> DEFINE p == Len(path)
           a == Len(l)
           b == Len(r)
<1>1. /\ p \in Nat /\ a \in Nat /\ b \in Nat /\ a <= p /\ b <= p
      /\ DOMAIN l = 1..a /\ DOMAIN r = 1..b
      /\ \A i \in 1..p : path[i] \in Characters
      /\ \A i \in 1..a : l[i] \in Characters
      /\ \A i \in 1..b : r[i] \in Characters
  BY LenProperties, ElementOfSeq DEF iStartsWith
<1>2. /\ \A i \in 1..a : Lower(path[i]) = Lower(l[i])
      /\ \A i \in 1..b : Lower(path[i]) = Lower(r[i])
  BY <1>1 DEF iStartsWith
<1> HIDE DEF p, a, b
<1>3. /\ \A i \in 1..a : Rank(path[i]) = Rank(l[i]) /\ Rank(l[i]) \in Nat
      /\ \A i \in 1..b : Rank(path[i]) = Rank(r[i]) /\ Rank(r[i]) \in Nat
  <2>1. \A i \in 1..a : i \in 1..p
    BY <1>1
  <2>2. \A i \in 1..b : i \in 1..p
    BY <1>1
  <2> QED
    BY <1>1, <1>2, <2>1, <2>2, RankTypes
<1>4. iLess(l, r) => a < b
  <2> SUFFICES ASSUME NEW n \in 0..(b - 1), n <= a,
                      n = a \/ Rank(l[n + 1]) < Rank(r[n + 1])
               PROVE  a < b
    BY DEF iLess, a, b
  <2>1. CASE n = a
    BY <1>1, <2>1
  <2>2. CASE n # a
    <3>1. n + 1 \in 1..a /\ n + 1 \in 1..b
      BY <1>1, <2>2
    <3>2. Rank(l[n + 1]) = Rank(r[n + 1]) /\ Rank(r[n + 1]) \in Nat
      BY <1>3, <3>1
    <3> QED
      BY <2>2, <3>2
  <2> QED
    BY <2>1, <2>2
<1>5. a < b => iLess(l, r)
  <2> SUFFICES ASSUME a < b PROVE iLess(l, r)
    OBVIOUS
  <2>1. a \in 0..(b - 1) /\ a <= a
    BY <1>1
  <2>2. \A i \in 1..a : Rank(l[i]) = Rank(r[i])
    <3>1. \A i \in 1..a : i \in 1..b
      BY <1>1
    <3> QED
      BY <1>3, <3>1
  <2> QED
    BY <2>1, <2>2 DEF iLess, a, b
<1>6. ~iLess(path, l)
  <2> SUFFICES ASSUME NEW n \in 0..(a - 1), n <= p,
                      n = p \/ Rank(path[n + 1]) < Rank(l[n + 1])
               PROVE  FALSE
    BY DEF iLess, a, p
  <2>1. n + 1 \in 1..a /\ n # p
    BY <1>1
  <2>2. Rank(path[n + 1]) = Rank(l[n + 1]) /\ Rank(l[n + 1]) \in Nat
    BY <1>3, <2>1
  <2> QED
    BY <2>1, <2>2
<1>7. iEquals(l, r) <=> a = b
  <2>1. a = b => \A i \in 1..b : Lower(l[i]) = Lower(r[i])
    BY <1>2
  <2>2. a = b => a <= b /\ b <= a
    BY <1>1
  <2> QED
    BY <1>1, <2>1, <2>2 DEF iEquals, iStartsWith, a, b
<1> QED
  BY <1>4, <1>5, <1>6, <1>7 DEF a, b

\* Roots that differ at most in case are the same to a path and to each other.
LEMMA EqualRoots ==
    ASSUME NEW l \in Seq(Characters), NEW r \in Seq(Characters), iEquals(l, r)
    PROVE  /\ \A path \in Seq(Characters) : iStartsWith(path, r) => iStartsWith(path, l)
           /\ \A k \in Seq(Characters) : iEquals(k, l) => iEquals(k, r)
<1>1. /\ Len(l) = Len(r) /\ Len(l) \in Nat /\ DOMAIN l = 1..Len(l) /\ DOMAIN r = 1..Len(l)
      /\ \A i \in 1..Len(l) : Lower(l[i]) = Lower(r[i])
  BY LenProperties DEF iEquals, iStartsWith
<1> QED
  BY <1>1 DEF iEquals, iStartsWith

\* An application that is mounted, or made, comes into the map if it is the first
\* of its root.
LEMMA InsertFirst ==
    ASSUME Strings, MapOfFirsts, NEW a \in Apps \cup {DefaultApplication},
           map' = Insert(map, a), taken' = Append(taken, a)
    PROVE  MapOfFirsts'
<1> DEFINE n == Len(taken)
           A == Apps \cup {DefaultApplication}
<1>0. /\ taken \in Seq(A) /\ n \in Nat
      /\ \A i \in 1..n : taken[i] \in A
  BY LenProperties, ElementOfSeq DEF MapOfFirsts, Firsts
<1>1. \A x \in A : x.root \in Seq(Characters)
  <2>1. "/" \in Characters
    BY DEF Characters
  <2>2. DefaultApplication.root = <<"/">>
    BY DEF DefaultApplication
  <2>3. <<"/">> \in Seq(Characters)
    BY <2>1
  <2> QED
    BY <2>2, <2>3 DEF Strings
<1>2. /\ taken' \in Seq(A) /\ Len(taken') = n + 1
      /\ \A i \in 1..n : taken'[i] = taken[i]
      /\ taken'[n + 1] = a
  BY <1>0, AppendProperties
<1>3. map = {taken[i] : i \in {k \in 1..n : FirstOf(taken, k)}}
  BY DEF MapOfFirsts, Firsts
<1> HIDE DEF n, A
<1>4. \A i \in 1..n : FirstOf(taken', i) <=> FirstOf(taken, i)
  <2> SUFFICES ASSUME NEW i \in 1..n PROVE FirstOf(taken', i) <=> FirstOf(taken, i)
    OBVIOUS
  <2>1. \A j \in 1..(i - 1) : taken'[j] = taken[j]
    BY <1>0, <1>2
  <2>2. taken'[i] = taken[i]
    BY <1>2
  <2>3. FirstOf(taken, i) <=> \A j \in 1..(i - 1) : ~iEquals(taken[j].root, taken[i].root)
    BY Zenon DEF FirstOf
  <2>4. FirstOf(taken', i) <=> \A j \in 1..(i - 1) : ~iEquals(taken'[j].root, taken'[i].root)
    BY Zenon DEF FirstOf
  <2> QED
    BY <2>1, <2>2, <2>3, <2>4, Zenon
<1>5. FirstOf(taken', n + 1) <=> \A j \in 1..n : ~iEquals(taken[j].root, a.root)
  <2>1. (n + 1) - 1 = n
    BY <1>0
  <2> QED
    BY <1>2, <2>1 DEF FirstOf
<1>6. (\E b \in map : iEquals(b.root, a.root)) <=> ~FirstOf(taken', n + 1)
  <2>1. ASSUME NEW b \in map, iEquals(b.root, a.root) PROVE ~FirstOf(taken', n + 1)
    <3>1. PICK j \in 1..n : b = taken[j]
      BY <1>3
    <3> QED
      BY <1>5, <2>1, <3>1
  <2>2. ASSUME ~FirstOf(taken', n + 1) PROVE \E b \in map : iEquals(b.root, a.root)
    <3> DEFINE S == {j \in 1..n : iEquals(taken[j].root, a.root)}
    <3>1. S # {} /\ S \in SUBSET Nat
      BY <1>0, <1>5, <2>2
    <3>2. PICK j \in S : \A i \in S : j <= i
      BY <3>1, Least
    <3>3. FirstOf(taken, j)
      <4> SUFFICES ASSUME NEW i \in 1..(j - 1), iEquals(taken[i].root, taken[j].root) PROVE FALSE
        BY DEF FirstOf
      <4>1. i \in 1..n /\ j \in 1..n /\ ~(j <= i)
        BY <1>0
      <4>2. taken[i].root \in Seq(Characters) /\ taken[j].root \in Seq(Characters) /\ a.root \in Seq(Characters)
        BY <1>0, <1>1, <4>1 DEF A
      <4>3. iEquals(taken[i].root, a.root)
        BY <4>2, EqualRoots
      <4> QED
        BY <3>2, <4>1, <4>3
    <3> QED
      BY <1>3, <3>3
  <2> QED
    BY <2>1, <2>2
<1>7. {k \in 1..Len(taken') : FirstOf(taken', k)} =
          {k \in 1..n : FirstOf(taken, k)} \cup {k \in {n + 1} : FirstOf(taken', n + 1)}
  <2>1. \A k : k \in 1..(n + 1) <=> k \in 1..n \/ k = n + 1
    BY <1>0
  <2>2. \A k \in 1..(n + 1) : FirstOf(taken', k) <=> (k \in 1..n /\ FirstOf(taken, k)) \/ (k = n + 1 /\ FirstOf(taken', n + 1))
    <3>1. n + 1 \notin 1..n
      BY <1>0
    <3> QED
      BY <1>4, <2>1, <3>1, Zenon
  <2>3. Len(taken') = n + 1
    BY <1>2
  <2> QED
    BY <2>1, <2>2, <2>3, Zenon
<1>8. {taken'[i] : i \in {k \in 1..Len(taken') : FirstOf(taken', k)}} = map'
  <2>1. CASE FirstOf(taken', n + 1)
    <3>1. map' = map \cup {a}
      BY <1>6, <2>1 DEF Insert
    <3>2. {k \in 1..Len(taken') : FirstOf(taken', k)} = {k \in 1..n : FirstOf(taken, k)} \cup {n + 1}
      BY <1>7, <2>1
    <3> QED
      BY <1>2, <1>3, <3>1, <3>2
  <2>2. CASE ~FirstOf(taken', n + 1)
    <3>1. map' = map
      BY <1>6, <2>2 DEF Insert
    <3>2. {k \in 1..Len(taken') : FirstOf(taken', k)} = {k \in 1..n : FirstOf(taken, k)}
      BY <1>7, <2>2
    <3> QED
      BY <1>2, <1>3, <3>1, <3>2
  <2> QED
    BY <2>1, <2>2
<1> QED
  BY <1>2, <1>8 DEF MapOfFirsts, Firsts, A

\* What the search in such a map finds.
LEMMA LongestRoot ==
    ASSUME Strings, MapOfFirsts PROVE RightApplication
<1> DEFINE n == Len(taken)
           A == Apps \cup {DefaultApplication}
           Root(i) == taken[i].root
<1>0. /\ taken \in Seq(A) /\ n \in Nat /\ DOMAIN taken = 1..n
      /\ \A i \in 1..n : taken[i] \in A
  BY LenProperties, ElementOfSeq DEF MapOfFirsts, Firsts
<1>1. \A i \in 1..n : Root(i) \in Seq(Characters) /\ Len(Root(i)) \in Nat
  <2>1. "/" \in Characters
    BY DEF Characters
  <2>2. DefaultApplication.root = <<"/">>
    BY DEF DefaultApplication
  <2>3. <<"/">> \in Seq(Characters)
    BY <2>1
  <2> QED
    BY <1>0, <2>2, <2>3, LenProperties DEF Strings
<1>2. map = {taken[i] : i \in {k \in 1..n : FirstOf(taken, k)}}
  BY DEF MapOfFirsts, Firsts
<1> SUFFICES ASSUME NEW path \in Paths
             PROVE  LET here == {i \in DOMAIN taken : iStartsWith(path, taken[i].root)}
                        best == {i \in here : \A j \in here : \/ Len(taken[j].root) < Len(taken[i].root)
                                                              \/ Len(taken[j].root) = Len(taken[i].root) /\ i <= j}
                    IN  FindByURL(map, path) = IF here = {} THEN Otherwise ELSE taken[CHOOSE i \in best : TRUE]
  BY DEF RightApplication
<1> DEFINE H == {i \in 1..n : iStartsWith(path, Root(i))}
           best == {i \in H : \A j \in H : \/ Len(Root(j)) < Len(Root(i))
                                           \/ Len(Root(j)) = Len(Root(i)) /\ i <= j}
           from == {a \in map : ~iLess(path, a.root)}
           here == {a \in from : iStartsWith(path, a.root)}
<1>3. path \in Seq(Characters)
  BY DEF Strings
<1> HIDE DEF n, A, Root
<1>4. ASSUME NEW i \in H, NEW j \in H
      PROVE  /\ iLess(Root(i), Root(j)) <=> Len(Root(i)) < Len(Root(j))
             /\ ~iLess(path, Root(i))
             /\ iEquals(Root(i), Root(j)) <=> Len(Root(i)) = Len(Root(j))
  BY <1>1, <1>3, PrefixOrder
<1>5. here = {taken[i] : i \in {k \in H : FirstOf(taken, k)}}
  <2>1. \A a \in here : \E i \in {k \in H : FirstOf(taken, k)} : a = taken[i]
    BY <1>2 DEF Root
  <2>2. ASSUME NEW i \in H, FirstOf(taken, i) PROVE taken[i] \in here
    BY <1>2, <1>4, <2>2 DEF Root
  <2> QED
    BY <2>1, <2>2
<1>6. H # {} => best # {}
  <2> SUFFICES ASSUME H # {} PROVE best # {}
    OBVIOUS
  <2> DEFINE D(i) == Len(path) - Len(Root(i))
             S == {D(i) : i \in H}
  <2>1. \A i \in H : D(i) \in Nat /\ Len(Root(i)) \in Nat
    BY <1>1, <1>3, LenProperties DEF iStartsWith
  <2>2. S # {} /\ S \in SUBSET Nat
    BY <2>1
  <2>3. PICK d \in S : \A e \in S : d <= e
    <3> HIDE DEF S
    <3> QED
      BY <2>2, Least
  <2> DEFINE T == {i \in H : D(i) = d}
  <2>4. T # {} /\ T \in SUBSET Nat
    BY <1>0
  <2>5. PICK m \in T : \A i \in T : m <= i
    <3> HIDE DEF T
    <3> QED
      BY <2>4, Least
  <2>6. ASSUME NEW j \in H
        PROVE  \/ Len(Root(j)) < Len(Root(m))
               \/ Len(Root(j)) = Len(Root(m)) /\ m <= j
    <3>1. m \in H /\ D(m) = d /\ d <= D(j) /\ (D(j) = d => m <= j)
      BY <2>3, <2>5
    <3>2. Len(path) \in Nat /\ Len(Root(j)) \in Nat /\ Len(Root(m)) \in Nat
      BY <1>3, <2>1, <3>1, LenProperties
    <3> QED
      BY <3>1, <3>2
  <2>7. m \in H
    OBVIOUS
  <2> HIDE DEF T, S, D, H
  <2> QED
    BY <2>6, <2>7
<1>7. ASSUME NEW i \in best
      PROVE  FindByURL(map, path) = taken[i]
  <2>1. i \in H /\ \A j \in H : \/ Len(Root(j)) < Len(Root(i))
                                \/ Len(Root(j)) = Len(Root(i)) /\ i <= j
    OBVIOUS
  <2> HIDE DEF best
  <2>2. \A j \in H : j \in 1..n /\ iStartsWith(path, Root(j)) /\ Root(j) \in Seq(Characters) /\ Len(Root(j)) \in Nat
    BY <1>1
  <2>3. FirstOf(taken, i)
    <3> SUFFICES ASSUME NEW j \in 1..(i - 1), iEquals(Root(j), Root(i)) PROVE FALSE
      BY DEF FirstOf, Root
    <3>1. j \in 1..n /\ ~(i <= j)
      BY <1>0, <2>1, <2>2
    <3>2. Root(j) \in Seq(Characters) /\ Root(i) \in Seq(Characters) /\ iStartsWith(path, Root(i))
      BY <1>1, <2>1, <2>2, <3>1
    <3>3. iStartsWith(path, Root(j))
      BY <1>3, <3>2, EqualRoots
    <3>4. j \in H
      BY <3>1, <3>3
    <3>5. Len(Root(j)) = Len(Root(i))
      BY DEF iEquals
    <3>6. ~(Len(Root(j)) < Len(Root(i)))
      BY <2>1, <2>2, <3>4, <3>5
    <3> QED
      BY <2>1, <3>1, <3>4, <3>6
  <2>4. taken[i] \in here
    BY <1>5, <2>1, <2>3
  <2>5. ASSUME NEW b \in here, b # taken[i]
        PROVE  iLess(b.root, Root(i)) /\ ~iLess(Root(i), b.root)
    <3>1. PICK k \in H : FirstOf(taken, k) /\ b = taken[k]
      BY <1>5
    <3>2. Len(Root(k)) # Len(Root(i))
      <4> SUFFICES ASSUME Len(Root(k)) = Len(Root(i)) PROVE FALSE
        OBVIOUS
      <4>1. i <= k /\ i # k
        BY <2>1, <2>2, <2>5, <3>1
      <4>2. i \in 1..(k - 1)
        BY <1>0, <2>1, <2>2, <4>1
      <4>3. iEquals(Root(i), Root(k))
        BY <1>4, <2>1
      <4> QED
        BY <3>1, <4>2, <4>3 DEF FirstOf, Root
    <3>3. Len(Root(k)) < Len(Root(i)) /\ ~(Len(Root(i)) < Len(Root(k)))
      BY <2>1, <2>2, <3>2
    <3>4. iLess(Root(k), Root(i)) /\ ~iLess(Root(i), Root(k))
      BY <1>4, <2>1, <3>3
    <3> QED
      BY <3>1, <3>4 DEF Root
  <2> HIDE DEF here, H
  <2>6. \A b \in here \ {taken[i]} : iLess(b.root, taken[i].root) /\ ~iLess(taken[i].root, b.root)
    BY <2>5 DEF Root
  <2>7. (CHOOSE a \in here : \A b \in here \ {a} : iLess(b.root, a.root)) = taken[i]
    BY <2>4, <2>6
  <2>8. FindByURL(map, path) = CHOOSE a \in here : \A b \in here \ {a} : iLess(b.root, a.root)
    BY <2>4 DEF FindByURL, here
  <2> QED
    BY <2>7, <2>8
<1>8. H = {} => FindByURL(map, path) = Otherwise
  <2> SUFFICES ASSUME H = {} PROVE FindByURL(map, path) = Otherwise
    OBVIOUS
  <2>1. here = {}
    BY <1>5
  <2> QED
    BY <2>1 DEF FindByURL
<1>9. FindByURL(map, path) = IF H = {} THEN Otherwise ELSE taken[CHOOSE i \in best : TRUE]
  <2> HIDE DEF H, best
  <2> QED
    BY <1>6, <1>7, <1>8
<1> QED
  BY <1>0, <1>9 DEF Root

\* However applications are mounted and defaults made, the map has of every root
\* the application that came first.
LEMMA ApplicationInvariance == Strings => (AppSpec => []MapOfFirsts)
<1> SUFFICES ASSUME Strings PROVE AppSpec => []MapOfFirsts
  OBVIOUS
<1>1. AppInit => MapOfFirsts
  <2> SUFFICES ASSUME AppInit PROVE MapOfFirsts
    OBVIOUS
  <2>1. taken = <<>> /\ map = {} /\ Len(<<>>) = 0
    BY EmptySeq DEF AppInit
  <2>2. <<>> \in Seq(Apps \cup {DefaultApplication})
    BY EmptySeq
  <2> QED
    BY <2>1, <2>2 DEF MapOfFirsts, Firsts
<1>2. MapOfFirsts /\ [AppNext]_appVars => MapOfFirsts'
  <2> SUFFICES ASSUME MapOfFirsts, [AppNext]_appVars PROVE MapOfFirsts'
    OBVIOUS
  <2>0. ASSUME map' = map, taken' = taken PROVE MapOfFirsts'
    BY <2>0 DEF MapOfFirsts, Firsts, FirstOf
  <2>1. ASSUME CreateDefault PROVE MapOfFirsts'
    BY <2>1, InsertFirst DEF CreateDefault
  <2>2. ASSUME NEW a \in Apps, MountApplication(a) PROVE MapOfFirsts'
    BY <2>2, InsertFirst DEF MountApplication
  <2>3. CASE PrepareApp
    BY <2>1, <2>3 DEF PrepareApp
  <2>4. CASE DefaultApp
    BY <2>0, <2>1, <2>4 DEF DefaultApp
  <2>5. CASE Run
    BY <2>0, <2>1, <2>5 DEF Run
  <2>6. ASSUME NEW a \in Apps, Enable(a) \/ Disable(a) PROVE MapOfFirsts'
    BY <2>0, <2>6 DEF Enable, Disable
  <2>7. CASE UNCHANGED appVars
    BY <2>0, <2>7 DEF appVars
  <2> QED
    BY <2>2, <2>3, <2>4, <2>5, <2>6, <2>7 DEF AppNext
<1> QED
  BY <1>1, <1>2, PTL DEF AppSpec

\* FindByURL, lower_bound and all, gives a request the application whose root is
\* the longest that its path begins with, case aside, and of the applications
\* with equal roots the one that was mounted first.
THEOREM ApplicationOfPath == Strings => (AppSpec => []RightApplication)
<1> SUFFICES ASSUME Strings PROVE AppSpec => []RightApplication
  OBVIOUS
<1>1. MapOfFirsts => RightApplication
  BY LongestRoot
<1> QED
  BY <1>1, ApplicationInvariance, PTL

\* No application is mounted on the empty root.
NonEmptyRoots == \A a \in Apps : a.root # <<>>

\* Of the roots that "/" begins with the map has one at most.
LEMMA RootFound ==
    ASSUME Strings, NonEmptyRoots, NEW all, NEW apps, Firsts(all, apps), NEW here,
           here = {a \in apps : iStartsWith(<<"/">>, a.root)}
    PROVE  /\ \A a \in here : FindByURL(apps, <<"/">>) = a /\ a # NoApp
           /\ here = {} => FindByURL(apps, <<"/">>) = Otherwise
<1> DEFINE A == Apps \cup {DefaultApplication}
           n == Len(all)
           top == <<"/">>
<1>0. /\ all \in Seq(A) /\ n \in Nat /\ \A i \in 1..n : all[i] \in A
      /\ apps = {all[i] : i \in {k \in 1..n : FirstOf(all, k)}}
  BY LenProperties, ElementOfSeq DEF Firsts
<1>1. top \in Seq(Characters) /\ Len(top) = 1 /\ top # <<>>
  <2>1. "/" \in Characters
    BY DEF Characters
  <2> QED
    BY <2>1
<1>2. \A a \in A : a.root \in Seq(Characters) /\ a.root # <<>> /\ Len(a.root) \in Nat /\ Len(a.root) >= 1
  <2>1. \A a \in A : a.root \in Seq(Characters) /\ a.root # <<>>
    <3>1. ASSUME NEW a \in Apps PROVE a.root \in Seq(Characters) /\ a.root # <<>>
      BY DEF Strings, NonEmptyRoots
    <3>2. DefaultApplication.root = top
      BY DEF DefaultApplication
    <3> QED
      BY <1>1, <3>1, <3>2
  <2> QED
    BY <2>1, EmptySeq, LenProperties
<1> HIDE DEF A, n, top
<1>3. \A a \in here : a \in A /\ a \in apps /\ iStartsWith(top, a.root)
  BY <1>0 DEF top
<1>4. \A a \in here : Len(a.root) = 1 /\ a.root \in Seq(Characters)
  <2> SUFFICES ASSUME NEW a \in here PROVE Len(a.root) = 1 /\ a.root \in Seq(Characters)
    OBVIOUS
  <2>1. Len(a.root) <= Len(top)
    BY <1>3 DEF iStartsWith
  <2> QED
    BY <1>1, <1>2, <1>3, <2>1
<1>5. ASSUME NEW a \in here, NEW b \in here
      PROVE  ~iLess(top, a.root) /\ iEquals(a.root, b.root)
  <2>1. Len(a.root) = Len(b.root)
    BY <1>4
  <2> QED
    BY <1>1, <1>3, <1>4, <2>1, PrefixOrder
<1>6. ASSUME NEW a \in here, NEW b \in here PROVE a = b
  <2>1. PICK i \in 1..n : a = all[i] /\ FirstOf(all, i)
    BY <1>0, <1>3
  <2>2. PICK j \in 1..n : b = all[j] /\ FirstOf(all, j)
    BY <1>0, <1>3
  <2>3. iEquals(all[i].root, all[j].root) /\ iEquals(all[j].root, all[i].root)
    BY <1>5, <2>1, <2>2
  <2>4. i \notin 1..(j - 1) /\ j \notin 1..(i - 1)
    BY <2>1, <2>2, <2>3 DEF FirstOf
  <2>5. i = j
    BY <1>0, <2>4
  <2> QED
    BY <2>1, <2>2, <2>5
<1>7. {a \in {b \in apps : ~iLess(top, b.root)} : iStartsWith(top, a.root)} = here
  <2>1. here = {a \in apps : iStartsWith(top, a.root)}
    BY DEF top
  <2> QED
    BY <1>5, <2>1
<1>8. FindByURL(apps, top) = IF here = {} THEN Otherwise
                             ELSE CHOOSE a \in here : \A b \in here \ {a} : iLess(b.root, a.root)
  <2> DEFINE from == {b \in apps : ~iLess(top, b.root)}
             found == {a \in from : iStartsWith(top, a.root)}
  <2>1. found = here
    BY <1>7
  <2>2. FindByURL(apps, top) = IF found = {} THEN Otherwise
                               ELSE CHOOSE a \in found : \A b \in found \ {a} : iLess(b.root, a.root)
    BY Zenon DEF FindByURL
  <2> QED
    BY <2>1, <2>2, Zenon
<1>9. ASSUME NEW a \in here PROVE FindByURL(apps, top) = a /\ a # NoApp
  <2>1. here = {a}
    BY <1>6
  <2>2. (CHOOSE x \in here : \A b \in here \ {x} : iLess(b.root, x.root)) = a
    BY <2>1
  <2>3. a # NoApp
    BY <1>2, <1>3 DEF NoApp
  <2> QED
    BY <1>8, <2>1, <2>2, <2>3
<1> QED
  BY <1>8, <1>9 DEF top

\* In a debug build, and unless an application has the empty root, what DefaultApp
\* gives to the program is what "/" is looked up as from then on.  With NDEBUG it
\* is not, which is what the run default_app shows.
THEOREM DefaultAppServes ==
    Strings /\ NonEmptyRoots /\ ~NDEBUG => (AppSpec => []DefaultServes)
<1> SUFFICES ASSUME Strings, NonEmptyRoots, ~NDEBUG PROVE AppSpec => []DefaultServes
  OBVIOUS
<1> DEFINE Served == given # NoApp => FindByURL(map, <<"/">>) = given
<1>1. AppInit => Served
  BY DEF AppInit
<1>2. MapOfFirsts /\ MapOfFirsts' /\ Served /\ [AppNext]_appVars => Served'
  <2> SUFFICES ASSUME MapOfFirsts, MapOfFirsts', Served, [AppNext]_appVars PROVE Served'
    OBVIOUS
  <2> DEFINE here(apps) == {a \in apps : iStartsWith(<<"/">>, a.root)}
  <2>1. /\ \A a \in here(map) : FindByURL(map, <<"/">>) = a
        /\ here(map) = {} => FindByURL(map, <<"/">>) = NoApp
    <3>1. Firsts(taken, map)
      BY DEF MapOfFirsts, Firsts
    <3>2. Otherwise = NoApp
      BY DEF Otherwise
    <3> QED
      BY <3>1, <3>2, RootFound
  <2>2. \A a \in here(map') : FindByURL(map', <<"/">>) = a
    <3>1. Firsts(taken', map')
      BY DEF MapOfFirsts, Firsts
    <3> QED
      BY <3>1, RootFound
  <2>3. ASSUME map \subseteq map', given' = given PROVE Served'
    <3>1. CASE given = NoApp
      BY <2>3, <3>1
    <3>2. CASE given # NoApp
      <4>1. FindByURL(map, <<"/">>) = given /\ here(map) # {}
        BY <2>1, <3>2
      <4>2. given \in here(map) /\ given \in here(map')
        BY <2>1, <2>3, <4>1
      <4> QED
        BY <2>2, <2>3, <4>2
    <3> QED
      BY <3>1, <3>2
  <2>4. \A a : map' = Insert(map, a) => map \subseteq map'
    BY DEF Insert
  <2>5. ASSUME NEW a \in Apps, MountApplication(a) PROVE Served'
    BY <2>3, <2>4, <2>5 DEF MountApplication
  <2>6. CASE PrepareApp
    BY <2>3, <2>4, <2>6 DEF PrepareApp, CreateDefault
  <2>7. CASE DefaultApp
    BY <2>7 DEF DefaultApp
  <2>8. CASE Run
    BY <2>3, <2>4, <2>8 DEF Run, CreateDefault
  <2>9. ASSUME NEW a \in Apps, Enable(a) \/ Disable(a) PROVE Served'
    BY <2>3, <2>9 DEF Enable, Disable
  <2>10. CASE UNCHANGED appVars
    BY <2>3, <2>10 DEF appVars
  <2> QED
    BY <2>5, <2>6, <2>7, <2>8, <2>9, <2>10 DEF AppNext
<1>3. Served => DefaultServes
  BY DEF DefaultServes
<1> HIDE DEF Served
<1> QED
  BY <1>1, <1>2, <1>3, ApplicationInvariance, PTL DEF AppSpec

-------------------------------------------------------------------------------
(* Routing *)

\* What a handler may be added for.
Methods == Supported \cup {"ANY"}

\* The program adds routes that are strings, and strings are asked for.
RouteStrings ==
    /\ RootUrl \in Seq(Characters) /\ Requests \subseteq Seq(Characters)
    /\ \A r \in Routes : /\ r.kind \in {"equals", "starts", "regex"}
                         /\ r.url \in Seq(Characters)
                         /\ r.methods \subseteq Methods

\* A call of AddHandler, and an item of a table.
Call == [kind : {"equals", "starts", "regex"}, url : Seq(Characters), methods : SUBSET Methods, handler : Nat]
Item == [url : Seq(Characters), handlers : [Methods -> Int]]

Calls(all) == all \in Seq(Call) /\ \A i \in 1..Len(all) : all[i].handler \in {Empty, i}

\* The two urls have the same item in a table of this kind.
Same(kind, u, v) == IF kind = "regex" THEN u = v ELSE iEquals(u, v)

OfItem(r, kind, url, m) == r.kind = kind /\ Same(kind, r.url, url) /\ m \in r.methods

\* h is what the last call for a url and a method has set.
Latest(all, kind, url, m, h) ==
    \/ h = Nothing /\ \A j \in 1..Len(all) : ~OfItem(all[j], kind, url, m)
    \/ \E j \in 1..Len(all) : /\ OfItem(all[j], kind, url, m) /\ h = all[j].handler
                              /\ \A l \in 1..Len(all) : l > j => ~OfItem(all[l], kind, url, m)

\* A map has one item for all urls that differ at most in case.
InMap(all, kind, table) ==
    /\ \A i \in table : /\ i \in Item
                        /\ \A m \in Methods : Latest(all, kind, i.url, m, i.handlers[m])
                        /\ \E k \in 1..Len(all) : all[k].kind = kind /\ i.url = all[k].url
    /\ \A k \in 1..Len(all) : all[k].kind = kind => \E i \in table : iEquals(i.url, all[k].url)
    /\ \A i, j \in table : iEquals(i.url, j.url) => i = j

\* Call k is the first for its pattern.
FirstPattern(all, k) ==
    all[k].kind = "regex" /\ \A l \in 1..(k - 1) : all[l].kind = "regex" => all[l].url # all[k].url

\* The list has one item for every pattern, in the order of their first calls.
InList(all, list) ==
    /\ list \in Seq(Item)
    /\ \A k \in 1..Len(list) : /\ \A m \in Methods : Latest(all, "regex", list[k].url, m, list[k].handlers[m])
                               /\ \E i \in 1..Len(all) : FirstPattern(all, i) /\ list[k].url = all[i].url
    /\ \A i \in 1..Len(all) : all[i].kind = "regex" => \E k \in 1..Len(list) : list[k].url = all[i].url
    /\ \A k, l \in 1..Len(list), i, j \in 1..Len(all) :
          /\ k < l
          /\ FirstPattern(all, i) /\ list[k].url = all[i].url
          /\ FirstPattern(all, j) /\ list[l].url = all[j].url
          => i < j

RoutesInv == /\ Calls(added)
             /\ InMap(added, "equals", equals)
             /\ InMap(added, "starts", starts)
             /\ InList(added, regex)

-------------------------------------------------------------------------------
\* Equality but for case is an equivalence.
LEMMA SameUrl ==
    /\ \A u \in Seq(Characters) : iEquals(u, u)
    /\ \A u, v \in Seq(Characters) : iEquals(u, v) => iEquals(v, u)
    /\ \A u, v, w \in Seq(Characters) : iEquals(u, v) /\ iEquals(v, w) => iEquals(u, w)
<1>1. \A u \in Seq(Characters) : Len(u) \in Nat /\ DOMAIN u = 1..Len(u)
  BY LenProperties
<1>2. ASSUME NEW u \in Seq(Characters), NEW v \in Seq(Characters)
      PROVE  iEquals(u, v) <=> Len(u) = Len(v) /\ \A i \in 1..Len(u) : Lower(u[i]) = Lower(v[i])
  BY <1>1 DEF iEquals, iStartsWith
<1> QED
  BY <1>2

\* What a call appended to the others changes of the last one for a url.
LEMMA LatestAppended ==
    ASSUME NEW all, Calls(all), NEW r \in Call, NEW all2, all2 = Append(all, r),
           NEW kind, NEW url, NEW m, NEW h
    PROVE  /\ ~OfItem(r, kind, url, m) /\ Latest(all, kind, url, m, h) => Latest(all2, kind, url, m, h)
           /\ OfItem(r, kind, url, m) => Latest(all2, kind, url, m, r.handler)
<1> DEFINE n == Len(all)
<1>1. /\ n \in Nat /\ Len(all2) = n + 1
      /\ \A i \in 1..n : all2[i] = all[i]
      /\ all2[n + 1] = r
  BY AppendProperties, LenProperties DEF Calls
<1>2. \A i \in 1..(n + 1) : i \in 1..n \/ i = n + 1
  BY <1>1
<1>3. \A i \in 1..n : i \in 1..(n + 1)
  BY <1>1
<1> DEFINE Of(x) == OfItem(x, kind, url, m)
<1>4. Latest(all, kind, url, m, h) <=>
        \/ h = Nothing /\ \A j \in 1..n : ~Of(all[j])
        \/ \E j \in 1..n : Of(all[j]) /\ h = all[j].handler /\ \A l \in 1..n : l > j => ~Of(all[l])
  BY DEF Latest
<1>5. \A g : Latest(all2, kind, url, m, g) <=>
        \/ g = Nothing /\ \A j \in 1..(n + 1) : ~Of(all2[j])
        \/ \E j \in 1..(n + 1) : Of(all2[j]) /\ g = all2[j].handler /\ \A l \in 1..(n + 1) : l > j => ~Of(all2[l])
  BY <1>1 DEF Latest
<1> HIDE DEF n, Of
<1>6. ASSUME ~Of(r), Latest(all, kind, url, m, h) PROVE Latest(all2, kind, url, m, h)
  <2>1. CASE h = Nothing /\ \A j \in 1..n : ~Of(all[j])
    <3>1. \A j \in 1..(n + 1) : ~Of(all2[j])
      BY <1>1, <1>2, <1>6, <2>1
    <3> QED
      BY <1>5, <2>1, <3>1
  <2>2. ASSUME NEW j \in 1..n, Of(all[j]), h = all[j].handler, \A l \in 1..n : l > j => ~Of(all[l])
        PROVE  Latest(all2, kind, url, m, h)
    <3>1. \A l \in 1..(n + 1) : l > j => ~Of(all2[l])
      BY <1>1, <1>2, <1>6, <2>2
    <3> QED
      BY <1>1, <1>3, <1>5, <2>2, <3>1
  <2> QED
    BY <1>4, <1>6, <2>1, <2>2
<1>7. ASSUME Of(r) PROVE Latest(all2, kind, url, m, r.handler)
  <2>1. n + 1 \in 1..(n + 1) /\ \A l \in 1..(n + 1) : ~(l > n + 1)
    BY <1>1
  <2> QED
    BY <1>1, <1>5, <1>7, <2>1
<1> QED
  BY <1>6, <1>7 DEF Of

\* A call appended to the others.
LEMMA CallAppended ==
    ASSUME NEW all, Calls(all), NEW r \in Call, r.handler \in {Empty, Len(all) + 1},
           NEW all2, all2 = Append(all, r)
    PROVE  /\ Calls(all2) /\ Len(all) \in Nat /\ Len(all2) = Len(all) + 1
           /\ \A i \in 1..Len(all) : all2[i] = all[i] /\ i \in 1..Len(all2)
           /\ all2[Len(all) + 1] = r
           /\ \A i \in 1..Len(all2) : i \in 1..Len(all) \/ i = Len(all) + 1
<1> DEFINE n == Len(all)
<1>1. /\ n \in Nat /\ Len(all2) = n + 1 /\ all2 \in Seq(Call)
      /\ \A i \in 1..n : all2[i] = all[i]
      /\ all2[n + 1] = r
  BY AppendProperties, LenProperties DEF Calls
<1>2. \A i \in 1..n : all[i].handler \in {Empty, i}
  BY DEF Calls
<1> HIDE DEF n
<1>3. \A i \in 1..(n + 1) : i \in 1..n \/ i = n + 1
  BY <1>1
<1>4. \A i \in 1..n : i \in 1..(n + 1)
  BY <1>1
<1>5. r.handler \in {Empty, n + 1}
  BY DEF n
<1>6. \A i \in 1..(n + 1) : all2[i].handler \in {Empty, i}
  BY <1>1, <1>2, <1>3, <1>5
<1> QED
  BY <1>1, <1>3, <1>4, <1>6 DEF Calls, n

\* An item that is made has no handlers before.
LEMMA NoHandlersType ==
    NoHandlers \in [Methods -> Int] /\ \A m \in Methods : NoHandlers[m] = Nothing
BY DEF NoHandlers, Nothing, Methods

\* An item whose handlers are set, and one that is made for them.
LEMMA ItemSet ==
    ASSUME NEW r \in Call
    PROVE  /\ \A i \in Item :
                 LET set == [i EXCEPT !.handlers = SetHandlers(@, r.methods, r.handler)]
                 IN  /\ set \in Item /\ set.url = i.url
                     /\ \A m \in Methods : set.handlers[m] = IF m \in r.methods THEN r.handler ELSE i.handlers[m]
           /\ LET made == [url |-> r.url, handlers |-> SetHandlers(NoHandlers, r.methods, r.handler)]
              IN  /\ made \in Item /\ made.url = r.url
                  /\ \A m \in Methods : made.handlers[m] = IF m \in r.methods THEN r.handler ELSE Nothing
<1>1. r.url \in Seq(Characters) /\ r.methods \in SUBSET Methods /\ r.handler \in Nat
  BY DEF Call
<1>2. ASSUME NEW handlers, handlers \in [Methods -> Int]
      PROVE  /\ SetHandlers(handlers, r.methods, r.handler) \in [Methods -> Int]
             /\ \A m \in Methods : SetHandlers(handlers, r.methods, r.handler)[m] =
                   IF m \in r.methods THEN r.handler ELSE handlers[m]
  BY <1>1, <1>2 DEF SetHandlers
<1>3. ASSUME NEW i \in Item
      PROVE  /\ [i EXCEPT !.handlers = SetHandlers(@, r.methods, r.handler)] \in Item
             /\ [i EXCEPT !.handlers = SetHandlers(@, r.methods, r.handler)].url = i.url
             /\ \A m \in Methods : [i EXCEPT !.handlers = SetHandlers(@, r.methods, r.handler)].handlers[m] =
                   IF m \in r.methods THEN r.handler ELSE i.handlers[m]
  <2>1. i.handlers \in [Methods -> Int] /\ i.url \in Seq(Characters)
    BY DEF Item
  <2> DEFINE set == SetHandlers(i.handlers, r.methods, r.handler)
  <2>2. set \in [Methods -> Int] /\ \A m \in Methods : set[m] = IF m \in r.methods THEN r.handler ELSE i.handlers[m]
    <3> DEFINE handlers == i.handlers
    <3>1. handlers \in [Methods -> Int]
      BY <2>1
    <3> HIDE DEF handlers
    <3>2. /\ SetHandlers(handlers, r.methods, r.handler) \in [Methods -> Int]
          /\ \A m \in Methods : SetHandlers(handlers, r.methods, r.handler)[m] =
                IF m \in r.methods THEN r.handler ELSE handlers[m]
      BY <1>2, <3>1
    <3> QED
      BY <3>2 DEF handlers
  <2> QED
    BY <2>1, <2>2 DEF Item
<1>4. /\ [url |-> r.url, handlers |-> SetHandlers(NoHandlers, r.methods, r.handler)] \in Item
      /\ \A m \in Methods : SetHandlers(NoHandlers, r.methods, r.handler)[m] = IF m \in r.methods THEN r.handler ELSE Nothing
  <2> DEFINE set == SetHandlers(NoHandlers, r.methods, r.handler)
  <2>1. set \in [Methods -> Int] /\ \A m \in Methods : set[m] = IF m \in r.methods THEN r.handler ELSE NoHandlers[m]
    BY <1>2, NoHandlersType
  <2> HIDE DEF set
  <2>2. [url |-> r.url, handlers |-> set] \in Item
    BY <1>1, <2>1 DEF Item
  <2> QED
    BY <2>1, <2>2, NoHandlersType DEF set
<1> QED
  BY <1>3, <1>4

\* A call appended to the others is the first for its pattern if none of them
\* is, and changes nothing of the others.
LEMMA PatternAppended ==
    ASSUME NEW all, Calls(all), NEW r \in Call, r.handler \in {Empty, Len(all) + 1},
           NEW all2, all2 = Append(all, r)
    PROVE  /\ \A k \in 1..Len(all) : FirstPattern(all2, k) <=> FirstPattern(all, k)
           /\ FirstPattern(all2, Len(all) + 1) <=>
                 r.kind = "regex" /\ \A l \in 1..Len(all) : all[l].kind = "regex" => all[l].url # r.url
<1> DEFINE n == Len(all)
<1>1. /\ n \in Nat
      /\ \A i \in 1..n : all2[i] = all[i]
      /\ all2[n + 1] = r
  BY CallAppended
<1> HIDE DEF n
<1>2. ASSUME NEW k \in 1..n PROVE FirstPattern(all2, k) <=> FirstPattern(all, k)
  <2>1. \A l \in 1..(k - 1) : all2[l] = all[l]
    <3>1. \A l \in 1..(k - 1) : l \in 1..n
      BY <1>1
    <3> QED
      BY <1>1, <3>1, Zenon
  <2>2. all2[k] = all[k]
    BY <1>1
  <2>3. FirstPattern(all2, k) <=> all2[k].kind = "regex" /\ \A l \in 1..(k - 1) : all2[l].kind = "regex" => all2[l].url # all2[k].url
    BY Zenon DEF FirstPattern
  <2>4. FirstPattern(all, k) <=> all[k].kind = "regex" /\ \A l \in 1..(k - 1) : all[l].kind = "regex" => all[l].url # all[k].url
    BY Zenon DEF FirstPattern
  <2> QED
    BY <2>1, <2>2, <2>3, <2>4, Zenon
<1>3. FirstPattern(all2, n + 1) <=> r.kind = "regex" /\ \A l \in 1..n : all[l].kind = "regex" => all[l].url # r.url
  <2>1. (n + 1) - 1 = n
    BY <1>1
  <2>2. FirstPattern(all2, n + 1) <=>
          all2[n + 1].kind = "regex" /\ \A l \in 1..n : all2[l].kind = "regex" => all2[l].url # all2[n + 1].url
    BY <2>1 DEF FirstPattern
  <2> QED
    BY <1>1, <2>2
<1> QED
  BY <1>2, <1>3 DEF n

\* A call for another table leaves this one as it is.
LEMMA OtherTable ==
    ASSUME NEW all, Calls(all), NEW r \in Call, r.handler \in {Empty, Len(all) + 1},
           NEW all2, all2 = Append(all, r)
    PROVE  /\ \A kind, table : r.kind # kind /\ InMap(all, kind, table) => InMap(all2, kind, table)
           /\ \A list : r.kind # "regex" /\ InList(all, list) => InList(all2, list)
<1> DEFINE n == Len(all)
           n2 == Len(all2)
<1>1. /\ n \in Nat /\ n2 = n + 1
      /\ \A i \in 1..n : all2[i] = all[i] /\ i \in 1..n2
      /\ all2[n + 1] = r
      /\ \A i \in 1..n2 : i \in 1..n \/ i = n + 1
  BY CallAppended
<1>2. ASSUME NEW kind, r.kind # kind, NEW url, NEW m, NEW h, Latest(all, kind, url, m, h)
      PROVE  Latest(all2, kind, url, m, h)
  <2>1. ~OfItem(r, kind, url, m)
    BY <1>2 DEF OfItem
  <2> QED
    BY <1>2, <2>1, LatestAppended
<1>3. ASSUME NEW kind, NEW table, r.kind # kind, InMap(all, kind, table) PROVE InMap(all2, kind, table)
  <2>1. /\ \A i \in table : /\ i \in Item
                            /\ \A m \in Methods : Latest(all, kind, i.url, m, i.handlers[m])
                            /\ \E k \in 1..n : all[k].kind = kind /\ i.url = all[k].url
        /\ \A k \in 1..n : all[k].kind = kind => \E i \in table : iEquals(i.url, all[k].url)
        /\ \A i, j \in table : iEquals(i.url, j.url) => i = j
    BY <1>3 DEF InMap
  <2> HIDE DEF n, n2
  <2>2. \A i \in table : \A m \in Methods : Latest(all2, kind, i.url, m, i.handlers[m])
    BY <1>2, <1>3, <2>1
  <2>3. ASSUME NEW i \in table PROVE \E k \in 1..n2 : all2[k].kind = kind /\ i.url = all2[k].url
    <3>1. PICK k \in 1..n : all[k].kind = kind /\ i.url = all[k].url
      BY <2>1
    <3>2. all2[k] = all[k] /\ k \in 1..n2
      BY <1>1
    <3> QED
      BY <3>1, <3>2
  <2>4. \A k \in 1..n2 : all2[k].kind = kind => \E i \in table : iEquals(i.url, all2[k].url)
    BY <1>1, <1>3, <2>1
  <2> QED
    BY <2>1, <2>2, <2>3, <2>4 DEF InMap, n2
<1>4. ASSUME NEW list, r.kind # "regex", InList(all, list) PROVE InList(all2, list)
  <2>1. \A k \in 1..n2 : FirstPattern(all2, k) <=> k \in 1..n /\ FirstPattern(all, k)
    <3>1. /\ \A k \in 1..n : FirstPattern(all2, k) <=> FirstPattern(all, k)
          /\ ~FirstPattern(all2, n + 1)
      BY <1>4, PatternAppended
    <3>2. n + 1 \notin 1..n
      BY <1>1
    <3> HIDE DEF n, n2
    <3> QED
      BY <1>1, <3>1, <3>2, Zenon
  <2>2. /\ list \in Seq(Item)
        /\ \A k \in 1..Len(list) : /\ \A m \in Methods : Latest(all, "regex", list[k].url, m, list[k].handlers[m])
                                   /\ \E i \in 1..n : FirstPattern(all, i) /\ list[k].url = all[i].url
        /\ \A i \in 1..n : all[i].kind = "regex" => \E k \in 1..Len(list) : list[k].url = all[i].url
        /\ \A k, l \in 1..Len(list), i, j \in 1..n :
              /\ k < l
              /\ FirstPattern(all, i) /\ list[k].url = all[i].url
              /\ FirstPattern(all, j) /\ list[l].url = all[j].url
              => i < j
    BY <1>4, Zenon DEF InList
  <2> HIDE DEF n, n2
  <2>3. \A k \in 1..Len(list) : \A m \in Methods : Latest(all2, "regex", list[k].url, m, list[k].handlers[m])
    BY <1>2, <1>4, <2>2
  <2>4. ASSUME NEW k \in 1..Len(list)
        PROVE  \E i \in 1..n2 : FirstPattern(all2, i) /\ list[k].url = all2[i].url
    <3>1. PICK i \in 1..n : FirstPattern(all, i) /\ list[k].url = all[i].url
      BY <2>2
    <3>2. all2[i] = all[i] /\ i \in 1..n2
      BY <1>1
    <3> QED
      BY <2>1, <3>1, <3>2
  <2>5. \A i \in 1..n2 : all2[i].kind = "regex" => \E k \in 1..Len(list) : list[k].url = all2[i].url
    BY <1>1, <1>4, <2>2
  <2>6. ASSUME NEW k \in 1..Len(list), NEW l \in 1..Len(list), NEW i \in 1..n2, NEW j \in 1..n2,
               k < l,
               FirstPattern(all2, i) /\ list[k].url = all2[i].url,
               FirstPattern(all2, j) /\ list[l].url = all2[j].url
        PROVE  i < j
    <3>1. i \in 1..n /\ j \in 1..n /\ FirstPattern(all, i) /\ FirstPattern(all, j)
      BY <2>1, <2>6
    <3>2. all2[i] = all[i] /\ all2[j] = all[j]
      BY <1>1, <3>1
    <3>3. list[k].url = all[i].url /\ list[l].url = all[j].url
      BY <2>6, <3>2
    <3> QED
      BY <2>2, <2>6, <3>1, <3>3
  <2> QED
    BY <2>2, <2>3, <2>4, <2>5, <2>6, Zenon DEF InList, n2
<1> QED
  BY <1>3, <1>4

\* A call for a map is what the item of its url has afterwards.
LEMMA ThisMap ==
    ASSUME NEW all, Calls(all), NEW r \in Call, r.handler \in {Empty, Len(all) + 1},
           NEW all2, all2 = Append(all, r), r.kind # "regex",
           NEW table, InMap(all, r.kind, table)
    PROVE  InMap(all2, r.kind, AddToMap(table, r.url, r.methods, r.handler))
<1> DEFINE n == Len(all)
           n2 == Len(all2)
           kind == r.kind
           table2 == AddToMap(table, r.url, r.methods, r.handler)
           New(i) == IF iEquals(i.url, r.url) THEN [i EXCEPT !.handlers = SetHandlers(@, r.methods, r.handler)] ELSE i
<1>1. /\ n \in Nat /\ n2 = n + 1
      /\ \A i \in 1..n : all2[i] = all[i] /\ i \in 1..n2
      /\ all2[n2] = r
      /\ \A i \in 1..n2 : i \in 1..n \/ i = n2
      /\ n2 \in 1..n2
  BY CallAppended
<1>2. /\ \A i \in table : /\ i \in Item
                          /\ \A m \in Methods : Latest(all, kind, i.url, m, i.handlers[m])
                          /\ \E k \in 1..n : all[k].kind = kind /\ i.url = all[k].url
      /\ \A k \in 1..n : all[k].kind = kind => \E i \in table : iEquals(i.url, all[k].url)
      /\ \A i, j \in table : iEquals(i.url, j.url) => i = j
  BY DEF InMap
<1>3. r.url \in Seq(Characters) /\ r.methods \in SUBSET Methods /\ r.handler \in Nat
  BY DEF Call
<1>4. \A url, m, h : /\ OfItem(r, kind, url, m) <=> iEquals(r.url, url) /\ m \in r.methods
                     /\ ~OfItem(r, kind, url, m) /\ Latest(all, kind, url, m, h) => Latest(all2, kind, url, m, h)
                     /\ OfItem(r, kind, url, m) => Latest(all2, kind, url, m, r.handler)
  BY LatestAppended DEF OfItem, Same
<1>5. \A k \in 1..n : all[k].url \in Seq(Characters)
  <2>1. \A k \in 1..n : all[k] \in Call
    BY ElementOfSeq DEF Calls
  <2> QED
    BY <2>1 DEF Call
<1>6. ASSUME NEW i \in Item, iEquals(i.url, r.url)
      PROVE  /\ [i EXCEPT !.handlers = SetHandlers(@, r.methods, r.handler)] \in Item
             /\ [i EXCEPT !.handlers = SetHandlers(@, r.methods, r.handler)].url = i.url
             /\ \A m \in Methods : [i EXCEPT !.handlers = SetHandlers(@, r.methods, r.handler)].handlers[m] =
                   IF m \in r.methods THEN r.handler ELSE i.handlers[m]
  BY ItemSet
<1> HIDE DEF n, n2, kind, table2
<1>7. CASE \E i \in table : iEquals(i.url, r.url)
  <2>1. table2 = {New(i) : i \in table}
    BY <1>7 DEF table2, AddToMap
  <2>2. ASSUME NEW i \in table
        PROVE  /\ New(i) \in Item /\ New(i).url = i.url /\ i.url \in Seq(Characters)
               /\ \A m \in Methods : Latest(all2, kind, i.url, m, New(i).handlers[m])
    <3>1. i \in Item /\ i.url \in Seq(Characters)
      BY <1>2 DEF Item
    <3>2. iEquals(i.url, r.url) <=> iEquals(r.url, i.url)
      BY <1>3, <3>1, SameUrl
    <3>3. CASE iEquals(i.url, r.url)
      <4>1. \A m \in Methods : New(i).handlers[m] = IF m \in r.methods THEN r.handler ELSE i.handlers[m]
        BY <1>6, <3>1, <3>3
      <4>2. New(i) \in Item /\ New(i).url = i.url
        BY <1>6, <3>1, <3>3
      <4> HIDE DEF New
      <4>3. \A m \in Methods : Latest(all2, kind, i.url, m, New(i).handlers[m])
        BY <1>2, <1>4, <3>2, <3>3, <4>1
      <4> QED
        BY <3>1, <4>2, <4>3
    <3>4. CASE ~iEquals(i.url, r.url)
      BY <1>2, <1>4, <3>1, <3>2, <3>4
    <3> QED
      BY <3>3, <3>4
  <2> HIDE DEF New
  <2>3. \A i \in table2 : /\ i \in Item
                          /\ \A m \in Methods : Latest(all2, kind, i.url, m, i.handlers[m])
                          /\ \E k \in 1..n2 : all2[k].kind = kind /\ i.url = all2[k].url
    <3> SUFFICES ASSUME NEW j \in table
                 PROVE  /\ New(j) \in Item
                        /\ \A m \in Methods : Latest(all2, kind, New(j).url, m, New(j).handlers[m])
                        /\ \E k \in 1..n2 : all2[k].kind = kind /\ New(j).url = all2[k].url
      BY <2>1
    <3>1. \E k \in 1..n2 : all2[k].kind = kind /\ j.url = all2[k].url
      <4>1. PICK k \in 1..n : all[k].kind = kind /\ j.url = all[k].url
        BY <1>2
      <4>2. all2[k] = all[k] /\ k \in 1..n2
        BY <1>1
      <4> QED
        BY <4>1, <4>2
    <3> QED
      BY <2>2, <3>1
  <2>4. \A k \in 1..n2 : all2[k].kind = kind => \E i \in table2 : iEquals(i.url, all2[k].url)
    <3>1. \A i \in table : New(i) \in table2 /\ New(i).url = i.url
      BY <2>1, <2>2
    <3>2. ASSUME NEW k \in 1..n, all[k].kind = kind PROVE \E i \in table2 : iEquals(i.url, all[k].url)
      <4>1. PICK i \in table : iEquals(i.url, all[k].url)
        BY <1>2, <3>2
      <4>2. New(i) \in table2 /\ iEquals(New(i).url, all[k].url)
        BY <3>1, <4>1
      <4> QED
        BY <4>2
    <3>3. \E i \in table2 : iEquals(i.url, r.url)
      <4>1. PICK i \in table : iEquals(i.url, r.url)
        BY <1>7
      <4>2. New(i) \in table2 /\ iEquals(New(i).url, r.url)
        BY <3>1, <4>1
      <4> QED
        BY <4>2
    <3>4. ASSUME NEW k \in 1..n2, all2[k].kind = kind PROVE \E i \in table2 : iEquals(i.url, all2[k].url)
      <4>1. CASE k \in 1..n
        <5>1. all2[k] = all[k]
          BY <1>1, <4>1
        <5> QED
          BY <3>2, <3>4, <4>1, <5>1
      <4>2. CASE k = n2
        BY <1>1, <3>3, <4>2
      <4> QED
        BY <1>1, <4>1, <4>2
    <3> QED
      BY <3>4
  <2>5. \A i, j \in table2 : iEquals(i.url, j.url) => i = j
    BY <1>2, <2>1, <2>2
  <2> QED
    BY <2>3, <2>4, <2>5 DEF InMap, n2, kind, table2
<1>8. CASE ~\E i \in table : iEquals(i.url, r.url)
  <2> DEFINE item == [url |-> r.url, handlers |-> SetHandlers(NoHandlers, r.methods, r.handler)]
  <2>1. table2 = table \cup {item}
    BY <1>8 DEF table2, AddToMap
  <2>2. item \in Item /\ item.url = r.url
        /\ \A m \in Methods : item.handlers[m] = IF m \in r.methods THEN r.handler ELSE Nothing
    BY ItemSet
  <2> HIDE DEF item
  <2>3. \A k \in 1..n : all[k].kind = kind => ~iEquals(all[k].url, r.url)
    <3> SUFFICES ASSUME NEW k \in 1..n, all[k].kind = kind, iEquals(all[k].url, r.url) PROVE FALSE
      OBVIOUS
    <3>1. PICK i \in table : iEquals(i.url, all[k].url)
      BY <1>2
    <3>2. i.url \in Seq(Characters)
      BY <1>2 DEF Item
    <3> QED
      BY <1>3, <1>5, <1>8, <3>1, <3>2, SameUrl
  <2>4. \A m \in Methods : Latest(all2, kind, r.url, m, item.handlers[m])
    <3> SUFFICES ASSUME NEW m \in Methods PROVE Latest(all2, kind, r.url, m, item.handlers[m])
      OBVIOUS
    <3>1. Latest(all, kind, r.url, m, Nothing)
      <4>1. kind # "regex"
        BY DEF kind
      <4> QED
        BY <2>3, <4>1 DEF Latest, OfItem, Same, n
    <3>2. iEquals(r.url, r.url)
      BY <1>3, SameUrl
    <3> QED
      BY <1>4, <2>2, <3>1, <3>2
  <2>5. \A i \in table : \A m \in Methods : Latest(all2, kind, i.url, m, i.handlers[m])
    <3> SUFFICES ASSUME NEW i \in table, NEW m \in Methods PROVE Latest(all2, kind, i.url, m, i.handlers[m])
      OBVIOUS
    <3>1. i.url \in Seq(Characters)
      BY <1>2 DEF Item
    <3>2. ~iEquals(r.url, i.url)
      BY <1>3, <1>8, <3>1, SameUrl
    <3> QED
      BY <1>2, <1>4, <3>2
  <2>6. \A i \in table2 : /\ i \in Item
                          /\ \A m \in Methods : Latest(all2, kind, i.url, m, i.handlers[m])
                          /\ \E k \in 1..n2 : all2[k].kind = kind /\ i.url = all2[k].url
    <3>1. ASSUME NEW i \in table PROVE \E k \in 1..n2 : all2[k].kind = kind /\ i.url = all2[k].url
      <4>1. PICK k \in 1..n : all[k].kind = kind /\ i.url = all[k].url
        BY <1>2
      <4>2. all2[k] = all[k] /\ k \in 1..n2
        BY <1>1
      <4> QED
        BY <4>1, <4>2
    <3>2. \E k \in 1..n2 : all2[k].kind = kind /\ item.url = all2[k].url
      BY <1>1, <2>2 DEF kind
    <3> QED
      BY <1>2, <2>1, <2>2, <2>4, <2>5, <3>1, <3>2
  <2>7. \A k \in 1..n2 : all2[k].kind = kind => \E i \in table2 : iEquals(i.url, all2[k].url)
    <3>1. iEquals(item.url, all2[n2].url)
      BY <1>1, <1>3, <2>2, SameUrl
    <3> QED
      BY <1>1, <1>2, <2>1, <3>1
  <2>8. \A i, j \in table2 : iEquals(i.url, j.url) => i = j
    <3>1. \A i \in table : i.url \in Seq(Characters) /\ ~iEquals(i.url, r.url)
      BY <1>2, <1>8 DEF Item
    <3>2. \A i \in table : ~iEquals(r.url, i.url)
      BY <1>3, <3>1, SameUrl
    <3> QED
      BY <1>2, <2>1, <2>2, <3>1, <3>2
  <2> QED
    BY <2>6, <2>7, <2>8 DEF InMap, n2, kind, table2
<1> QED
  BY <1>7, <1>8

\* A call with a pattern is what the item of the pattern has afterwards; a new
\* pattern comes last.
LEMMA ThisList ==
    ASSUME NEW all, Calls(all), NEW r \in Call, r.handler \in {Empty, Len(all) + 1},
           NEW all2, all2 = Append(all, r), r.kind = "regex",
           NEW list, InList(all, list)
    PROVE  InList(all2, AddToList(list, r.url, r.methods, r.handler))
<1> DEFINE n == Len(all)
           n2 == Len(all2)
           size == Len(list)
           list2 == AddToList(list, r.url, r.methods, r.handler)
           New(k) == IF list[k].url = r.url THEN [list[k] EXCEPT !.handlers = SetHandlers(@, r.methods, r.handler)]
                     ELSE list[k]
<1>1. /\ n \in Nat /\ n2 = n + 1
      /\ \A i \in 1..n : all2[i] = all[i] /\ i \in 1..n2
      /\ all2[n2] = r
      /\ \A i \in 1..n2 : i \in 1..n \/ i = n2
      /\ n2 \in 1..n2
  BY CallAppended
<1>2. /\ list \in Seq(Item)
      /\ \A k \in 1..size : /\ \A m \in Methods : Latest(all, "regex", list[k].url, m, list[k].handlers[m])
                            /\ \E i \in 1..n : FirstPattern(all, i) /\ list[k].url = all[i].url
      /\ \A i \in 1..n : all[i].kind = "regex" => \E k \in 1..size : list[k].url = all[i].url
      /\ \A k, l \in 1..size, i, j \in 1..n :
            /\ k < l
            /\ FirstPattern(all, i) /\ list[k].url = all[i].url
            /\ FirstPattern(all, j) /\ list[l].url = all[j].url
            => i < j
  BY Zenon DEF InList
<1>3. /\ \A i \in 1..n : FirstPattern(all2, i) <=> FirstPattern(all, i)
      /\ FirstPattern(all2, n2) <=> \A l \in 1..n : all[l].kind = "regex" => all[l].url # r.url
  <2>1. /\ \A i \in 1..Len(all) : FirstPattern(all2, i) <=> FirstPattern(all, i)
        /\ FirstPattern(all2, Len(all) + 1) <=>
              r.kind = "regex" /\ \A l \in 1..Len(all) : all[l].kind = "regex" => all[l].url # r.url
    BY PatternAppended
  <2>2. Len(all) + 1 = n2
    BY <1>1
  <2> QED
    BY <2>1, <2>2
<1>4. \A url, m, h : /\ OfItem(r, "regex", url, m) <=> r.url = url /\ m \in r.methods
                     /\ ~OfItem(r, "regex", url, m) /\ Latest(all, "regex", url, m, h) => Latest(all2, "regex", url, m, h)
                     /\ OfItem(r, "regex", url, m) => Latest(all2, "regex", url, m, r.handler)
  BY LatestAppended DEF OfItem, Same
<1>5. size \in Nat /\ DOMAIN list = 1..size /\ \A k \in 1..size : list[k] \in Item
  BY <1>2, LenProperties, ElementOfSeq
<1>6. r.url \in Seq(Characters) /\ r.methods \in SUBSET Methods /\ r.handler \in Nat
  BY DEF Call
<1>7. ASSUME NEW i \in Item
      PROVE  /\ [i EXCEPT !.handlers = SetHandlers(@, r.methods, r.handler)] \in Item
             /\ [i EXCEPT !.handlers = SetHandlers(@, r.methods, r.handler)].url = i.url
             /\ \A m \in Methods : [i EXCEPT !.handlers = SetHandlers(@, r.methods, r.handler)].handlers[m] =
                   IF m \in r.methods THEN r.handler ELSE i.handlers[m]
  BY ItemSet
<1> HIDE DEF n, n2, size, list2
<1>8. CASE \E k \in 1..size : list[k].url = r.url
  <2>1. list2 = [k \in 1..size |-> New(k)]
    BY <1>5, <1>8 DEF list2, AddToList
  <2>2. ASSUME NEW k \in 1..size
        PROVE  /\ New(k) \in Item /\ New(k).url = list[k].url
               /\ \A m \in Methods : Latest(all2, "regex", list[k].url, m, New(k).handlers[m])
    <3>1. CASE list[k].url = r.url
      <4>1. New(k) \in Item /\ New(k).url = list[k].url
            /\ \A m \in Methods : New(k).handlers[m] = IF m \in r.methods THEN r.handler ELSE list[k].handlers[m]
        <5> DEFINE i == list[k]
        <5>1. i \in Item
          BY <1>5
        <5> DEFINE N == [i EXCEPT !.handlers = SetHandlers(@, r.methods, r.handler)]
        <5>2. New(k) = N
          BY <3>1
        <5> HIDE DEF i
        <5>3. /\ N \in Item /\ N.url = i.url
              /\ \A m \in Methods : N.handlers[m] = IF m \in r.methods THEN r.handler ELSE i.handlers[m]
          BY <1>7, <5>1
        <5> HIDE DEF N, New
        <5> QED
          BY <5>2, <5>3 DEF i
      <4> HIDE DEF New
      <4> QED
        BY <1>2, <1>4, <3>1, <4>1
    <3>2. CASE list[k].url # r.url
      BY <1>2, <1>4, <1>5, <3>2
    <3> QED
      BY <3>1, <3>2
  <2> HIDE DEF New
  <2>3. /\ list2 \in Seq(Item) /\ Len(list2) = size
        /\ \A k \in 1..size : list2[k] = New(k) /\ list2[k].url = list[k].url
    <3>1. list2 \in [1..size -> Item] /\ DOMAIN list2 = 1..size
      BY <2>1, <2>2
    <3>2. list2 \in Seq(Item)
      BY <1>5, <3>1, SeqDef
    <3>3. Len(list2) = size
      <4>1. Len(list2) \in Nat /\ 1..Len(list2) = 1..size
        BY <3>1, <3>2, LenProperties
      <4> QED
        BY <1>5, <4>1
    <3> QED
      BY <2>1, <2>2, <3>2, <3>3
  <2>4. ~FirstPattern(all2, n2)
    <3>1. PICK k \in 1..size : list[k].url = r.url
      BY <1>8
    <3>2. PICK i \in 1..n : FirstPattern(all, i) /\ list[k].url = all[i].url
      BY <1>2
    <3>3. all[i].kind = "regex" /\ all[i].url = r.url
      BY <3>1, <3>2 DEF FirstPattern
    <3> QED
      BY <1>3, <3>3
  <2>5. \A k \in 1..size : \A m \in Methods : Latest(all2, "regex", list2[k].url, m, list2[k].handlers[m])
    BY <2>2, <2>3
  <2>6. ASSUME NEW k \in 1..size PROVE \E i \in 1..n2 : FirstPattern(all2, i) /\ list2[k].url = all2[i].url
    <3>1. PICK i \in 1..n : FirstPattern(all, i) /\ list[k].url = all[i].url
      BY <1>2
    <3>2. all2[i] = all[i] /\ i \in 1..n2 /\ FirstPattern(all2, i)
      BY <1>1, <1>3, <3>1
    <3> QED
      BY <2>3, <3>1, <3>2
  <2>7. ASSUME NEW i \in 1..n2, all2[i].kind = "regex" PROVE \E k \in 1..size : list2[k].url = all2[i].url
    <3>1. CASE i \in 1..n
      <4>1. all2[i] = all[i]
        BY <1>1, <3>1
      <4>2. PICK k \in 1..size : list[k].url = all[i].url
        BY <1>2, <2>7, <3>1, <4>1
      <4> QED
        BY <2>3, <4>1, <4>2
    <3>2. CASE i = n2
      BY <1>1, <1>8, <2>3, <3>2
    <3> QED
      BY <1>1, <3>1, <3>2
  <2>8. ASSUME NEW k \in 1..size, NEW l \in 1..size, NEW i \in 1..n2, NEW j \in 1..n2,
               k < l,
               FirstPattern(all2, i) /\ list2[k].url = all2[i].url,
               FirstPattern(all2, j) /\ list2[l].url = all2[j].url
        PROVE  i < j
    <3>1. i \in 1..n /\ j \in 1..n
      BY <1>1, <2>4, <2>8
    <3>2. all2[i] = all[i] /\ all2[j] = all[j] /\ FirstPattern(all, i) /\ FirstPattern(all, j)
      BY <1>1, <1>3, <2>8, <3>1
    <3>3. list[k].url = all[i].url /\ list[l].url = all[j].url
      BY <2>3, <2>8, <3>2
    <3> QED
      BY <1>2, <2>8, <3>1, <3>2, <3>3
  <2> QED
    BY <2>3, <2>5, <2>6, <2>7, <2>8 DEF InList, n2, list2
<1>9. CASE ~\E k \in 1..size : list[k].url = r.url
  <2> DEFINE item == [url |-> r.url, handlers |-> SetHandlers(NoHandlers, r.methods, r.handler)]
  <2>1. list2 = Append(list, item)
    BY <1>5, <1>9 DEF list2, AddToList
  <2>2. item \in Item /\ item.url = r.url
        /\ \A m \in Methods : item.handlers[m] = IF m \in r.methods THEN r.handler ELSE Nothing
    BY ItemSet
  <2> HIDE DEF item
  <2>3. /\ list2 \in Seq(Item) /\ Len(list2) = size + 1
        /\ \A k \in 1..size : list2[k] = list[k] /\ k \in 1..(size + 1)
        /\ list2[size + 1] = item
        /\ \A k \in 1..(size + 1) : k \in 1..size \/ k = size + 1
        /\ size + 1 \in 1..(size + 1)
    <3>1. /\ list2 \in Seq(Item) /\ Len(list2) = size + 1
          /\ \A k \in 1..size : list2[k] = list[k]
          /\ list2[size + 1] = item
      BY <1>2, <2>1, <2>2, AppendProperties DEF size
    <3>2. /\ \A k \in 1..size : k \in 1..(size + 1)
          /\ \A k \in 1..(size + 1) : k \in 1..size \/ k = size + 1
          /\ size + 1 \in 1..(size + 1)
      BY <1>5
    <3> QED
      BY <3>1, <3>2
  <2>4. \A i \in 1..n : all[i].kind = "regex" => all[i].url # r.url
    BY <1>2, <1>9
  <2>5. FirstPattern(all2, n2)
    BY <1>3, <2>4
  <2>6. \A k \in 1..(size + 1) : \A m \in Methods : Latest(all2, "regex", list2[k].url, m, list2[k].handlers[m])
    <3>1. ASSUME NEW k \in 1..size, NEW m \in Methods
          PROVE  Latest(all2, "regex", list2[k].url, m, list2[k].handlers[m])
      <4>1. list2[k] = list[k] /\ list[k].url # r.url
        BY <1>9, <2>3
      <4> QED
        BY <1>2, <1>4, <4>1
    <3>2. ASSUME NEW m \in Methods PROVE Latest(all2, "regex", r.url, m, item.handlers[m])
      <4>1. Latest(all, "regex", r.url, m, Nothing)
        BY <2>4 DEF Latest, OfItem, Same, n
      <4> QED
        BY <1>4, <2>2, <4>1
    <3> QED
      BY <2>2, <2>3, <3>1, <3>2
  <2>7. ASSUME NEW k \in 1..(size + 1) PROVE \E i \in 1..n2 : FirstPattern(all2, i) /\ list2[k].url = all2[i].url
    <3>1. CASE k \in 1..size
      <4>1. PICK i \in 1..n : FirstPattern(all, i) /\ list[k].url = all[i].url
        BY <1>2, <3>1
      <4>2. all2[i] = all[i] /\ i \in 1..n2 /\ FirstPattern(all2, i)
        BY <1>1, <1>3, <4>1
      <4> QED
        BY <2>3, <3>1, <4>1, <4>2
    <3>2. CASE k = size + 1
      BY <1>1, <2>2, <2>3, <2>5, <3>2
    <3> QED
      BY <2>3, <3>1, <3>2
  <2>8. ASSUME NEW i \in 1..n2, all2[i].kind = "regex" PROVE \E k \in 1..(size + 1) : list2[k].url = all2[i].url
    <3>1. CASE i \in 1..n
      <4>1. all2[i] = all[i]
        BY <1>1, <3>1
      <4>2. PICK k \in 1..size : list[k].url = all[i].url
        BY <1>2, <2>8, <3>1, <4>1
      <4> QED
        BY <2>3, <4>1, <4>2
    <3>2. CASE i = n2
      BY <1>1, <2>2, <2>3, <3>2
    <3> QED
      BY <1>1, <3>1, <3>2
  <2>9. ASSUME NEW k \in 1..(size + 1), NEW l \in 1..(size + 1), NEW i \in 1..n2, NEW j \in 1..n2,
               k < l,
               FirstPattern(all2, i) /\ list2[k].url = all2[i].url,
               FirstPattern(all2, j) /\ list2[l].url = all2[j].url
        PROVE  i < j
    <3>1. k \in 1..size /\ list2[k] = list[k]
      <4>1. k # size + 1
        BY <1>5, <2>9
      <4> QED
        BY <2>3, <4>1
    <3>2. i \in 1..n
      <4>1. list[k].url # r.url
        BY <1>9, <3>1
      <4> QED
        BY <1>1, <2>9, <3>1, <4>1
    <3>3. all2[i] = all[i] /\ FirstPattern(all, i) /\ list[k].url = all[i].url
      BY <1>1, <1>3, <2>9, <3>1, <3>2
    <3>4. CASE l \in 1..size
      <4>1. list2[l] = list[l] /\ list[l].url # r.url
        BY <1>9, <2>3, <3>4
      <4>2. j \in 1..n
        BY <1>1, <2>9, <4>1
      <4>3. all2[j] = all[j] /\ FirstPattern(all, j) /\ list[l].url = all[j].url
        BY <1>1, <1>3, <2>9, <4>1, <4>2
      <4> QED
        BY <1>2, <2>9, <3>1, <3>2, <3>3, <3>4, <4>2, <4>3
    <3>5. CASE l = size + 1
      <4>1. list2[l].url = r.url
        BY <2>2, <2>3, <3>5
      <4>2. j = n2
        <5> SUFFICES ASSUME j \in 1..n PROVE FALSE
          BY <1>1
        <5>1. all2[j] = all[j] /\ FirstPattern(all, j)
          BY <1>1, <1>3, <2>9
        <5>2. all[j].kind = "regex" /\ all[j].url = r.url
          BY <2>9, <4>1, <5>1 DEF FirstPattern
        <5> QED
          BY <2>4, <5>2
      <4> QED
        BY <1>1, <3>2, <4>2
    <3> QED
      BY <2>3, <3>4, <3>5
  <2> QED
    BY <2>3, <2>6, <2>7, <2>8, <2>9 DEF InList, n2, list2
<1> QED
  BY <1>8, <1>9

-------------------------------------------------------------------------------
\* The joined urls of the program are strings again.
LEMMA JoinedUrl ==
    ASSUME NEW root \in Seq(Characters), NEW path \in Seq(Characters)
    PROVE  JoinUrlPath(root, path) \in Seq(Characters)
<1>1. root \o path \in Seq(Characters)
  BY ConcatProperties
<1>2. path # <<>> => root \o Tail(path) \in Seq(Characters)
  BY HeadTailProperties, ConcatProperties
<1>3. root \o <<"/">> \o path \in Seq(Characters)
  <2>1. "/" \in Characters
    BY DEF Characters
  <2>2. <<"/">> \in Seq(Characters)
    BY <2>1
  <2>3. root \o <<"/">> \in Seq(Characters)
    BY <2>2, ConcatProperties
  <2> QED
    BY <2>3, ConcatProperties
<1> QED
  BY <1>1, <1>2, <1>3 DEF JoinUrlPath

\* AddHandler keeps the tables what the calls have made of them.
LEMMA AddHandlerKeeps ==
    ASSUME RouteStrings, RoutesInv, NEW a \in Routes, AddHandler(a)
    PROVE  RoutesInv'
<1> DEFINE url == JoinUrlPath(RootUrl, a.url)
           h == IF a.empty THEN Empty ELSE Len(added) + 1
           r == [kind |-> a.kind, url |-> url, methods |-> Marked(a), handler |-> h]
<1>1. Len(added) \in Nat
  BY LenProperties DEF RoutesInv, Calls
<1>2. r \in Call /\ r.handler \in {Empty, Len(added) + 1}
  <2>1. url \in Seq(Characters)
    BY JoinedUrl DEF RouteStrings
  <2>2. Marked(a) \in SUBSET Methods /\ a.kind \in {"equals", "starts", "regex"}
    BY DEF RouteStrings, Marked, Methods
  <2>3. h \in Nat /\ h \in {Empty, Len(added) + 1}
    BY <1>1 DEF Empty
  <2> HIDE DEF url, h
  <2> QED
    BY <2>1, <2>2, <2>3 DEF Call
<1>3. /\ added' = Append(added, r)
      /\ equals' = IF r.kind = "equals" THEN AddToMap(equals, r.url, r.methods, r.handler) ELSE equals
      /\ starts' = IF r.kind = "starts" THEN AddToMap(starts, r.url, r.methods, r.handler) ELSE starts
      /\ regex' = IF r.kind = "regex" THEN AddToList(regex, r.url, r.methods, r.handler) ELSE regex
  <2>1. r.kind = a.kind /\ r.url = url /\ r.methods = Marked(a) /\ r.handler = h
    OBVIOUS
  <2> QED
    BY <2>1 DEF AddHandler
<1> HIDE DEF r
<1>4. Calls(added) /\ Calls(added')
  BY <1>2, <1>3, CallAppended DEF RoutesInv
<1>5. InMap(added', "equals", equals')
  <2>1. CASE r.kind = "equals"
    <3>1. r.kind # "regex" /\ InMap(added, r.kind, equals)
      BY <2>1 DEF RoutesInv
    <3>2. InMap(added', r.kind, AddToMap(equals, r.url, r.methods, r.handler))
      BY <1>2, <1>3, <1>4, <3>1, ThisMap
    <3> QED
      BY <1>3, <2>1, <3>2
  <2>2. CASE r.kind # "equals"
    <3>1. equals' = equals /\ InMap(added, "equals", equals)
      BY <1>3, <2>2 DEF RoutesInv
    <3> QED
      BY <1>2, <1>3, <1>4, <2>2, <3>1, OtherTable
  <2> QED
    BY <2>1, <2>2
<1>6. InMap(added', "starts", starts')
  <2>1. CASE r.kind = "starts"
    <3>1. r.kind # "regex" /\ InMap(added, r.kind, starts)
      BY <2>1 DEF RoutesInv
    <3>2. InMap(added', r.kind, AddToMap(starts, r.url, r.methods, r.handler))
      BY <1>2, <1>3, <1>4, <3>1, ThisMap
    <3> QED
      BY <1>3, <2>1, <3>2
  <2>2. CASE r.kind # "starts"
    <3>1. starts' = starts /\ InMap(added, "starts", starts)
      BY <1>3, <2>2 DEF RoutesInv
    <3> QED
      BY <1>2, <1>3, <1>4, <2>2, <3>1, OtherTable
  <2> QED
    BY <2>1, <2>2
<1>7. InList(added', regex')
  <2>1. CASE r.kind = "regex"
    <3>1. InList(added', AddToList(regex, r.url, r.methods, r.handler))
      BY <1>2, <1>3, <1>4, <2>1, ThisList DEF RoutesInv
    <3> QED
      BY <1>3, <2>1, <3>1
  <2>2. CASE r.kind # "regex"
    <3>1. regex' = regex /\ InList(added, regex)
      BY <1>3, <2>2 DEF RoutesInv
    <3> QED
      BY <1>2, <1>3, <1>4, <2>2, <3>1, OtherTable
  <2> QED
    BY <2>1, <2>2
<1> QED
  BY <1>4, <1>5, <1>6, <1>7 DEF RoutesInv

\* However routes are added, the tables are what the calls have made of them.
LEMMA RoutesInvariance == RouteStrings => (RouteSpec => []RoutesInv)
<1> SUFFICES ASSUME RouteStrings PROVE RouteSpec => []RoutesInv
  OBVIOUS
<1>1. RouteInit => RoutesInv
  <2> SUFFICES ASSUME RouteInit PROVE RoutesInv
    OBVIOUS
  <2>1. added = <<>> /\ equals = {} /\ starts = {} /\ regex = <<>> /\ Len(<<>>) = 0
    BY EmptySeq DEF RouteInit
  <2>2. <<>> \in Seq(Call) /\ <<>> \in Seq(Item)
    BY EmptySeq
  <2>3. 1..0 = {}
    OBVIOUS
  <2> QED
    BY <2>1, <2>2, <2>3 DEF RoutesInv, Calls, InMap, InList
<1>2. RoutesInv /\ [RouteNext]_routeVars => RoutesInv'
  <2> SUFFICES ASSUME RoutesInv, [RouteNext]_routeVars PROVE RoutesInv'
    OBVIOUS
  <2>1. ASSUME NEW a \in Routes, AddHandler(a) PROVE RoutesInv'
    BY <2>1, AddHandlerKeeps
  <2>2. ASSUME UNCHANGED <<equals, starts, regex, added>> PROVE RoutesInv'
    BY <2>2 DEF RoutesInv, Calls, InMap, InList, Latest, FirstPattern, OfItem
  <2> QED
    BY <2>1, <2>2 DEF RouteNext, Mount, SetDisabled, routeVars
<1> QED
  BY <1>1, <1>2, PTL DEF RouteSpec

-------------------------------------------------------------------------------
\* Of the routes of its kind that cover the path no other one goes before i.
Best(i, path) ==
    /\ Covers(i, path)
    /\ \A k \in 1..Len(added) : added[k].kind = added[i].kind /\ Covers(k, path) => ~Beats(k, i)

\* Route j is of this kind and decides about the path and the method within it.
Final(j, kind, path, m) ==
    /\ added[j].kind = kind /\ Best(j, path) /\ m \in added[j].methods
    /\ \A l \in 1..Len(added) : l > j /\ added[l].kind = kind /\ Covers(l, path) /\ m \in added[l].methods
                                => Beats(j, l)

\* What the search in a table gives, said of the calls.
Searched(kind, path, m, f) ==
    /\ f.url_exists = (\E i \in 1..Len(added) : added[i].kind = kind /\ Covers(i, path))
    /\ \/ /\ f.handler = Nothing
          /\ \A j \in 1..Len(added) : added[j].kind = kind /\ Best(j, path) => m \notin added[j].methods
       \/ \E j \in 1..Len(added) : Final(j, kind, path, m) /\ f.handler = added[j].handler

\* The search gives the handler of the item whose routes are the best.
LEMMA ItemFound ==
    ASSUME NEW kind, NEW url, NEW path, NEW m, NEW h, Latest(added, kind, url, m, h),
           \A j \in 1..Len(added) :
              added[j].kind = kind /\ Same(kind, added[j].url, url) => Best(j, path),
           \A j, b \in 1..Len(added) :
              /\ added[j].kind = kind /\ Covers(j, path) /\ ~Same(kind, added[j].url, url)
              /\ added[b].kind = kind /\ Same(kind, added[b].url, url)
              => Beats(b, j),
           \E k \in 1..Len(added) : added[k].kind = kind /\ Same(kind, added[k].url, url)
    PROVE  Searched(kind, path, m, [handler |-> h, url_exists |-> TRUE])
<1> DEFINE f == [handler |-> h, url_exists |-> TRUE]
           n == Len(added)
<1>1. f.url_exists = TRUE /\ f.handler = h
  OBVIOUS
<1>2. PICK k \in 1..n : added[k].kind = kind /\ Same(kind, added[k].url, url)
  OBVIOUS
<1>3. Covers(k, path)
  BY <1>2 DEF Best
<1>4. ASSUME h = Nothing, \A j \in 1..n : ~OfItem(added[j], kind, url, m)
      PROVE  \A j \in 1..n : added[j].kind = kind /\ Best(j, path) => m \notin added[j].methods
  <2> SUFFICES ASSUME NEW j \in 1..n, added[j].kind = kind, Best(j, path), m \in added[j].methods PROVE FALSE
    OBVIOUS
  <2>1. ~Same(kind, added[j].url, url)
    BY <1>4 DEF OfItem
  <2>2. Covers(j, path)
    BY DEF Best
  <2>3. Beats(k, j)
    BY <1>2, <2>1, <2>2
  <2> QED
    BY <1>2, <1>3, <2>3 DEF Best
<1>5. ASSUME NEW j \in 1..n, OfItem(added[j], kind, url, m),
             \A l \in 1..n : l > j => ~OfItem(added[l], kind, url, m)
      PROVE  Final(j, kind, path, m)
  <2>1. added[j].kind = kind /\ Same(kind, added[j].url, url) /\ m \in added[j].methods
    BY <1>5 DEF OfItem
  <2>2. Best(j, path)
    BY <2>1
  <2>3. ASSUME NEW l \in 1..n, l > j, added[l].kind = kind, Covers(l, path), m \in added[l].methods
        PROVE  Beats(j, l)
    <3>1. ~Same(kind, added[l].url, url)
      BY <1>5, <2>3 DEF OfItem
    <3> QED
      BY <2>1, <2>3, <3>1
  <2> QED
    BY <2>1, <2>2, <2>3 DEF Final
<1>6. f.url_exists = (\E i \in 1..n : added[i].kind = kind /\ Covers(i, path))
  BY <1>1, <1>2, <1>3
<1>7. \/ h = Nothing /\ \A j \in 1..n : ~OfItem(added[j], kind, url, m)
      \/ \E j \in 1..n : /\ OfItem(added[j], kind, url, m) /\ h = added[j].handler
                         /\ \A l \in 1..n : l > j => ~OfItem(added[l], kind, url, m)
  BY Zenon DEF Latest
<1>8. \/ /\ f.handler = Nothing
         /\ \A j \in 1..n : added[j].kind = kind /\ Best(j, path) => m \notin added[j].methods
      \/ \E j \in 1..n : Final(j, kind, path, m) /\ f.handler = added[j].handler
  BY <1>1, <1>4, <1>5, <1>7, Zenon
<1> QED
  BY <1>6, <1>8, Zenon DEF Searched

\* If no route covers the path nothing is found.
LEMMA NothingFound ==
    ASSUME NEW kind, NEW path, NEW m,
           \A k \in 1..Len(added) : added[k].kind = kind => ~Covers(k, path)
    PROVE  Searched(kind, path, m, NotFound)
<1>1. NotFound.url_exists = FALSE /\ NotFound.handler = Nothing
  BY DEF NotFound
<1> QED
  BY <1>1 DEF Searched, Best

\* The types that the searches rest on.
LEMMA CallTypes ==
    ASSUME RoutesInv
    PROVE  /\ Len(added) \in Nat /\ DOMAIN added = 1..Len(added)
           /\ \A k \in 1..Len(added) : /\ added[k].kind \in {"equals", "starts", "regex"}
                                       /\ added[k].url \in Seq(Characters)
                                       /\ added[k].handler \in {Empty, k} /\ added[k].handler # Nothing
<1>1. added \in Seq(Call) /\ \A k \in 1..Len(added) : added[k].handler \in {Empty, k}
  BY DEF RoutesInv, Calls
<1>2. \A k \in 1..Len(added) : added[k] \in Call
  BY <1>1, ElementOfSeq
<1>3. \A k \in 1..Len(added) : added[k].handler # Nothing
  BY <1>1 DEF Empty, Nothing
<1> QED
  BY <1>1, <1>2, <1>3, LenProperties DEF Call

\* The map for whole paths.
LEMMA EqualsSearched ==
    ASSUME RoutesInv, NEW path \in Seq(Characters), NEW m \in Methods
    PROVE  Searched("equals", path, m, EqualsMatch(path, m))
<1> DEFINE n == Len(added)
<1>1. \A k \in 1..n : added[k].url \in Seq(Characters)
  BY CallTypes
<1>2. /\ \A i \in equals : /\ i.url \in Seq(Characters)
                           /\ Latest(added, "equals", i.url, m, i.handlers[m])
                           /\ \E k \in 1..n : added[k].kind = "equals" /\ i.url = added[k].url
      /\ \A k \in 1..n : added[k].kind = "equals" => \E i \in equals : iEquals(i.url, added[k].url)
  BY DEF RoutesInv, InMap, Item
<1>3. \A k \in 1..n : added[k].kind = "equals" => (Covers(k, path) <=> iEquals(path, added[k].url))
  BY DEF Covers
<1>4. \A k, j \in 1..n : added[j].kind = "equals" /\ added[k].kind = "equals" => ~Beats(k, j)
  BY DEF Beats
<1>5. \A u, v : Same("equals", u, v) <=> iEquals(u, v)
  BY DEF Same
<1> HIDE DEF n
<1>6. ASSUME NEW it, it \in equals, iEquals(path, it.url), EqualsMatch(path, m) = Found(it, m)
      PROVE  Searched("equals", path, m, EqualsMatch(path, m))
  <2>1. ASSUME NEW j \in 1..n, added[j].kind = "equals" PROVE Covers(j, path) <=> iEquals(added[j].url, it.url)
    BY <1>1, <1>2, <1>3, <1>6, <2>1, SameUrl
  <2>2. ASSUME NEW j \in 1..n, added[j].kind = "equals", iEquals(added[j].url, it.url) PROVE Best(j, path)
    BY <1>4, <2>1, <2>2 DEF Best, n
  <2>3. \E k \in 1..n : added[k].kind = "equals" /\ iEquals(added[k].url, it.url)
    BY <1>1, <1>2, <1>6, SameUrl
  <2>4. Searched("equals", path, m, [handler |-> it.handlers[m], url_exists |-> TRUE])
    <3> DEFINE h == it.handlers[m]
               url == it.url
    <3>1. Latest(added, "equals", url, m, h)
      BY <1>2, <1>6
    <3> HIDE DEF h, url
    <3> QED
      BY <1>5, <2>1, <2>2, <2>3, <3>1, ItemFound DEF n, h, url
  <2> QED
    BY <1>6, <2>4 DEF Found
<1>7. CASE \E i \in equals : iEquals(path, i.url)
  BY <1>6, <1>7 DEF EqualsMatch
<1>8. CASE ~\E i \in equals : iEquals(path, i.url)
  <2>1. EqualsMatch(path, m) = NotFound
    BY <1>8 DEF EqualsMatch
  <2>2. ASSUME NEW k \in 1..n, added[k].kind = "equals", Covers(k, path) PROVE FALSE
    <3>1. PICK i \in equals : iEquals(i.url, added[k].url)
      BY <1>2, <2>2
    <3> QED
      BY <1>1, <1>2, <1>3, <1>8, <2>2, <3>1, SameUrl
  <2> QED
    BY <2>1, <2>2, NothingFound DEF n
<1> QED
  BY <1>7, <1>8

\* The map for the beginnings of paths: the longest url is found first.
LEMMA StartsSearched ==
    ASSUME RoutesInv, NEW path \in Seq(Characters), NEW m \in Methods
    PROVE  Searched("starts", path, m, StartsMatch(path, m))
<1> DEFINE n == Len(added)
           here == {i \in starts : iStartsWith(path, i.url)}
<1>1. \A k \in 1..n : added[k].url \in Seq(Characters) /\ Len(added[k].url) \in Nat
  BY CallTypes, LenProperties
<1>2. /\ \A i \in starts : /\ i.url \in Seq(Characters)
                           /\ Latest(added, "starts", i.url, m, i.handlers[m])
                           /\ \E k \in 1..n : added[k].kind = "starts" /\ i.url = added[k].url
      /\ \A k \in 1..n : added[k].kind = "starts" => \E i \in starts : iEquals(i.url, added[k].url)
      /\ \A i, j \in starts : iEquals(i.url, j.url) => i = j
  BY DEF RoutesInv, InMap, Item
<1>3. \A k \in 1..n : added[k].kind = "starts" => (Covers(k, path) <=> iStartsWith(path, added[k].url))
  BY DEF Covers
<1>4. \A k, j \in 1..n : added[j].kind = "starts" /\ added[k].kind = "starts" =>
         (Beats(k, j) <=> Len(added[k].url) > Len(added[j].url))
  BY DEF Beats
<1>5. \A u, v : Same("starts", u, v) <=> iEquals(u, v)
  BY DEF Same
<1>6. \A i \in here : i \in starts /\ iStartsWith(path, i.url) /\ i.url \in Seq(Characters) /\ Len(i.url) \in Nat
  BY <1>2, LenProperties
<1> HIDE DEF n
<1>7. ASSUME NEW i \in here, NEW j \in here, i # j
      PROVE  (iLess(i.url, j.url) <=> Len(i.url) < Len(j.url)) /\ Len(i.url) # Len(j.url)
  BY <1>2, <1>6, <1>7, PrefixOrder
<1>8. ASSUME NEW k \in 1..n, added[k].kind = "starts", Covers(k, path)
      PROVE  \E i \in here : iEquals(i.url, added[k].url) /\ iEquals(added[k].url, i.url) /\ Len(i.url) = Len(added[k].url)
  <2>1. PICK i \in starts : iEquals(i.url, added[k].url)
    BY <1>2, <1>8
  <2>2. iEquals(added[k].url, i.url) /\ Len(i.url) = Len(added[k].url)
    <3>1. i.url \in Seq(Characters) /\ added[k].url \in Seq(Characters)
      BY <1>1, <1>2
    <3>2. Len(i.url) = Len(added[k].url)
      BY <2>1 DEF iEquals
    <3> QED
      BY <2>1, <3>1, <3>2, SameUrl
  <2>3. iStartsWith(path, i.url)
    BY <1>1, <1>2, <1>3, <1>8, <2>1, EqualRoots
  <2> QED
    BY <2>1, <2>2, <2>3
<1> HIDE DEF here
<1>9. ASSUME NEW it \in here, \A j \in here \ {it} : iLess(j.url, it.url), StartsMatch(path, m) = Found(it, m)
      PROVE  Searched("starts", path, m, StartsMatch(path, m))
  <2>1. ASSUME NEW k \in 1..n, added[k].kind = "starts", Covers(k, path)
        PROVE  /\ Len(added[k].url) <= Len(it.url)
               /\ ~iEquals(added[k].url, it.url) => Len(added[k].url) < Len(it.url)
    <3>1. PICK i \in here : iEquals(i.url, added[k].url) /\ iEquals(added[k].url, i.url) /\ Len(i.url) = Len(added[k].url)
      BY <1>8, <2>1
    <3>2. CASE i = it
      BY <1>6, <3>1, <3>2
    <3>3. CASE i # it
      <4>1. Len(i.url) < Len(it.url)
        BY <1>7, <1>9, <3>3
      <4> QED
        BY <1>6, <3>1, <4>1
    <3> QED
      BY <3>2, <3>3
  <2>2. ASSUME NEW j \in 1..n, added[j].kind = "starts", iEquals(added[j].url, it.url)
        PROVE  Best(j, path) /\ Len(added[j].url) = Len(it.url)
    <3>1. Covers(j, path)
      BY <1>1, <1>3, <1>6, <2>2, EqualRoots
    <3>2. Len(added[j].url) = Len(it.url)
      BY <2>2 DEF iEquals
    <3>3. ASSUME NEW k \in 1..n, added[k].kind = "starts", Covers(k, path) PROVE ~Beats(k, j)
      <4>1. Len(added[k].url) <= Len(it.url)
        BY <2>1, <3>3
      <4>2. ~(Len(added[k].url) > Len(added[j].url))
        BY <1>1, <1>6, <3>2, <4>1
      <4> QED
        BY <1>4, <2>2, <3>3, <4>2
    <3> QED
      BY <2>2, <3>1, <3>2, <3>3 DEF Best, n
  <2>3. \E k \in 1..n : added[k].kind = "starts" /\ iEquals(added[k].url, it.url)
    BY <1>1, <1>2, <1>6, SameUrl
  <2>4. ASSUME NEW j \in 1..n, NEW b \in 1..n,
               added[j].kind = "starts" /\ Covers(j, path) /\ ~iEquals(added[j].url, it.url),
               added[b].kind = "starts" /\ iEquals(added[b].url, it.url)
        PROVE  Beats(b, j)
    <3>1. Len(added[j].url) < Len(it.url) /\ Len(added[b].url) = Len(it.url)
      BY <2>1, <2>2, <2>4
    <3>2. Len(added[b].url) > Len(added[j].url)
      BY <1>1, <1>6, <3>1
    <3> QED
      BY <1>4, <2>4, <3>2
  <2>5. Searched("starts", path, m, [handler |-> it.handlers[m], url_exists |-> TRUE])
    <3> DEFINE h == it.handlers[m]
               url == it.url
    <3>1. Latest(added, "starts", url, m, h)
      BY <1>2, <1>6
    <3> HIDE DEF h, url
    <3> QED
      BY <1>5, <2>2, <2>3, <2>4, <3>1, ItemFound DEF n, h, url
  <2> QED
    BY <1>9, <2>5 DEF Found
<1>10. CASE here # {}
  <2> DEFINE D(i) == Len(path) - Len(i.url)
             S == {D(i) : i \in here}
  <2>1. \A i \in here : D(i) \in Nat
    BY <1>6, LenProperties DEF iStartsWith
  <2>2. S # {} /\ S \in SUBSET Nat
    BY <1>10, <2>1
  <2>3. PICK d \in S : \A e \in S : d <= e
    <3> HIDE DEF S
    <3> QED
      BY <2>2, Least
  <2>4. PICK it \in here : D(it) = d
    OBVIOUS
  <2>5. ASSUME NEW j \in here, j # it PROVE iLess(j.url, it.url)
    <3>1. D(it) <= D(j)
      BY <2>3, <2>4
    <3>2. Len(path) \in Nat /\ Len(j.url) \in Nat /\ Len(it.url) \in Nat /\ Len(j.url) # Len(it.url)
      BY <1>6, <1>7, <2>5, LenProperties
    <3>3. Len(j.url) < Len(it.url)
      BY <3>1, <3>2
    <3> QED
      BY <1>7, <2>5, <3>3
  <2> DEFINE first == CHOOSE i \in here : \A j \in here \ {i} : iLess(j.url, i.url)
  <2>6. first \in here /\ \A j \in here \ {first} : iLess(j.url, first.url)
    BY <2>5
  <2>7. StartsMatch(path, m) = Found(first, m)
    BY <1>10, Zenon DEF StartsMatch, here
  <2> HIDE DEF first
  <2> QED
    BY <1>9, <2>6, <2>7
<1>11. CASE here = {}
  <2>1. StartsMatch(path, m) = NotFound
    BY <1>11, Zenon DEF StartsMatch, here
  <2>2. \A k \in 1..n : added[k].kind = "starts" => ~Covers(k, path)
    BY <1>8, <1>11
  <2> QED
    BY <2>1, <2>2, NothingFound DEF n
<1> QED
  BY <1>10, <1>11

\* The call that Listed gives is the first one for the pattern.
LEMMA ListedFirst ==
    ASSUME RoutesInv, NEW i \in 1..Len(added), added[i].kind = "regex"
    PROVE  /\ Listed(i) \in 1..Len(added)
           /\ FirstPattern(added, Listed(i)) /\ added[Listed(i)].url = added[i].url
           /\ \A k \in 1..Len(added) : FirstPattern(added, k) /\ added[k].url = added[i].url => k = Listed(i)
<1> DEFINE n == Len(added)
           P(k) == added[k].kind = "regex" /\ added[k].url = added[i].url
           F(k) == P(k) /\ \A l \in 1..(k - 1) : added[l].kind = "regex" => added[l].url # added[i].url
           S == {k \in 1..i : P(k)}
<1>1. n \in Nat /\ i \in 1..n
  BY CallTypes
<1>2. PICK k \in S : \A l \in S : k <= l
  <2>1. i \in S
    BY <1>1
  <2>2. S \in SUBSET Nat
    BY <1>1
  <2> HIDE DEF S
  <2> QED
    BY <2>1, <2>2, Least
<1>3. k \in 1..i /\ F(k)
  <2> SUFFICES ASSUME NEW l \in 1..(k - 1), added[l].kind = "regex", added[l].url = added[i].url PROVE FALSE
    OBVIOUS
  <2>1. l \in 1..i /\ ~(k <= l)
    BY <1>1
  <2> QED
    BY <1>2, <2>1
<1>4. Listed(i) = CHOOSE x \in 1..i : F(x)
  BY DEF Listed
<1> HIDE DEF F
<1>5. Listed(i) \in 1..i /\ F(Listed(i))
  BY <1>3, <1>4
<1>6. \A x \in 1..n : F(x) <=> FirstPattern(added, x) /\ added[x].url = added[i].url
  BY DEF F, FirstPattern
<1>7. \A x \in 1..i : x \in 1..n
  BY <1>1
<1>8. ASSUME NEW x \in 1..n, NEW y \in 1..n, F(x), F(y) PROVE ~(x < y)
  <2> SUFFICES ASSUME x < y PROVE FALSE
    OBVIOUS
  <2>1. x \in 1..(y - 1)
    BY <1>1
  <2> QED
    BY <1>8, <2>1 DEF F
<1>9. ASSUME NEW x \in 1..n, F(x) PROVE x = Listed(i)
  <2>1. Listed(i) \in 1..n
    BY <1>5, <1>7
  <2>2. ~(x < Listed(i)) /\ ~(Listed(i) < x)
    BY <1>5, <1>8, <1>9, <2>1
  <2> QED
    BY <1>1, <2>1, <2>2
<1> QED
  BY <1>5, <1>6, <1>7, <1>9

\* The list of patterns: the one that was listed first is found first.
LEMMA RegexSearched ==
    ASSUME RoutesInv, NEW path, NEW m \in Methods
    PROVE  Searched("regex", path, m, RegexMatch(path, m))
<1> DEFINE n == Len(added)
           size == Len(regex)
           here == {k \in 1..size : regex_match(path, regex[k].url)}
<1>1. /\ n \in Nat
      /\ regex \in Seq(Item) /\ size \in Nat /\ DOMAIN regex = 1..size
  BY CallTypes, LenProperties DEF RoutesInv, InList
<1>2. /\ \A k \in 1..size : /\ Latest(added, "regex", regex[k].url, m, regex[k].handlers[m])
                            /\ \E i \in 1..n : FirstPattern(added, i) /\ regex[k].url = added[i].url
      /\ \A i \in 1..n : added[i].kind = "regex" => \E k \in 1..size : regex[k].url = added[i].url
      /\ \A k, l \in 1..size, i, j \in 1..n :
            /\ k < l
            /\ FirstPattern(added, i) /\ regex[k].url = added[i].url
            /\ FirstPattern(added, j) /\ regex[l].url = added[j].url
            => i < j
  BY Zenon DEF RoutesInv, InList
<1>3. \A k \in 1..n : added[k].kind = "regex" => (Covers(k, path) <=> regex_match(path, added[k].url))
  BY DEF Covers
<1>4. \A k, j \in 1..n : added[j].kind = "regex" /\ added[k].kind = "regex" =>
         (Beats(k, j) <=> Listed(k) < Listed(j))
  BY DEF Beats
<1>5. \A u, v : Same("regex", u, v) <=> u = v
  BY DEF Same
<1>6. ASSUME NEW i \in 1..n, added[i].kind = "regex"
      PROVE  /\ Listed(i) \in 1..n
             /\ FirstPattern(added, Listed(i)) /\ added[Listed(i)].url = added[i].url
             /\ \A k \in 1..n : FirstPattern(added, k) /\ added[k].url = added[i].url => k = Listed(i)
  BY <1>6, ListedFirst
<1> HIDE DEF n, size
<1>7. ASSUME NEW first \in here, \A l \in here : first <= l, RegexMatch(path, m) = Found(regex[first], m)
      PROVE  Searched("regex", path, m, RegexMatch(path, m))
  <2> DEFINE url == regex[first].url
             h == regex[first].handlers[m]
  <2>0. first \in 1..size /\ regex_match(path, url) /\ Latest(added, "regex", url, m, h)
    BY <1>2
  <2> HIDE DEF h
  <2>1. ASSUME NEW j \in 1..n, added[j].kind = "regex", Covers(j, path), added[j].url # url,
               NEW b \in 1..n, added[b].kind = "regex", added[b].url = url
        PROVE  Listed(b) < Listed(j)
    <3>1. PICK k \in 1..size : regex[k].url = added[j].url
      BY <1>2, <2>1
    <3>2. k \in here
      BY <1>3, <2>1, <3>1
    <3>3. first < k
      <4>1. first # k
        BY <2>1, <3>1
      <4>2. first <= k
        BY <1>7, <3>2
      <4> HIDE DEF here
      <4> QED
        BY <1>1, <2>0, <4>1, <4>2
    <3>4. /\ Listed(b) \in 1..n /\ FirstPattern(added, Listed(b)) /\ added[Listed(b)].url = url
          /\ Listed(j) \in 1..n /\ FirstPattern(added, Listed(j)) /\ added[Listed(j)].url = regex[k].url
      BY <1>6, <2>1, <3>1
    <3> DEFINE p == Listed(b)
               q == Listed(j)
    <3>5. /\ p \in 1..n /\ FirstPattern(added, p) /\ regex[first].url = added[p].url
          /\ q \in 1..n /\ FirstPattern(added, q) /\ regex[k].url = added[q].url
      BY <3>4
    <3> HIDE DEF p, q
    <3>6. p < q
      BY <1>2, <2>0, <3>3, <3>5
    <3> QED
      BY <3>6 DEF p, q
  <2>2. ASSUME NEW j \in 1..n, added[j].kind = "regex", added[j].url = url PROVE Best(j, path)
    <3>1. Covers(j, path)
      BY <1>3, <2>0, <2>2
    <3>2. ASSUME NEW k \in 1..n, added[k].kind = "regex", Covers(k, path) PROVE ~Beats(k, j)
      <4>1. Listed(k) \in Nat /\ Listed(j) \in Nat
        BY <1>1, <1>6, <2>2, <3>2
      <4>2. CASE added[k].url = url
        <5>1. FirstPattern(added, Listed(k)) /\ Listed(k) \in 1..n /\ added[Listed(k)].url = added[j].url
          BY <1>6, <2>2, <3>2, <4>2
        <5>2. Listed(k) = Listed(j)
          BY <1>6, <2>2, <5>1
        <5>3. ~(Listed(k) < Listed(j))
          BY <4>1, <5>2
        <5> QED
          BY <1>4, <2>2, <3>2, <5>3
      <4>3. CASE added[k].url # url
        <5>1. Listed(j) < Listed(k)
          BY <2>1, <2>2, <3>2, <4>3
        <5>2. ~(Listed(k) < Listed(j))
          BY <4>1, <5>1
        <5> QED
          BY <1>4, <2>2, <3>2, <5>2
      <4> QED
        BY <4>2, <4>3
    <3> QED
      BY <2>2, <3>1, <3>2 DEF Best, n
  <2>3. \E k \in 1..n : added[k].kind = "regex" /\ added[k].url = url
    <3>1. PICK i \in 1..n : FirstPattern(added, i) /\ regex[first].url = added[i].url
      BY <1>2, <2>0
    <3> QED
      BY <3>1 DEF FirstPattern
  <2>4. ASSUME NEW j \in 1..n, NEW b \in 1..n,
               added[j].kind = "regex" /\ Covers(j, path) /\ added[j].url # url,
               added[b].kind = "regex" /\ added[b].url = url
        PROVE  Beats(b, j)
    BY <1>4, <2>1, <2>4
  <2> HIDE DEF url
  <2>5. Searched("regex", path, m, [handler |-> h, url_exists |-> TRUE])
    BY <1>5, <2>0, <2>2, <2>3, <2>4, ItemFound DEF n
  <2> QED
    BY <1>7, <2>5 DEF Found, h
<1>8. CASE here # {}
  <2>1. here \in SUBSET Nat
    BY <1>1
  <2>2. PICK k \in here : \A l \in here : k <= l
    <3> HIDE DEF here
    <3> QED
      BY <1>8, <2>1, Least
  <2> DEFINE first == CHOOSE x \in here : \A l \in here : x <= l
  <2>3. first \in here /\ \A l \in here : first <= l
    BY <2>2
  <2>4. RegexMatch(path, m) = Found(regex[first], m)
    BY <1>1, <1>8, Zenon DEF RegexMatch
  <2> HIDE DEF first, here
  <2> QED
    BY <1>7, <2>3, <2>4
<1>9. CASE here = {}
  <2>1. RegexMatch(path, m) = NotFound
    BY <1>1, <1>9, Zenon DEF RegexMatch
  <2>2. ASSUME NEW k \in 1..n, added[k].kind = "regex", Covers(k, path) PROVE FALSE
    <3>1. PICK l \in 1..size : regex[l].url = added[k].url
      BY <1>2, <2>2
    <3> QED
      BY <1>3, <1>9, <2>2, <3>1
  <2> QED
    BY <2>1, <2>2, NothingFound DEF n
<1> QED
  BY <1>8, <1>9

\* Some route of a kind that comes before this one is the best of its kind and
\* has the method.
Before(kind) == CASE kind = "equals" -> {}
                  [] kind = "starts" -> {"equals"}
                  [] kind = "regex"  -> {"equals", "starts"}

Overruled(kind, path, m) ==
    \E j \in 1..Len(added) : added[j].kind \in Before(kind) /\ Best(j, path) /\ m \in added[j].methods

\* What the reference says is what the tables are searched for, kind by kind.
LEMMA DecidesFinal ==
    ASSUME RoutesInv, NEW i \in 1..Len(added), NEW path, NEW m
    PROVE  Decides(i, path, m) <=> Final(i, added[i].kind, path, m) /\ ~Overruled(added[i].kind, path, m)
<1> DEFINE n == Len(added)
           Pairs == {<<"equals", "starts">>, <<"equals", "regex">>, <<"starts", "regex">>}
<1>1. /\ n \in Nat /\ DOMAIN added = 1..n /\ i \in 1..n
      /\ \A k \in 1..n : added[k].kind \in {"equals", "starts", "regex"}
      /\ \A k \in 1..n : Len(added[k].url) \in Nat
  BY CallTypes, LenProperties
<1>2. \A j, k \in 1..n : <<added[j].kind, added[k].kind>> \in Pairs <=> added[j].kind \in Before(added[k].kind)
  BY <1>1 DEF Before
<1>3. ~Beats(i, i)
  <2>1. CASE added[i].kind = "equals"
    BY <2>1 DEF Beats
  <2>2. CASE added[i].kind = "starts"
    BY <1>1, <2>2 DEF Beats
  <2>3. CASE added[i].kind = "regex"
    <3>1. Listed(i) \in Nat
      BY <1>1, <2>3, ListedFirst
    <3> QED
      BY <2>3, <3>1 DEF Beats
  <2> QED
    BY <1>1, <2>1, <2>2, <2>3
<1>4. \A k \in 1..n : added[k].kind \notin Before(added[k].kind)
  BY <1>1 DEF Before
<1>5. Decides(i, path, m) <=>
        /\ Covers(i, path) /\ m \in added[i].methods
        /\ \A j \in (1..n) \ {i} : Covers(j, path) =>
            IF added[j].kind = added[i].kind
            THEN ~Beats(j, i) /\ (j > i /\ m \in added[j].methods => Beats(i, j))
            ELSE ~(/\ <<added[j].kind, added[i].kind>> \in Pairs
                   /\ m \in added[j].methods
                   /\ \A k \in 1..n : added[k].kind = added[j].kind /\ Covers(k, path) => ~Beats(k, j))
  BY <1>1, Zenon DEF Decides
<1> HIDE DEF n, Pairs
<1>6. ASSUME Decides(i, path, m)
      PROVE  Final(i, added[i].kind, path, m) /\ ~Overruled(added[i].kind, path, m)
  <2>1. Best(i, path)
    BY <1>3, <1>5, <1>6 DEF Best, n
  <2>2. ASSUME NEW l \in 1..n, l > i, added[l].kind = added[i].kind, Covers(l, path), m \in added[l].methods
        PROVE  Beats(i, l)
    <3>1. l # i
      BY <1>1, <2>2
    <3> QED
      BY <1>5, <1>6, <2>2, <3>1
  <2>3. ASSUME NEW j \in 1..n, added[j].kind \in Before(added[i].kind), Best(j, path), m \in added[j].methods
        PROVE  FALSE
    <3>1. j # i /\ added[j].kind # added[i].kind
      BY <1>4, <2>3
    <3>2. <<added[j].kind, added[i].kind>> \in Pairs
      BY <1>1, <1>2, <2>3
    <3>3. Covers(j, path) /\ \A k \in 1..n : added[k].kind = added[j].kind /\ Covers(k, path) => ~Beats(k, j)
      BY <2>3 DEF Best, n
    <3> QED
      BY <1>5, <1>6, <2>3, <3>1, <3>2, <3>3
  <2> QED
    BY <1>5, <1>6, <2>1, <2>2, <2>3 DEF Final, Overruled, n
<1>7. ASSUME Final(i, added[i].kind, path, m), ~Overruled(added[i].kind, path, m)
      PROVE  Decides(i, path, m)
  <2>1. /\ Covers(i, path) /\ m \in added[i].methods
        /\ \A k \in 1..n : added[k].kind = added[i].kind /\ Covers(k, path) => ~Beats(k, i)
        /\ \A l \in 1..n : l > i /\ added[l].kind = added[i].kind /\ Covers(l, path) /\ m \in added[l].methods
                           => Beats(i, l)
    BY <1>7 DEF Final, Best, n
  <2>2. ASSUME NEW j \in 1..n, Covers(j, path), <<added[j].kind, added[i].kind>> \in Pairs, m \in added[j].methods,
               \A k \in 1..n : added[k].kind = added[j].kind /\ Covers(k, path) => ~Beats(k, j)
        PROVE  FALSE
    <3>1. Best(j, path) /\ added[j].kind \in Before(added[i].kind)
      BY <1>2, <2>2 DEF Best, n
    <3> QED
      BY <1>7, <2>2, <3>1 DEF Overruled, n
  <2> QED
    BY <1>5, <2>1, <2>2, Zenon
<1> QED
  BY <1>6, <1>7

\* At most one route decides.
LEMMA OneDecides ==
    ASSUME RoutesInv, NEW path, NEW m, NEW i \in 1..Len(added), NEW j \in 1..Len(added),
           Decides(i, path, m), Decides(j, path, m)
    PROVE  i = j
<1> DEFINE n == Len(added)
<1>1. /\ n \in Nat
      /\ \A k \in 1..n : added[k].kind \in {"equals", "starts", "regex"}
  BY CallTypes
<1>2. \A k \in {i, j} : Final(k, added[k].kind, path, m) /\ ~Overruled(added[k].kind, path, m)
  BY DecidesFinal
<1>3. added[i].kind = added[j].kind
  <2>1. added[i].kind \notin Before(added[j].kind) /\ added[j].kind \notin Before(added[i].kind)
    BY <1>2 DEF Overruled, Final
  <2> QED
    BY <1>1, <2>1 DEF Before
<1>4. ASSUME NEW k \in {i, j}, NEW l \in {i, j}, l > k PROVE FALSE
  <2>1. Beats(k, l)
    BY <1>2, <1>3, <1>4 DEF Final, Best
  <2>2. ~Beats(k, l)
    BY <1>2, <1>3, <1>4 DEF Final, Best
  <2> QED
    BY <2>1, <2>2
<1>5. ~(j > i) /\ ~(i > j)
  BY <1>4
<1> QED
  BY <1>1, <1>5

\* find_handler asks the three tables for what the calls are due.
LEMMA FoundDecides ==
    ASSUME RoutesInv, NEW path \in Seq(Characters), NEW m \in Methods
    PROVE  /\ find_handler(path, m).url_exists = (\E i \in 1..Len(added) : Covers(i, path))
           /\ \/ /\ find_handler(path, m).handler = Nothing
                 /\ \A i \in 1..Len(added) : ~Decides(i, path, m)
              \/ \E i \in 1..Len(added) : /\ Decides(i, path, m)
                                          /\ find_handler(path, m).handler = added[i].handler
<1> DEFINE n == Len(added)
           e == EqualsMatch(path, m)
           s == StartsMatch(path, m)
           r == RegexMatch(path, m)
           F == find_handler(path, m)
           None(kind) == \A j \in 1..n : added[j].kind = kind /\ Best(j, path) => m \notin added[j].methods
           Some(kind, f) == \E j \in 1..n : Final(j, kind, path, m) /\ f.handler = added[j].handler
           Offered(kind) == \E i \in 1..n : added[i].kind = kind /\ Covers(i, path)
<1>1. /\ \A k \in 1..n : added[k].kind \in {"equals", "starts", "regex"}
      /\ \A k \in 1..n : added[k].handler # Nothing
  BY CallTypes
<1>2. Searched("equals", path, m, e) /\ Searched("starts", path, m, s) /\ Searched("regex", path, m, r)
  BY EqualsSearched, StartsSearched, RegexSearched
<1>3. F.handler = (CASE e.handler # Nothing -> e.handler
                     [] e.handler = Nothing /\ s.handler # Nothing -> s.handler
                     [] OTHER -> r.handler)
      /\ F.url_exists = (e.url_exists \/ s.url_exists \/ r.url_exists)
  BY DEF find_handler
<1> HIDE DEF e, s, r, F
<1>4. /\ e.url_exists = Offered("equals") /\ ((e.handler = Nothing /\ None("equals")) \/ Some("equals", e))
      /\ s.url_exists = Offered("starts") /\ ((s.handler = Nothing /\ None("starts")) \/ Some("starts", s))
      /\ r.url_exists = Offered("regex") /\ ((r.handler = Nothing /\ None("regex")) \/ Some("regex", r))
  BY <1>2, Zenon DEF Searched
<1>5. (Offered("equals") \/ Offered("starts") \/ Offered("regex")) = (\E i \in 1..n : Covers(i, path))
  BY <1>1
<1>6. ASSUME NEW i \in 1..n, NEW kind, Final(i, kind, path, m),
             kind = "equals" \/ (kind = "starts" /\ None("equals")) \/ (kind = "regex" /\ None("equals") /\ None("starts"))
      PROVE  Decides(i, path, m)
  <2>1. added[i].kind = kind
    BY <1>6 DEF Final
  <2>2. \A x \in Before(kind) : None(x)
    BY <1>6 DEF Before
  <2>3. ~Overruled(kind, path, m)
    BY <2>2 DEF Overruled
  <2> QED
    BY <1>6, <2>1, <2>3, DecidesFinal
<1>7. ASSUME None("equals"), None("starts"), None("regex"), NEW i \in 1..n, Decides(i, path, m) PROVE FALSE
  <2>1. Final(i, added[i].kind, path, m)
    BY <1>7, DecidesFinal
  <2> QED
    BY <1>1, <1>7, <2>1 DEF Final
<1>8. \A kind, f : Some(kind, f) => f.handler # Nothing
  BY <1>1
<1> HIDE DEF n, Offered
<1>9. F.url_exists = (\E i \in 1..n : Covers(i, path))
  BY <1>3, <1>4, <1>5
<1>10. \/ F.handler = Nothing /\ \A i \in 1..n : ~Decides(i, path, m)
       \/ \E i \in 1..n : Decides(i, path, m) /\ F.handler = added[i].handler
  <2>1. CASE Some("equals", e)
    <3>1. F.handler = e.handler
      BY <1>3, <1>8, <2>1
    <3>2. PICK i \in 1..n : Final(i, "equals", path, m) /\ e.handler = added[i].handler
      BY <2>1
    <3>3. Decides(i, path, m)
      BY <1>6, <3>2
    <3> QED
      BY <3>1, <3>2, <3>3
  <2>2. CASE e.handler = Nothing /\ None("equals") /\ Some("starts", s)
    <3>1. F.handler = s.handler
      BY <1>3, <1>8, <2>2
    <3>2. PICK i \in 1..n : Final(i, "starts", path, m) /\ s.handler = added[i].handler
      BY <2>2
    <3>3. Decides(i, path, m)
      BY <1>6, <2>2, <3>2
    <3> QED
      BY <3>1, <3>2, <3>3
  <2>3. CASE /\ e.handler = Nothing /\ None("equals")
             /\ s.handler = Nothing /\ None("starts")
             /\ Some("regex", r)
    <3>1. F.handler = r.handler
      BY <1>3, <2>3
    <3>2. PICK i \in 1..n : Final(i, "regex", path, m) /\ r.handler = added[i].handler
      BY <2>3
    <3>3. Decides(i, path, m)
      BY <1>6, <2>3, <3>2
    <3> QED
      BY <3>1, <3>2, <3>3
  <2>4. CASE /\ e.handler = Nothing /\ None("equals")
             /\ s.handler = Nothing /\ None("starts")
             /\ r.handler = Nothing /\ None("regex")
    <3>1. F.handler = Nothing
      BY <1>3, <2>4
    <3> QED
      BY <1>7, <2>4, <3>1
  <2> HIDE DEF None, Some
  <2> QED
    BY <1>4, <2>1, <2>2, <2>3, <2>4
<1> QED
  BY <1>9, <1>10, Zenon DEF F, n

\* What a request gets that find_handler has this answer for.
Answer(f) == IF f.handler > 0 THEN f.handler
             ELSE IF f.url_exists THEN NotImplemented ELSE WithoutData

\* That is what the reference says is due.
LEMMA DueAnswer ==
    ASSUME RoutesInv, NEW path \in Seq(Characters), NEW m \in Methods
    PROVE  /\ Due(path, m) = Answer(find_handler(path, m))
           /\ find_handler(path, m).handler \in {Nothing, Empty} \cup (Nat \ {0})
           /\ find_handler(path, m).url_exists \in BOOLEAN
           /\ find_handler(path, m).handler > 0 => find_handler(path, m).url_exists
<1> DEFINE n == Len(added)
           F == find_handler(path, m)
           deciding == {i \in 1..n : Decides(i, path, m)}
<1>1. n \in Nat /\ DOMAIN added = 1..n /\ \A k \in 1..n : added[k].handler \in {Empty, k}
  BY CallTypes
<1>2. F.url_exists = (\E i \in 1..n : Covers(i, path))
  BY FoundDecides
<1>3. \/ F.handler = Nothing /\ \A i \in 1..n : ~Decides(i, path, m)
      \/ \E i \in 1..n : Decides(i, path, m) /\ F.handler = added[i].handler
  BY FoundDecides
<1>4. Due(path, m) =
        IF \E i \in deciding : added[i].handler # Empty THEN CHOOSE i \in deciding : TRUE
        ELSE IF \E i \in 1..n : Covers(i, path) THEN NotImplemented
        ELSE WithoutData
  <2>1. Due(path, m) =
          LET d == {i \in DOMAIN added : Decides(i, path, m)}
          IN  IF \E i \in d : added[i].handler # Empty THEN CHOOSE i \in d : TRUE
              ELSE IF \E i \in DOMAIN added : Covers(i, path) THEN NotImplemented
              ELSE WithoutData
    BY DEF Due
  <2> QED
    BY <1>1, <2>1
<1> HIDE DEF n, F
<1>5. CASE F.handler = Nothing /\ \A i \in 1..n : ~Decides(i, path, m)
  <2>1. deciding = {} /\ ~(F.handler > 0)
    BY <1>5 DEF Nothing
  <2> QED
    BY <1>2, <1>4, <1>5, <2>1 DEF Answer, F
<1>6. ASSUME NEW i \in 1..n, Decides(i, path, m), F.handler = added[i].handler
      PROVE  /\ Due(path, m) = Answer(F) /\ F.url_exists = TRUE
             /\ F.handler \in {Empty} \cup (Nat \ {0})
  <2>1. deciding = {i}
    BY <1>6, OneDecides DEF n
  <2>2. Covers(i, path)
    BY <1>6 DEF Decides
  <2>3. F.handler = Empty \/ F.handler = i
    BY <1>1, <1>6
  <2>4. i \in Nat /\ i > 0
    BY <1>1
  <2>5. F.url_exists = TRUE
    BY <1>2, <2>2
  <2> HIDE DEF deciding
  <2>6. CASE F.handler = Empty
    <3>1. ~(F.handler > 0) /\ added[i].handler = Empty
      BY <1>6, <2>6 DEF Empty
    <3>2. Due(path, m) = NotImplemented
      BY <1>4, <2>1, <2>2, <3>1
    <3> QED
      BY <2>5, <2>6, <3>1, <3>2 DEF Answer
  <2>7. CASE F.handler = i
    <3>1. F.handler > 0 /\ added[i].handler # Empty
      BY <1>6, <2>4, <2>7 DEF Empty
    <3>2. Due(path, m) = i
      <4>1. \E x \in deciding : added[x].handler # Empty
        BY <2>1, <3>1
      <4>2. (CHOOSE x \in deciding : TRUE) = i
        BY <2>1
      <4>3. Due(path, m) = CHOOSE x \in deciding : TRUE
        BY <1>4, <4>1
      <4> QED
        BY <4>2, <4>3
    <3> QED
      BY <2>4, <2>5, <2>7, <3>1, <3>2 DEF Answer
  <2> QED
    BY <2>3, <2>6, <2>7
<1>7. CASE \E i \in 1..n : Decides(i, path, m) /\ F.handler = added[i].handler
  BY <1>6, <1>7 DEF F
<1> QED
  BY <1>3, <1>5, <1>7

\* The answer to a path, and to what IndexPath makes of it.
LEMMA RightAnswer ==
    ASSUME RouteStrings, RoutesInv PROVE RightHandler
<1> SUFFICES ASSUME NEW path \in Requests, NEW method \in HttpMethods
             PROVE  do_handle(path, method) =
                       IF method \notin Supported THEN NotImplemented
                       ELSE LET first == Due(path, method)
                                later == {Due(p, method) : p \in IndexPath(path)}
                            IN  IF first = WithoutData /\ later # {} THEN CHOOSE d \in later : TRUE ELSE first
  BY Zenon DEF RightHandler
<1>1. path \in Seq(Characters)
  BY DEF RouteStrings
<1> DEFINE m == from_http_method(method)
           first == find_handler(path, m)
           retry == {find_handler(p, m) : p \in IndexPath(path)}
           again == first.handler \in {Nothing, Empty} /\ ~first.url_exists /\ retry # {}
           last == IF again THEN CHOOSE f \in retry : TRUE ELSE first
           due == Due(path, method)
           later == {Due(p, method) : p \in IndexPath(path)}
<1>2. do_handle(path, method) = CASE m = "UNSUPPORT"                      -> NotImplemented
                                  [] m # "UNSUPPORT" /\ last.handler > 0  -> last.handler
                                  [] OTHER -> IF last.url_exists THEN NotImplemented ELSE WithoutData
  BY Zenon DEF do_handle
<1>3. CASE method \notin Supported
  <2>1. m = "UNSUPPORT"
    BY <1>3 DEF from_http_method
  <2> HIDE DEF m, last
  <2> QED
    BY <1>2, <1>3, <2>1
<1>4. CASE method \in Supported
  <2>1. m = method /\ m # "UNSUPPORT" /\ m \in Methods
    BY <1>4 DEF from_http_method, Supported, Methods
  <2> HIDE DEF m, last, later, due
  <2>2. do_handle(path, method) = Answer(last)
    BY <1>2, <2>1 DEF Answer
  <2>3. due = Answer(first) /\ first.handler \in {Nothing, Empty} \cup (Nat \ {0}) /\ first.url_exists \in BOOLEAN
        /\ (first.handler > 0 => first.url_exists)
    BY <1>1, <2>1, DueAnswer DEF due
  <2>4. due = WithoutData <=> first.handler \in {Nothing, Empty} /\ ~first.url_exists
    <3> HIDE DEF first
    <3> QED
      BY <2>3 DEF Answer, Nothing, Empty, NotImplemented, WithoutData
  <2>5. \/ IndexPath(path) = {}
        \/ \E p \in Seq(Characters) : IndexPath(path) = {p}
    <3> DEFINE p == SubSeq(path, 1, Len(path) - 1)
    <3>1. Len(path) - 1 \in Int /\ \A i \in 1..(Len(path) - 1) : path[i] \in Characters
      <4>1. Len(path) \in Nat /\ \A i \in 1..Len(path) : path[i] \in Characters
        BY <1>1, LenProperties, ElementOfSeq
      <4>2. \A i \in 1..(Len(path) - 1) : i \in 1..Len(path)
        BY <4>1
      <4> QED
        BY <4>1, <4>2
    <3>2. p \in Seq(Characters)
      BY <3>1, SubSeqProperties
    <3> HIDE DEF p
    <3>3. IndexPath(path) = {} \/ IndexPath(path) = {p}
      BY DEF IndexPath, p
    <3> QED
      BY <3>2, <3>3
  <2>6. CASE IndexPath(path) = {}
    <3>1. retry = {} /\ later = {}
      BY <2>6 DEF later
    <3>2. last = first
      BY <3>1 DEF last
    <3> QED
      BY <1>4, <2>2, <2>3, <3>1, <3>2 DEF later, due
  <2>7. ASSUME NEW p \in Seq(Characters), IndexPath(path) = {p}
        PROVE  do_handle(path, method) = IF due = WithoutData /\ later # {} THEN CHOOSE d \in later : TRUE ELSE due
    <3> DEFINE G == find_handler(p, m)
    <3>1. retry = {G} /\ later = {Due(p, method)}
      BY <2>7 DEF later
    <3>2. Due(p, method) = Answer(G)
      BY <2>1, DueAnswer
    <3> HIDE DEF G, retry, first
    <3>3. again <=> due = WithoutData
      BY <2>4, <3>1
    <3> HIDE DEF again
    <3>4. (CHOOSE f \in retry : TRUE) = G /\ (CHOOSE d \in later : TRUE) = Due(p, method)
      BY <3>1
    <3>5. last = IF due = WithoutData THEN G ELSE first
      <4> DEFINE c == CHOOSE f \in retry : TRUE
      <4>1. last = IF again THEN c ELSE first
        BY Zenon DEF last
      <4>2. c = G
        BY <3>4
      <4> HIDE DEF c
      <4> QED
        BY <3>3, <4>1, <4>2
    <3> QED
      BY <2>2, <2>3, <3>1, <3>2, <3>4, <3>5
  <2> QED
    BY <1>4, <2>5, <2>6, <2>7 DEF later, due
<1> QED
  BY <1>3, <1>4

\* do_handle, and the three tables it has looked through, give every request the
\* handler that the calls of AddHandler said, however their routes overlap, in
\* whatever order they were added and whichever of them replaced a handler.
THEOREM HandlerOfRequest == RouteStrings => (RouteSpec => []RightHandler)
<1> SUFFICES ASSUME RouteStrings PROVE RouteSpec => []RightHandler
  OBVIOUS
<1>1. RoutesInv => RightHandler
  BY RightAnswer
<1> QED
  BY <1>1, RoutesInvariance, PTL
================================================================================
