------------------------------ MODULE WsRegistry ------------------------------
(***************************************************************************)
(* The application's registry of websocket connections under one URL       *)
(* (Websocket::Connections inside Application), the contexts through which *)
(* programs use it, and the lifetime of a connection.                      *)
(*                                                                         *)
(* The registry holds weak pointers.  A connection lives as long as a      *)
(* context or a list has a strong pointer to it.  One context per          *)
(* connection, the holding one, also stands for its registration: its      *)
(* destructor takes the connection out of the registry.  All other         *)
(* contexts are made by threads that looked the connection up.             *)
(***************************************************************************)
EXTENDS Naturals

CONSTANTS
    Conns,      \* connections
    Threads,    \* threads that look connections up
    Ids,        \* connection ids, the empty string included
    EmptyId,    \* the empty string
    NoConn,     \* a null pointer; also marks an id with no entry
    Uuid,       \* GetUUID: a fresh id for each connection
    NewIds      \* the ids a program renames each connection to

ASSUME RegistryAssumption ==
    /\ EmptyId \in Ids
    /\ NoConn \notin Conns
    /\ Uuid \in [Conns -> Ids \ {EmptyId}]
    /\ \A c, d \in Conns : Uuid[c] = Uuid[d] => c = d
    /\ NewIds \in [Conns -> SUBSET Ids]

VARIABLES
    id,         \* Connection::_id
    storage,    \* Connections::_storage: the connection each id is mapped to
    hold,       \* the holding context of each connection
    ctxs,       \* per thread: the connections it has other contexts of
    snap        \* per thread: the pointers of the ContextList it iterates over

vars == <<id, storage, hold, ctxs, snap>>

Init == /\ id = [c \in Conns |-> EmptyId]
        /\ storage = [i \in Ids |-> NoConn]
        /\ hold = [c \in Conns |-> "none"]
        /\ ctxs = [t \in Threads |-> {}]
        /\ snap = [t \in Threads |-> {}]

\* Somebody has a strong pointer to c.
Alive(c) == \/ hold[c] \in {"OnOpen", "held", "dying"}
            \/ \E t \in Threads : c \in ctxs[t] \cup snap[t]

\* weak_ptr::lock.
Lock(c) == IF Alive(c) THEN c ELSE NoConn

Registered == {i \in Ids : storage[i] # NoConn}

-------------------------------------------------------------------------------
\* do_upgrade makes the connection and its holding context, and calls OnOpen.
Create(c) ==
    /\ hold[c] = "none"
    /\ hold' = [hold EXCEPT ![c] = "OnOpen"]
    /\ UNCHANGED <<id, storage, ctxs, snap>>

\* OnOpen returns true: the connection gets a fresh id if it has none, and is
\* inserted; insert leaves an entry that is there alone.
AddWebSocketConnection(c) ==
    LET i == IF id[c] = EmptyId THEN Uuid[c] ELSE id[c]
    IN  /\ hold[c] = "OnOpen"
        /\ hold' = [hold EXCEPT ![c] = "held"]
        /\ id' = [id EXCEPT ![c] = i]
        /\ storage' = IF storage[i] = NoConn THEN [storage EXCEPT ![i] = c]
                                             ELSE storage
        /\ UNCHANGED <<ctxs, snap>>

\* The last copy of the holding context goes away: OnOpen returned false, or
\* the read loop and the writes are over.  ~ContextIMP looks at the id without
\* a lock.
DestroyContext(c) ==
    /\ hold[c] \in {"OnOpen", "held"}
    /\ hold' = [hold EXCEPT ![c] = IF id[c] = EmptyId THEN "gone" ELSE "dying"]
    /\ UNCHANGED <<id, storage, ctxs, snap>>

\* ... and then erases the entry of the id the connection has at that moment,
\* under the locks of the application and of the map: the id is passed by
\* reference.
RemoveWebSocketConnection(c) ==
    /\ hold[c] = "dying"
    /\ hold' = [hold EXCEPT ![c] = "gone"]
    /\ storage' = [storage EXCEPT ![id[c]] = NoConn]
    /\ UNCHANGED <<id, ctxs, snap>>

\* A program calls RenameID on a context of c: the holding one, or one that
\* some thread looked up.
HasContext(c) == \/ hold[c] \in {"OnOpen", "held"}
                 \/ \E t \in Threads : c \in ctxs[t]

\* Mutant: the entry moves, the connection keeps its old id.
RenameID_keeps_id(c, new_id) ==
    LET old_id == id[c]
        cnt    == Lock(storage[old_id])
    IN  /\ HasContext(c)
        /\ new_id \in NewIds[c]
        /\ storage[old_id] # NoConn
        /\ storage' = IF cnt = NoConn
                      THEN [storage EXCEPT ![old_id] = NoConn]
                      ELSE [storage EXCEPT ![old_id] = NoConn, ![new_id] = cnt]
        /\ UNCHANGED <<id, hold, ctxs, snap>>

\* Mutant: the entry of the old id stays.
RenameID_keeps_entry(c, new_id) ==
    LET old_id == id[c]
        cnt    == Lock(storage[old_id])
    IN  /\ HasContext(c)
        /\ new_id \in NewIds[c]
        /\ storage[old_id] # NoConn
        /\ cnt # NoConn
        /\ id' = [id EXCEPT ![cnt] = new_id]
        /\ storage' = [storage EXCEPT ![new_id] = cnt]
        /\ UNCHANGED <<hold, ctxs, snap>>

\* Mutant: the new id is inserted before the old one is erased, which loses
\* the entry when they are equal.
RenameID_erases_last(c, new_id) ==
    LET old_id == id[c]
        cnt    == Lock(storage[old_id])
    IN  /\ HasContext(c)
        /\ new_id \in NewIds[c]
        /\ storage[old_id] # NoConn
        /\ cnt # NoConn
        /\ id' = [id EXCEPT ![cnt] = new_id]
        /\ storage' = [storage EXCEPT ![new_id] = cnt, ![old_id] = NoConn]
        /\ UNCHANGED <<hold, ctxs, snap>>

\* Connections::RenameID, under both locks.  It looks up the id that c has,
\* erases that entry, and moves whatever connection the entry is of to the new
\* id, over the entry that was there.  Without an entry nothing happens.
RenameID(c, new_id) ==
    LET old_id == id[c]
        cnt    == Lock(storage[old_id])
    IN  /\ HasContext(c)
        /\ new_id \in NewIds[c]
        /\ storage[old_id] # NoConn
        /\ IF cnt = NoConn
           THEN /\ storage' = [storage EXCEPT ![old_id] = NoConn]
                /\ UNCHANGED id
           ELSE /\ storage' = [storage EXCEPT ![old_id] = NoConn, ![new_id] = cnt]
                /\ id' = [id EXCEPT ![cnt] = new_id]
        /\ UNCHANGED <<hold, ctxs, snap>>

-------------------------------------------------------------------------------
\* OtherOne / WebsocketConnection: a context of the connection with id i, if
\* it can be locked.
Get(t, i) ==
    /\ storage[i] # NoConn
    /\ Lock(storage[i]) # NoConn
    /\ ctxs' = [ctxs EXCEPT ![t] = @ \cup {Lock(storage[i])}]
    /\ UNCHANGED <<id, storage, hold, snap>>

\* A ContextList copies what All() returns: a pointer for every entry, null
\* for an entry whose connection has died.
All(t) ==
    /\ snap[t] = {}
    /\ snap' = [snap EXCEPT ![t] = {Lock(storage[i]) : i \in Registered}]
    /\ UNCHANGED <<id, storage, hold, ctxs>>

\* ContextList::iterator::operator* makes a context of one of the pointers.
CreateUnholdConnectionLife(t, c) ==
    /\ c \in snap[t] \ {NoConn}
    /\ ctxs' = [ctxs EXCEPT ![t] = @ \cup {c}]
    /\ UNCHANGED <<id, storage, hold, snap>>

DropList(t) ==
    /\ snap[t] # {}
    /\ snap' = [snap EXCEPT ![t] = {}]
    /\ UNCHANGED <<id, storage, hold, ctxs>>

DropContext(t, c) ==
    /\ c \in ctxs[t]
    /\ ctxs' = [ctxs EXCEPT ![t] = @ \ {c}]
    /\ UNCHANGED <<id, storage, hold, snap>>

Next == \/ \E c \in Conns : \/ Create(c)
                            \/ AddWebSocketConnection(c)
                            \/ DestroyContext(c)
                            \/ RemoveWebSocketConnection(c)
                            \/ \E i \in Ids : RenameID(c, i)
        \/ \E t \in Threads : \/ \E i \in Ids : Get(t, i)
                              \/ All(t)
                              \/ \E c \in Conns : \/ CreateUnholdConnectionLife(t, c)
                                                  \/ DropContext(t, c)
                              \/ DropList(t)

Spec == Init /\ [][Next]_vars

-------------------------------------------------------------------------------
(* Properties *)

\* Types; in particular only a connection that is alive is handed out as a context.
TypeOK == /\ id \in [Conns -> Ids]
          /\ storage \in [Ids -> Conns \cup {NoConn}]
          /\ hold \in [Conns -> {"none", "OnOpen", "held", "dying", "gone"}]
          /\ ctxs \in [Threads -> SUBSET Conns]
          /\ snap \in [Threads -> SUBSET (Conns \cup {NoConn})]

\* ContextIMP's constructor asserts _cnt != nullptr: a ContextList never hands
\* it a null pointer, whatever connections close while others are renamed and
\* lists are made.
NoNullContext == \A t \in Threads : NoConn \notin snap[t]

\* An entry is of a connection that has this id and whose holding context still
\* exists: closing a connection leaves nothing of it behind, however it has
\* been renamed.
EntriesAreHeld == \A i \in Ids :
    storage[i] # NoConn => /\ hold[storage[i]] \in {"held", "dying"}
                           /\ id[storage[i]] = i

\* The ids that a connection has if programs do as they are expected to.
Names(c) == NewIds[c] \cup {Uuid[c]}

\* No program gives c an id of another connection, or another one an id of c.
Exclusive(c) == \A d \in Conns \ {c} : Names(c) \cap Names(d) = {}

\* An open connection that shares no id with others is found under its id, so
\* that a list does not miss it, however the others collide with each other.
OpenAreFound == \A c \in Conns : Exclusive(c) /\ hold[c] = "held" => storage[id[c]] = c
===============================================================================
