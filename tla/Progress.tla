------------------------------ MODULE Progress ------------------------------
(***************************************************************************)
(* The sockets to which the progress of loading one dataset is reported    *)
(* (m_progress[dataset_id], filled and emptied by the open and close       *)
(* handlers of src/src/main_uWS.cpp and read by                            *)
(* FITS::send_progress_notification in src/src/fits.cpp).                  *)
(*                                                                         *)
(* open and close each start a detached thread that changes the set under  *)
(* the exclusive lock of m_progress_mutex; nothing orders the two.  The    *)
(* threads that load the dataset copy the set under the shared lock and    *)
(* keep the lock while they visit the sockets.  close then joins the       *)
(* workers of the session (see Session), deletes it and gives up the       *)
(* socket.                                                                 *)
(*                                                                         *)
(* The set holds raw pointers.  uWS frees a socket when its close handler  *)
(* has returned, so that a later connection may get the same address while *)
(* the threads of the earlier one have still to run.                       *)
(*                                                                         *)
(* The map has an entry for the dataset only if somebody asked for it and  *)
(* the last socket has not taken it away.  A loader that finds none makes  *)
(* one, under the shared lock.  Two loaders that do so at the same time    *)
(* may damage the map; the model goes on as if they had not.               *)
(***************************************************************************)
EXTENDS Integers, FiniteSets

CONSTANTS
    Connections,    \* the connections to the dataset, one after another or at a time
    Addresses,      \* where uWS has room for a socket
    Loaders         \* the threads that load the dataset

VARIABLES
    ws,         \* connection -> the address of its socket, which its handlers pass on
    conn,       \* connection -> "new", "open", "closing" or "closed" (socket freed)
    opener,     \* connection -> the thread that registers it: "none", "pending" or "done"
    eraser,     \* connection -> the thread that removes it: "none", "pending" or "done"
    m_progress, \* the registered addresses
    entry,      \* the map has an entry for the dataset
    loader,     \* loader -> where it is: see LoaderPCs
    visiting,   \* loader -> addresses of its copy it has still to visit
    late,       \* history: connections that were registered after their removal
    reused      \* history: connections that opened at an address whose removal,
                \* ordered for an earlier connection, had yet to happen

sockets == <<ws, conn, opener, eraser, reused>>
vars == <<sockets, m_progress, entry, loader, visiting, late>>

\* All but the idle hold the shared lock.
LoaderPCs == {"idle", "find", "insert", "visit"}
Threads == {"none", "pending", "done"}

TypeOK ==
    /\ ws \in [Connections -> Addresses]
    /\ conn \in [Connections -> {"new", "open", "closing", "closed"}]
    /\ opener \in [Connections -> Threads]
    /\ eraser \in [Connections -> Threads]
    /\ m_progress \in SUBSET Addresses
    /\ entry \in BOOLEAN
    /\ loader \in [Loaders -> LoaderPCs]
    /\ visiting \in [Loaders -> SUBSET Addresses]
    /\ late \in SUBSET Connections
    /\ reused \in SUBSET Connections

\* Nobody is connected yet; where each connection's socket is going to be is up to
\* uWS.
Init ==
    /\ ws \in [Connections -> Addresses]
    /\ conn = [c \in Connections |-> "new"]
    /\ opener = [c \in Connections |-> "none"]
    /\ eraser = [c \in Connections |-> "none"]
    /\ m_progress = {}
    /\ entry = FALSE
    /\ loader = [l \in Loaders |-> "idle"]
    /\ visiting = [l \in Loaders |-> {}]
    /\ late = {}
    /\ reused = {}

-----------------------------------------------------------------------------
(* Operators the specification does not use and that stand before the one   *)
(* they vary are faulty variants of it: with them the property they are     *)
(* meant for must fail.                                                     *)

\* m_progress_mutex can be locked exclusively; a section under it is one step.
ExclusiveAlways == TRUE
Exclusive == \A l \in Loaders : loader[l] = "idle"

\* The connection has a socket at its address, which no other one gets meanwhile.
Live(c) == conn[c] \in {"open", "closing"}
SameAddress(c) == {d \in Connections \ {c} : ws[d] = ws[c]}

Open(c) ==
    /\ conn[c] = "new"
    /\ \A d \in SameAddress(c) : ~ Live(d)
    /\ conn' = [conn EXCEPT ![c] = "open"]
    /\ opener' = [opener EXCEPT ![c] = "pending"]
    /\ reused' = reused \cup {d \in {c} : \E e \in SameAddress(d) : eraser[e] = "pending"}
    /\ UNCHANGED <<ws, eraser, m_progress, entry, loader, visiting, late>>

Register(c) ==
    /\ opener[c] = "pending"
    /\ Exclusive
    /\ opener' = [opener EXCEPT ![c] = "done"]
    /\ m_progress' = m_progress \cup {ws[c]}
    /\ entry' = TRUE
    /\ late' = IF eraser[c] = "done" THEN late \cup {c} ELSE late
    /\ UNCHANGED <<ws, conn, eraser, reused, loader, visiting>>

RemainingNone(c) == {}
RemainingOthers(c) == IF m_progress = {ws[c]} THEN {} ELSE m_progress
Remaining(c) == m_progress \ {ws[c]}

\* The last socket to go takes the dataset's entry of the map with it.
EntryDroppedEarly(c) == Cardinality(Remaining(c)) <= 1
EntryDropped(c) == Remaining(c) = {}

Unregister(c) ==
    /\ eraser[c] = "pending"
    /\ Exclusive
    /\ eraser' = [eraser EXCEPT ![c] = "done"]
    /\ m_progress' = IF EntryDropped(c) THEN {} ELSE Remaining(c)
    /\ entry' = ~ EntryDropped(c)
    /\ UNCHANGED <<ws, conn, opener, reused, loader, visiting, late>>

Close(c) ==
    /\ conn[c] = "open"
    /\ conn' = [conn EXCEPT ![c] = "closing"]
    /\ eraser' = [eraser EXCEPT ![c] = "pending"]
    /\ UNCHANGED <<ws, opener, reused, m_progress, entry, loader, visiting, late>>

\* The workers are joined, the session is deleted, and uWS frees the socket.
Delete(c) ==
    /\ conn[c] = "closing"
    /\ conn' = [conn EXCEPT ![c] = "closed"]
    /\ UNCHANGED <<ws, opener, eraser, reused, m_progress, entry, loader, visiting, late>>

\* send_progress_notification: lock, find or make the entry, copy the set, visit one
\* socket after the other.
Notify(l) ==
    /\ loader[l] = "idle"
    /\ loader' = [loader EXCEPT ![l] = "find"]
    /\ UNCHANGED <<sockets, m_progress, entry, visiting, late>>

Copy(l) ==
    /\ loader' = [loader EXCEPT ![l] = "visit"]
    /\ visiting' = [visiting EXCEPT ![l] = m_progress]

Find(l) ==
    /\ loader[l] = "find"
    /\ \/ entry /\ Copy(l)
       \/ ~ entry /\ loader' = [loader EXCEPT ![l] = "insert"] /\ UNCHANGED visiting
    /\ UNCHANGED <<sockets, m_progress, entry, late>>

InsertEntry(l) ==
    /\ loader[l] = "insert"
    /\ entry' = TRUE
    /\ Copy(l)
    /\ UNCHANGED <<sockets, m_progress, late>>

Visit(l, a) ==
    /\ a \in visiting[l]
    /\ visiting' = [visiting EXCEPT ![l] = visiting[l] \ {a}]
    /\ UNCHANGED <<sockets, m_progress, entry, loader, late>>

AllVisited(l) == visiting[l] = {}

Notified(l) ==
    /\ loader[l] = "visit"
    /\ AllVisited(l)
    /\ loader' = [loader EXCEPT ![l] = "idle"]
    /\ UNCHANGED <<sockets, m_progress, entry, visiting, late>>

\* What a loader does once it has the shared lock.
Proceed(l) ==
    Find(l) \/ InsertEntry(l) \/ Notified(l) \/ \E a \in Addresses : Visit(l, a)

-----------------------------------------------------------------------------
Next ==
    \/ \E c \in Connections :
        Open(c) \/ Register(c) \/ Unregister(c) \/ Close(c) \/ Delete(c)
    \/ \E l \in Loaders : Notify(l) \/ Proceed(l)

Spec == Init /\ [][Next]_vars

(***************************************************************************)
(* Fairness: if the exclusive lock is free again and again, it is granted  *)
(* to one of the threads that wait for it.  The loaders need none: whether *)
(* they let go of the lock is the hypothesis LockDrains.                   *)
(***************************************************************************)
Fairness == SF_vars(\E c \in Connections : Register(c) \/ Unregister(c))

FairSpec == Spec /\ Fairness

-----------------------------------------------------------------------------
(* Properties                                                               *)

\* A connection accounts for its address being registered from its open handler's
\* thread until the removal, or for good if the removal came first.
Holds(c) == opener[c] = "done" /\ (eraser[c] # "done" \/ c \in late)

\* A loader works on the session of a closed socket only in two windows: before
\* the thread that the close handler started has removed the socket, and when that
\* thread overtook the one the open handler started.  Otherwise the removal waits
\* for the loaders that hold a copy of the set.
TouchesLive ==
    \A l \in Loaders : \A a \in visiting[l] :
        \E c \in Connections :
            ws[c] = a /\ (Live(c) \/ (opener[c] = "done" /\ eraser[c] = "pending") \/ c \in late)

\* The registration of a socket that is still in use is lost only to an earlier
\* connection at the same address whose removal was still to come when the socket
\* was opened.  Otherwise, once its open handler's thread has run, the socket stays in
\* m_progress until it is closed, whatever other connections come and go.
OpenIsNotified ==
    \A c \in Connections \ reused :
        conn[c] = "open" /\ opener[c] = "done" => ws[c] \in m_progress

\* Two loaders can meet in the map, one of them inserting the dataset's entry, only
\* while nobody is connected whose open handler's thread has run, but for those whose
\* registration an earlier removal may have taken: the shared lock keeps the entry
\* that a connection made, and other connections that leave do not take it away.
MapRaceNeedsNobody ==
    \A l1 \in Loaders : \A l2 \in Loaders \ {l1} :
        loader[l1] = "insert" /\ loader[l2] \in {"find", "insert"} =>
            \A c \in Connections \ reused : conn[c] = "open" => opener[c] = "pending"

\* The loaders let go of the set now and then, all of them at the same time: as with
\* std::shared_mutex in general, nothing guarantees it while they overlap.
LockDrains == []<>Exclusive

\* A closed socket is forgotten: if the loaders let the writers in, the registry
\* drops its address for good, but for other connections that are registered at it,
\* unless its two threads ran in the wrong order.
ClosedIsForgotten ==
    LockDrains =>
        \A c \in Connections :
            conn[c] = "closing" ~>
                \/ c \in late
                \/ [](ws[c] \in m_progress => \E d \in SameAddress(c) : Holds(d))

-----------------------------------------------------------------------------
(* The inductive invariant behind the safety properties.                    *)

\* A copy of the set is used only under the shared lock, while the set stands still.
CopyInv ==
    \A l \in Loaders :
        /\ visiting[l] \subseteq m_progress
        /\ visiting[l] # {} => loader[l] = "visit"

\* The thread that removes a socket is started by its close handler.
EraserInv ==
    \A c \in Connections :
        /\ conn[c] \in {"new", "open"} <=> eraser[c] = "none"
        /\ conn[c] = "new" <=> opener[c] = "none"

\* A registered address was registered by a connection that has not removed it since.
HeldInv ==
    \A a \in m_progress : \E c \in Connections : ws[c] = a /\ Holds(c)

\* Two sockets are never at one address, and nobody is about to remove the address of
\* an open socket unless it was so from the start.
AddressInv ==
    \A c \in Connections : \A d \in SameAddress(c) :
        /\ ~ (Live(c) /\ Live(d))
        /\ conn[c] = "open" /\ c \notin reused => eraser[d] # "pending"

\* A registered socket has an entry to be in, and a loader makes one only while no
\* socket is registered, since it found none after it had taken the lock.
EntryInv ==
    /\ m_progress # {} => entry
    /\ \A l \in Loaders : loader[l] = "insert" => m_progress = {}

IInv == CopyInv /\ EraserInv /\ HeldInv /\ AddressInv /\ EntryInv /\ OpenIsNotified

=============================================================================
