--------------------------- MODULE ProgressProofs ---------------------------
(***************************************************************************)
(* Proofs about Progress, for all sets of connections, addresses and       *)
(* loaders.                                                                *)
(***************************************************************************)
EXTENDS Progress, TLAPS

LEMMA InitInv == Init => TypeOK /\ IInv
  <1> SUFFICES ASSUME Init PROVE TypeOK /\ IInv
    OBVIOUS
  <1>1. TypeOK
    BY DEF Init, TypeOK, LoaderPCs, Threads
  <1>2. CopyInv /\ EraserInv /\ EntryInv /\ OpenIsNotified
    BY DEF Init, CopyInv, EraserInv, EntryInv, OpenIsNotified
  <1>3. HeldInv /\ AddressInv
    BY DEF Init, HeldInv, AddressInv, Live, SameAddress
  <1> QED
    BY <1>1, <1>2, <1>3 DEF IInv

\* A socket opens where no other is; a removal still to come there is remembered.
LEMMA OpenStep ==
    ASSUME NEW c \in Connections, TypeOK, IInv, Open(c)
    PROVE  TypeOK' /\ IInv'
  <1> USE DEF TypeOK, Threads
  <1>1. TypeOK'
    BY DEF Open
  <1>2. CopyInv' /\ EntryInv'
    BY DEF Open, IInv, CopyInv, EntryInv
  <1>3. EraserInv'
    BY DEF Open, IInv, EraserInv
  <1>4. HeldInv'
    <2> SUFFICES ASSUME NEW a \in m_progress
                 PROVE  \E d \in Connections : ws[d] = a /\ Holds(d)'
      BY DEF Open, HeldInv
    <2>1. PICK d \in Connections : ws[d] = a /\ Holds(d)
      BY DEF IInv, HeldInv
    <2>2. opener[d] = "done" /\ d # c
      BY <2>1 DEF Open, Holds, IInv, EraserInv
    <2> QED
      BY <2>1, <2>2 DEF Open, Holds
  <1>5. AddressInv'
    <2> SUFFICES ASSUME NEW d \in Connections, NEW e \in Connections,
                        d # e, ws[d] = ws[e]
                 PROVE  /\ ~ (Live(d)' /\ Live(e)')
                        /\ conn'[d] = "open" /\ d \notin reused' => eraser'[e] # "pending"
      BY DEF Open, AddressInv, SameAddress
    <2>1. /\ ~ (Live(d) /\ Live(e))
          /\ conn[d] = "open" /\ d \notin reused => eraser[e] # "pending"
      BY DEF IInv, AddressInv, SameAddress
    <2>2. /\ d = c => ~ Live(e)
          /\ e = c => ~ Live(d)
      BY DEF Open, SameAddress
    <2>3. ~ (Live(d)' /\ Live(e)')
      BY <2>1, <2>2 DEF Open, Live
    <2>4. d = c /\ eraser[e] = "pending" => d \in reused'
      BY DEF Open, SameAddress
    <2> QED
      BY <2>1, <2>3, <2>4 DEF Open
  <1>6. OpenIsNotified'
    BY DEF Open, IInv, OpenIsNotified
  <1> QED
    BY <1>1, <1>2, <1>3, <1>4, <1>5, <1>6 DEF IInv

\* A thread of the open handler adds its socket; copies of the set are empty then.
LEMMA RegisterStep ==
    ASSUME NEW c \in Connections, TypeOK, IInv, Register(c)
    PROVE  TypeOK' /\ IInv'
  <1>1. TypeOK'
    BY DEF Register, TypeOK, Threads
  <1>2. CopyInv' /\ EntryInv'
    BY DEF Register, Exclusive, IInv, CopyInv, EntryInv
  <1>3. EraserInv'
    BY DEF Register, TypeOK, IInv, EraserInv
  <1>4. HeldInv'
    BY DEF Register, TypeOK, IInv, HeldInv, Holds
  <1>5. AddressInv'
    BY DEF Register, IInv, AddressInv, Live, SameAddress
  <1>6. OpenIsNotified'
    BY DEF Register, TypeOK, IInv, OpenIsNotified
  <1> QED
    BY <1>1, <1>2, <1>3, <1>4, <1>5, <1>6 DEF IInv

\* A thread of the close handler removes its own address, where no socket is open
\* but one that was opened in the meantime.
LEMMA UnregisterStep ==
    ASSUME NEW c \in Connections, TypeOK, IInv, Unregister(c)
    PROVE  TypeOK' /\ IInv'
  <1>1. m_progress' = m_progress \ {ws[c]} /\ (m_progress' # {} => entry')
    BY DEF Unregister, Remaining, EntryDropped
  <1>2. TypeOK'
    BY <1>1 DEF Unregister, EntryDropped, TypeOK, Threads
  <1>3. CopyInv' /\ EntryInv'
    BY <1>1 DEF Unregister, Exclusive, IInv, CopyInv, EntryInv
  <1>4. EraserInv'
    BY <1>1 DEF Unregister, TypeOK, IInv, EraserInv
  <1>5. HeldInv'
    BY <1>1 DEF Unregister, TypeOK, IInv, HeldInv, Holds
  <1>6. AddressInv'
    BY DEF Unregister, TypeOK, IInv, AddressInv, Live, SameAddress
  <1>7. OpenIsNotified'
    <2> SUFFICES ASSUME NEW d \in Connections \ reused, conn[d] = "open", opener[d] = "done"
                 PROVE  ws[d] \in m_progress'
      BY DEF Unregister, OpenIsNotified
    <2>1. eraser[c] = "pending" /\ d # c
      BY DEF Unregister, IInv, EraserInv
    <2>2. ws[c] # ws[d]
      BY <2>1 DEF IInv, AddressInv, SameAddress
    <2> QED
      BY <1>1, <2>2 DEF IInv, OpenIsNotified
  <1> QED
    BY <1>2, <1>3, <1>4, <1>5, <1>6, <1>7 DEF IInv

\* A socket is closed, and later freed; its removal is started before that.
LEMMA CloseStep ==
    ASSUME NEW c \in Connections, TypeOK, IInv, Close(c) \/ Delete(c)
    PROVE  TypeOK' /\ IInv'
  <1>1. TypeOK'
    BY DEF Close, Delete, TypeOK, Threads
  <1>2. CopyInv' /\ EntryInv'
    BY DEF Close, Delete, IInv, CopyInv, EntryInv
  <1>3. EraserInv'
    BY DEF Close, Delete, TypeOK, IInv, EraserInv
  <1>4. HeldInv'
    BY DEF Close, Delete, TypeOK, IInv, HeldInv, Holds
  <1>5. AddressInv'
    BY DEF Close, Delete, TypeOK, IInv, AddressInv, Live, SameAddress
  <1>6. OpenIsNotified'
    BY DEF Close, Delete, TypeOK, IInv, OpenIsNotified
  <1> QED
    BY <1>1, <1>2, <1>3, <1>4, <1>5, <1>6 DEF IInv

\* A loader that takes the lock, finds or makes the entry, copies the set, visits
\* what it copied and unlocks changes nothing that connections depend on.
LEMMA LoaderStep ==
    ASSUME NEW l \in Loaders, TypeOK, IInv, Notify(l) \/ Proceed(l)
    PROVE  TypeOK' /\ IInv'
  <1> USE DEF LoaderPCs, Threads
  <1>1. /\ ws' = ws /\ conn' = conn /\ opener' = opener /\ eraser' = eraser
        /\ reused' = reused /\ m_progress' = m_progress /\ late' = late
    BY DEF Notify, Proceed, Find, InsertEntry, Notified, Visit, sockets
  <1>2. TypeOK' /\ CopyInv' /\ EntryInv'
    <2>1. CASE Notify(l)
      BY <1>1, <2>1 DEF Notify, TypeOK, IInv, CopyInv, EntryInv
    <2>2. CASE Find(l)
      BY <1>1, <2>2 DEF Find, Copy, TypeOK, IInv, CopyInv, EntryInv
    <2>3. CASE InsertEntry(l)
      BY <1>1, <2>3 DEF InsertEntry, Copy, TypeOK, IInv, CopyInv, EntryInv
    <2>4. CASE Notified(l)
      BY <1>1, <2>4 DEF Notified, AllVisited, TypeOK, IInv, CopyInv, EntryInv
    <2>5. ASSUME NEW a \in Addresses, Visit(l, a)
          PROVE  TypeOK' /\ CopyInv' /\ EntryInv'
      BY <1>1, <2>5 DEF Visit, TypeOK, IInv, CopyInv, EntryInv
    <2> QED
      BY <2>1, <2>2, <2>3, <2>4, <2>5 DEF Proceed
  <1>3. EraserInv' /\ HeldInv' /\ AddressInv' /\ OpenIsNotified'
    BY <1>1 DEF IInv, EraserInv, HeldInv, Holds, AddressInv, Live, SameAddress, OpenIsNotified
  <1> QED
    BY <1>2, <1>3 DEF IInv

LEMMA NextStep == TypeOK /\ IInv /\ [Next]_vars => TypeOK' /\ IInv'
  <1>1. CASE UNCHANGED vars
    BY <1>1 DEF vars, sockets, TypeOK, IInv, CopyInv, EraserInv, HeldInv, Holds, AddressInv,
                Live, SameAddress, EntryInv, OpenIsNotified
  <1> QED
    BY <1>1, OpenStep, RegisterStep, UnregisterStep, CloseStep, LoaderStep DEF Next

LEMMA Invariance == Spec => [](TypeOK /\ IInv)
  BY InitInv, NextStep, PTL DEF Spec

\* The registry's variables keep their types.
THEOREM TypeCorrect == Spec => []TypeOK
  BY Invariance, PTL

\* A loader meets the session of a closed socket only before the socket's removal,
\* or when the removal had overtaken the registration.
THEOREM TouchesLiveHolds == Spec => []TouchesLive
  <1>1. TypeOK /\ IInv => TouchesLive
    <2> SUFFICES ASSUME TypeOK, IInv, NEW l \in Loaders, NEW a \in visiting[l]
                 PROVE  \E c \in Connections :
                            /\ ws[c] = a
                            /\ \/ Live(c)
                               \/ opener[c] = "done" /\ eraser[c] = "pending"
                               \/ c \in late
      BY DEF TouchesLive
    <2>1. PICK c \in Connections : ws[c] = a /\ Holds(c)
      BY DEF TypeOK, IInv, CopyInv, HeldInv
    <2>2. eraser[c] = "none" => conn[c] = "open"
      BY <2>1 DEF IInv, EraserInv, Holds
    <2>3. eraser[c] \in Threads
      BY DEF TypeOK
    <2> QED
      BY <2>1, <2>2, <2>3 DEF Holds, Live, Threads
  <1> QED
    BY <1>1, Invariance, PTL

\* An open socket whose registration has run is in the set, unless the removal of an
\* earlier socket at its address was to come when it was opened.
THEOREM OpenIsNotifiedHolds == Spec => []OpenIsNotified
  <1>1. IInv => OpenIsNotified
    BY DEF IInv
  <1> QED
    BY <1>1, Invariance, PTL

\* Two loaders meet in the map only while no connection is registered, but for those
\* that an earlier removal may have taken out.
THEOREM MapRaceHolds == Spec => []MapRaceNeedsNobody
  <1>1. TypeOK /\ IInv => MapRaceNeedsNobody
    <2> SUFFICES ASSUME TypeOK, IInv, NEW l \in Loaders, loader[l] = "insert",
                        NEW c \in Connections \ reused, conn[c] = "open"
                 PROVE  opener[c] = "pending"
      BY DEF MapRaceNeedsNobody
    <2>1. ws[c] \notin m_progress
      BY DEF IInv, EntryInv
    <2>2. opener[c] \in {"pending", "done"}
      BY DEF TypeOK, IInv, EraserInv, Threads
    <2> QED
      BY <2>1, <2>2 DEF IInv, OpenIsNotified
  <1> QED
    BY <1>1, Invariance, PTL

=============================================================================
