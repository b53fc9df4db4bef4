--------------------------- MODULE RegistryProofs ---------------------------
(***************************************************************************)
(* Proofs about Registry, for every number of datasets, objects and        *)
(* requests.                                                               *)
(***************************************************************************)
EXTENDS Registry, TLAPS

(***************************************************************************)
(* The type.  It needs to know that a request at work has an object.       *)
(***************************************************************************)

HandlersHave ==
    \A h \in Handlers : handler[h].pc \in {"using", "destroying"} => handler[h].obj \in Objs

Typed == TypeOK /\ HandlersHave

LEMMA SomeIdInIds == SomeId \in Ids
  BY IdsAssumption DEF SomeId

LEMMA TypedInit == Init => Typed
  BY SomeIdInIds DEF Init, Typed, TypeOK, HandlersHave, Idle, States

\* A party that lets go of an object.
LEMMA LetGoTyped ==
    ASSUME Typed, NEW o \in Objs, NEW p, NEW st \in States, LetGo(o, p, st)
    PROVE  /\ obj' \in [Objs -> [id : Ids, st : States]]
           /\ holders' \in [Objs -> SUBSET (Handlers \cup {"loader"})]
<1> USE DEF Typed, TypeOK
<1> DEFINE new == IF Last(o, p) THEN "dying" ELSE st
<1>1. new \in States
  BY DEF States
<1>2. obj' = [obj EXCEPT ![o].st = new]
  BY DEF LetGo
<1>3. obj' \in [Objs -> [id : Ids, st : States]]
  BY <1>1, <1>2
<1>4. QED
  BY <1>3 DEF LetGo

LEMMA TypedStep == Typed /\ [Next]_vars => Typed'
<1> SUFFICES ASSUME Typed, [Next]_vars PROVE Typed'
  OBVIOUS
<1> USE DEF Typed, TypeOK, HandlersHave, history
<1>1. ASSUME NEW h \in Handlers, NEW id \in Ids, Use(h, id) PROVE Typed'
  <2>1. DATASETS[id] \in Objs
    BY <1>1 DEF Use, Found
  <2>2. QED
    BY <1>1, <2>1 DEF Use
<1>2. ASSUME NEW h \in Handlers, NEW id \in Ids, Miss(h, id) PROVE Typed'
  BY <1>2 DEF Miss
<1>3. ASSUME NEW h \in Handlers, NEW o \in Objs, Insert(h, o) PROVE Typed'
  <2>1. /\ DATASETS' \in [Ids -> Objs \cup {None}]
        /\ obj' \in [Objs -> [id : Ids, st : States]]
        /\ reborn' \in SUBSET Ids /\ orphan' \in SUBSET Objs
    BY <1>3 DEF Insert, States
  <2>2. QED
    BY <1>3, <2>1, SomeIdInIds DEF Insert, Idle
<1>4. ASSUME NEW o \in Objs, Loaded(o) PROVE Typed'
  BY <1>4, LetGoTyped DEF Loaded, States
<1>5. ASSUME NEW h \in Handlers, Release(h) PROVE Typed'
  <2> DEFINE o == handler[h].obj
  <2>1. o \in Objs
    BY <1>5 DEF Release
  <2>2. obj[o].st \in States /\ LetGo(o, h, obj[o].st)
    BY <1>5, <2>1 DEF Release
  <2>3. /\ obj' \in [Objs -> [id : Ids, st : States]]
        /\ holders' \in [Objs -> SUBSET (Handlers \cup {"loader"})]
    BY <2>1, <2>2, LetGoTyped
  <2>4. handler' = [handler EXCEPT ![h] = [@ EXCEPT !.pc = "destroying"]]
        \/ handler' = [handler EXCEPT ![h] = Idle]
    BY <1>5 DEF Release
  <2>5. handler' \in [Handlers -> [pc : {"idle", "missing", "using", "destroying"},
                                  id : Ids, obj : Objs \cup {None}]]
    BY <2>4, SomeIdInIds DEF Idle
  <2>6. UNCHANGED <<DATASETS, purge, main, dropped, busy, raced, reborn, orphan>>
    BY <1>5 DEF Release
  <2>7. HandlersHave'
    <3>1. o \in Objs /\ (handler'[h].obj = o \/ handler'[h].pc = "idle")
      BY <2>1, <2>4 DEF Idle
    <3>2. \A g \in Handlers \ {h} : handler'[g] = handler[g]
      BY <2>4
    <3>3. QED
      BY <3>1, <3>2
  <2>8. QED
    BY <2>3, <2>5, <2>6, <2>7
<1>6. ASSUME NEW h \in Handlers, Destroyed(h) PROVE Typed'
  BY <1>6, SomeIdInIds DEF Destroyed, Idle
<1>7. ASSUME NEW o \in Objs,
             StartPurge(o) \/ PurgeCheck(o) \/ PurgeDone(o) \/ PurgeTimeout(o)
      PROVE Typed'
  BY <1>7 DEF StartPurge, PurgeCheck, PurgeDone, PurgeTimeout, PurgeStep
<1>8. ASSUME NEW o \in Objs, Destructor(o) PROVE Typed'
  <2>1. CASE Terminate(o)
    BY <2>1 DEF Terminate, States
  <2>2. CASE Join(o) \/ Save(o)
    <3>1. \E st \in States : obj' = [obj EXCEPT ![o].st = st]
      BY <2>2 DEF Join, Save, States
    <3>2. QED
      BY <2>2, <3>1 DEF Join, Save
  <2>3. QED
    BY <1>8, <2>1, <2>2 DEF Destructor
<1>9. CASE Interrupt
  BY <1>9 DEF Interrupt
<1>10. ASSUME NEW id \in Ids, DropEntry(id) PROVE Typed'
  BY <1>10 DEF DropEntry, States
<1>11. CASE DropDone
  BY <1>11 DEF DropDone
<1>12. CASE \/ Proceed("clearing", "cleared", Empty)
            \/ Proceed("cleared", "exiting", TRUE)
            \/ Proceed("exiting", "exited", Empty)
  BY <1>12 DEF Proceed
<1>13. CASE UNCHANGED vars
  BY <1>13 DEF vars
<1>14. QED
  BY <1>1, <1>2, <1>3, <1>4, <1>5, <1>6, <1>7, <1>8, <1>9, <1>10, <1>11, <1>12, <1>13
     DEF Next, Shutdown, Finished

\* The state has its type.
THEOREM TypeCorrect == Spec => []TypeOK
<1>1. Typed => TypeOK
  BY DEF Typed
<1>2. QED
  BY <1>1, TypedInit, TypedStep, PTL DEF Spec

(***************************************************************************)
(* Who holds what.  An object that somebody holds or that DATASETS has is  *)
(* alive, so that its destructor runs once, and no unused object is held.  *)
(***************************************************************************)

RegisteredInv ==
    \A id \in Ids :
        DATASETS[id] # None =>
            /\ obj[DATASETS[id]].id = id
            /\ obj[DATASETS[id]].st \in Alive

UsedInv ==
    \A h \in Handlers :
        handler[h].pc = "using" =>
            /\ h \in holders[handler[h].obj]
            /\ obj[handler[h].obj].st \in Alive

LoaderInv == \A o \in Objs : "loader" \in holders[o] => obj[o].st = "loading"

HeldInv == RegisteredInv /\ UsedInv /\ LoaderInv

LEMMA HeldInit == Init => HeldInv
  BY SomeIdInIds DEF Init, HeldInv, RegisteredInv, UsedInv, LoaderInv, Idle

\* When a party lets go of an object, the object dies only if nobody else has it.
LEMMA LetGoHeld ==
    ASSUME Typed, HeldInv, NEW o \in Objs, NEW p, NEW st \in Alive, LetGo(o, p, st),
           obj[o].st \in Alive, st = "loading" => obj[o].st = "loading",
           p # "loader" => st = obj[o].st,
           UNCHANGED DATASETS,
           \A h \in Handlers :
               handler'[h].pc = "using" => h # p /\ handler'[h] = handler[h]
    PROVE  HeldInv'
<1> USE DEF Typed, TypeOK, HandlersHave
<1>1. /\ obj'[o].id = obj[o].id
      /\ obj'[o].st = IF Last(o, p) THEN "dying" ELSE st
      /\ \A o2 \in Objs \ {o} : obj'[o2] = obj[o2]
  BY DEF LetGo
<1>2. /\ holders'[o] = holders[o] \ {p}
      /\ \A o2 \in Objs \ {o} : holders'[o2] = holders[o2]
  BY DEF LetGo
<1>3. RegisteredInv'
  <2> SUFFICES ASSUME NEW id \in Ids, DATASETS[id] # None
               PROVE  obj'[DATASETS[id]].id = id /\ obj'[DATASETS[id]].st \in Alive
    BY DEF RegisteredInv
  <2>1. /\ DATASETS[id] \in Objs
        /\ obj[DATASETS[id]].id = id /\ obj[DATASETS[id]].st \in Alive
    BY DEF HeldInv, RegisteredInv
  <2>2. QED
    BY <1>1, <2>1 DEF Last
<1>4. UsedInv'
  <2> SUFFICES ASSUME NEW h \in Handlers, handler'[h].pc = "using"
               PROVE  /\ h \in holders'[handler'[h].obj]
                      /\ obj'[handler'[h].obj].st \in Alive
    BY DEF UsedInv
  <2>1. /\ handler'[h] = handler[h] /\ h # p
        /\ handler[h].obj \in Objs /\ h \in holders[handler[h].obj]
        /\ obj[handler[h].obj].st \in Alive
    BY DEF HeldInv, UsedInv
  <2>2. QED
    BY <1>1, <1>2, <2>1 DEF Last
<1>5. LoaderInv'
  <2>1. ASSUME "loader" \in holders'[o] PROVE obj'[o].st = "loading"
    <3>1. p # "loader" /\ "loader" \in holders[o]
      BY <1>2, <2>1
    <3>2. obj[o].st = "loading"
      BY <3>1 DEF HeldInv, LoaderInv
    <3>3. QED
      BY <1>1, <3>1, <3>2 DEF Last
  <2>2. QED
    BY <1>1, <1>2, <2>1 DEF HeldInv, LoaderInv
<1>6. QED
  BY <1>3, <1>4, <1>5 DEF HeldInv

LEMMA HeldStep ==
    ASSUME Typed, HeldInv, [Next]_vars
    PROVE  HeldInv'
<1> USE DEF Typed, TypeOK, HandlersHave, history, Alive
<1>1. ASSUME NEW h \in Handlers, NEW id \in Ids, Use(h, id) PROVE HeldInv'
  <2>1. DATASETS[id] \in Objs /\ obj[DATASETS[id]].st \in Alive
    BY <1>1 DEF Use, Found, HeldInv, RegisteredInv
  <2>2. RegisteredInv'
    BY <1>1 DEF Use, HeldInv, RegisteredInv
  <2>3. UsedInv'
    BY <1>1, <2>1 DEF Use, HeldInv, UsedInv
  <2>4. LoaderInv'
    BY <1>1, LoaderAssumption DEF Use, HeldInv, LoaderInv
  <2>5. QED
    BY <2>2, <2>3, <2>4 DEF HeldInv
<1>2. ASSUME NEW h \in Handlers, NEW id \in Ids, Miss(h, id) PROVE HeldInv'
  BY <1>2 DEF Miss, HeldInv, RegisteredInv, UsedInv, LoaderInv
<1>3. ASSUME NEW h \in Handlers, NEW o \in Objs, Insert(h, o) PROVE HeldInv'
  <2> DEFINE i == handler[h].id
  <2>1. /\ obj[o].st = "unused"
        /\ obj'[o].id = i /\ obj'[o].st = "loading"
        /\ \A o2 \in Objs \ {o} : obj'[o2] = obj[o2]
        /\ holders'[o] = {"loader"}
        /\ \A o2 \in Objs \ {o} : holders'[o2] = holders[o2]
    BY <1>3 DEF Insert
  <2>2. DATASETS' = [DATASETS EXCEPT ![i] = IF DATASETS[i] = None THEN o ELSE DATASETS[i]]
    BY <1>3 DEF Insert
  <2>3. RegisteredInv'
    <3> SUFFICES ASSUME NEW id \in Ids, DATASETS'[id] # None
                 PROVE  /\ obj'[DATASETS'[id]].id = id
                        /\ obj'[DATASETS'[id]].st \in Alive
      BY DEF RegisteredInv
    <3>1. CASE DATASETS[id] # None
      <4>1. DATASETS'[id] = DATASETS[id]
        BY <2>2, <3>1
      <4>2. DATASETS[id] \in Objs \ {o}
        BY <2>1, <3>1 DEF HeldInv, RegisteredInv
      <4>3. QED
        BY <2>1, <3>1, <4>1, <4>2 DEF HeldInv, RegisteredInv
    <3>2. CASE DATASETS[id] = None
      <4>1. id = i /\ DATASETS'[id] = o
        BY <2>2, <3>2
      <4>2. QED
        BY <2>1, <4>1
    <3>3. QED
      BY <3>1, <3>2
  <2>4. UsedInv'
    <3> SUFFICES ASSUME NEW g \in Handlers, handler'[g].pc = "using"
                 PROVE  /\ g \in holders'[handler'[g].obj]
                        /\ obj'[handler'[g].obj].st \in Alive
      BY DEF UsedInv
    <3>1. handler'[g] = handler[g]
      BY <1>3 DEF Insert, Idle
    <3>2. handler[g].obj \in Objs \ {o}
      BY <2>1, <3>1 DEF HeldInv, UsedInv
    <3>3. QED
      BY <2>1, <3>1, <3>2 DEF HeldInv, UsedInv
  <2>5. LoaderInv'
    BY <2>1 DEF HeldInv, LoaderInv
  <2>6. QED
    BY <2>3, <2>4, <2>5 DEF HeldInv
<1>4. ASSUME NEW o \in Objs, Loaded(o) PROVE HeldInv'
  <2>1. obj[o].st = "loading"
    BY <1>4 DEF Loaded, HeldInv, LoaderInv
  <2>2. QED
    BY <1>4, <2>1, LetGoHeld, LoaderAssumption DEF Loaded
<1>5. ASSUME NEW h \in Handlers, Release(h) PROVE HeldInv'
  <2> DEFINE o == handler[h].obj
  <2>1. o \in Objs /\ obj[o].st \in Alive /\ LetGo(o, h, obj[o].st)
    BY <1>5 DEF Release, HeldInv, UsedInv
  <2>2. \A g \in Handlers : handler'[g].pc = "using" => g # h /\ handler'[g] = handler[g]
    BY <1>5 DEF Release, Idle
  <2>3. UNCHANGED DATASETS
    BY <1>5 DEF Release
  <2>4. QED
    BY <2>1, <2>2, <2>3, LetGoHeld, LoaderAssumption
<1>6. ASSUME NEW h \in Handlers, Destroyed(h) PROVE HeldInv'
  BY <1>6 DEF Destroyed, HeldInv, RegisteredInv, UsedInv, LoaderInv, Idle
<1>7. ASSUME NEW o \in Objs,
             StartPurge(o) \/ PurgeCheck(o) \/ PurgeDone(o) \/ PurgeTimeout(o)
      PROVE HeldInv'
  BY <1>7 DEF StartPurge, PurgeCheck, PurgeDone, PurgeTimeout, PurgeStep,
              HeldInv, RegisteredInv, UsedInv, LoaderInv
<1>8. ASSUME NEW o \in Objs, Destructor(o) PROVE HeldInv'
  <2>1. /\ obj[o].st \notin Alive
        /\ \A o2 \in Objs \ {o} : obj'[o2] = obj[o2]
        /\ UNCHANGED <<DATASETS, holders, handler>>
    BY <1>8 DEF Destructor, Terminate, Join, Save
  <2>2. \A o2 \in Objs : obj[o2].st \in Alive => obj'[o2] = obj[o2]
    BY <2>1
  <2>3. RegisteredInv'
    BY <2>1, <2>2 DEF HeldInv, RegisteredInv
  <2>4. UsedInv'
    BY <2>1, <2>2 DEF HeldInv, UsedInv
  <2>5. LoaderInv'
    BY <2>1, <2>2 DEF HeldInv, LoaderInv
  <2>6. QED
    BY <2>3, <2>4, <2>5 DEF HeldInv
<1>9. ASSUME NEW id \in Ids, DropEntry(id) PROVE HeldInv'
  <2> DEFINE o == DATASETS[id]
  <2>1. /\ o \in Objs
        /\ DATASETS' = [DATASETS EXCEPT ![id] = None]
        /\ UNCHANGED <<holders, handler>>
        /\ \A o2 \in Objs \ {o} : obj'[o2] = obj[o2]
        /\ holders[o] # {} => obj' = obj
    <3>1. o # None /\ DATASETS' = [DATASETS EXCEPT ![id] = None] /\ UNCHANGED <<holders, handler>>
      BY <1>9 DEF DropEntry
    <3>2. o \in Objs
      BY <3>1
    <3>3. \/ holders[o] = {} /\ obj' = [obj EXCEPT ![o].st = "dying"]
          \/ holders[o] # {} /\ obj' = obj
      BY <1>9 DEF DropEntry
    <3> HIDE DEF o
    <3>4. QED
      BY <3>1, <3>2, <3>3
  <2>2. RegisteredInv'
    BY <2>1 DEF HeldInv, RegisteredInv
  <2>3. UsedInv'
    BY <2>1 DEF HeldInv, UsedInv
  <2>4. LoaderInv'
    BY <2>1 DEF HeldInv, LoaderInv
  <2>5. QED
    BY <2>2, <2>3, <2>4 DEF HeldInv
<1>10. CASE \/ Interrupt \/ DropDone
            \/ Proceed("clearing", "cleared", Empty)
            \/ Proceed("cleared", "exiting", TRUE)
            \/ Proceed("exiting", "exited", Empty)
            \/ UNCHANGED vars
  <2>1. UNCHANGED <<DATASETS, obj, holders, handler>>
    BY <1>10 DEF Interrupt, DropDone, Proceed, vars
  <2>2. QED
    BY <2>1 DEF HeldInv, RegisteredInv, UsedInv, LoaderInv
<1>11. QED
  BY <1>1, <1>2, <1>3, <1>4, <1>5, <1>6, <1>7, <1>8, <1>9, <1>10
     DEF Next, Shutdown, Finished

(***************************************************************************)
(* An object that somebody holds is alive, and its destructor runs once.   *)
(***************************************************************************)

LEMMA HeldInvariance == Spec => [](Typed /\ HeldInv)
<1>1. Init => Typed /\ HeldInv
  BY TypedInit, HeldInit
<1>2. Typed /\ HeldInv /\ [Next]_vars => (Typed /\ HeldInv)'
  BY TypedStep, HeldStep
<1>3. QED
  BY <1>1, <1>2, PTL DEF Spec

\* In whatever order the loader, the requests and the map let go of an object, none of
\* them is left with one whose destructor has begun.
THEOREM HeldIsAliveHolds == Spec => []HeldIsAlive
<1>1. HeldInv => HeldIsAlive
  BY DEF HeldInv, RegisteredInv, UsedInv, LoaderInv, HeldIsAlive
<1>2. QED
  BY <1>1, HeldInvariance, PTL

\* Whoever runs a destructor runs one that has begun: the main thread ...
DroppedInv == dropped # None => obj[dropped].st \in Destructing \cup {"dead"}

\* ... and the requests, each that of another object, none that of the main thread.
DestroyingInv ==
    \A h \in Handlers :
        handler[h].pc = "destroying" =>
            /\ obj[handler[h].obj].st \in Destructing \cup {"dead"}
            /\ handler[h].obj # dropped
            /\ \A g \in Handlers :
                handler[g].pc = "destroying" /\ handler[g].obj = handler[h].obj => g = h

OnceInv == DroppedInv /\ DestroyingInv

LEMMA OnceInit == Init => OnceInv
  BY DEF Init, OnceInv, DroppedInv, DestroyingInv, Idle

\* A step that begins no destructor.
LEMMA OnceKept ==
    ASSUME Typed, OnceInv,
           \A o \in Objs :
               obj[o].st \in Destructing \cup {"dead"} =>
                   obj'[o].st \in Destructing \cup {"dead"},
           \A h \in Handlers : handler'[h].pc = "destroying" => handler'[h] = handler[h],
           dropped' \in {dropped, None}
    PROVE  OnceInv'
<1> USE DEF Typed, TypeOK, HandlersHave
<1>1. DroppedInv'
  BY DEF OnceInv, DroppedInv
<1>2. DestroyingInv'
  <2> SUFFICES ASSUME NEW h \in Handlers, handler'[h].pc = "destroying"
               PROVE  /\ obj'[handler'[h].obj].st \in Destructing \cup {"dead"}
                      /\ handler'[h].obj # dropped'
                      /\ \A g \in Handlers :
                            /\ handler'[g].pc = "destroying"
                            /\ handler'[g].obj = handler'[h].obj
                            => g = h
    BY DEF DestroyingInv
  <2>1. handler'[h] = handler[h] /\ handler[h].obj \in Objs
    OBVIOUS
  <2>2. /\ obj[handler[h].obj].st \in Destructing \cup {"dead"}
        /\ handler[h].obj # dropped /\ handler[h].obj # None
    BY <2>1, NoneAssumption DEF OnceInv, DestroyingInv
  <2>3. \A g \in Handlers :
            handler'[g].pc = "destroying" /\ handler'[g].obj = handler'[h].obj => g = h
    BY <2>1 DEF OnceInv, DestroyingInv
  <2>4. QED
    BY <2>1, <2>2, <2>3
<1>3. QED
  BY <1>1, <1>2 DEF OnceInv

LEMMA OnceStep ==
    ASSUME Typed, HeldInv, OnceInv, [Next]_vars
    PROVE  OnceInv'
<1> USE DEF Typed, TypeOK, HandlersHave, history, Alive, Destructing
<1>1. ASSUME NEW h \in Handlers, NEW id \in Ids, Use(h, id) \/ Miss(h, id) PROVE OnceInv'
  <2>1. \A g \in Handlers : handler'[g].pc = "destroying" => handler'[g] = handler[g]
    BY <1>1 DEF Use, Miss
  <2>2. UNCHANGED <<obj, dropped>>
    BY <1>1 DEF Use, Miss
  <2>3. QED
    BY <2>1, <2>2, OnceKept
<1>2. ASSUME NEW h \in Handlers, NEW o \in Objs, Insert(h, o) PROVE OnceInv'
  <2>1. /\ obj[o].st = "unused" /\ \A o2 \in Objs \ {o} : obj'[o2] = obj[o2]
        /\ dropped' = dropped
    BY <1>2 DEF Insert
  <2>2. \A g \in Handlers : handler'[g].pc = "destroying" => handler'[g] = handler[g]
    BY <1>2 DEF Insert, Idle
  <2>3. QED
    BY <2>1, <2>2, OnceKept
<1>3. ASSUME NEW o \in Objs, Loaded(o) PROVE OnceInv'
  <2>1. obj[o].st = "loading"
    BY <1>3 DEF Loaded, HeldInv, LoaderInv
  <2>2. /\ \A o2 \in Objs \ {o} : obj'[o2] = obj[o2]
        /\ UNCHANGED <<handler, dropped>>
    BY <1>3 DEF Loaded, LetGo
  <2>3. QED
    BY <2>1, <2>2, OnceKept
<1>4. ASSUME NEW h \in Handlers, Release(h) PROVE OnceInv'
  <2> DEFINE o == handler[h].obj
  <2>1. /\ o \in Objs /\ obj[o].st \in Alive /\ handler[h].pc = "using"
    BY <1>4 DEF Release, HeldInv, UsedInv
  <2>2. /\ \A o2 \in Objs \ {o} : obj'[o2] = obj[o2]
        /\ \A g \in Handlers \ {h} : handler'[g] = handler[g]
        /\ UNCHANGED dropped
    BY <1>4 DEF Release, LetGo
  <2>3. CASE Last(o, h)
    <3>1. /\ handler'[h].obj = o /\ handler'[h].pc = "destroying"
          /\ obj'[o].st = "dying"
      BY <1>4, <2>3 DEF Release, LetGo
    <3>2. o # dropped
      BY <2>1, NoneAssumption DEF OnceInv, DroppedInv
    <3>3. \A g \in Handlers : handler[g].pc = "destroying" => handler[g].obj # o
      BY <2>1 DEF OnceInv, DestroyingInv
    <3>4. DroppedInv'
      BY <2>2, <3>2 DEF OnceInv, DroppedInv
    <3>5. ASSUME NEW g \in Handlers, handler'[g].pc = "destroying"
          PROVE  /\ obj'[handler'[g].obj].st \in Destructing \cup {"dead"}
                 /\ handler'[g].obj # dropped'
      <4>1. CASE g = h
        BY <2>2, <3>1, <3>2, <4>1
      <4>2. CASE g # h
        <5>1. handler'[g] = handler[g] /\ handler[g].obj \in Objs \ {o}
          BY <2>2, <3>3, <3>5, <4>2
        <5>2. QED
          BY <2>2, <3>5, <5>1 DEF OnceInv, DestroyingInv
      <4>3. QED
        BY <4>1, <4>2
    <3>6. ASSUME NEW f \in Handlers, NEW g \in Handlers,
                 handler'[f].pc = "destroying", handler'[g].pc = "destroying",
                 handler'[f].obj = handler'[g].obj
          PROVE  f = g
      BY <2>2, <3>1, <3>3, <3>6 DEF OnceInv, DestroyingInv
    <3>7. QED
      BY <3>4, <3>5, <3>6 DEF OnceInv, DestroyingInv
  <2>4. CASE ~ Last(o, h)
    <3>1. handler'[h] = Idle
      BY <1>4, <2>4 DEF Release
    <3>2. \A g \in Handlers : handler'[g].pc = "destroying" => handler'[g] = handler[g]
      BY <2>2, <3>1 DEF Idle
    <3>3. QED
      BY <2>1, <2>2, <3>2, OnceKept
  <2>5. QED
    BY <2>3, <2>4
<1>5. ASSUME NEW h \in Handlers, Destroyed(h) PROVE OnceInv'
  <2>1. \A g \in Handlers : handler'[g].pc = "destroying" => handler'[g] = handler[g]
    BY <1>5 DEF Destroyed, Idle
  <2>2. UNCHANGED <<obj, dropped>>
    BY <1>5 DEF Destroyed
  <2>3. QED
    BY <2>1, <2>2, OnceKept
<1>6. ASSUME NEW o \in Objs,
             StartPurge(o) \/ PurgeCheck(o) \/ PurgeDone(o) \/ PurgeTimeout(o)
      PROVE OnceInv'
  <2>1. UNCHANGED <<obj, handler, dropped>>
    BY <1>6 DEF StartPurge, PurgeCheck, PurgeDone, PurgeTimeout, PurgeStep
  <2>2. QED
    BY <2>1, OnceKept
<1>7. ASSUME NEW o \in Objs, Destructor(o) PROVE OnceInv'
  <2>1. /\ obj'[o].st \in Destructing \cup {"dead"}
        /\ \A o2 \in Objs \ {o} : obj'[o2] = obj[o2]
        /\ UNCHANGED <<handler, dropped>>
    BY <1>7 DEF Destructor, Terminate, Join, Save
  <2>2. QED
    BY <2>1, OnceKept
<1>8. ASSUME NEW id \in Ids, DropEntry(id) PROVE OnceInv'
  <2> DEFINE o == DATASETS[id]
  <2>1. /\ o \in Objs /\ obj[o].st \in Alive /\ dropped = None
        /\ UNCHANGED handler
    BY <1>8 DEF DropEntry, HeldInv, RegisteredInv
  <2>2. \A g \in Handlers : handler[g].pc = "destroying" => handler[g].obj # o
    BY <2>1 DEF OnceInv, DestroyingInv
  <2> HIDE DEF o
  <2>3. CASE holders[o] = {}
    <3>1. /\ dropped' = o /\ obj'[o].st = "dying"
          /\ \A o2 \in Objs \ {o} : obj'[o2] = obj[o2]
      BY <1>8, <2>1, <2>3 DEF DropEntry, o
    <3>2. DroppedInv'
      BY <3>1 DEF DroppedInv
    <3>3. DestroyingInv'
      BY <2>1, <2>2, <3>1 DEF OnceInv, DestroyingInv
    <3>4. QED
      BY <3>2, <3>3 DEF OnceInv
  <2>4. CASE holders[o] # {}
    <3>1. UNCHANGED <<obj, dropped>>
      BY <1>8, <2>4 DEF DropEntry, o
    <3>2. QED
      BY <2>1, <3>1, OnceKept
  <2>5. QED
    BY <2>3, <2>4
<1>9. CASE \/ Interrupt \/ DropDone
           \/ Proceed("clearing", "cleared", Empty)
           \/ Proceed("cleared", "exiting", TRUE)
           \/ Proceed("exiting", "exited", Empty)
           \/ UNCHANGED vars
  <2>1. UNCHANGED <<obj, handler>> /\ dropped' \in {dropped, None}
    BY <1>9 DEF Interrupt, DropDone, Proceed, vars
  <2>2. QED
    BY <2>1, OnceKept
<1>10. QED
  BY <1>1, <1>2, <1>3, <1>4, <1>5, <1>6, <1>7, <1>8, <1>9
     DEF Next, Shutdown, Finished

\* No object is destroyed twice, neither by two requests that let go of it together
\* nor by a request and the main thread.
THEOREM DestroyedOnceHolds == Spec => []DestroyedOnce
<1>1. Init => OnceInv
  BY OnceInit
<1>2. Typed /\ HeldInv /\ OnceInv /\ [Next]_vars => OnceInv'
  BY OnceStep
<1>3. Typed /\ OnceInv => DestroyedOnce
  <2> SUFFICES ASSUME Typed, OnceInv, NEW o \in Objs
               PROVE  /\ Destroying(o) # {} => obj[o].st \in Destructing \cup {"dead"}
                      /\ \A p, q \in Destroying(o) : p = q
    BY DEF DestroyedOnce
  <2>1. CASE dropped = o
    <3>1. Destroying(o) = {"main"}
      BY <2>1 DEF Destroying, OnceInv, DestroyingInv
    <3>2. o # None
      BY NoneAssumption
    <3>3. QED
      BY <2>1, <3>1, <3>2 DEF OnceInv, DroppedInv
  <2>2. CASE dropped # o
    <3>1. \A h \in Destroying(o) :
            h \in Handlers /\ handler[h].pc = "destroying" /\ handler[h].obj = o
      BY <2>2 DEF Destroying
    <3>2. QED
      BY <3>1 DEF OnceInv, DestroyingInv
  <2>3. QED
    BY <2>1, <2>2
<1>4. QED
  BY <1>1, <1>2, <1>3, HeldInvariance, PTL DEF Spec

(***************************************************************************)
(* One object for a dataset.  While the server runs DATASETS keeps what it *)
(* has, so an object that is not there came second, and whoever is about   *)
(* to insert a second one looked the dataset up together with the first.   *)
(***************************************************************************)

RegisteredWhileRunning ==
    main = "running" =>
        /\ \A o \in Objs :
            obj[o].st # "unused" => DATASETS[obj[o].id] = o \/ obj[o].id \in raced
        /\ \A h \in Handlers :
            handler[h].pc = "missing" /\ DATASETS[handler[h].id] # None =>
                handler[h].id \in raced
        /\ \A g, h \in Handlers :
            g # h /\ handler[g].pc = "missing" /\ handler[h].pc = "missing"
                /\ handler[g].id = handler[h].id => handler[g].id \in raced

SingleInv == RegisteredWhileRunning /\ OneObject

LEMMA SingleInit == Init => SingleInv
  BY DEF Init, SingleInv, RegisteredWhileRunning, OneObject, Exists, Alive, Destructing, Idle

\* A step that creates no object, lets no request look one up and takes nothing from
\* DATASETS as long as the server runs.
LEMMA SingleKept ==
    ASSUME Typed, SingleInv,
           \A o \in Objs : obj'[o].id = obj[o].id /\ (obj[o].st = "unused" => obj'[o] = obj[o]),
           \A o \in Objs : Exists(o)' => Exists(o),
           main' = "running" => main = "running" /\ UNCHANGED DATASETS,
           \A h \in Handlers : handler'[h].pc = "missing" => handler'[h] = handler[h],
           UNCHANGED <<raced, reborn>>
    PROVE  SingleInv'
<1>1. OneObject'
  BY DEF SingleInv, OneObject
<1>2. RegisteredWhileRunning'
  BY DEF SingleInv, RegisteredWhileRunning
<1>3. QED
  BY <1>1, <1>2 DEF SingleInv

LEMMA SingleStep ==
    ASSUME Typed, HeldInv, SingleInv, [Next]_vars
    PROVE  SingleInv'
<1> USE DEF Typed, TypeOK, HandlersHave, history, Exists, Alive, Destructing
<1>1. ASSUME NEW h \in Handlers, NEW id \in Ids, Use(h, id) PROVE SingleInv'
  <2>1. \A g \in Handlers : handler'[g].pc = "missing" => handler'[g] = handler[g]
    BY <1>1 DEF Use
  <2>2. QED
    BY <1>1, <2>1, SingleKept DEF Use
<1>2. ASSUME NEW h \in Handlers, NEW id \in Ids, Miss(h, id) PROVE SingleInv'
  <2>1. OneObject'
    BY <1>2 DEF Miss, SingleInv, OneObject
  <2>2. ASSUME main = "running" PROVE RegisteredWhileRunning'
    <3>1. /\ handler'[h] = [pc |-> "missing", id |-> id, obj |-> None]
          /\ \A g \in Handlers \ {h} : handler'[g] = handler[g]
          /\ DATASETS[id] = None
          /\ UNCHANGED <<DATASETS, obj, main>>
          /\ raced \subseteq raced'
          /\ \A g \in Handlers :
                handler[g].pc = "missing" /\ handler[g].id = id => id \in raced'
      BY <1>2 DEF Miss, Found
    <3>2. \A o \in Objs :
            obj'[o].st # "unused" => DATASETS'[obj'[o].id] = o \/ obj'[o].id \in raced'
      BY <2>2, <3>1 DEF SingleInv, RegisteredWhileRunning
    <3>3. \A g \in Handlers :
            handler'[g].pc = "missing" /\ DATASETS'[handler'[g].id] # None =>
                handler'[g].id \in raced'
      BY <2>2, <3>1 DEF SingleInv, RegisteredWhileRunning
    <3>4. ASSUME NEW f \in Handlers, NEW g \in Handlers, f # g,
                 handler'[f].pc = "missing", handler'[g].pc = "missing",
                 handler'[f].id = handler'[g].id
          PROVE  handler'[f].id \in raced'
      BY <2>2, <3>1, <3>4 DEF SingleInv, RegisteredWhileRunning
    <3>5. QED
      BY <3>2, <3>3, <3>4 DEF RegisteredWhileRunning
  <2>3. main # "running" => RegisteredWhileRunning'
    BY <1>2 DEF Miss, RegisteredWhileRunning
  <2>4. QED
    BY <2>1, <2>2, <2>3 DEF SingleInv
<1>3. ASSUME NEW h \in Handlers, NEW o \in Objs, Insert(h, o) PROVE SingleInv'
  <2> DEFINE i == handler[h].id
  <2>1. /\ handler[h].pc = "missing" /\ i \in Ids
        /\ obj[o].st = "unused"
        /\ obj'[o] = [id |-> i, st |-> "loading"]
        /\ \A o2 \in Objs \ {o} : obj'[o2] = obj[o2]
        /\ UNCHANGED <<main, raced>>
        /\ reborn \subseteq reborn'
        /\ main # "running" => i \in reborn'
        /\ \A g \in Handlers :
              handler'[g].pc = "missing" => g # h /\ handler'[g] = handler[g]
    BY <1>3 DEF Insert, Idle
  <2>2. DATASETS' = [DATASETS EXCEPT ![i] = IF DATASETS[i] = None THEN o ELSE DATASETS[i]]
    BY <1>3 DEF Insert
  <2>3. /\ \A id \in Ids : DATASETS[id] # None => DATASETS'[id] = DATASETS[id]
        /\ \A id \in Ids \ {i} : DATASETS'[id] = DATASETS[id]
        /\ DATASETS[i] = None => DATASETS'[i] = o
    BY <2>2
  <2>4. \A o2 \in Objs \ {o} :
          obj[o2].st # "unused" /\ obj[o2].id = i /\ main = "running" => i \in raced
    BY <2>1, NoneAssumption DEF SingleInv, RegisteredWhileRunning
  <2>5. OneObject'
    BY <2>1, <2>4 DEF SingleInv, OneObject
  <2>6. ASSUME main = "running" PROVE RegisteredWhileRunning'
    <3>1. ASSUME NEW o2 \in Objs, obj'[o2].st # "unused"
          PROVE  DATASETS'[obj'[o2].id] = o2 \/ obj'[o2].id \in raced'
      <4>1. CASE o2 = o
        BY <2>1, <2>3, <2>6, <4>1 DEF SingleInv, RegisteredWhileRunning
      <4>2. CASE o2 # o
        BY <2>1, <2>3, <2>6, <3>1, <4>2, NoneAssumption DEF SingleInv, RegisteredWhileRunning
      <4>3. QED
        BY <4>1, <4>2
    <3>2. ASSUME NEW g \in Handlers, handler'[g].pc = "missing",
                 DATASETS'[handler'[g].id] # None
          PROVE  handler'[g].id \in raced'
      <4>1. g # h /\ handler'[g] = handler[g] /\ handler[g].id \in Ids
        BY <2>1, <3>2
      <4>2. CASE handler[g].id = i
        BY <2>1, <2>6, <3>2, <4>1, <4>2 DEF SingleInv, RegisteredWhileRunning
      <4>3. CASE handler[g].id # i
        BY <2>1, <2>3, <2>6, <3>2, <4>1, <4>3 DEF SingleInv, RegisteredWhileRunning
      <4>4. QED
        BY <4>2, <4>3
    <3>3. ASSUME NEW f \in Handlers, NEW g \in Handlers, f # g,
                 handler'[f].pc = "missing", handler'[g].pc = "missing",
                 handler'[f].id = handler'[g].id
          PROVE  handler'[f].id \in raced'
      BY <2>1, <2>6, <3>3 DEF SingleInv, RegisteredWhileRunning
    <3>4. QED
      BY <3>1, <3>2, <3>3 DEF RegisteredWhileRunning
  <2>7. main # "running" => RegisteredWhileRunning'
    BY <2>1 DEF RegisteredWhileRunning
  <2>8. QED
    BY <2>5, <2>6, <2>7 DEF SingleInv
<1>4. ASSUME NEW o \in Objs, Loaded(o) PROVE SingleInv'
  <2>1. obj[o].st = "loading"
    BY <1>4 DEF Loaded, HeldInv, LoaderInv
  <2>2. QED
    BY <1>4, <2>1, SingleKept DEF Loaded, LetGo
<1>5. ASSUME NEW h \in Handlers, Release(h) PROVE SingleInv'
  <2> DEFINE o == handler[h].obj
  <2>1. o \in Objs /\ obj[o].st \in Alive
    BY <1>5 DEF Release, HeldInv, UsedInv
  <2>2. \A g \in Handlers : handler'[g].pc = "missing" => handler'[g] = handler[g]
    BY <1>5 DEF Release, Idle
  <2>3. /\ obj' = [obj EXCEPT ![o].st = IF Last(o, h) THEN "dying" ELSE obj[o].st]
        /\ UNCHANGED <<DATASETS, main, raced, reborn>>
    BY <1>5 DEF Release, LetGo
  <2>4. QED
    BY <2>1, <2>2, <2>3, SingleKept
<1>6. ASSUME NEW h \in Handlers, Destroyed(h) PROVE SingleInv'
  BY <1>6, SingleKept DEF Destroyed, Idle
<1>7. ASSUME NEW o \in Objs,
             StartPurge(o) \/ PurgeCheck(o) \/ PurgeDone(o) \/ PurgeTimeout(o)
      PROVE SingleInv'
  BY <1>7, SingleKept DEF StartPurge, PurgeCheck, PurgeDone, PurgeTimeout, PurgeStep
<1>8. ASSUME NEW o \in Objs, Destructor(o) PROVE SingleInv'
  <2>1. /\ obj[o].st \in Destructing
        /\ obj'[o].id = obj[o].id
        /\ \A o2 \in Objs \ {o} : obj'[o2] = obj[o2]
        /\ UNCHANGED <<DATASETS, handler, main, raced, reborn>>
    BY <1>8 DEF Destructor, Terminate, Join, Save
  <2>2. QED
    BY <2>1, SingleKept
<1>9. ASSUME NEW id \in Ids, DropEntry(id) PROVE SingleInv'
  <2>1. DATASETS[id] \in Objs /\ obj[DATASETS[id]].st \in Alive
    BY <1>9 DEF DropEntry, HeldInv, RegisteredInv
  <2>2. QED
    BY <1>9, <2>1, SingleKept DEF DropEntry
<1>10. CASE \/ Interrupt \/ DropDone
            \/ Proceed("clearing", "cleared", Empty)
            \/ Proceed("cleared", "exiting", TRUE)
            \/ Proceed("exiting", "exited", Empty)
            \/ UNCHANGED vars
  BY <1>10, SingleKept DEF Interrupt, DropDone, Proceed, vars
<1>11. QED
  BY <1>1, <1>2, <1>3, <1>4, <1>5, <1>6, <1>7, <1>8, <1>9, <1>10
     DEF Next, Shutdown, Finished

\* Only two requests that look a dataset up together, or one that comes after
\* DATASETS has been cleared, can lead to two objects for a dataset.
THEOREM OneObjectHolds == Spec => []OneObject
<1>1. Init => SingleInv
  BY SingleInit
<1>2. Typed /\ HeldInv /\ SingleInv /\ [Next]_vars => SingleInv'
  BY SingleStep
<1>3. SingleInv => OneObject
  BY DEF SingleInv
<1>4. QED
  BY <1>1, <1>2, <1>3, HeldInvariance, PTL DEF Spec

(***************************************************************************)
(* What the shutdown saves.  An object is in DATASETS, or its destructor   *)
(* is run by the main thread, or it is one of those that may be lost.      *)
(***************************************************************************)

TrackedInv ==
    \A o \in Objs :
        /\ obj[o].st \in Alive => DATASETS[obj[o].id] = o \/ o \in orphan \cup busy
        /\ obj[o].st \in Destructing => dropped = o \/ o \in orphan \cup busy

ExitedInv ==
    main = "exited" => dropped = None /\ \A id \in Ids : DATASETS[id] = None

SavedInv == TrackedInv /\ ExitedInv

LEMMA SavedInit == Init => SavedInv
  BY DEF Init, SavedInv, TrackedInv, ExitedInv, Alive, Destructing

\* A step that leaves DATASETS alone and makes no object worse than it was.
LEMMA SavedKept ==
    ASSUME SavedInv,
           UNCHANGED <<DATASETS, dropped, orphan, busy>>,
           main' = "exited" => main = "exited",
           \A o \in Objs :
               /\ obj'[o].st \in Alive => obj[o].st \in Alive /\ obj'[o].id = obj[o].id
               /\ obj'[o].st \in Destructing =>
                    \/ obj[o].st \in Destructing
                    \/ obj[o].st \in Alive /\ DATASETS[obj[o].id] # o
    PROVE  SavedInv'
  BY DEF SavedInv, TrackedInv, ExitedInv

LEMMA SavedStep ==
    ASSUME Typed, HeldInv, SavedInv, [Next]_vars
    PROVE  SavedInv'
<1> USE DEF Typed, TypeOK, HandlersHave, history, Alive, Destructing
<1>1. ASSUME NEW h \in Handlers, NEW id \in Ids, Use(h, id) \/ Miss(h, id) PROVE SavedInv'
  BY <1>1, SavedKept DEF Use, Miss
<1>2. ASSUME NEW h \in Handlers, NEW o \in Objs, Insert(h, o) PROVE SavedInv'
  <2> DEFINE i == handler[h].id
  <2>1. /\ i \in Ids
        /\ obj'[o] = [id |-> i, st |-> "loading"]
        /\ \A o2 \in Objs \ {o} : obj'[o2] = obj[o2]
        /\ UNCHANGED <<main, dropped, busy>>
        /\ main # "exited"
        /\ orphan \subseteq orphan'
        /\ DATASETS[i] # None => o \in orphan'
    BY <1>2 DEF Insert, Served
  <2>2. /\ \A id \in Ids : DATASETS[id] # None => DATASETS'[id] = DATASETS[id]
        /\ DATASETS[i] = None => DATASETS'[i] = o
    BY <1>2 DEF Insert
  <2>3. TrackedInv'
    BY <2>1, <2>2, NoneAssumption DEF SavedInv, TrackedInv
  <2>4. QED
    BY <2>1, <2>3 DEF SavedInv, ExitedInv
<1>3. ASSUME NEW o \in Objs, Loaded(o) PROVE SavedInv'
  <2>1. obj[o].st = "loading"
    BY <1>3 DEF Loaded, HeldInv, LoaderInv
  <2>2. QED
    BY <1>3, <2>1, SavedKept DEF Loaded, LetGo, Last
<1>4. ASSUME NEW h \in Handlers, Release(h) PROVE SavedInv'
  <2> DEFINE o == handler[h].obj
  <2>1. o \in Objs /\ obj[o].st \in Alive
    BY <1>4 DEF Release, HeldInv, UsedInv
  <2>2. /\ obj' = [obj EXCEPT ![o].st = IF Last(o, h) THEN "dying" ELSE obj[o].st]
        /\ UNCHANGED <<DATASETS, main, dropped, orphan, busy>>
    BY <1>4 DEF Release, LetGo
  <2>3. QED
    BY <2>1, <2>2, SavedKept DEF Last
<1>5. ASSUME NEW h \in Handlers, Destroyed(h) PROVE SavedInv'
  BY <1>5, SavedKept DEF Destroyed
<1>6. ASSUME NEW o \in Objs,
             StartPurge(o) \/ PurgeCheck(o) \/ PurgeDone(o) \/ PurgeTimeout(o)
      PROVE SavedInv'
  BY <1>6, SavedKept DEF StartPurge, PurgeCheck, PurgeDone, PurgeTimeout, PurgeStep
<1>7. ASSUME NEW o \in Objs, Destructor(o) PROVE SavedInv'
  <2>1. /\ obj[o].st \in Destructing
        /\ obj'[o].st \in Destructing \cup {"dead"}
        /\ \A o2 \in Objs \ {o} : obj'[o2] = obj[o2]
        /\ UNCHANGED <<DATASETS, main, dropped, orphan, busy>>
    BY <1>7 DEF Destructor, Terminate, Join, Save
  <2>2. QED
    BY <2>1, SavedKept
<1>8. ASSUME NEW id \in Ids, DropEntry(id) PROVE SavedInv'
  <2> DEFINE o == DATASETS[id]
  <2>1. /\ o \in Objs /\ obj[o].id = id
        /\ main \in {"clearing", "exiting"} /\ UNCHANGED <<main, orphan>>
        /\ dropped = None
        /\ DATASETS' = [DATASETS EXCEPT ![id] = None]
        /\ \A o2 \in Objs \ {o} : obj'[o2] = obj[o2]
        /\ busy \subseteq busy'
    BY <1>8 DEF DropEntry, HeldInv, RegisteredInv
  <2>2. \/ obj'[o].st = "dying" /\ dropped' = o
        \/ o \in busy' /\ UNCHANGED dropped
    BY <1>8, <2>1 DEF DropEntry
  <2>3. ASSUME NEW o2 \in Objs
        PROVE  /\ obj'[o2].st \in Alive =>
                    DATASETS'[obj'[o2].id] = o2 \/ o2 \in orphan' \cup busy'
               /\ obj'[o2].st \in Destructing => dropped' = o2 \/ o2 \in orphan' \cup busy'
    <3>1. CASE o2 = o
      BY <2>1, <2>2, <3>1
    <3>2. CASE o2 # o
      <4>1. /\ obj[o2].st \in Alive => DATASETS[obj[o2].id] = o2 \/ o2 \in orphan \cup busy
            /\ obj[o2].st \in Destructing => o2 \in orphan \cup busy
        BY <2>1, NoneAssumption DEF SavedInv, TrackedInv
      <4>2. DATASETS[obj[o2].id] = o2 => DATASETS'[obj[o2].id] = o2
        BY <2>1, <3>2
      <4>3. QED
        BY <2>1, <3>2, <4>1, <4>2
    <3>3. QED
      BY <3>1, <3>2
  <2>4. QED
    BY <2>1, <2>3 DEF SavedInv, TrackedInv, ExitedInv
<1>9. CASE DropDone
  <2>1. /\ dropped \in Objs /\ obj[dropped].st = "dead" /\ dropped' = None
        /\ UNCHANGED <<DATASETS, obj, main, orphan, busy>>
    BY <1>9 DEF DropDone
  <2>2. QED
    BY <2>1 DEF SavedInv, TrackedInv, ExitedInv
<1>10. CASE Proceed("exiting", "exited", Empty)
  BY <1>10 DEF Proceed, Empty, SavedInv, TrackedInv, ExitedInv
<1>11. CASE \/ Interrupt
            \/ Proceed("clearing", "cleared", Empty)
            \/ Proceed("cleared", "exiting", TRUE)
            \/ UNCHANGED vars
  BY <1>11, SavedKept DEF Interrupt, Proceed, vars
<1>12. QED
  BY <1>1, <1>2, <1>3, <1>4, <1>5, <1>6, <1>7, <1>8, <1>9, <1>10, <1>11
     DEF Next, Shutdown, Finished

\* The end of the process loses only what a loader or a request was using when the
\* main thread let go of it, and what never came into DATASETS.
THEOREM ShutdownSavesHolds == Spec => []ShutdownSaves
<1>1. Init => SavedInv
  BY SavedInit
<1>2. Typed /\ HeldInv /\ SavedInv /\ [Next]_vars => SavedInv'
  BY SavedStep
<1>3. Typed /\ SavedInv => ShutdownSaves
  <2> SUFFICES ASSUME Typed, SavedInv, main = "exited", NEW o \in Objs
               PROVE  obj[o].st \in {"unused", "dead"} \/ o \in orphan \cup busy
    BY DEF ShutdownSaves
  <2>1. obj[o].st \in States /\ obj[o].id \in Ids
    BY DEF Typed, TypeOK
  <2>2. QED
    BY <2>1, NoneAssumption
       DEF SavedInv, TrackedInv, ExitedInv, States, Alive, Destructing
<1>4. QED
  BY <1>1, <1>2, <1>3, HeldInvariance, PTL DEF Spec

=============================================================================
