------------------------------ MODULE Registry ------------------------------
(***************************************************************************)
(* The datasets of the server, from the request that opens one to the      *)
(* shutdown that saves it (DATASETS, get_dataset, insert_dataset,          *)
(* execute_fits and signalHandler in src/src/main_uWS.cpp; ~FITS and the   *)
(* purge thread in src/src/fits.cpp).                                      *)
(*                                                                         *)
(* Several event loops serve requests at the same time.  A dataset is kept *)
(* alive by shared pointers: that of DATASETS, that of the thread which    *)
(* loads it, and those of the requests at work on it.  Whoever drops the   *)
(* last one runs the destructor, which stops the purge thread and writes   *)
(* the cache files (module Persistence has what it writes).                *)
(*                                                                         *)
(* A section under fits_mutex is one step, but the main thread holds it    *)
(* over all the destructors that DATASETS.clear() runs.                    *)
(***************************************************************************)
EXTENDS Naturals

CONSTANTS
    Ids,        \* names of datasets
    Objs,       \* bound on the FITS objects created in a run of the server
    Handlers,   \* requests served at a time
    None        \* no object

ASSUME NoneAssumption == None \notin Objs
ASSUME IdsAssumption == Ids # {}
ASSUME LoaderAssumption == "loader" \notin Handlers

VARIABLES
    DATASETS,   \* id -> its object, or None
    obj,        \* object -> its dataset and its state
    purge,      \* object -> where its purge thread is
    holders,    \* object -> the requests and the loader ("loader") that hold it
    handler,    \* request -> where it is, and the dataset and object it is about
    main,       \* the main thread, where SIGINT is handled
    dropped,    \* the object whose destructor the main thread is running, or None
    raced,      \* history: datasets looked up while another request was to insert them
    reborn,     \* history: datasets inserted after SIGINT
    orphan,     \* history: objects that came too late to be registered
    busy        \* history: objects that were in use when the main thread dropped them

history == <<raced, reborn, orphan, busy>>
vars == <<DATASETS, obj, purge, holders, handler, main, dropped, history>>

\* Held ("loaded" once its loader is done), then its destructor: "dying" until the
\* purge thread has been joined, "saving", "dead".
States == {"unused", "loading", "loaded", "dying", "joining", "saving", "dead"}
Alive == {"loading", "loaded"}
Destructing == {"dying", "joining", "saving"}

TypeOK ==
    /\ DATASETS \in [Ids -> Objs \cup {None}]
    /\ obj \in [Objs -> [id : Ids, st : States]]
    /\ purge \in [Objs -> {"none", "check", "purge", "wait", "gone"}]
    /\ holders \in [Objs -> SUBSET (Handlers \cup {"loader"})]
    /\ handler \in [Handlers -> [pc : {"idle", "missing", "using", "destroying"},
                                 id : Ids, obj : Objs \cup {None}]]
    /\ main \in {"running", "clearing", "cleared", "exiting", "exited"}
    /\ dropped \in Objs \cup {None}
    /\ raced \in SUBSET Ids /\ reborn \in SUBSET Ids
    /\ orphan \in SUBSET Objs /\ busy \in SUBSET Objs

SomeId == CHOOSE id \in Ids : TRUE
Idle == [pc |-> "idle", id |-> SomeId, obj |-> None]

Init ==
    /\ DATASETS = [id \in Ids |-> None]
    /\ obj = [o \in Objs |-> [id |-> SomeId, st |-> "unused"]]
    /\ purge = [o \in Objs |-> "none"]
    /\ holders = [o \in Objs |-> {}]
    /\ handler = [h \in Handlers |-> Idle]
    /\ main = "running"
    /\ dropped = None
    /\ raced = {} /\ reborn = {} /\ orphan = {} /\ busy = {}

-----------------------------------------------------------------------------
(* Operators the specification does not use and that stand before the one   *)
(* they vary are faulty variants of it: with them the property they are     *)
(* meant for must fail.                                                     *)

\* exit() ends every thread; what the others do to the map while its static
\* destructor runs is undefined and left out.
Served == main \in {"running", "cleared"}

FoundLoaded(id) == DATASETS[id] # None /\ obj[DATASETS[id]].st # "loading"
Found(id) == DATASETS[id] # None

\* get_dataset for a request that works on the dataset.
Use(h, id) ==
    /\ Served
    /\ handler[h].pc = "idle"
    /\ Found(id)
    /\ handler' = [handler EXCEPT ![h] = [pc |-> "using", id |-> id, obj |-> DATASETS[id]]]
    /\ holders' = [holders EXCEPT ![DATASETS[id]] = @ \cup {h}]
    /\ UNCHANGED <<DATASETS, obj, purge, main, dropped, history>>

\* execute_fits: get_dataset finds nothing ...
Miss(h, id) ==
    /\ Served
    /\ handler[h].pc = "idle"
    /\ ~ Found(id)
    /\ handler' = [handler EXCEPT ![h] = [pc |-> "missing", id |-> id, obj |-> None]]
    /\ raced' = IF \E g \in Handlers : handler[g].pc = "missing" /\ handler[g].id = id
                THEN raced \cup {id} ELSE raced
    /\ UNCHANGED <<DATASETS, obj, purge, holders, main, dropped, reborn, orphan, busy>>

\* ... and in a second section a new object is inserted, unless the map has one by
\* now, and given to a thread that loads it.
Insert(h, o) ==
    LET id == handler[h].id IN
    /\ Served
    /\ handler[h].pc = "missing"
    /\ obj[o].st = "unused"
    /\ obj' = [obj EXCEPT ![o] = [id |-> id, st |-> "loading"]]
    /\ holders' = [holders EXCEPT ![o] = {"loader"}]
    /\ DATASETS' = [DATASETS EXCEPT ![id] = IF @ = None THEN o ELSE @]
    /\ orphan' = IF DATASETS[id] = None THEN orphan ELSE orphan \cup {o}
    /\ reborn' = IF main = "running" THEN reborn ELSE reborn \cup {id}
    /\ handler' = [handler EXCEPT ![h] = Idle]
    /\ UNCHANGED <<purge, main, dropped, raced, busy>>

-----------------------------------------------------------------------------
(* Shared pointers.                                                         *)

Running == main # "exited"

\* Party p lets go of object o: the last one runs the destructor.
LastForMap(o, p) == DATASETS[obj[o].id] # o
LastForUsers(o, p) == holders[o] \subseteq {p}
Last(o, p) == holders[o] \subseteq {p} /\ DATASETS[obj[o].id] # o

LetGo(o, p, st) ==
    /\ holders' = [holders EXCEPT ![o] = @ \ {p}]
    /\ obj' = [obj EXCEPT ![o].st = IF Last(o, p) THEN "dying" ELSE st]

\* The loader is done, whatever came of it.
Loaded(o) ==
    /\ Running
    /\ "loader" \in holders[o]
    /\ LetGo(o, "loader", "loaded")
    /\ UNCHANGED <<DATASETS, purge, handler, main, dropped, history>>

\* A request is done.  If it has to run the destructor it stays with it.
Release(h) ==
    LET o == handler[h].obj IN
    /\ Running
    /\ handler[h].pc = "using"
    /\ LetGo(o, h, obj[o].st)
    /\ handler' = [handler EXCEPT ![h] = IF Last(o, h) THEN [@ EXCEPT !.pc = "destroying"]
                                         ELSE Idle]
    /\ UNCHANGED <<DATASETS, purge, main, dropped, history>>

Destroyed(h) ==
    /\ Running
    /\ handler[h].pc = "destroying"
    /\ obj[handler[h].obj].st = "dead"
    /\ handler' = [handler EXCEPT ![h] = Idle]
    /\ UNCHANGED <<DATASETS, obj, purge, holders, main, dropped, history>>

-----------------------------------------------------------------------------
(* The destructor and the purge thread of an object.                        *)

\* The loader of a cube starts the thread; that of a downloaded cube does not.
StartPurge(o) ==
    /\ Running
    /\ obj[o].st = "loading"
    /\ purge[o] = "none"
    /\ purge' = [purge EXCEPT ![o] = "check"]
    /\ UNCHANGED <<DATASETS, obj, holders, handler, main, dropped, history>>

\* while (!terminate) { purge_cache(); wait_for(10s); }
Terminated(o) == obj[o].st \in {"joining", "saving", "dead"}

PurgeStep(o, from, to) ==
    /\ Running
    /\ purge[o] = from
    /\ purge' = [purge EXCEPT ![o] = to]
    /\ UNCHANGED <<DATASETS, obj, holders, handler, main, dropped, history>>

TimesOutNever(o) == FALSE
TimesOut(o) == purge[o] = "wait"

PurgeCheck(o) == PurgeStep(o, "check", IF Terminated(o) THEN "gone" ELSE "purge")
PurgeDone(o) == PurgeStep(o, "purge", "wait")
PurgeTimeout(o) == TimesOut(o) /\ PurgeStep(o, "wait", "check")

\* terminate is set and the thread notified, without its mutex: a thread that is
\* about to wait misses it.
Terminate(o) ==
    /\ Running
    /\ obj[o].st = "dying"
    /\ obj' = [obj EXCEPT ![o].st = "joining"]
    /\ purge' = [purge EXCEPT ![o] = IF @ = "wait" THEN "check" ELSE @]
    /\ UNCHANGED <<DATASETS, holders, handler, main, dropped, history>>

Join(o) ==
    /\ Running
    /\ obj[o].st = "joining"
    /\ purge[o] \in {"none", "gone"}
    /\ obj' = [obj EXCEPT ![o].st = "saving"]
    /\ UNCHANGED <<DATASETS, purge, holders, handler, main, dropped, history>>

Save(o) ==
    /\ Running
    /\ obj[o].st = "saving"
    /\ obj' = [obj EXCEPT ![o].st = "dead"]
    /\ UNCHANGED <<DATASETS, purge, holders, handler, main, dropped, history>>

Destructor(o) == Terminate(o) \/ Join(o) \/ Save(o)

-----------------------------------------------------------------------------
(* SIGINT, handled by the main thread.                                      *)

Interrupt ==
    /\ main = "running"
    /\ main' = "clearing"
    /\ UNCHANGED <<DATASETS, obj, purge, holders, handler, dropped, history>>

\* DATASETS.clear() and, at exit, the destructor of DATASETS: one entry after the
\* other, with the destructors of the objects nobody else holds.
DropEntry(id) ==
    LET o == DATASETS[id] IN
    /\ main \in {"clearing", "exiting"}
    /\ dropped = None
    /\ o # None
    /\ DATASETS' = [DATASETS EXCEPT ![id] = None]
    /\ IF holders[o] = {}
       THEN /\ obj' = [obj EXCEPT ![o].st = "dying"]
            /\ dropped' = o
            /\ UNCHANGED busy
       ELSE /\ busy' = busy \cup {o}
            /\ UNCHANGED <<obj, dropped>>
    /\ UNCHANGED <<purge, holders, handler, main, raced, reborn, orphan>>

DropDone ==
    /\ dropped # None
    /\ obj[dropped].st = "dead"
    /\ dropped' = None
    /\ UNCHANGED <<DATASETS, obj, purge, holders, handler, main, history>>

EmptyAtOnce == \A id \in Ids : DATASETS[id] = None
Empty == dropped = None /\ \A id \in Ids : DATASETS[id] = None

\* The mutex is released, then exit() runs, and the process ends.
Proceed(from, to, ready) ==
    /\ main = from
    /\ ready
    /\ main' = to
    /\ UNCHANGED <<DATASETS, obj, purge, holders, handler, dropped, history>>

Shutdown ==
    \/ Proceed("clearing", "cleared", Empty)
    \/ Proceed("cleared", "exiting", TRUE)
    \/ Proceed("exiting", "exited", Empty)
    \/ DropDone
    \/ \E id \in Ids : DropEntry(id)

-----------------------------------------------------------------------------
Finished == main = "exited" /\ UNCHANGED vars

Next ==
    \/ \E h \in Handlers :
        \/ Release(h) \/ Destroyed(h)
        \/ \E id \in Ids : Use(h, id) \/ Miss(h, id)
        \/ \E o \in Objs : Insert(h, o)
    \/ \E o \in Objs :
        \/ Loaded(o) \/ StartPurge(o) \/ PurgeCheck(o) \/ PurgeDone(o) \/ PurgeTimeout(o)
        \/ Destructor(o)
    \/ Interrupt
    \/ Shutdown
    \/ Finished

Spec == Init /\ [][Next]_vars

\* Threads run.  Nobody has to ask, to finish loading or to press Ctrl-C.
Fairness ==
    /\ WF_vars(Shutdown)
    /\ \A o \in Objs :
        WF_vars(Destructor(o)) /\ WF_vars(PurgeCheck(o) \/ PurgeDone(o) \/ PurgeTimeout(o))

FairSpec == Spec /\ Fairness

-----------------------------------------------------------------------------
(* Properties                                                               *)

Exists(o) == obj[o].st \in Alive \cup Destructing

\* A dataset has one object at a time, and so one writer of its cache files, unless
\* two requests looked it up before either had inserted it, or it was opened again
\* after DATASETS had been cleared.
OneObject ==
    \A o1, o2 \in Objs :
        o1 # o2 /\ Exists(o1) /\ Exists(o2) /\ obj[o1].id = obj[o2].id
            => obj[o1].id \in raced \cup reborn

\* No request, no loader and not the map ever has an object whose destructor has
\* begun, in whatever order they let go of it, not even while the main thread clears
\* the map under them.
HeldIsAlive ==
    /\ \A h \in Handlers : handler[h].pc = "using" => obj[handler[h].obj].st \in Alive
    /\ \A o \in Objs : "loader" \in holders[o] => obj[o].st = "loading"
    /\ \A id \in Ids : DATASETS[id] # None => obj[DATASETS[id]].st \in Alive

\* A destructor runs once, in one thread: no two of the main thread and the requests
\* run that of the same object, and whoever is in a destructor is in one that has
\* begun and has not been begun again.
Destroying(o) ==
    {h \in Handlers : handler[h].pc = "destroying" /\ handler[h].obj = o}
        \cup (IF dropped = o THEN {"main"} ELSE {})
DestroyedOnce ==
    \A o \in Objs :
        /\ Destroying(o) # {} => obj[o].st \in Destructing \cup {"dead"}
        /\ \A p, q \in Destroying(o) : p = q

\* When the process ends every dataset has been saved, those excepted that a loader
\* or a request was using when the main thread let go of them, and those that never
\* came into DATASETS: these are lost, or cut off in the middle of their files.
ShutdownSaves ==
    main = "exited" =>
        \A o \in Objs : obj[o].st \in {"unused", "dead"} \/ o \in orphan \cup busy

\* After Ctrl-C the process ends, although the notification of a purge thread can
\* be lost: the thread looks again after its ten seconds.
ShutdownCompletes == main = "clearing" ~> main = "exited"

=============================================================================
