------------------------- MODULE RegionCacheProofs -------------------------
(***************************************************************************)
(* Proofs about RegionCache, for every depth, every set of regions and     *)
(* threads and every timeout.                                              *)
(***************************************************************************)
EXTENDS RegionCache, TLAPS

(***************************************************************************)
(* Frames and blocks of four.                                              *)
(***************************************************************************)

\* A frame is its block's first frame plus its place in the block.
LEMMA DivMod ==
    ASSUME NEW f \in Nat
    PROVE  /\ BlockOf(f) \in Nat
           /\ SubFrame(f) \in 0 .. 3
           /\ f = 4 * BlockOf(f) + SubFrame(f)
  BY DEF BlockOf, SubFrame

\* Blocks are numbered up to the block of the last frame.
LEMMA BlockInBlocks ==
    ASSUME NEW f \in Frames
    PROVE  BlockOf(f) \in Blocks
<1>1. f \in Nat /\ Depth - 1 \in Nat /\ f <= Depth - 1
  BY DepthAssumption DEF Frames
<1>2. QED
  BY <1>1 DEF Blocks, BlockOf

(***************************************************************************)
(* Types.  An entry's mask is a frame only because a filler stops at the   *)
(* last frame, and a refreshed entry is an entry only because a thread     *)
(* knows when it was erased: those two facts are proved together with the  *)
(* types.                                                                  *)
(***************************************************************************)

Typed == TypeOK /\ FillerInv
TypeInv == Typed /\ AttachedInv

LEMMA TypeInit == Init => TypeInv
<1> SUFFICES ASSUME Init PROVE TypeInv
  OBVIOUS
<1> USE DepthAssumption, TimeoutAssumption DEF Init
<1>1. 0 \in Frames
  BY DEF Frames
<1>2. req \in [Threads -> [frame : Frames, region : Regions]]
  BY <1>1
<1>3. cache \in [Frames -> [Regions -> Entry \cup {NoEntry}]]
  OBVIOUS
<1>4. purge \in [pc : {"sleep", "want", "erase"}, i : Frames]
  BY <1>1
<1>5. TypeOK
  <2>1. /\ cube_pixels \in [Blocks -> BOOLEAN]
        /\ cube_mask \in [Frames -> BOOLEAN]
        /\ attached \in [Threads -> BOOLEAN]
        /\ ready \in [Threads -> BOOLEAN]
        /\ unaligned \in BOOLEAN
    OBVIOUS
  <2>2. /\ pc \in [Threads -> PCs]
        /\ entry \in [Threads -> Data \cup {NoData}]
        /\ k \in [Threads -> 0 .. 3]
        /\ res \in [Threads -> Data \cup {NoData}]
    BY DEF PCs
  <2>3. QED
    BY <1>2, <1>3, <1>4, <2>1, <2>2 DEF TypeOK
<1>6. FillerInv /\ AttachedInv
  BY DEF FillerInv, Filling, AttachedInv
<1>7. QED
  BY <1>5, <1>6 DEF TypeInv, Typed

\* The step of the insert loop keeps the counter below four and inside the cube.
LEMMA AdvanceType ==
    ASSUME Typed, NEW t \in Threads, Filling(t), Advance(t),
           UNCHANGED <<req, unaligned>>
    PROVE  /\ pc' \in [Threads -> PCs]
           /\ k' \in [Threads -> 0 .. 3]
           /\ FillerInv'
<1> USE DEF Typed
<1>1. req[t].frame \in Nat /\ k[t] \in 0 .. 3
  BY DepthAssumption DEF TypeOK, Frames
<1>2. CASE LastInsert(req[t].frame, k[t])
  <2>1. /\ pc' = [pc EXCEPT ![t] = "idle"]
        /\ k' = [k EXCEPT ![t] = 0]
    BY <1>2 DEF Advance
  <2>2. QED
    BY <2>1 DEF TypeOK, PCs, FillerInv, Filling
<1>3. CASE ~ LastInsert(req[t].frame, k[t])
  <2>1. /\ pc' = [pc EXCEPT ![t] = "want_write"]
        /\ k' = [k EXCEPT ![t] = @ + 1]
    BY <1>3 DEF Advance
  <2>2. k[t] + 1 \in 0 .. 3 /\ req[t].frame + (k[t] + 1) < Depth
    BY <1>1, <1>3, DepthAssumption DEF LastInsert
  <2>3. pc' \in [Threads -> PCs] /\ k' \in [Threads -> 0 .. 3]
    BY <2>1, <2>2 DEF TypeOK, PCs
  <2>4. FillerInv'
    BY <2>1, <2>2 DEF TypeOK, FillerInv, Filling
  <2>5. QED
    BY <2>3, <2>4
<1>4. QED
  BY <1>2, <1>3

\* A step of a request moves no other thread.
LEMMA OneThreadMoves ==
    ASSUME TypeOK, NEW t \in Threads, Request(t)
    PROVE  /\ UNCHANGED <<req, purge>>
           /\ \A u \in Threads \ {t} :
                 /\ pc'[u] = pc[u] /\ k'[u] = k[u]
                 /\ res'[u] = res[u] /\ ready'[u] = ready[u]
<1> DEFINE Moves ==
        /\ UNCHANGED <<req, purge>>
        /\ \A u \in Threads \ {t} :
              /\ pc'[u] = pc[u] /\ k'[u] = k[u]
              /\ res'[u] = res[u] /\ ready'[u] = ready[u]
<1>1. pc \in [Threads -> PCs] /\ k \in [Threads -> 0 .. 3]
      /\ res \in [Threads -> Data \cup {NoData}] /\ ready \in [Threads -> BOOLEAN]
  BY DEF TypeOK
<1>2. ASSUME Advance(t)
      PROVE  \A u \in Threads \ {t} : pc'[u] = pc[u] /\ k'[u] = k[u]
  BY <1>1, <1>2 DEF Advance
<1>3. CASE LockShared(t)
  BY <1>1, <1>3 DEF LockShared
<1>4. CASE Lookup(t)
  BY <1>1, <1>4 DEF Lookup
<1>5. CASE Refresh(t)
  BY <1>1, <1>5 DEF Refresh
<1>6. CASE DecodeFails(t) \/ Decode(t)
  BY <1>1, <1>6 DEF DecodeFails, Decode
<1>7. CASE LockExclusive(t)
  BY <1>1, <1>7 DEF LockExclusive
<1>8. CASE Insert(t)
  <2>1. UNCHANGED <<req, purge, ready>> /\ Advance(t)
    BY <1>8 DEF Insert
  <2>2. \A u \in Threads \ {t} : res'[u] = res[u]
    BY <1>1, <1>8 DEF Insert
  <2>3. QED
    BY <1>2, <2>1, <2>2
<1>9. CASE InsertSkipped(t)
  <2>1. UNCHANGED <<req, purge, res>> /\ Advance(t) /\ ready' = [ready EXCEPT ![t] = FALSE]
    BY <1>9 DEF InsertSkipped
  <2>2. QED
    BY <1>1, <1>2, <2>1
<1>10. QED
  BY <1>3, <1>4, <1>5, <1>6, <1>7, <1>8, <1>9 DEF Request

LEMMA TypedStep == TypeInv /\ [Next]_vars => Typed'
<1> SUFFICES ASSUME TypeInv, [Next]_vars PROVE Typed'
  OBVIOUS
<1> USE DEF TypeInv, Typed
<1>1. ASSUME NEW b \in Blocks, PublishPixels(b) PROVE Typed'
  BY <1>1 DEF PublishPixels, TypeOK, FillerInv, Filling
<1>2. ASSUME NEW f \in Frames, PublishMask(f) PROVE Typed'
  BY <1>2 DEF PublishMask, TypeOK, FillerInv, Filling
<1>3. ASSUME NEW t \in Threads, NEW f \in Requested, NEW r \in Regions, Call(t, f, r)
      PROVE  Typed'
  <2>1. f \in Frames
    BY SubsetAssumption
  <2>2. Readable(f) \in BOOLEAN
    BY DEF Readable
  <2>3. TypeOK'
    BY <1>3, <2>1, <2>2 DEF Call, TypeOK, PCs
  <2>4. FillerInv'
    BY <1>3 DEF Call, TypeOK, FillerInv, Filling
  <2>5. QED
    BY <2>3, <2>4
<1>4. ASSUME NEW t \in Threads, LockShared(t) PROVE Typed'
  BY <1>4 DEF LockShared, TypeOK, PCs, FillerInv, Filling
<1>5. ASSUME NEW t \in Threads, Lookup(t) PROVE Typed'
  <2> DEFINE e == cache[req[t].frame][req[t].region]
  <2>1. e \in Entry \cup {NoEntry}
    BY DEF TypeOK
  <2>2. e # NoEntry => [pix |-> e.pix, mask |-> e.mask] \in Data
    BY <2>1 DEF Entry, Data
  <2>3. /\ pc[t] = "lookup"
        /\ \/ /\ pc' = [pc EXCEPT ![t] = "decode"]
              /\ UNCHANGED <<entry, attached>>
           \/ /\ e # NoEntry
              /\ pc' = [pc EXCEPT ![t] = "refresh"]
              /\ entry' = [entry EXCEPT ![t] = [pix |-> e.pix, mask |-> e.mask]]
              /\ attached' = [attached EXCEPT ![t] = TRUE]
        /\ UNCHANGED <<cube_pixels, cube_mask, cache, req, k, res, purge, unaligned, ready>>
    BY <1>5 DEF Lookup
  <2> HIDE DEF e
  <2>4. entry \in [Threads -> Data \cup {NoData}] /\ attached \in [Threads -> BOOLEAN]
    BY DEF TypeOK
  <2>5. entry' \in [Threads -> Data \cup {NoData}]
    BY <2>2, <2>3, <2>4
  <2>6. attached' \in [Threads -> BOOLEAN]
    BY <2>3, <2>4
  <2>7. pc' \in [Threads -> PCs] /\ (\A u \in Threads \ {t} : pc'[u] = pc[u])
        /\ pc'[t] \in {"decode", "refresh"}
    BY <2>3 DEF TypeOK, PCs
  <2>8. TypeOK'
    BY <2>3, <2>5, <2>6, <2>7 DEF TypeOK
  <2>9. FillerInv'
    BY <2>3, <2>7 DEF FillerInv, Filling
  <2>10. QED
    BY <2>8, <2>9
<1>6. ASSUME NEW t \in Threads, Refresh(t) PROVE Typed'
  <2>1. cache' \in [Frames -> [Regions -> Entry \cup {NoEntry}]]
    <3> DEFINE f == req[t].frame
               r == req[t].region
    <3>0. ASSUME NEW e \in Entry PROVE [e EXCEPT !.age = 0] \in Entry
      BY TimeoutAssumption DEF Entry, Ages
    <3>1. CASE attached[t]
      <4>1. [cache[f][r] EXCEPT !.age = 0] \in Entry
        <5>1. cache[f][r] \in Entry
          BY <3>1 DEF TypeOK, AttachedInv
        <5>2. QED
          BY <3>0, <5>1
      <4>2. cache' = [cache EXCEPT ![f][r] = [cache[f][r] EXCEPT !.age = 0]]
        BY <1>6, <3>1 DEF Refresh
      <4> HIDE DEF f, r
      <4>3. f \in Frames /\ r \in Regions
        BY DEF TypeOK, f, r
      <4>4. QED
        BY <4>1, <4>2, <4>3 DEF TypeOK
    <3>2. CASE ~ attached[t]
      BY <1>6, <3>2 DEF Refresh, TypeOK
    <3>3. QED
      BY <3>1, <3>2
  <2>2. TypeOK'
    BY <1>6, <2>1 DEF Refresh, TypeOK, PCs
  <2>3. FillerInv'
    BY <1>6 DEF Refresh, TypeOK, FillerInv, Filling
  <2>4. QED
    BY <2>2, <2>3
<1>7. ASSUME NEW t \in Threads, DecodeFails(t) PROVE Typed'
  BY <1>7 DEF DecodeFails, TypeOK, PCs, FillerInv, Filling
<1>8. ASSUME NEW t \in Threads, Decode(t) PROVE Typed'
  <2>1. TypeOK'
    BY <1>8 DEF Decode, TypeOK, PCs
  <2>2. req[t].frame + 0 < Depth /\ k[t] = 0
    <3>1. ~ Filling(t)
      BY <1>8 DEF Decode, Filling
    <3>2. req[t].frame \in Frames
      BY DEF TypeOK
    <3>3. QED
      BY <3>1, <3>2, DepthAssumption DEF FillerInv, Frames
  <2>3. FillerInv'
    BY <1>8, <2>2 DEF Decode, TypeOK, FillerInv, Filling
  <2>4. QED
    BY <2>1, <2>3
<1>9. ASSUME NEW t \in Threads, LockExclusive(t) PROVE Typed'
  BY <1>9 DEF LockExclusive, TypeOK, PCs, FillerInv, Filling
<1>10. ASSUME NEW t \in Threads, Insert(t) PROVE Typed'
  <2> DEFINE f == req[t].frame
             g == f + k[t]
             r == req[t].region
             d == [pix |-> PixelsAt(f, k[t]), mask |-> MaskAt(f, k[t])]
             e == [pix |-> d.pix, mask |-> d.mask, age |-> 0]
  <2>1. Filling(t)
    BY <1>10 DEF Insert, Filling
  <2>2. f \in Frames /\ g \in Frames /\ r \in Regions /\ k[t] \in 0 .. 3
    <3>1. f \in Frames /\ r \in Regions /\ k[t] \in 0 .. 3
      BY DEF TypeOK
    <3>2. g < Depth
      BY <2>1 DEF FillerInv
    <3>3. QED
      BY <3>1, <3>2, DepthAssumption DEF Frames
  <2>3. d \in Data
    <3>1. PixelsAt(f, k[t]) \in Nat
      <4>1. f \in Nat /\ k[t] \in Nat
        BY <2>2, DepthAssumption DEF Frames
      <4>2. QED
        BY <4>1, DivMod DEF PixelsAt
    <3>2. MaskAt(f, k[t]) \in Frames
      BY <2>2 DEF MaskAt
    <3>3. QED
      BY <3>1, <3>2 DEF Data
  <2>4. e \in Entry
    BY <2>3, TimeoutAssumption DEF Data, Entry, Ages
  <2>5. /\ cache' = [cache EXCEPT ![g][r] = e]
        /\ res' = IF Wanted(f, k[t]) THEN [res EXCEPT ![t] = d] ELSE res
        /\ Detach(g, r)
        /\ Advance(t)
        /\ UNCHANGED <<cube_pixels, cube_mask, req, entry, purge, unaligned, ready>>
    BY <1>10 DEF Insert
  <2> HIDE DEF d, e, f, g, r
  <2>6. cache' \in [Frames -> [Regions -> Entry \cup {NoEntry}]]
    BY <2>2, <2>4, <2>5 DEF TypeOK
  <2>7. res' \in [Threads -> Data \cup {NoData}]
    BY <2>3, <2>5 DEF TypeOK
  <2>8. attached' \in [Threads -> BOOLEAN]
    BY <2>5 DEF Detach, TypeOK
  <2>9. pc' \in [Threads -> PCs] /\ k' \in [Threads -> 0 .. 3] /\ FillerInv'
    BY <2>1, <2>5, AdvanceType
  <2>10. TypeOK'
    BY <2>5, <2>6, <2>7, <2>8, <2>9 DEF TypeOK
  <2>11. QED
    BY <2>9, <2>10
<1>11. ASSUME NEW t \in Threads, InsertSkipped(t) PROVE Typed'
  <2>1. Filling(t)
    BY <1>11 DEF InsertSkipped, Filling
  <2>2. pc' \in [Threads -> PCs] /\ k' \in [Threads -> 0 .. 3] /\ FillerInv'
    BY <1>11, <2>1, AdvanceType DEF InsertSkipped
  <2>3. TypeOK'
    BY <1>11, <2>2 DEF InsertSkipped, TypeOK
  <2>4. QED
    BY <2>2, <2>3
<1>12. CASE PurgeWake
  <2>1. 0 \in Frames
    BY DepthAssumption DEF Frames
  <2>2. QED
    BY <1>12, <2>1 DEF PurgeWake, TypeOK, FillerInv, Filling
<1>13. CASE PurgeLock
  BY <1>13 DEF PurgeLock, TypeOK, FillerInv, Filling
<1>14. CASE PurgeErase
  <2>1. cache' \in [Frames -> [Regions -> Entry \cup {NoEntry}]]
    BY <1>14 DEF PurgeErase, TypeOK
  <2>2. purge' \in [pc : {"sleep", "want", "erase"}, i : Frames]
    <3>1. purge.i \in Frames
      BY DEF TypeOK
    <3>2. 0 \in Frames /\ (~ LastFrame(purge.i) => purge.i + 1 \in Frames)
      BY <3>1, DepthAssumption DEF Frames, LastFrame
    <3>3. QED
      BY <1>14, <3>2 DEF PurgeErase
  <2>3. TypeOK'
    BY <1>14, <2>1, <2>2 DEF PurgeErase, TypeOK
  <2>4. FillerInv'
    BY <1>14 DEF PurgeErase, FillerInv, Filling
  <2>5. QED
    BY <2>3, <2>4
<1>15. CASE Tick
  <2>1. ASSUME NEW e \in Entry \cup {NoEntry} PROVE Older(e) \in Entry \cup {NoEntry}
    BY TimeoutAssumption DEF Older, Entry, Ages
  <2>2. cache' \in [Frames -> [Regions -> Entry \cup {NoEntry}]]
    BY <1>15, <2>1 DEF Tick, TypeOK
  <2>3. QED
    BY <1>15, <2>2 DEF Tick, TypeOK, FillerInv, Filling
<1>16. CASE UNCHANGED vars
  BY <1>16 DEF vars, TypeOK, FillerInv, Filling
<1>17. QED
  BY <1>1, <1>2, <1>3, <1>4, <1>5, <1>6, <1>7, <1>8, <1>9, <1>10, <1>11, <1>12,
     <1>13, <1>14, <1>15, <1>16
  DEF Next, Publish, Request, Purge

\* No aging makes an entry disappear.
LEMMA OlderEntry ==
    ASSUME NEW e \in Entry
    PROVE  /\ Older(e) \in Entry
           /\ Older(e).pix = e.pix
           /\ Older(e).mask = e.mask
  BY TimeoutAssumption, NullAssumption DEF Older, Entry, Ages

LEMMA AttachedStep == TypeInv /\ [Next]_vars => AttachedInv'
<1> SUFFICES ASSUME TypeInv, [Next]_vars, NEW u \in Threads, attached'[u]
             PROVE  /\ pc'[u] = "refresh"
                    /\ cache'[req'[u].frame][req'[u].region] # NoEntry
  BY DEF AttachedInv
<1> USE DEF TypeInv, Typed, AttachedInv
<1>0. req[u].frame \in Frames /\ req[u].region \in Regions
  BY DEF TypeOK
<1> DEFINE Goal == /\ pc'[u] = "refresh"
                   /\ cache'[req'[u].frame][req'[u].region] # NoEntry
<1>1. CASE Publish \/ PurgeWake \/ PurgeLock \/ UNCHANGED vars
  <2>1. UNCHANGED <<cache, pc, req, attached>>
    BY <1>1 DEF Publish, PublishPixels, PublishMask, PurgeWake, PurgeLock, vars
  <2>2. QED
    BY <2>1
<1>2. ASSUME NEW t \in Threads, NEW f \in Requested, NEW r \in Regions, Call(t, f, r)
      PROVE  Goal
  <2>1. u # t
    BY <1>2 DEF Call
  <2>2. QED
    BY <1>2, <2>1 DEF Call, TypeOK
<1>3. ASSUME NEW t \in Threads,
             LockShared(t) \/ DecodeFails(t) \/ Decode(t) \/ LockExclusive(t) \/ InsertSkipped(t)
      PROVE  Goal
  <2>1. UNCHANGED <<cache, req, attached>> /\ pc[t] # "refresh"
    BY <1>3 DEF LockShared, DecodeFails, Decode, LockExclusive, InsertSkipped
  <2>2. u # t /\ pc'[u] = pc[u]
    BY <1>3, <2>1 DEF LockShared, DecodeFails, Decode, LockExclusive, InsertSkipped, Advance,
                      TypeOK
  <2>3. QED
    BY <2>1, <2>2
<1>4. ASSUME NEW t \in Threads, Lookup(t) PROVE Goal
  BY <1>4 DEF Lookup, TypeOK
<1>5. ASSUME NEW t \in Threads, Refresh(t) PROVE Goal
  <2>1. u # t /\ pc'[u] = "refresh" /\ req' = req /\ attached[u]
    BY <1>5 DEF Refresh, TypeOK
  <2>2. cache'[req[u].frame][req[u].region] # NoEntry
    <3>1. CASE ~ attached[t]
      BY <1>5, <2>1, <3>1 DEF Refresh
    <3>2. CASE attached[t]
      <4> DEFINE f == req[t].frame
                 r == req[t].region
      <4>1. f \in Frames /\ r \in Regions /\ cache[f][r] \in Entry
        BY <3>2 DEF TypeOK
      <4>2. [cache[f][r] EXCEPT !.age = 0] \in Entry
        BY <4>1, TimeoutAssumption DEF Entry, Ages
      <4>3. cache' = [cache EXCEPT ![f][r] = [cache[f][r] EXCEPT !.age = 0]]
        BY <1>5, <3>2 DEF Refresh
      <4> DEFINE x == [cache[f][r] EXCEPT !.age = 0]
      <4>4. x # NoEntry
        BY <4>2, NullAssumption
      <4>5. cache[req[u].frame][req[u].region] # NoEntry
        BY <2>1
      <4>6. cache \in [Frames -> [Regions -> Entry \cup {NoEntry}]]
        BY DEF TypeOK
      <4> HIDE DEF f, r, x
      <4>7. cache' = [cache EXCEPT ![f][r] = x]
        BY <4>3 DEF x
      <4>8. QED
        BY <1>0, <4>1, <4>4, <4>5, <4>6, <4>7
    <3>3. QED
      BY <3>1, <3>2
  <2>3. QED
    BY <2>1, <2>2
<1>6. ASSUME NEW t \in Threads, Insert(t) PROVE Goal
  <2> DEFINE f == req[t].frame
             g == f + k[t]
             r == req[t].region
             e == [pix |-> PixelsAt(f, k[t]), mask |-> MaskAt(f, k[t]), age |-> 0]
  <2>1. /\ cache' = [cache EXCEPT ![g][r] = e]
        /\ Detach(g, r)
        /\ Advance(t)
        /\ req' = req
        /\ pc[t] = "insert"
    BY <1>6 DEF Insert
  <2>2. attached[u] /\ ~ (req[u].frame = g /\ req[u].region = r)
    BY <2>1 DEF Detach
  <2> HIDE DEF f, g, r, e
  <2>3. u # t /\ pc'[u] = pc[u]
    BY <2>1, <2>2 DEF Advance, TypeOK
  <2>4. cache'[req[u].frame][req[u].region] = cache[req[u].frame][req[u].region]
    BY <1>0, <2>1, <2>2 DEF TypeOK
  <2>5. QED
    BY <2>1, <2>2, <2>3, <2>4
<1>7. CASE PurgeErase
  <2>1. /\ attached[u]
        /\ ~ (req[u].frame = purge.i /\ Stale(cache[purge.i][req[u].region]))
        /\ pc' = pc /\ req' = req
    BY <1>7 DEF PurgeErase
  <2>2. cache'[req[u].frame][req[u].region] = cache[req[u].frame][req[u].region]
    BY <1>0, <1>7, <2>1 DEF PurgeErase, TypeOK
  <2>3. QED
    BY <2>1, <2>2
<1>8. CASE Tick
  <2>1. cache[req[u].frame][req[u].region] \in Entry /\ UNCHANGED <<pc, req, attached>>
    BY <1>0, <1>8 DEF Tick, TypeOK
  <2>2. cache'[req[u].frame][req[u].region] \in Entry
    BY <1>0, <1>8, <2>1, OlderEntry DEF Tick
  <2>3. QED
    BY <1>8, <2>1, <2>2, NullAssumption DEF Tick
<1>9. QED
  BY <1>1, <1>2, <1>3, <1>4, <1>5, <1>6, <1>7, <1>8 DEF Next, Request, Purge

\* TypeOK, the type invariant of RegionCache, holds for every cube.
THEOREM TypeCorrect == Spec => []TypeOK
<1>1. TypeInv /\ [Next]_vars => TypeInv'
  BY TypedStep, AttachedStep DEF TypeInv
<1>2. TypeInv => TypeOK
  BY DEF TypeInv, Typed
<1>3. QED
  BY TypeInit, <1>1, <1>2, PTL DEF Spec

(***************************************************************************)
(* Contents.  The only steps that bring new contents into the cache are    *)
(* the insertions; everything else keeps, ages or erases entries.          *)
(***************************************************************************)

TypeStep == TypeInv /\ TypeInv' /\ [Next]_vars

LEMMA TypeStepIntro == TypeInv /\ [Next]_vars => TypeStep
  BY TypedStep, AttachedStep DEF TypeStep, TypeInv

SameContent(e, d) == e.pix = d.pix /\ e.mask = d.mask

InsertedBy(t, f, d) ==
    /\ Insert(t)
    /\ f = req[t].frame + k[t]
    /\ d.pix = PixelsAt(req[t].frame, k[t])
    /\ d.mask = MaskAt(req[t].frame, k[t])

LEMMA CacheChange ==
    ASSUME TypeStep, NEW f \in Frames, NEW r \in Regions, cache'[f][r] # NoEntry
    PROVE  \/ cache[f][r] # NoEntry /\ SameContent(cache'[f][r], cache[f][r])
           \/ \E t \in Threads : InsertedBy(t, f, cache'[f][r])
<1> DEFINE Kept == cache[f][r] # NoEntry /\ SameContent(cache'[f][r], cache[f][r])
<1> USE DEF TypeStep, TypeInv, Typed
<1>1. CASE cache' = cache
  BY <1>1 DEF SameContent
<1>2. ASSUME NEW t \in Threads, Refresh(t), attached[t] PROVE Kept
  <2> DEFINE h == req[t].frame
             q == req[t].region
             e == [cache[h][q] EXCEPT !.age = 0]
  <2>1. h \in Frames /\ q \in Regions /\ cache[h][q] \in Entry
    BY <1>2 DEF TypeOK, AttachedInv
  <2>2. SameContent(e, cache[h][q])
    BY <2>1 DEF SameContent, Entry
  <2>3. cache' = [cache EXCEPT ![h][q] = e]
    BY <1>2 DEF Refresh
  <2>4. cache[h][q] # NoEntry
    BY <2>1, NullAssumption
  <2> HIDE DEF h, q, e
  <2>5. CASE f = h /\ r = q
    BY <2>1, <2>2, <2>3, <2>4, <2>5 DEF TypeOK
  <2>6. CASE ~ (f = h /\ r = q)
    BY <2>1, <2>3, <2>6 DEF TypeOK, SameContent
  <2>7. QED
    BY <2>5, <2>6
<1>3. ASSUME NEW t \in Threads, Insert(t) PROVE Kept \/ InsertedBy(t, f, cache'[f][r])
  <2> DEFINE h == req[t].frame
             q == req[t].region
             g == h + k[t]
             e == [pix |-> PixelsAt(h, k[t]), mask |-> MaskAt(h, k[t]), age |-> 0]
  <2>1. cache' = [cache EXCEPT ![g][q] = e]
    BY <1>3 DEF Insert
  <2>2. e.pix = PixelsAt(h, k[t]) /\ e.mask = MaskAt(h, k[t])
    OBVIOUS
  <2> HIDE DEF e
  <2>3. CASE f = g /\ r = q
    BY <1>3, <2>1, <2>2, <2>3 DEF TypeOK, InsertedBy
  <2>4. CASE ~ (f = g /\ r = q)
    BY <2>1, <2>4 DEF TypeOK, SameContent
  <2>5. QED
    BY <2>3, <2>4
<1>4. CASE PurgeErase
  BY <1>4 DEF PurgeErase, TypeOK, SameContent
<1>5. CASE Tick
  <2>1. cache'[f][r] = Older(cache[f][r])
    BY <1>5 DEF Tick
  <2>2. cache[f][r] # NoEntry
    BY <2>1 DEF Older
  <2>3. cache[f][r] \in Entry
    BY <2>2 DEF TypeOK
  <2>4. QED
    BY <2>1, <2>2, <2>3, OlderEntry DEF SameContent
<1>6. CASE /\ ~ \E t \in Threads : (Refresh(t) /\ attached[t]) \/ Insert(t)
           /\ ~ PurgeErase
           /\ ~ Tick
  <2>1. cache' = cache
    BY <1>6 DEF Next, Publish, Request, Purge, vars, PublishPixels, PublishMask, Call,
                LockShared, Lookup, Refresh, DecodeFails, Decode, LockExclusive,
                InsertSkipped, PurgeWake, PurgeLock
  <2>2. QED
    BY <1>1, <2>1
<1>7. QED
  BY <1>2, <1>3, <1>4, <1>5, <1>6

\* What an insertion for frame h files under frame h + i lags h % 4 frames behind.
LEMMA InsertedContent ==
    ASSUME NEW h \in Frames, NEW i \in 0 .. 3
    PROVE  /\ MaskAt(h, i) = h + i
           /\ PixelsAt(h, i) = (h + i) - SubFrame(h)
           /\ SubFrame(h) \in 0 .. 3
<1>1. h \in Nat
  BY DepthAssumption DEF Frames
<1>2. BlockOf(h) \in Nat /\ SubFrame(h) \in 0 .. 3 /\ h = 4 * BlockOf(h) + SubFrame(h)
  BY <1>1, DivMod
<1>3. QED
  BY <1>2 DEF MaskAt, PixelsAt

LEMMA ShapeStep == CacheShape /\ TypeStep => CacheShape'
<1> SUFFICES ASSUME CacheShape, TypeStep, NEW f \in Frames, NEW r \in Regions,
                    cache'[f][r] # NoEntry
             PROVE  /\ cache'[f][r].mask = f
                    /\ cache'[f][r].pix <= f
                    /\ f - cache'[f][r].pix <= 3
  BY DEF CacheShape
<1>1. CASE cache[f][r] # NoEntry /\ SameContent(cache'[f][r], cache[f][r])
  BY <1>1 DEF CacheShape, SameContent
<1>2. ASSUME NEW t \in Threads, InsertedBy(t, f, cache'[f][r])
      PROVE  /\ cache'[f][r].mask = f
             /\ cache'[f][r].pix <= f
             /\ f - cache'[f][r].pix <= 3
  <2>1. req[t].frame \in Frames /\ k[t] \in 0 .. 3
    BY DEF TypeStep, TypeInv, Typed, TypeOK
  <2>2. /\ cache'[f][r].mask = f
        /\ cache'[f][r].pix = f - SubFrame(req[t].frame)
        /\ SubFrame(req[t].frame) \in 0 .. 3
    BY <1>2, <2>1, InsertedContent DEF InsertedBy
  <2>3. f \in Int
    BY DepthAssumption DEF Frames
  <2>4. QED
    BY <2>2, <2>3
<1>3. QED
  BY <1>1, <1>2, CacheChange

LEMMA CacheExactStep ==
    ASSUME TypeStep, ~ unaligned => CacheExact, ~ unaligned'
    PROVE  CacheExact'
<1>1. ~ unaligned
  BY DEF TypeStep, Next, Publish, Request, Purge, vars, PublishPixels, PublishMask, Call,
         LockShared, Lookup, Refresh, DecodeFails, Decode, LockExclusive, Insert,
         InsertSkipped, PurgeWake, PurgeLock, PurgeErase, Tick
<1> SUFFICES ASSUME NEW f \in Frames, NEW r \in Regions, cache'[f][r] # NoEntry
             PROVE  ExactEntry(f, cache'[f][r])
  BY DEF CacheExact, ExactEntry
<1>2. CASE cache[f][r] # NoEntry /\ SameContent(cache'[f][r], cache[f][r])
  BY <1>1, <1>2 DEF CacheExact, ExactEntry, SameContent
<1>3. ASSUME NEW t \in Threads, InsertedBy(t, f, cache'[f][r])
      PROVE  ExactEntry(f, cache'[f][r])
  <2>1. req[t].frame \in Frames /\ k[t] \in 0 .. 3
    BY DEF TypeStep, TypeInv, Typed, TypeOK
  <2>2. SubFrame(req[t].frame) = 0
    BY <1>1, <1>3 DEF InsertedBy, Insert, TypeStep, TypeInv, Typed, FillerInv, Filling
  <2>3. cache'[f][r].mask = f /\ cache'[f][r].pix = f - 0
    BY <1>3, <2>1, <2>2, InsertedContent DEF InsertedBy
  <2>4. f \in Int
    BY DepthAssumption DEF Frames
  <2>5. QED
    BY <2>3, <2>4 DEF ExactEntry
<1>4. QED
  BY <1>2, <1>3, CacheChange

(***************************************************************************)
(* What threads hold and return.                                           *)
(***************************************************************************)

LEMMA HolderStep ==
    ASSUME TypeStep, HolderInv, ExactUnlessUnaligned
    PROVE  HolderInv'
<1> SUFFICES ASSUME NEW u \in Threads
             PROVE  /\ pc'[u] = "refresh" <=> entry'[u] # NoData
                    /\ entry'[u] # NoData /\ ~ unaligned' =>
                            ExactEntry(req'[u].frame, entry'[u])
  BY DEF HolderInv, ExactEntry
<1> DEFINE Goal == /\ pc'[u] = "refresh" <=> entry'[u] # NoData
                   /\ entry'[u] # NoData /\ ~ unaligned' =>
                           ExactEntry(req'[u].frame, entry'[u])
<1>0. /\ pc[u] = "refresh" <=> entry[u] # NoData
      /\ entry[u] # NoData /\ ~ unaligned => ExactEntry(req[u].frame, entry[u])
  BY DEF HolderInv
<1> USE DEF TypeStep, TypeInv, Typed
<1>1. CASE Publish \/ PurgeWake \/ PurgeLock \/ PurgeErase \/ Tick \/ UNCHANGED vars
  <2>1. UNCHANGED <<pc, req, entry, unaligned>>
    BY <1>1 DEF Publish, PublishPixels, PublishMask, PurgeWake, PurgeLock, PurgeErase, Tick, vars
  <2>2. QED
    BY <1>0, <2>1
<1>2. ASSUME NEW t \in Threads, NEW f \in Requested, NEW r \in Regions, Call(t, f, r)
      PROVE  Goal
  BY <1>0, <1>2 DEF Call, TypeOK
<1>3. ASSUME NEW t \in Threads,
             \/ LockShared(t) \/ DecodeFails(t) \/ Decode(t) \/ LockExclusive(t)
             \/ Insert(t) \/ InsertSkipped(t)
      PROVE  Goal
  <2>0. ASSUME ~ unaligned' PROVE ~ unaligned
    BY <1>3, <2>0 DEF LockShared, DecodeFails, Decode, LockExclusive, Insert, InsertSkipped
  <2>1. UNCHANGED <<req, entry>> /\ pc[t] # "refresh"
    BY <1>3 DEF LockShared, DecodeFails, Decode, LockExclusive, Insert, InsertSkipped
  <2>2. pc'[u] = "refresh" <=> pc[u] = "refresh"
    BY <1>3 DEF LockShared, DecodeFails, Decode, LockExclusive, Insert, InsertSkipped, Advance,
                TypeOK
  <2>3. QED
    BY <1>0, <2>0, <2>1, <2>2
<1>4. ASSUME NEW t \in Threads, Lookup(t) PROVE Goal
  <2> DEFINE e == cache[req[t].frame][req[t].region]
  <2>1. UNCHANGED <<req, unaligned>>
    BY <1>4 DEF Lookup
  <2>2. CASE u # t
    BY <1>0, <1>4, <2>2 DEF Lookup, TypeOK
  <2>3. CASE u = t /\ e = NoEntry
    BY <1>0, <1>4, <2>3 DEF Lookup, TypeOK
  <2>4. CASE u = t /\ e # NoEntry
    <3>1. pc'[u] = "refresh" /\ entry'[u] = [pix |-> e.pix, mask |-> e.mask]
      <4>1. pc' = [pc EXCEPT ![t] = "refresh"]
            /\ entry' = [entry EXCEPT ![t] = [pix |-> e.pix, mask |-> e.mask]]
        BY <1>4, <2>4 DEF Lookup
      <4> HIDE DEF e
      <4>2. QED
        BY <2>4, <4>1 DEF TypeOK
    <3>2. req[t].frame \in Frames /\ req[t].region \in Regions /\ e \in Entry
      BY <2>4 DEF TypeOK
    <3>3. entry'[u] # NoData
      <4> HIDE DEF e
      <4>1. QED
        BY <3>1, <3>2, NullAssumption DEF Data, Entry
    <3>4. ~ unaligned => ExactEntry(req[t].frame, e)
      BY <2>4, <3>2 DEF ExactUnlessUnaligned, CacheExact
    <3>5. u = t
      BY <2>4
    <3> HIDE DEF e
    <3>6. ~ unaligned => entry'[u].pix = req[t].frame /\ entry'[u].mask = req[t].frame
      BY <3>1, <3>4 DEF ExactEntry
    <3>7. ~ unaligned' => ExactEntry(req'[u].frame, entry'[u])
      BY <2>1, <3>5, <3>6 DEF ExactEntry
    <3>8. QED
      BY <3>1, <3>3, <3>7
  <2>5. QED
    BY <2>2, <2>3, <2>4
<1>5. ASSUME NEW t \in Threads, Refresh(t) PROVE Goal
  BY <1>0, <1>5 DEF Refresh, TypeOK
<1>6. QED
  BY <1>1, <1>2, <1>3, <1>4, <1>5 DEF Next, Request, Purge

LEMMA ExactStep ==
    ASSUME TypeStep, HolderInv, ExactUnlessUnaligned
    PROVE  ExactUnlessUnaligned'
<1> SUFFICES ASSUME ~ unaligned', NEW u \in Threads, res'[u] # NoData
             PROVE  ExactEntry(req'[u].frame, res'[u])
  <2>1. ~ unaligned' => CacheExact'
    BY CacheExactStep DEF ExactUnlessUnaligned
  <2>2. QED
    BY <2>1 DEF ExactUnlessUnaligned, ExactEntry
<1> DEFINE Goal == ExactEntry(req'[u].frame, res'[u])
<1> USE DEF TypeStep, TypeInv, Typed
<1>0. ~ unaligned
  BY DEF Next, Publish, Request, Purge, vars, PublishPixels, PublishMask, Call,
         LockShared, Lookup, Refresh, DecodeFails, Decode, LockExclusive, Insert,
         InsertSkipped, PurgeWake, PurgeLock, PurgeErase, Tick
<1>1. CASE UNCHANGED <<req, res>>
  BY <1>0, <1>1 DEF ExactUnlessUnaligned
<1>2. ASSUME NEW t \in Threads, NEW f \in Requested, NEW r \in Regions, Call(t, f, r)
      PROVE  Goal
  BY <1>0, <1>2 DEF Call, TypeOK, ExactUnlessUnaligned
<1>3. ASSUME NEW t \in Threads, Refresh(t) PROVE Goal
  BY <1>0, <1>3 DEF Refresh, TypeOK, ExactUnlessUnaligned, HolderInv
<1>4. ASSUME NEW t \in Threads, Insert(t) PROVE Goal
  <2> DEFINE f == req[t].frame
             d == [pix |-> PixelsAt(f, k[t]), mask |-> MaskAt(f, k[t])]
  <2>1. res' = (IF Wanted(f, k[t]) THEN [res EXCEPT ![t] = d] ELSE res) /\ req' = req
    BY <1>4 DEF Insert
  <2>2. CASE u = t /\ Wanted(f, k[t])
    <3>1. f \in Frames /\ k[t] \in 0 .. 3
      BY DEF TypeOK
    <3>2. SubFrame(f) = 0
      BY <1>0, <1>4 DEF Insert, FillerInv, Filling
    <3>3. k[t] = 0
      BY <2>2, <3>2 DEF Wanted
    <3>4. f \in Int
      BY <3>1, DepthAssumption DEF Frames
    <3>5. d.mask = f + 0 /\ d.pix = (f + 0) - 0
      BY <3>1, <3>2, <3>3, InsertedContent
    <3>6. res'[u] = d
      BY <2>1, <2>2 DEF TypeOK
    <3>7. QED
      BY <2>1, <2>2, <3>4, <3>5, <3>6 DEF ExactEntry
  <2>3. CASE ~ (u = t /\ Wanted(f, k[t]))
    <3>1. res'[u] = res[u]
      BY <2>1, <2>3 DEF TypeOK
    <3>2. QED
      BY <1>0, <2>1, <3>1 DEF ExactUnlessUnaligned
  <2>4. QED
    BY <2>2, <2>3
<1>5. CASE /\ ~ \E t \in Threads : Refresh(t) \/ Insert(t)
           /\ ~ \E t \in Threads, f \in Requested, r \in Regions : Call(t, f, r)
  <2>1. UNCHANGED <<req, res>>
    BY <1>5 DEF Next, Publish, Request, Purge, vars, PublishPixels, PublishMask,
                LockShared, Lookup, DecodeFails, Decode, LockExclusive,
                InsertSkipped, PurgeWake, PurgeLock, PurgeErase, Tick
  <2>2. QED
    BY <1>1, <2>1
<1>6. QED
  BY <1>2, <1>3, <1>4, <1>5

(***************************************************************************)
(* Locks.                                                                  *)
(***************************************************************************)

LEMMA LockStep == LockInv /\ TypeStep => LockInv'
<1> SUFFICES ASSUME LockInv, TypeStep PROVE LockInv'
  OBVIOUS
<1> DEFINE Holders == {"insert", "lookup"}
<1> USE DEF TypeStep, TypeInv, Typed
\* A step of a thread t that does not enter a critical section.
<1>1. ASSUME NEW t \in Threads, purge' = purge,
             \A u \in Threads \ {t} : pc'[u] = pc[u] /\ req'[u] = req[u],
             pc'[t] \notin Holders
      PROVE  LockInv'
  BY <1>1 DEF LockInv, LockOf
<1>2. CASE UNCHANGED <<pc, req, purge>>
  BY <1>2 DEF LockInv, LockOf
<1>3. ASSUME NEW t \in Threads, NEW f \in Requested, NEW r \in Regions, Call(t, f, r)
      PROVE  LockInv'
  <2>1. /\ purge' = purge
        /\ \A u \in Threads \ {t} : pc'[u] = pc[u] /\ req'[u] = req[u]
        /\ pc'[t] \notin Holders
    BY <1>3 DEF Call, TypeOK
  <2>2. QED
    BY <1>1, <2>1
<1>4. ASSUME NEW t \in Threads,
             \/ Lookup(t) \/ Refresh(t) \/ DecodeFails(t) \/ Decode(t)
             \/ Insert(t) \/ InsertSkipped(t)
      PROVE  LockInv'
  <2>1. /\ purge' = purge
        /\ \A u \in Threads \ {t} : pc'[u] = pc[u] /\ req'[u] = req[u]
    BY <1>4, OneThreadMoves DEF Request
  <2>2. pc'[t] \notin Holders
    BY <1>4 DEF Lookup, Refresh, DecodeFails, Decode, Insert, InsertSkipped, Advance, TypeOK
  <2>3. QED
    BY <1>1, <2>1, <2>2
<1>5. ASSUME NEW t \in Threads, LockShared(t) PROVE LockInv'
  <2>1. ~ HeldExclusive(LockOf(t)) /\ UNCHANGED <<req, purge>>
    BY <1>5 DEF LockShared, CanShare
  <2>2. pc'[t] = "lookup" /\ \A u \in Threads \ {t} : pc'[u] = pc[u]
    BY <1>5 DEF LockShared, TypeOK
  <2>3. QED
    BY <2>1, <2>2 DEF LockInv, LockOf, HeldExclusive
<1>6. ASSUME NEW t \in Threads, LockExclusive(t) PROVE LockInv'
  <2>1. /\ ~ HeldExclusive(LockOf(t)) /\ ~ HeldShared(LockOf(t))
        /\ UNCHANGED <<req, purge>>
    BY <1>6 DEF LockExclusive, CanExclude
  <2>2. pc'[t] = "insert" /\ \A u \in Threads \ {t} : pc'[u] = pc[u]
    BY <1>6 DEF LockExclusive, TypeOK
  <2>3. QED
    BY <2>1, <2>2 DEF LockInv, LockOf, HeldExclusive, HeldShared
<1>7. CASE PurgeWake \/ PurgeErase
  <2>1. UNCHANGED <<pc, req>> /\ purge'.pc # "erase"
    BY <1>7 DEF PurgeWake, PurgeErase
  <2>2. QED
    BY <2>1 DEF LockInv, LockOf
<1>8. CASE PurgeLock
  <2>1. /\ UNCHANGED <<pc, req>> /\ purge'.i = purge.i
        /\ ~ HeldExclusive(PurgeLockOf(purge.i)) /\ ~ HeldShared(PurgeLockOf(purge.i))
    BY <1>8 DEF PurgeLock, CanExclude, TypeOK
  <2>2. QED
    BY <2>1 DEF LockInv, LockOf, HeldExclusive, HeldShared
<1>9. CASE Publish \/ Tick \/ UNCHANGED vars
  BY <1>2, <1>9 DEF Publish, PublishPixels, PublishMask, Tick, vars
<1>10. QED
  BY <1>3, <1>4, <1>5, <1>6, <1>7, <1>8, <1>9 DEF Next, Request, Purge

\* Lock exclusion leaves only the insertions that run over the end of a block.
LEMMA LocksImplyRaceFreedom == LockInv /\ TypeOK => RaceNeedsCrossing
<1> SUFFICES ASSUME LockInv, TypeOK, NEW t \in Threads, NEW f \in Frames, RaceOn(t, f),
                    ~ Crossing(t)
             PROVE  \E u \in Threads \ {t} : Writes(u, f) /\ Crossing(u)
  BY DEF RaceNeedsCrossing
<1>1. pc[t] = "insert" /\ LockOf(t) = BlockOf(f)
  BY DEF RaceOn, Writes, Crossing
<1>2. ~ PurgesFrame(f)
  BY <1>1 DEF PurgesFrame, LockInv, PurgeLockOf
<1>3. PICK u \in Threads \ {t} : Reads(u, f) \/ Writes(u, f)
  BY <1>2 DEF RaceOn
<1>4. ~ Reads(u, f)
  BY <1>1 DEF Reads, LockInv, LockOf
<1>5. Crossing(u)
  BY <1>1, <1>3, <1>4 DEF Writes, Crossing, LockInv
<1>6. QED
  BY <1>3, <1>4, <1>5

(***************************************************************************)
(* Empty results.                                                          *)
(***************************************************************************)

\* Publication is never undone.
LEMMA PublishedStable ==
    ASSUME TypeStep
    PROVE  /\ \A b \in Blocks : cube_pixels[b] => cube_pixels'[b]
           /\ \A g \in Frames : cube_mask[g] => cube_mask'[g]
<1>1. \A b \in Blocks : cube_pixels[b] => cube_pixels'[b]
  BY DEF TypeStep, TypeInv, Typed, TypeOK, Next, Publish, Request, Purge, vars,
         PublishPixels, PublishMask, Call, LockShared, Lookup, Refresh, DecodeFails,
         Decode, LockExclusive, Insert, InsertSkipped, PurgeWake, PurgeLock, PurgeErase, Tick
<1>2. \A g \in Frames : cube_mask[g] => cube_mask'[g]
  BY DEF TypeStep, TypeInv, Typed, TypeOK, Next, Publish, Request, Purge, vars,
         PublishPixels, PublishMask, Call, LockShared, Lookup, Refresh, DecodeFails,
         Decode, LockExclusive, Insert, InsertSkipped, PurgeWake, PurgeLock, PurgeErase, Tick
<1>3. QED
  BY <1>1, <1>2

ReadyOf(t) ==
    /\ pc[t] # "idle" => Readable(req[t].frame)
    /\ Filling(t) /\ k[t] > SubFrame(req[t].frame) => res[t] # NoData
    /\ pc[t] = "idle" /\ res[t] = NoData =>
           req[t].frame + SubFrame(req[t].frame) >= Depth

LEMMA ReadyOfAll ==
    ReadyInv /\ NullOnlyAtTail <=> \A t \in Threads : ready[t] => ReadyOf(t)
  BY DEF ReadyInv, NullOnlyAtTail, ReadyOf

\* When the insert loop of a ready call ends without data, it ended at the last
\* frame before it got to the frame asked for.
LEMMA AdvanceReady ==
    ASSUME TypeInv, NEW t \in Threads, Filling(t), ready[t], ReadyOf(t), Advance(t),
           req' = req, Readable(req[t].frame)',
           Wanted(req[t].frame, k[t]) => res'[t] # NoData,
           res[t] # NoData => res'[t] # NoData
    PROVE  ReadyOf(t)'
<1> DEFINE f == req[t].frame
<1> USE DEF TypeInv, Typed
<1>1. f \in Nat /\ k[t] \in 0 .. 3 /\ SubFrame(f) \in 0 .. 3
  <2>1. f \in Nat /\ k[t] \in 0 .. 3
    BY DepthAssumption DEF TypeOK, Frames
  <2>2. QED
    BY <2>1, DivMod
<1>2. k[t] >= SubFrame(f) => res'[t] # NoData
  BY <1>1 DEF ReadyOf, Wanted
<1>3. CASE LastInsert(f, k[t])
  <2>1. pc'[t] = "idle"
    BY <1>3 DEF Advance, TypeOK
  <2>2. res'[t] = NoData => f + SubFrame(f) >= Depth
    BY <1>1, <1>2, <1>3, DepthAssumption DEF LastInsert
  <2>3. QED
    BY <2>1, <2>2 DEF ReadyOf, Filling
<1>4. CASE ~ LastInsert(f, k[t])
  <2>1. pc'[t] = "want_write" /\ k'[t] = k[t] + 1
    BY <1>4 DEF Advance, TypeOK
  <2>2. k[t] + 1 > SubFrame(f) => k[t] >= SubFrame(f)
    BY <1>1
  <2>3. QED
    BY <1>2, <2>1, <2>2 DEF ReadyOf, Filling
<1>5. QED
  BY <1>3, <1>4

LEMMA ReadyStep ==
    ASSUME TypeStep, HolderInv, \A t \in Threads : ready[t] => ReadyOf(t),
           NEW u \in Threads, ready'[u]
    PROVE  ReadyOf(u)'
<1> USE DEF TypeStep, TypeInv, Typed
<1>0. ASSUME Readable(req[u].frame), req'[u] = req[u]
      PROVE  Readable(req[u].frame)'
  <2>1. req[u].frame \in Frames
    BY DEF TypeOK
  <2>2. BlockOf(req[u].frame) \in Blocks
    BY <2>1, BlockInBlocks
  <2>3. QED
    BY <1>0, <2>2, PublishedStable DEF Readable, FilledBy
\* A step in which u does not move.
<1>1. ASSUME ready[u], pc'[u] = pc[u], req'[u] = req[u], k'[u] = k[u], res'[u] = res[u]
      PROVE  ReadyOf(u)'
  <2>1. ReadyOf(u)
    BY <1>1
  <2>2. pc[u] # "idle" => Readable(req[u].frame)'
    BY <1>0, <1>1, <2>1 DEF ReadyOf
  <2>3. QED
    BY <1>1, <2>1, <2>2 DEF ReadyOf, Filling
<1>2. CASE Publish \/ Purge \/ Tick \/ UNCHANGED vars
  BY <1>1, <1>2 DEF Publish, PublishPixels, PublishMask, Purge, PurgeWake, PurgeLock,
                    PurgeErase, Tick, vars
<1>3. ASSUME NEW t \in Threads, NEW f \in Requested, NEW r \in Regions, Call(t, f, r)
      PROVE  ReadyOf(u)'
  <2>1. CASE u # t
    BY <1>1, <1>3, <2>1 DEF Call, TypeOK
  <2>2. CASE u = t
    <3>1. pc'[u] = "want_read" /\ req'[u].frame = f /\ Readable(f)
      BY <1>3, <2>2 DEF Call, TypeOK
    <3>2. BlockOf(f) \in Blocks
      BY SubsetAssumption, BlockInBlocks
    <3>3. Readable(req[u].frame)'
      BY <3>1, <3>2, PublishedStable DEF Readable, FilledBy
    <3>4. QED
      BY <3>1, <3>3 DEF ReadyOf, Filling
  <2>3. QED
    BY <2>1, <2>2
<1>4. ASSUME NEW t \in Threads, Request(t), u # t PROVE ReadyOf(u)'
  <2>1. /\ req' = req
        /\ pc'[u] = pc[u] /\ k'[u] = k[u] /\ res'[u] = res[u] /\ ready'[u] = ready[u]
    BY <1>4, OneThreadMoves
  <2>2. QED
    BY <1>1, <2>1
<1>5. CASE LockShared(u) \/ Lookup(u)
  <2>1. ready[u] /\ pc'[u] \in {"lookup", "decode", "refresh"} /\ req' = req /\ pc[u] # "idle"
    BY <1>5 DEF LockShared, Lookup, TypeOK
  <2>2. QED
    BY <1>0, <2>1 DEF ReadyOf, Filling
<1>6. CASE Refresh(u)
  <2>1. pc'[u] = "idle" /\ res'[u] = entry[u] /\ entry[u] # NoData
    BY <1>6 DEF Refresh, HolderInv, TypeOK
  <2>2. QED
    BY <2>1 DEF ReadyOf, Filling
<1>7. CASE DecodeFails(u)
  <2>1. ready[u] /\ pc[u] = "decode" /\ ~ Readable(req[u].frame)
    BY <1>7 DEF DecodeFails
  <2>2. QED
    BY <2>1 DEF ReadyOf
<1>8. CASE Decode(u)
  <2>1. ready[u] /\ pc'[u] = "want_write" /\ UNCHANGED <<req, k, res>> /\ pc[u] = "decode"
    BY <1>8 DEF Decode, TypeOK
  <2>2. k[u] = 0 /\ SubFrame(req[u].frame) \in 0 .. 3
    <3>1. req[u].frame \in Frames /\ k[u] = 0
      BY <2>1 DEF TypeOK, FillerInv, Filling
    <3>2. req[u].frame \in Nat
      BY <3>1, DepthAssumption DEF Frames
    <3>3. QED
      BY <3>1, <3>2, DivMod
  <2>3. QED
    BY <1>0, <2>1, <2>2 DEF ReadyOf, Filling
<1>9. CASE LockExclusive(u)
  <2>1. ready[u] /\ pc'[u] = "insert" /\ UNCHANGED <<req, k, res>> /\ pc[u] = "want_write"
    BY <1>9 DEF LockExclusive, TypeOK
  <2>2. QED
    BY <1>0, <2>1 DEF ReadyOf, Filling
<1>10. CASE Insert(u)
  <2>1. ready[u] /\ Filling(u) /\ Advance(u) /\ req' = req
    BY <1>10 DEF Insert, Filling
  <2>2. Readable(req[u].frame)'
    BY <1>0, <2>1 DEF ReadyOf, Filling
  <2>3. /\ Wanted(req[u].frame, k[u]) => res'[u] # NoData
        /\ res[u] # NoData => res'[u] # NoData
    <3> DEFINE d == [pix |-> PixelsAt(req[u].frame, k[u]),
                     mask |-> MaskAt(req[u].frame, k[u])]
    <3>1. res' = IF Wanted(req[u].frame, k[u]) THEN [res EXCEPT ![u] = d] ELSE res
      BY <1>10 DEF Insert
    <3>2. Wanted(req[u].frame, k[u]) => res'[u] = d /\ d # NoData
      <4>1. PixelsAt(req[u].frame, k[u]) \in Nat /\ MaskAt(req[u].frame, k[u]) \in Frames
        <5>1. k[u] \in 0 .. 3 /\ req[u].frame + k[u] < Depth
          BY <2>1 DEF TypeOK, FillerInv
        <5>2. req[u].frame \in Nat
          BY DepthAssumption DEF TypeOK, Frames
        <5>3. PixelsAt(req[u].frame, k[u]) \in Nat
          BY <5>1, <5>2, DivMod DEF PixelsAt
        <5>4. QED
          BY <5>1, <5>2, <5>3, DepthAssumption DEF MaskAt, Frames
      <4>2. d \in Data
        BY <4>1 DEF Data
      <4>3. QED
        BY <3>1, <4>2, NullAssumption DEF TypeOK
    <3>3. QED
      BY <3>1, <3>2 DEF TypeOK
  <2>4. QED
    BY <2>1, <2>2, <2>3, AdvanceReady
<1>11. CASE InsertSkipped(u)
  BY <1>11 DEF InsertSkipped, TypeOK
<1>12. QED
  BY <1>2, <1>3, <1>4, <1>5, <1>6, <1>7, <1>8, <1>9, <1>10, <1>11 DEF Next, Request

(***************************************************************************)
(* The safety theorems.                                                    *)
(***************************************************************************)

FullInv == TypeInv /\ IInv

LEMMA FullInit == Init => FullInv
<1> SUFFICES ASSUME Init PROVE FullInv
  OBVIOUS
<1>1. TypeInv
  BY TypeInit
<1>2. CacheShape /\ ExactUnlessUnaligned
  BY DEF Init, CacheShape, ExactUnlessUnaligned, CacheExact
<1>3. HolderInv /\ LockInv
  BY DEF Init, HolderInv, LockInv
<1>4. ReadyInv /\ NullOnlyAtTail
  BY DEF Init, ReadyInv, NullOnlyAtTail
<1>5. QED
  BY <1>1, <1>2, <1>3, <1>4 DEF FullInv, IInv, TypeInv, Typed

LEMMA FullStep == FullInv /\ [Next]_vars => FullInv'
<1> SUFFICES ASSUME FullInv, [Next]_vars PROVE FullInv'
  OBVIOUS
<1>1. TypeStep
  BY TypeStepIntro DEF FullInv
<1>2. TypeInv'
  BY <1>1 DEF TypeStep
<1>3. CacheShape'
  BY <1>1, ShapeStep DEF FullInv, IInv
<1>4. ExactUnlessUnaligned' /\ HolderInv'
  BY <1>1, ExactStep, HolderStep DEF FullInv, IInv
<1>5. LockInv'
  BY <1>1, LockStep DEF FullInv, IInv
<1>6. \A t \in Threads : ready[t] => ReadyOf(t)
  BY ReadyOfAll DEF FullInv, IInv
<1>7. ASSUME NEW u \in Threads, ready'[u] PROVE ReadyOf(u)'
  BY <1>1, <1>6, <1>7, ReadyStep DEF FullInv, IInv
<1>8. ReadyInv' /\ NullOnlyAtTail'
  BY <1>7 DEF ReadyOf, ReadyInv, NullOnlyAtTail
<1>9. QED
  BY <1>2, <1>3, <1>4, <1>5, <1>8 DEF FullInv, IInv, TypeInv, Typed

LEMMA Invariance == Spec => []FullInv
  BY FullInit, FullStep, PTL DEF Spec

\* CacheShape: whatever frames are asked for and however requests and purges
\* interleave, an entry has its own frame's mask and pixels of that frame or of
\* one of the three before it.
THEOREM CacheShapeHolds == Spec => []CacheShape
<1>1. FullInv => CacheShape
  BY DEF FullInv, IInv
<1>2. QED
  BY <1>1, Invariance, PTL

\* ExactUnlessUnaligned: as long as every miss was at a multiple of four, the
\* cache and the results of request_cached_region_ptr are exact.
THEOREM AlignedIsExact == Spec => []ExactUnlessUnaligned
<1>1. FullInv => ExactUnlessUnaligned
  BY DEF FullInv, IInv
<1>2. QED
  BY <1>1, Invariance, PTL

\* RaceNeedsCrossing: cache_mtx protects every frame's map from all accesses but
\* the insertions that run over the end of their block.
THEOREM RaceOnlyByCrossing == Spec => []RaceNeedsCrossing
<1>1. FullInv => RaceNeedsCrossing
  BY LocksImplyRaceFreedom DEF FullInv, IInv, TypeInv, Typed
<1>2. QED
  BY <1>1, Invariance, PTL

\* NullOnlyAtTail: a request for a published region comes back empty only where
\* frame + frame % 4 is past the last frame.
THEOREM NullOnlyAtTailHolds == Spec => []NullOnlyAtTail
<1>1. FullInv => NullOnlyAtTail
  BY DEF FullInv, IInv
<1>2. QED
  BY <1>1, Invariance, PTL

=============================================================================
