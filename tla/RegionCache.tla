---------------------------- MODULE RegionCache ----------------------------
(***************************************************************************)
(* The cache of decompressed regions of a FITS data cube (class FITS in    *)
(* src/src/fits.cpp).                                                      *)
(*                                                                         *)
(* A cube has Depth frames.  Frames are compressed in blocks of four: one  *)
(* ZFP stream per block (cube_pixels) and one LZ4 mask per frame           *)
(* (cube_mask).  Request threads call request_cached_region_ptr(frame,     *)
(* idy, idx): look the region up in cache[frame] under a shared lock and,  *)
(* on a miss, decode the block, apply four masks and insert four entries,  *)
(* each under the exclusive lock cache_mtx[frame / 4].  A purge thread     *)
(* erases the entries that were not used for CACHE_TIMEOUT seconds.        *)
(*                                                                         *)
(* Pixel data is abstracted to two labels: pix, the frame whose pixels     *)
(* were decoded, and mask, the frame whose NaN mask and value range        *)
(* (frame_min, frame_max) were applied to them.  Time is abstracted to the *)
(* age of an entry, the difference now - timestamp that the code computes. *)
(***************************************************************************)
EXTENDS Integers

CONSTANTS
    Depth,       \* number of frames in the cube
    Regions,     \* the (idy, idx) pairs of a frame
    Threads,     \* threads that call request_cached_region_ptr
    Requested,   \* the frames the callers ask for
    Corrupt,     \* frames whose stored LZ4 mask does not decompress
    Timeout,     \* CACHE_TIMEOUT, in ticks
    NoEntry,     \* a key that is absent from the cache map
    NoData       \* a null std::shared_ptr<unsigned short>

Frames == 0 .. Depth - 1
BlockOf(f) == f \div 4
SubFrame(f) == f % 4
Blocks == 0 .. BlockOf(Depth - 1)
Ages == 0 .. Timeout + 1

Data == [pix : Nat, mask : Frames]
Entry == [pix : Nat, mask : Frames, age : Ages]

ASSUME DepthAssumption == Depth \in Nat \ {0}
ASSUME TimeoutAssumption == Timeout \in Nat
ASSUME SubsetAssumption == Requested \subseteq Frames /\ Corrupt \subseteq Frames
ASSUME NullAssumption == NoEntry \notin Entry /\ NoData \notin Data

VARIABLES
    cube_pixels, \* block -> its ZFP stream has been published
    cube_mask,   \* frame -> its LZ4 mask has been published
    cache,       \* frame -> region -> entry
    pc,          \* where each request thread is
    req,         \* the arguments of each thread's current (or last) call
    entry,       \* the data each thread found, kept alive by its shared_ptr
    attached,    \* whether the entry a thread found is still in the cache
    k,           \* the insert loop's counter, per thread
    res,         \* the data returned by the last call of each thread
    purge,       \* the purge thread: where it is, and the frame it is at
    unaligned,   \* history: some miss was decoded for a frame with frame % 4 # 0
    ready        \* history: at the call the whole block was there to be read

vars == <<cube_pixels, cube_mask, cache, pc, req, entry, attached, k, res,
          purge, unaligned, ready>>

PCs == {"idle", "want_read", "lookup", "refresh", "decode", "want_write", "insert"}

TypeOK ==
    /\ cube_pixels \in [Blocks -> BOOLEAN]
    /\ cube_mask \in [Frames -> BOOLEAN]
    /\ cache \in [Frames -> [Regions -> Entry \cup {NoEntry}]]
    /\ pc \in [Threads -> PCs]
    /\ req \in [Threads -> [frame : Frames, region : Regions]]
    /\ entry \in [Threads -> Data \cup {NoData}]
    /\ attached \in [Threads -> BOOLEAN]
    /\ k \in [Threads -> 0 .. 3]
    /\ res \in [Threads -> Data \cup {NoData}]
    /\ purge \in [pc : {"sleep", "want", "erase"}, i : Frames]
    /\ unaligned \in BOOLEAN
    /\ ready \in [Threads -> BOOLEAN]

Init ==
    /\ cube_pixels = [b \in Blocks |-> FALSE]
    /\ cube_mask = [f \in Frames |-> FALSE]
    /\ cache = [f \in Frames |-> [r \in Regions |-> NoEntry]]
    /\ pc = [t \in Threads |-> "idle"]
    /\ req \in [Threads -> [frame : {0}, region : Regions]]
    /\ entry = [t \in Threads |-> NoData]
    /\ attached = [t \in Threads |-> FALSE]
    /\ k = [t \in Threads |-> 0]
    /\ res = [t \in Threads |-> NoData]
    /\ purge = [pc |-> "sleep", i |-> 0]
    /\ unaligned = FALSE
    /\ ready = [t \in Threads |-> FALSE]

-----------------------------------------------------------------------------
(* The lock cache_mtx[b].  Every thread locks the mutex of the block of the *)
(* frame it was called for, whichever frame it is about to touch.           *)

LockOf(t) == BlockOf(req[t].frame)
PurgeLockOf(i) == BlockOf(i)

HeldShared(b) == \E t \in Threads : pc[t] = "lookup" /\ LockOf(t) = b
HeldExclusive(b) ==
    \/ \E t \in Threads : pc[t] = "insert" /\ LockOf(t) = b
    \/ purge.pc = "erase" /\ PurgeLockOf(purge.i) = b

CanShare(b) == ~ HeldExclusive(b)
CanExcludeIgnoringReaders(b) == ~ HeldExclusive(b)
CanExclude(b) == ~ HeldExclusive(b) /\ ~ HeldShared(b)

-----------------------------------------------------------------------------
(* Operators that are not used by the specification and stand next to the   *)
(* one they vary (CanExcludeIgnoringReaders, MaskAtBlock, ...) are faulty   *)
(* variants of it: with them a property must fail.                          *)

(* Publication of compressed blocks by the loader (zfp_compress_cube and    *)
(* zfp_mmap_cube): the ZFP stream first, then the masks in frame order.     *)

PublishPixels(b) ==
    /\ ~ cube_pixels[b]
    /\ cube_pixels' = [cube_pixels EXCEPT ![b] = TRUE]
    /\ UNCHANGED <<cube_mask, cache, pc, req, entry, attached, k, res, purge,
                   unaligned, ready>>

PublishMask(f) ==
    /\ ~ cube_mask[f]
    /\ cube_pixels[BlockOf(f)]
    /\ \A g \in Frames : BlockOf(g) = BlockOf(f) /\ g < f => cube_mask[g]
    /\ cube_mask' = [cube_mask EXCEPT ![f] = TRUE]
    /\ UNCHANGED <<cube_pixels, cache, pc, req, entry, attached, k, res, purge,
                   unaligned, ready>>

-----------------------------------------------------------------------------
(* request_cached_region_ptr                                                *)

\* The frames a miss on frame f inserts: f .. f + 3, cut off at the depth.
FilledBy(f) == {g \in Frames : f <= g /\ g <= f + 3}

\* The block and all four masks that a miss on frame f reads are there.
Readable(f) ==
    /\ cube_pixels[BlockOf(f)]
    /\ \A g \in FilledBy(f) : cube_mask[g] /\ g \notin Corrupt

\* The frame whose pixels _pixels[i] holds after the block of f was decoded.
PixelsAtSubFrame(f, i) == 4 * BlockOf(f) + SubFrame(f)
PixelsAt(f, i) == 4 * BlockOf(f) + i

\* The mask applied to _pixels[i].
MaskAtBlock(f, i) == 4 * BlockOf(f) + i
MaskAt(f, i) == f + i

\* Whether the i-th of the four new entries is the one to return.
WantedByFrame(f, i) == i = f
Wanted(f, i) == i = SubFrame(f)

\* A caller (get_spectrum, get_cube, get_video_frame, preempt_cache) only
\* asks for a region once it saw both compressed forms of the frame.
Call(t, f, r) ==
    /\ pc[t] = "idle"
    /\ cube_pixels[BlockOf(f)]
    /\ cube_mask[f]
    /\ pc' = [pc EXCEPT ![t] = "want_read"]
    /\ req' = [req EXCEPT ![t] = [frame |-> f, region |-> r]]
    /\ res' = [res EXCEPT ![t] = NoData]
    /\ ready' = [ready EXCEPT ![t] = Readable(f)]
    /\ UNCHANGED <<cube_pixels, cube_mask, cache, entry, attached, k, purge, unaligned>>

LockShared(t) ==
    /\ pc[t] = "want_read"
    /\ CanShare(LockOf(t))
    /\ pc' = [pc EXCEPT ![t] = "lookup"]
    /\ UNCHANGED <<cube_pixels, cube_mask, cache, req, entry, attached, k, res,
                   purge, unaligned, ready>>

\* The lookup; the shared lock is released at its end.
Lookup(t) ==
    LET e == cache[req[t].frame][req[t].region] IN
    /\ pc[t] = "lookup"
    /\ \/ /\ e = NoEntry
          /\ pc' = [pc EXCEPT ![t] = "decode"]
          /\ UNCHANGED <<entry, attached>>
       \/ /\ e # NoEntry
          /\ pc' = [pc EXCEPT ![t] = "refresh"]
          /\ entry' = [entry EXCEPT ![t] = [pix |-> e.pix, mask |-> e.mask]]
          /\ attached' = [attached EXCEPT ![t] = TRUE]
    /\ UNCHANGED <<cube_pixels, cube_mask, cache, req, k, res, purge, unaligned, ready>>

\* A hit: the timestamp is written after the lock was released, so by then the
\* entry may be gone from the cache (purged or replaced by another filler).
Refresh(t) ==
    LET f == req[t].frame
        r == req[t].region
    IN
    /\ pc[t] = "refresh"
    /\ cache' = IF attached[t]
                THEN [cache EXCEPT ![f][r] = [cache[f][r] EXCEPT !.age = 0]]
                ELSE cache
    /\ res' = [res EXCEPT ![t] = entry[t]]
    /\ entry' = [entry EXCEPT ![t] = NoData]
    /\ attached' = [attached EXCEPT ![t] = FALSE]
    /\ pc' = [pc EXCEPT ![t] = "idle"]
    /\ UNCHANGED <<cube_pixels, cube_mask, req, k, purge, unaligned, ready>>

\* A miss: decode the block and apply the masks.  The pointers that are read
\* one after the other only ever go from null to published, so reading them in
\* one step has the same outcomes.
DecodeFails(t) ==
    /\ pc[t] = "decode"
    /\ ~ Readable(req[t].frame)
    /\ pc' = [pc EXCEPT ![t] = "idle"]
    /\ UNCHANGED <<cube_pixels, cube_mask, cache, req, entry, attached, k, res,
                   purge, unaligned, ready>>

Decode(t) ==
    /\ pc[t] = "decode"
    /\ Readable(req[t].frame)
    /\ pc' = [pc EXCEPT ![t] = "want_write"]
    /\ unaligned' = (unaligned \/ SubFrame(req[t].frame) # 0)
    /\ UNCHANGED <<cube_pixels, cube_mask, cache, req, entry, attached, k, res,
                   purge, ready>>

LockExclusive(t) ==
    /\ pc[t] = "want_write"
    /\ CanExclude(LockOf(t))
    /\ pc' = [pc EXCEPT ![t] = "insert"]
    /\ UNCHANGED <<cube_pixels, cube_mask, cache, req, entry, attached, k, res,
                   purge, unaligned, ready>>

LastInsertOfFour(f, i) == i = 3
LastInsert(f, i) == i = 3 \/ f + i + 1 >= Depth

\* The loop's next iteration, or the return to the caller.
AdvanceStuck(t) ==
    /\ pc' = [pc EXCEPT ![t] = IF LastInsert(req[t].frame, k[t]) THEN "idle"
                                                               ELSE "want_write"]
    /\ UNCHANGED k
Advance(t) ==
    IF LastInsert(req[t].frame, k[t])
    THEN pc' = [pc EXCEPT ![t] = "idle"] /\ k' = [k EXCEPT ![t] = 0]
    ELSE pc' = [pc EXCEPT ![t] = "want_write"] /\ k' = [k EXCEPT ![t] = @ + 1]

\* Threads that still hold the entry of <<f, r>> lose it from the cache.
Detach(f, r) ==
    attached' = [t \in Threads |->
                    attached[t] /\ ~ (req[t].frame = f /\ req[t].region = r)]

Insert(t) ==
    LET f == req[t].frame
        g == f + k[t]
        r == req[t].region
        d == [pix |-> PixelsAt(f, k[t]), mask |-> MaskAt(f, k[t])]
    IN
    /\ pc[t] = "insert"
    /\ cache' = [cache EXCEPT ![g][r] = [pix |-> d.pix, mask |-> d.mask, age |-> 0]]
    /\ res' = IF Wanted(f, k[t]) THEN [res EXCEPT ![t] = d] ELSE res
    /\ Detach(g, r)
    /\ Advance(t)
    /\ UNCHANGED <<cube_pixels, cube_mask, req, entry, purge, unaligned, ready>>

\* No memory for the data of the new entry: it is not inserted.
InsertSkipped(t) ==
    /\ pc[t] = "want_write"
    /\ ready' = [ready EXCEPT ![t] = FALSE]
    /\ Advance(t)
    /\ UNCHANGED <<cube_pixels, cube_mask, cache, req, entry, attached, res,
                   purge, unaligned>>

-----------------------------------------------------------------------------
(* The purge thread: every ten seconds purge_cache visits all frames.       *)

PurgeWake ==
    /\ purge.pc = "sleep"
    /\ purge' = [pc |-> "want", i |-> 0]
    /\ UNCHANGED <<cube_pixels, cube_mask, cache, pc, req, entry, attached, k,
                   res, unaligned, ready>>

PurgeLock ==
    /\ purge.pc = "want"
    /\ CanExclude(PurgeLockOf(purge.i))
    /\ purge' = [purge EXCEPT !.pc = "erase"]
    /\ UNCHANGED <<cube_pixels, cube_mask, cache, pc, req, entry, attached, k,
                   res, unaligned, ready>>

LastFrameShort(i) == i >= Depth - 2
LastFrame(i) == i = Depth - 1

Stale(e) == e # NoEntry /\ e.age > Timeout

PurgeErase ==
    LET i == purge.i IN
    /\ purge.pc = "erase"
    /\ cache' = [cache EXCEPT ![i] =
                    [r \in Regions |-> IF Stale(cache[i][r]) THEN NoEntry ELSE cache[i][r]]]
    /\ attached' = [t \in Threads |->
                       attached[t] /\ ~ (req[t].frame = i /\ Stale(cache[i][req[t].region]))]
    /\ purge' = IF LastFrame(i) THEN [pc |-> "sleep", i |-> 0]
                                ELSE [pc |-> "want", i |-> i + 1]
    /\ UNCHANGED <<cube_pixels, cube_mask, pc, req, entry, k, res, unaligned, ready>>

\* Time passes; ages saturate just above Timeout.
Older(e) == IF e = NoEntry \/ e.age = Timeout + 1 THEN e ELSE [e EXCEPT !.age = @ + 1]

Tick ==
    /\ cache' = [f \in Frames |-> [r \in Regions |-> Older(cache[f][r])]]
    /\ UNCHANGED <<cube_pixels, cube_mask, pc, req, entry, attached, k, res,
                   purge, unaligned, ready>>

-----------------------------------------------------------------------------
Request(t) ==
    \/ LockShared(t)
    \/ Lookup(t)
    \/ Refresh(t)
    \/ DecodeFails(t)
    \/ Decode(t)
    \/ LockExclusive(t)
    \/ Insert(t)
    \/ InsertSkipped(t)

Publish ==
    \/ \E b \in Blocks : PublishPixels(b)
    \/ \E f \in Frames : PublishMask(f)

Purge == PurgeWake \/ PurgeLock \/ PurgeErase

Next ==
    \/ Publish
    \/ \E t \in Threads, f \in Requested, r \in Regions : Call(t, f, r)
    \/ \E t \in Threads : Request(t)
    \/ Purge
    \/ Tick

Spec == Init /\ [][Next]_vars

(***************************************************************************)
(* Fairness: threads and the clock run; a lock that is free again and again *)
(* is granted (a shared section is a map lookup).  InsertSkipped, an        *)
(* allocation failure, is never forced.                                     *)
(***************************************************************************)
Fairness ==
    /\ \A t \in Threads :
        /\ SF_vars(LockShared(t))
        /\ SF_vars(LockExclusive(t))
        /\ WF_vars(Lookup(t) \/ Refresh(t) \/ DecodeFails(t) \/ Decode(t) \/ Insert(t))
    /\ SF_vars(PurgeLock)
    /\ WF_vars(PurgeWake \/ PurgeErase)
    /\ WF_vars(Tick)

FairSpec == Spec /\ Fairness

-----------------------------------------------------------------------------
(* Properties                                                               *)

\* Every cached entry carries the mask of the frame it is filed under, and its
\* pixels lag behind that frame by at most three frames, whatever frame the
\* filling request_cached_region_ptr call was made for.
CacheShape ==
    \A f \in Frames, r \in Regions :
        cache[f][r] # NoEntry =>
            /\ cache[f][r].mask = f
            /\ cache[f][r].pix <= f
            /\ f - cache[f][r].pix <= 3

ExactEntry(f, e) == e.pix = f /\ e.mask = f

\* The cache never files the pixels of one frame under another, as get_spectrum
\* and preempt_cache intend when they start their loops at a multiple of four.
CacheExact ==
    \A f \in Frames, r \in Regions :
        cache[f][r] # NoEntry => ExactEntry(f, cache[f][r])

\* As long as every miss was for a frame at a multiple of four, all that is
\* cached and all that request_cached_region_ptr returned is the pixels and the
\* mask of the frame asked for: no interleaving of fillers, hits and purges
\* mixes frames up.
ExactUnlessUnaligned ==
    ~ unaligned =>
        /\ CacheExact
        /\ \A t \in Threads :
            res[t] # NoData => ExactEntry(req[t].frame, res[t])

\* Accesses to the std::map of a frame: who is reading or writing which one.
Reads(t, f) == pc[t] = "lookup" /\ req[t].frame = f
Writes(t, f) == pc[t] = "insert" /\ req[t].frame + k[t] = f
PurgesFrame(f) == purge.pc = "erase" /\ purge.i = f

\* A writer that touches a frame of the next block, under its own block's lock.
Crossing(t) == pc[t] = "insert" /\ BlockOf(req[t].frame + k[t]) # LockOf(t)

RaceOn(t, f) ==
    /\ Writes(t, f)
    /\ \/ PurgesFrame(f)
       \/ \E u \in Threads \ {t} : Reads(u, f) \/ Writes(u, f)

\* The only way two threads can collide in a frame's map is an insertion that
\* runs over the end of the block whose lock it holds.
RaceNeedsCrossing ==
    \A t \in Threads, f \in Frames :
        RaceOn(t, f) =>
            \/ Crossing(t)
            \/ \E u \in Threads \ {t} : Writes(u, f) /\ Crossing(u)

\* A request for a region that was completely published when the call was made
\* comes back empty only in the cube's tail, where frame + frame % 4 is past the
\* last frame and the loop ends before it reaches the frame asked for.
NullOnlyAtTail ==
    \A t \in Threads :
        pc[t] = "idle" /\ ready[t] /\ res[t] = NoData =>
            req[t].frame + SubFrame(req[t].frame) >= Depth

\* std::shared_mutex does not promise that overlapping readers ever let a writer
\* in: this is the assumption that they do, that every lock is free now and then.
LocksDrain == \A b \in Blocks : []<>CanExclude(b)

\* Every call of request_cached_region_ptr returns if readers do not starve the
\* writers: neither the insertions nor the purge thread hold it up for ever.
RequestReturns == LocksDrain => \A t \in Threads : pc[t] # "idle" ~> pc[t] = "idle"

\* purge_cache leaves nothing behind: if readers do not starve it, an entry that
\* nobody uses or replaces any more is erased in the end.
UnusedIsPurged ==
    LocksDrain =>
        \A f \in Frames, r \in Regions :
            []<>(cache[f][r] = NoEntry \/ cache[f][r].age = 0)

\* The answer of a call that is still running is not visible yet.
Service == INSTANCE RegionService WITH
    call <- req,
    pending <- [t \in Threads |-> pc[t] # "idle"],
    answer <- [t \in Threads |-> IF pc[t] = "idle" THEN res[t] ELSE NoData],
    exact <- ~ unaligned

\* request_cached_region_ptr implements the atomic service: the steps of a call, its
\* locks, the fillers and the purge thread cannot be told from one that looks the
\* data up in the cube at one moment.
ServesRegions == Service!Spec

-----------------------------------------------------------------------------
(* The inductive invariant behind the safety properties.                    *)

Filling(t) == pc[t] \in {"want_write", "insert"}

\* A filler stays inside the cube, and its block is aligned unless the history
\* variable says otherwise.
FillerInv ==
    \A t \in Threads :
        /\ Filling(t) => req[t].frame + k[t] < Depth
        /\ Filling(t) /\ ~ unaligned => SubFrame(req[t].frame) = 0
        /\ ~ Filling(t) => k[t] = 0

\* An entry that a thread still shares with the cache is the one filed under the
\* arguments of its call.
AttachedInv ==
    \A t \in Threads :
        attached[t] => /\ pc[t] = "refresh"
                       /\ cache[req[t].frame][req[t].region] # NoEntry

\* What a thread found is data, and is exact unless some miss was unaligned.
HolderInv ==
    \A t \in Threads :
        /\ pc[t] = "refresh" <=> entry[t] # NoData
        /\ entry[t] # NoData /\ ~ unaligned => ExactEntry(req[t].frame, entry[t])

\* The locks exclude each other.
LockInv ==
    /\ \A t \in Threads : \A u \in Threads \ {t} :
        pc[t] = "insert" /\ pc[u] \in {"insert", "lookup"} => LockOf(t) # LockOf(u)
    /\ \A t \in Threads :
        purge.pc = "erase" /\ pc[t] \in {"insert", "lookup"} =>
            LockOf(t) # PurgeLockOf(purge.i)

\* While a call that found everything published runs, it can read what it needs,
\* and once its loop is past the frame asked for there is data to return.
ReadyInv ==
    \A t \in Threads :
        ready[t] =>
            /\ pc[t] # "idle" => Readable(req[t].frame)
            /\ Filling(t) /\ k[t] > SubFrame(req[t].frame) => res[t] # NoData

IInv ==
    /\ CacheShape
    /\ ExactUnlessUnaligned
    /\ FillerInv
    /\ AttachedInv
    /\ HolderInv
    /\ LockInv
    /\ ReadyInv
    /\ NullOnlyAtTail

=============================================================================
