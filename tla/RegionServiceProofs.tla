------------------------ MODULE RegionServiceProofs ------------------------
(***************************************************************************)
(* Proof that RegionCache implements RegionService, for cubes of any depth *)
(* and any number of regions, callers and corrupt masks.                   *)
(***************************************************************************)
EXTENDS RegionCacheProofs

(***************************************************************************)
(* What a thread found or is about to return is near the frame it was      *)
(* asked for.  (It is right unless a call was unaligned by HolderInv and   *)
(* ExactUnlessUnaligned.)                                                  *)
(***************************************************************************)

Good(f, d) == d # NoData => d \in Service!Data /\ Service!Near(f, d)

AnswerInv ==
    \A t \in Threads : Good(req[t].frame, res[t]) /\ Good(req[t].frame, entry[t])

LEMMA SameFrames == Service!Frames = Frames
  BY DEF Service!Frames, Frames

\* A cached entry is near the frame it is filed under.
LEMMA CachedIsGood ==
    ASSUME TypeOK, CacheShape, NEW f \in Frames, NEW r \in Regions, cache[f][r] # NoEntry
    PROVE  Good(f, [pix |-> cache[f][r].pix, mask |-> cache[f][r].mask])
<1> DEFINE e == cache[f][r]
<1>1. e \in Entry
  BY DEF TypeOK
<1>2. e.mask = f /\ e.pix <= f /\ f - e.pix <= 3
  BY DEF CacheShape
<1>3. e.pix \in Nat
  BY <1>1 DEF Entry
<1>4. e.pix \in Frames
  BY <1>2, <1>3, DepthAssumption DEF Frames
<1>5. QED
  BY <1>2, <1>4, SameFrames DEF Good, Service!Data, Service!Near

\* The data that a filler returns is that of the sub-frame asked for.
LEMMA FilledIsGood ==
    ASSUME NEW f \in Frames, NEW i \in 0 .. 3, f + i < Depth, Wanted(f, i)
    PROVE  Good(f, [pix |-> PixelsAt(f, i), mask |-> MaskAt(f, i)])
<1>1. /\ MaskAt(f, i) = f + i
      /\ PixelsAt(f, i) = (f + i) - SubFrame(f)
  BY InsertedContent
<1>2. i = SubFrame(f)
  BY DEF Wanted
<1>3. f \in Nat /\ f + i \in Frames /\ (f + i) - i = f
  BY DepthAssumption DEF Frames
<1>4. QED
  BY <1>1, <1>2, <1>3, SameFrames DEF Good, Service!Data, Service!Near

LEMMA AnswerInit == Init => AnswerInv
  BY DEF Init, AnswerInv, Good

LEMMA AnswerStep ==
    ASSUME FullInv, AnswerInv, [Next]_vars
    PROVE  AnswerInv'
<1> USE DEF FullInv, TypeInv, Typed
<1> SUFFICES ASSUME NEW u \in Threads
             PROVE  Good(req'[u].frame, res'[u]) /\ Good(req'[u].frame, entry'[u])
  BY DEF AnswerInv, Good
<1> DEFINE Goal == Good(req'[u].frame, res'[u]) /\ Good(req'[u].frame, entry'[u])
<1>0. Good(req[u].frame, res[u]) /\ Good(req[u].frame, entry[u])
  BY DEF AnswerInv
<1>1. CASE UNCHANGED <<req, res, entry>>
  BY <1>0, <1>1
<1>2. ASSUME NEW t \in Threads, NEW f \in Requested, NEW r \in Regions, Call(t, f, r)
      PROVE  Goal
  <2>1. entry' = entry
    BY <1>2 DEF Call
  <2>2. CASE u = t
    <3>1. res'[u] = NoData
      BY <1>2, <2>2 DEF Call, TypeOK
    <3>2. entry[u] = NoData
      BY <1>2, <2>2 DEF Call, IInv, HolderInv
    <3>3. QED
      BY <2>1, <3>1, <3>2 DEF Good
  <2>3. CASE u # t
    <3>1. req'[u] = req[u] /\ res'[u] = res[u]
      BY <1>2, <2>3 DEF Call, TypeOK
    <3>2. QED
      BY <1>0, <2>1, <3>1
  <2>4. QED
    BY <2>2, <2>3
<1>3. ASSUME NEW t \in Threads, Lookup(t) PROVE Goal
  <2> DEFINE e == cache[req[t].frame][req[t].region]
  <2>1. req' = req /\ res' = res
    BY <1>3 DEF Lookup
  <2>2. CASE entry' = entry
    BY <1>0, <2>1, <2>2
  <2>3. CASE e # NoEntry /\ entry' = [entry EXCEPT ![t] = [pix |-> e.pix, mask |-> e.mask]]
    <3>1. req[t].frame \in Frames /\ req[t].region \in Regions
      BY DEF TypeOK
    <3>2. Good(req[t].frame, [pix |-> e.pix, mask |-> e.mask])
      BY <2>3, <3>1, CachedIsGood DEF IInv
    <3>3. entry'[u] = IF u = t THEN [pix |-> e.pix, mask |-> e.mask] ELSE entry[u]
      BY <2>3 DEF TypeOK
    <3>4. QED
      BY <1>0, <2>1, <3>2, <3>3
  <2>4. QED
    BY <1>3, <2>2, <2>3 DEF Lookup
<1>4. ASSUME NEW t \in Threads, Refresh(t) PROVE Goal
  <2>1. /\ req' = req
        /\ res'[u] = IF u = t THEN entry[t] ELSE res[u]
        /\ entry'[u] = IF u = t THEN NoData ELSE entry[u]
    BY <1>4 DEF Refresh, TypeOK
  <2>2. QED
    BY <1>0, <2>1 DEF Good
<1>5. ASSUME NEW t \in Threads, Insert(t) PROVE Goal
  <2> DEFINE f == req[t].frame
             d == [pix |-> PixelsAt(f, k[t]), mask |-> MaskAt(f, k[t])]
  <2>1. /\ req' = req /\ entry' = entry
        /\ res' = IF Wanted(f, k[t]) THEN [res EXCEPT ![t] = d] ELSE res
    BY <1>5 DEF Insert
  <2>2. f \in Frames /\ k[t] \in 0 .. 3 /\ f + k[t] < Depth
    BY <1>5 DEF Insert, TypeOK, FillerInv, Filling
  <2>3. Wanted(f, k[t]) => Good(f, d)
    BY <2>2, FilledIsGood
  <2>4. res'[u] = IF u = t /\ Wanted(f, k[t]) THEN d ELSE res[u]
    BY <2>1 DEF TypeOK
  <2>5. QED
    BY <1>0, <2>1, <2>3, <2>4
<1>6. CASE /\ ~ \E t \in Threads : Lookup(t) \/ Refresh(t) \/ Insert(t)
           /\ ~ \E t \in Threads, f \in Requested, r \in Regions : Call(t, f, r)
  <2>1. UNCHANGED <<req, res, entry>>
    BY <1>6 DEF Next, Publish, Request, Purge, vars, PublishPixels, PublishMask,
                LockShared, DecodeFails, Decode, LockExclusive, InsertSkipped,
                PurgeWake, PurgeLock, PurgeErase, Tick
  <2>2. QED
    BY <1>1, <2>1
<1>7. QED
  BY <1>2, <1>3, <1>4, <1>5, <1>6

(***************************************************************************)
(* The refinement.                                                         *)
(***************************************************************************)

Pending == [t \in Threads |-> pc[t] # "idle"]
Visible == [t \in Threads |-> IF pc[t] = "idle" THEN res[t] ELSE NoData]

LEMMA InitRefines == Init => Service!Init
<1> SUFFICES ASSUME Init PROVE Service!Init
  OBVIOUS
<1>1. Pending = [t \in Threads |-> FALSE]
  BY DEF Pending, Init
<1>2. Visible = [t \in Threads |-> NoData]
  BY DEF Visible, Init
<1>3. QED
  BY <1>1, <1>2 DEF Init, Service!Init, Pending, Visible

\* The end of a call is an abstract return of what the call found.
LEMMA ReturnRefines ==
    ASSUME FullInv, FullInv', AnswerInv',
           NEW t \in Threads, pc[t] # "idle", pc' = [pc EXCEPT ![t] = "idle"],
           UNCHANGED <<req, unaligned>>,
           \A u \in Threads \ {t} : res'[u] = res[u]
    PROVE  Service!Return(t)
<1> USE DEF FullInv, TypeInv, Typed
<1> DEFINE d == res'[t]
<1>1. Pending' = [Pending EXCEPT ![t] = FALSE]
  BY DEF Pending, TypeOK
<1>2. Visible' = [Visible EXCEPT ![t] = d]
  <2>1. pc'[t] = "idle" /\ \A u \in Threads \ {t} : pc'[u] = pc[u]
    BY DEF TypeOK
  <2>2. QED
    BY <2>1 DEF Visible
<1>3. d \in Service!Data \cup {NoData} /\ Good(req[t].frame, d)
  BY DEF AnswerInv, Good
<1>4. d # NoData /\ ~ unaligned => Service!Right(req[t].frame, d)
  BY DEF IInv, ExactUnlessUnaligned, ExactEntry, Service!Right
<1>5. Service!Allowed(t, d)
  BY <1>3, <1>4 DEF Service!Allowed, Good
<1>6. QED
  BY <1>1, <1>2, <1>3, <1>5 DEF Service!Return, Pending, Visible

\* A step in the middle of a call is not seen.
LEMMA MiddleRefines ==
    ASSUME FullInv, FullInv', NEW t \in Threads,
           pc[t] # "idle", pc'[t] # "idle",
           \A u \in Threads \ {t} : pc'[u] = pc[u] /\ res'[u] = res[u],
           UNCHANGED <<req, unaligned>>
    PROVE  UNCHANGED Service!vars
<1>1. Pending' = Pending
  BY DEF Pending
<1>2. Visible' = Visible
  BY DEF Visible
<1>3. QED
  BY <1>1, <1>2 DEF Service!vars, Pending, Visible

LEMMA StepRefines ==
    ASSUME FullInv, FullInv', AnswerInv, AnswerInv', [Next]_vars
    PROVE  [Service!Next]_(Service!vars)
<1> USE DEF FullInv, TypeInv, Typed
<1> DEFINE Goal == [Service!Next]_(Service!vars)
<1>1. CASE Publish \/ PurgeWake \/ PurgeLock \/ PurgeErase \/ Tick \/ UNCHANGED vars
  <2>1. UNCHANGED <<pc, req, res, unaligned>>
    BY <1>1 DEF Publish, PublishPixels, PublishMask, PurgeWake, PurgeLock, PurgeErase,
                Tick, vars
  <2>2. QED
    BY <2>1 DEF Service!vars
<1>2. ASSUME NEW t \in Threads, NEW f \in Requested, NEW r \in Regions, Call(t, f, r)
      PROVE  Goal
  <2>1. f \in Service!Frames
    BY SubsetAssumption, SameFrames
  <2>2. Pending' = [Pending EXCEPT ![t] = TRUE] /\ ~ Pending[t]
    BY <1>2 DEF Call, Pending, TypeOK
  <2>3. Visible' = [Visible EXCEPT ![t] = NoData]
    BY <1>2 DEF Call, Visible, TypeOK
  <2>4. Service!Call(t)
    BY <1>2, <2>1, <2>2, <2>3 DEF Call, Service!Call, Pending, Visible
  <2>5. QED
    BY <2>4 DEF Service!Next
<1>3. ASSUME NEW t \in Threads, LockShared(t) \/ Lookup(t) \/ LockExclusive(t)
      PROVE  Goal
  <2>1. /\ pc[t] # "idle" /\ pc'[t] # "idle"
        /\ \A u \in Threads \ {t} : pc'[u] = pc[u] /\ res'[u] = res[u]
        /\ UNCHANGED <<req, unaligned>>
    BY <1>3 DEF LockShared, Lookup, LockExclusive, TypeOK
  <2>2. QED
    BY <2>1, MiddleRefines
<1>4. ASSUME NEW t \in Threads, Decode(t) PROVE Goal
  <2>1. /\ pc[t] # "idle" /\ pc'[t] # "idle"
        /\ \A u \in Threads \ {t} : pc'[u] = pc[u] /\ res'[u] = res[u]
        /\ UNCHANGED <<req, res>>
        /\ unaligned' = (unaligned \/ SubFrame(req[t].frame) # 0)
    BY <1>4 DEF Decode, TypeOK
  <2>2. CASE UNCHANGED unaligned
    BY <2>1, <2>2, MiddleRefines
  <2>3. CASE ~ UNCHANGED unaligned
    <3>1. unaligned' /\ SubFrame(req[t].frame) # 0
      BY <2>1, <2>3 DEF TypeOK
    <3>2. Pending' = Pending /\ Visible' = Visible /\ Pending[t]
      BY <2>1 DEF Pending, Visible
    <3>3. Service!Spoil(t)
      BY <2>1, <3>1, <3>2 DEF Service!Spoil, SubFrame, Pending, Visible
    <3>4. QED
      BY <3>3 DEF Service!Next
  <2>4. QED
    BY <2>2, <2>3
<1>5. ASSUME NEW t \in Threads, Refresh(t) \/ DecodeFails(t) PROVE Goal
  <2>1. /\ pc[t] # "idle" /\ pc' = [pc EXCEPT ![t] = "idle"]
        /\ \A u \in Threads \ {t} : res'[u] = res[u]
        /\ UNCHANGED <<req, unaligned>>
    BY <1>5 DEF Refresh, DecodeFails, TypeOK
  <2>2. Service!Return(t)
    BY <2>1, ReturnRefines
  <2>3. QED
    BY <2>2 DEF Service!Next
<1>6. ASSUME NEW t \in Threads, Insert(t) \/ InsertSkipped(t) PROVE Goal
  <2>1. /\ pc[t] # "idle"
        /\ \A u \in Threads \ {t} : res'[u] = res[u]
        /\ UNCHANGED <<req, unaligned>>
        /\ Advance(t)
    BY <1>6 DEF Insert, InsertSkipped, TypeOK
  <2>2. CASE pc' = [pc EXCEPT ![t] = "idle"]
    <3>1. Service!Return(t)
      BY <2>1, <2>2, ReturnRefines
    <3>2. QED
      BY <3>1 DEF Service!Next
  <2>3. CASE pc' = [pc EXCEPT ![t] = "want_write"]
    <3>1. pc'[t] # "idle" /\ \A u \in Threads \ {t} : pc'[u] = pc[u]
      BY <2>3 DEF TypeOK
    <3>2. QED
      BY <2>1, <3>1, MiddleRefines
  <2>4. QED
    BY <2>1, <2>2, <2>3 DEF Advance
<1>7. QED
  BY <1>1, <1>2, <1>3, <1>4, <1>5, <1>6 DEF Next, Request, Purge

\* RegionCache implements RegionService: no interleaving of lookups, fillers and
\* purges shows in the answers of request_cached_region_ptr.
THEOREM CacheServesRegions == Spec => ServesRegions
<1> DEFINE Inv == FullInv /\ AnswerInv
<1>1. Init => Inv
  BY FullInit, AnswerInit
<1>2. Inv /\ [Next]_vars => Inv'
  BY FullStep, AnswerStep
<1>3. Inv /\ Inv' /\ [Next]_vars => [Service!Next]_(Service!vars)
  BY StepRefines
<1>4. QED
  BY <1>1, <1>2, <1>3, InitRefines, PTL DEF Spec, ServesRegions, Service!Spec

=============================================================================
