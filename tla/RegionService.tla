--------------------------- MODULE RegionService ---------------------------
(***************************************************************************)
(* What request_cached_region_ptr (src/src/fits.cpp) promises its callers: *)
(* an atomic service without a cache, locks or a purge thread.             *)
(*                                                                         *)
(* A call for a region of a frame returns nothing or data, the frame's own *)
(* pixels under the frame's own mask, whatever other calls do.  From the   *)
(* first call that is answered by decoding for a frame that is not at a    *)
(* multiple of four, the promise is weaker: the pixels or the mask is the  *)
(* frame's own, and the other is off by at most three frames.              *)
(***************************************************************************)
EXTENDS Integers

CONSTANTS
    Depth,      \* number of frames in the cube
    Regions,    \* the (idy, idx) pairs of a frame
    Threads,    \* the callers
    NoData      \* a null std::shared_ptr<unsigned short>

Frames == 0 .. Depth - 1

\* Labels of what is returned: the frame whose pixels and whose mask it has.
Data == [pix : Frames, mask : Frames]

VARIABLES
    call,       \* caller -> the arguments of its last call
    pending,    \* caller -> whether it waits for the answer
    answer,     \* caller -> the answer to its last call
    exact       \* no block has been decoded for an unaligned frame

vars == <<call, pending, answer, exact>>

Right(f, d) == d.pix = f /\ d.mask = f
Near(f, d) ==
    \/ d.pix = f /\ d.mask >= f /\ d.mask - f <= 3
    \/ d.mask = f /\ d.pix <= f /\ f - d.pix <= 3

\* The answers a caller may get.
Allowed(t, d) ==
    d # NoData =>
        /\ Near(call[t].frame, d)
        /\ exact => Right(call[t].frame, d)

Init ==
    /\ call \in [Threads -> [frame : {0}, region : Regions]]
    /\ pending = [t \in Threads |-> FALSE]
    /\ answer = [t \in Threads |-> NoData]
    /\ exact = TRUE

Call(t) ==
    /\ ~ pending[t]
    /\ \E f \in Frames, r \in Regions :
        call' = [call EXCEPT ![t] = [frame |-> f, region |-> r]]
    /\ pending' = [pending EXCEPT ![t] = TRUE]
    /\ answer' = [answer EXCEPT ![t] = NoData]
    /\ UNCHANGED exact

\* An unaligned call may spoil the answers from now on.
Spoil(t) ==
    /\ pending[t]
    /\ call[t].frame % 4 # 0
    /\ exact' = FALSE
    /\ UNCHANGED <<call, pending, answer>>

Return(t) ==
    /\ pending[t]
    /\ pending' = [pending EXCEPT ![t] = FALSE]
    /\ \E d \in Data \cup {NoData} :
        /\ Allowed(t, d)
        /\ answer' = [answer EXCEPT ![t] = d]
    /\ UNCHANGED <<call, exact>>

Next == \E t \in Threads : Call(t) \/ Spoil(t) \/ Return(t)

Spec == Init /\ [][Next]_vars

=============================================================================
