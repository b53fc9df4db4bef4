------------------------------ MODULE Session ------------------------------
(***************************************************************************)
(* One WebSocket connection to one dataset (the .ws handlers of            *)
(* src/src/main_uWS.cpp and UserSession in src/src/global.h).              *)
(*                                                                         *)
(* The event loop runs the open, message and close handlers one after the  *)
(* other.  A request for a spectrum, a video frame or an image is answered *)
(* by a thread of its own (a worker); workers run concurrently and take    *)
(* different times, so the session numbers its requests and drops answers  *)
(* that are out of date.                                                   *)
(*                                                                         *)
(* Every section under UserSession::mtx is one step, so the mutex needs no *)
(* variable; video_mtx is held by a worker over several steps.  active is  *)
(* conn = "open".  The dataset has data and no error, as the handlers ask. *)
(***************************************************************************)
EXTENDS Integers

CONSTANTS
    Workers,    \* bound on the threads a session runs at a time
    MaxSeq,     \* bound on the numbers the client gives its requests
    Frames,     \* indices of video frames
    NoOne       \* nobody holds video_mtx

ASSUME NoOneAssumption == NoOne \notin Workers
ASSUME MaxSeqAssumption == MaxSeq \in Nat
ASSUME FramesAssumption == Frames \subseteq Nat

Seqs == 0 .. MaxSeq
NoSeq == -1

VARIABLES
    conn,       \* "open", "closing" (the close handler joins the workers) or "closed"
    last_seq,
    last_video_seq,
    last_frame_idx,
    video_mtx,  \* the worker that holds it, or NoOne
    encoder,    \* there are a picture and an encoder
    kal,        \* there are Kalman filters kal_x and kal_y
    dangling,   \* workers whose filters have been destroyed while they use them
    worker,     \* worker -> where it is, and the number of its request
    floor,      \* history: newest number that was reset to or answered
    spectrum,   \* history: the last answer with a spectrum, and the floor before it
    vfloor,     \* history: newest number of this video stream that was answered
    video       \* history: the last answer with a video frame, and the vfloor before it

stream == <<last_video_seq, last_frame_idx, video_mtx, encoder, vfloor, video>>
requests == <<last_seq, kal, dangling, floor, spectrum>>
vars == <<conn, stream, requests, worker>>

SpectrumPCs == {"s_start", "s_admit", "s_view", "s_view_send", "s_reply", "s_send",
                "s_track", "s_create", "s_kalman"}
VideoPCs == {"v_start", "v_lock", "v_admit", "v_frame", "v_reply", "v_send"}
ImagePCs == {"i_start", "i_reply", "i_send"}
PCs == {"idle"} \cup SpectrumPCs \cup VideoPCs \cup ImagePCs

Idle == [pc |-> "idle", seq |-> 0]
Answer == [seq : Seqs \cup {NoSeq}, floor : Seqs \cup {NoSeq}]
NoAnswer == [seq |-> NoSeq, floor |-> NoSeq]

TypeOK ==
    /\ conn \in {"open", "closing", "closed"}
    /\ last_seq \in Seqs \cup {NoSeq}
    /\ last_video_seq \in Seqs \cup {NoSeq}
    /\ last_frame_idx \in Frames \cup {NoSeq}
    /\ video_mtx \in Workers \cup {NoOne}
    /\ encoder \in BOOLEAN
    /\ kal \in BOOLEAN
    /\ dangling \in SUBSET Workers
    /\ worker \in [Workers -> [pc : PCs, seq : Seqs]]
    /\ floor \in Seqs \cup {NoSeq}
    /\ spectrum \in Answer
    /\ vfloor \in Seqs \cup {NoSeq}
    /\ video \in Answer

\* The connection has been upgraded and the open handler has run.
Init ==
    /\ conn = "open"
    /\ last_seq = NoSeq
    /\ last_video_seq = NoSeq
    /\ last_frame_idx = NoSeq
    /\ video_mtx = NoOne
    /\ encoder = FALSE
    /\ kal = FALSE
    /\ dangling = {}
    /\ worker = [w \in Workers |-> Idle]
    /\ floor = NoSeq
    /\ spectrum = NoAnswer
    /\ vfloor = NoSeq
    /\ video = NoAnswer

-----------------------------------------------------------------------------
(* Operators the specification does not use and that stand before the one   *)
(* they vary are faulty variants of it: with them the property they are     *)
(* meant for must fail.                                                     *)

(* The event loop.                                                          *)

\* A message that is answered by a new thread.
Spawn(w, pc, s) ==
    /\ conn = "open"
    /\ worker[w].pc = "idle"
    /\ worker' = [worker EXCEPT ![w] = [pc |-> pc, seq |-> s]]
    /\ UNCHANGED <<conn, stream, requests>>

RequestSpectrum(w, s) == Spawn(w, "s_start", s)
RequestVideo(w, s) == Spawn(w, "v_start", s)
RequestImage(w) == Spawn(w, "i_start", 0)

Newer(a, b) == IF a > b THEN a ELSE b

\* The spectrum threads that work with kal_x and kal_y.
FilterUsers == {w \in Workers : worker[w].pc = "s_kalman"}

\* [kalman_reset]: answers to older requests are no longer wanted.  The mutex that
\* the handler takes keeps no spectrum thread away from the filters.
ResetPast(s) == Newer(s, last_seq) + 1
ResetTo(s) == Newer(s, last_seq)

KalmanReset(s) ==
    /\ conn = "open"
    /\ kal' = FALSE
    /\ dangling' = dangling \cup FilterUsers
    /\ last_seq' = ResetTo(s)
    /\ floor' = Newer(s, floor)
    /\ UNCHANGED <<conn, stream, spectrum, worker>>

\* [init_video] waits for video_mtx.  Its early returns leave the old encoder, or
\* none, behind.
InitVideo(s) ==
    /\ conn = "open"
    /\ video_mtx = NoOne
    /\ last_video_seq' = s
    /\ last_frame_idx' = NoSeq
    /\ encoder' \in BOOLEAN
    /\ vfloor' = s
    /\ UNCHANGED <<conn, video_mtx, video, requests, worker>>

\* The close handler: active = false, then the workers are joined.  (It also has
\* the socket removed from m_progress: see module Progress.)
Close ==
    /\ conn = "open"
    /\ conn' = "closing"
    /\ UNCHANGED <<stream, requests, worker>>

JoinedSome == \E w \in Workers : worker[w].pc = "idle"
Joined == \A w \in Workers : worker[w].pc = "idle"

\* delete user->ptr; the event loop then releases the socket.
Delete ==
    /\ conn = "closing"
    /\ Joined
    /\ conn' = "closed"
    /\ UNCHANGED <<stream, requests, worker>>

-----------------------------------------------------------------------------
(* Workers.                                                                 *)

Goto(w, pc) == worker' = [worker EXCEPT ![w].pc = pc]
Finish(w) == worker' = [worker EXCEPT ![w] = Idle]

\* if (!user->ptr->active): the session may close right after the check.
IfActiveRetry(w, from, to, otherwise) ==
    /\ worker[w].pc = from
    /\ Goto(w, IF conn = "open" THEN to ELSE from)
    /\ UNCHANGED <<conn, stream, requests>>
IfActive(w, from, to, otherwise) ==
    /\ worker[w].pc = from
    /\ \/ conn = "open" /\ Goto(w, to)
       \/ conn # "open" /\ (IF otherwise = "idle" THEN Finish(w) ELSE Goto(w, otherwise))
    /\ UNCHANGED <<conn, stream, requests>>

\* The spectrum thread: drop the request if a newer one has been seen.
Outdated(s) == last_seq > s

SpectrumStart(w) == IfActive(w, "s_start", "s_admit", "idle")

SpectrumAdmit(w) ==
    LET s == worker[w].seq IN
    /\ worker[w].pc = "s_admit"
    /\ \/ /\ Outdated(s)
          /\ Finish(w)
          /\ UNCHANGED last_seq
       \/ /\ ~ Outdated(s)
          /\ last_seq' = s
          /\ \E pc \in {"s_view", "s_reply"} : Goto(w, pc)   \* with or without a viewport
    /\ UNCHANGED <<conn, stream, kal, dangling, floor, spectrum>>

\* The viewport and the spectrum are sent if they were computed.
ViewReply(w) == IfActive(w, "s_view", "s_view_send", "s_reply")
SpectrumReply(w) == IfActive(w, "s_reply", "s_send", "s_track")

NothingToSend(w, from, to) ==
    /\ worker[w].pc = from
    /\ Goto(w, to)
    /\ UNCHANGED <<conn, stream, requests>>

NoView(w) == NothingToSend(w, "s_view", "s_reply")
NoSpectrum(w) == NothingToSend(w, "s_reply", "s_track")

\* A 2D image has no spectrum: the thread is done.
NoCube(w) ==
    /\ worker[w].pc = "s_reply"
    /\ Finish(w)
    /\ UNCHANGED <<conn, stream, requests>>

\* The answer is sent only if its request is the newest one the session knows.
WantedAlways(s) == TRUE
Wanted(s) == s = last_seq

Send(w, from, to) ==
    LET s == worker[w].seq IN
    /\ worker[w].pc = from
    /\ \/ /\ Wanted(s)
          /\ spectrum' = [seq |-> s, floor |-> floor]
          /\ floor' = Newer(s, floor)
       \/ ~ Wanted(s) /\ UNCHANGED <<spectrum, floor>>
    /\ Goto(w, to)
    /\ UNCHANGED <<conn, stream, last_seq, kal, dangling>>

ViewSend(w) == Send(w, "s_view_send", "s_reply")
SpectrumSend(w) == Send(w, "s_send", "s_track")

\* The mouse is tracked: without a lock, the filters are taken for use, or new ones
\* are made where there were none.
SpectrumTrack(w) ==
    /\ worker[w].pc = "s_track"
    /\ \/ conn # "open" /\ Finish(w)
       \/ conn = "open" /\ kal /\ Goto(w, "s_kalman")
       \/ conn = "open" /\ ~ kal /\ Goto(w, "s_create")
    /\ UNCHANGED <<conn, stream, requests>>

\* Whether there are filters is asked again: those that another thread has made since
\* are left alone, or replaced, if it made them after the question.
SpectrumCreate(w) ==
    /\ worker[w].pc = "s_create"
    /\ kal' = TRUE
    /\ \/ kal /\ UNCHANGED dangling
       \/ dangling' = dangling \cup FilterUsers
    /\ Finish(w)
    /\ UNCHANGED <<conn, stream, last_seq, floor, spectrum>>

\* update, predict and preempt_cache, with the filters found above.
SpectrumEnd(w) ==
    /\ worker[w].pc = "s_kalman"
    /\ dangling' = dangling \ {w}
    /\ Finish(w)
    /\ UNCHANGED <<conn, stream, last_seq, kal, floor, spectrum>>

\* The video thread holds video_mtx from here to its end.
VideoStart(w) == IfActive(w, "v_start", "v_lock", "idle")

VideoLockFree == video_mtx = NoOne

VideoLock(w) ==
    /\ worker[w].pc = "v_lock"
    /\ VideoLockFree
    /\ video_mtx' = w
    /\ Goto(w, "v_admit")
    /\ UNCHANGED <<conn, last_video_seq, last_frame_idx, encoder, vfloor, video,
                   requests>>

\* The end of the scope of the lock, on every way out of the thread.
VideoUnlockForgotten(w) == Finish(w) /\ UNCHANGED video_mtx
VideoUnlock(w) == video_mtx' = NoOne /\ Finish(w)

VideoOutdatedNever(s) == FALSE
VideoOutdated(s) == last_video_seq > s

VideoAdmit(w) ==
    LET s == worker[w].seq IN
    /\ worker[w].pc = "v_admit"
    /\ \/ /\ VideoOutdated(s)
          /\ VideoUnlock(w)
          /\ UNCHANGED last_video_seq
       \/ /\ ~ VideoOutdated(s)
          /\ last_video_seq' = s
          /\ Goto(w, "v_frame")
          /\ UNCHANGED video_mtx
    /\ UNCHANGED <<conn, last_frame_idx, encoder, vfloor, video, requests>>

\* The frame predicted by kal_z is a repeat, or it is made and, if there is one,
\* given to the encoder (get_video_frame may fail, too).
VideoFrame(w) ==
    /\ worker[w].pc = "v_frame"
    /\ \E f \in Frames :
        \/ /\ f = last_frame_idx
           /\ VideoUnlock(w)
           /\ UNCHANGED last_frame_idx
        \/ /\ f # last_frame_idx
           /\ last_frame_idx' = f
           /\ \/ VideoUnlock(w)
              \/ encoder /\ Goto(w, "v_reply") /\ UNCHANGED video_mtx
    /\ UNCHANGED <<conn, last_video_seq, encoder, vfloor, video, requests>>

VideoReply(w) ==
    /\ worker[w].pc = "v_reply"
    /\ \/ conn = "open" /\ Goto(w, "v_send") /\ UNCHANGED video_mtx
       \/ conn # "open" /\ VideoUnlock(w)
    /\ UNCHANGED <<conn, last_video_seq, last_frame_idx, encoder, vfloor, video,
                   requests>>

\* One NAL unit of the frame after the other.
VideoSend(w) ==
    LET s == worker[w].seq IN
    /\ worker[w].pc = "v_send"
    /\ video' = [seq |-> s, floor |-> vfloor]
    /\ vfloor' = Newer(s, vfloor)
    /\ \/ Goto(w, "v_reply") /\ UNCHANGED video_mtx
       \/ VideoUnlock(w)
    /\ UNCHANGED <<conn, last_video_seq, last_frame_idx, encoder, requests>>

\* The image thread sends its parts whatever has been asked for since.
ImageStart(w) == IfActive(w, "i_start", "i_reply", "idle")
ImageReply(w) == IfActive(w, "i_reply", "i_send", "idle")

ImageSend(w) ==
    /\ worker[w].pc = "i_send"
    /\ Goto(w, "i_reply") \/ Finish(w)
    /\ UNCHANGED <<conn, stream, requests>>

-----------------------------------------------------------------------------
Work(w) ==
    \/ SpectrumStart(w) \/ SpectrumAdmit(w) \/ ViewReply(w) \/ NoView(w) \/ ViewSend(w)
    \/ SpectrumReply(w) \/ NoSpectrum(w) \/ NoCube(w) \/ SpectrumSend(w)
    \/ SpectrumTrack(w) \/ SpectrumCreate(w) \/ SpectrumEnd(w)
    \/ VideoStart(w) \/ VideoLock(w) \/ VideoAdmit(w) \/ VideoFrame(w) \/ VideoReply(w)
    \/ VideoSend(w)
    \/ ImageStart(w) \/ ImageReply(w) \/ ImageSend(w)

EventLoop ==
    \/ \E w \in Workers, s \in Seqs : RequestSpectrum(w, s) \/ RequestVideo(w, s)
    \/ \E w \in Workers : RequestImage(w)
    \/ \E s \in Seqs : KalmanReset(s) \/ InitVideo(s)
    \/ Close
    \/ Delete

\* The connection is gone and nothing is left to do for it.
Finished == conn = "closed" /\ UNCHANGED vars

Next == EventLoop \/ (\E w \in Workers : Work(w)) \/ Finished

Spec == Init /\ [][Next]_vars

\* Threads run, images and frames have finitely many parts, and the join returns
\* when the workers have ended.  Nobody has to close or to ask.
Fairness ==
    /\ \A w \in Workers :
        WF_vars(Work(w)) /\ SF_vars((ImageSend(w) \/ VideoSend(w)) /\ worker'[w] = Idle)
    /\ WF_vars(Delete)

FairSpec == Spec /\ Fairness

-----------------------------------------------------------------------------
(* Properties                                                               *)

\* Spectra and viewports never go back in time: each one sent answers a request at
\* least as new as every [kalman_reset] handled and every answer sent before it,
\* in whatever order the spectrum threads run.
SpectrumInOrder == spectrum.seq >= spectrum.floor

\* The same for the frames of a video stream, from one [init_video] to the next.
VideoInOrder == video.seq >= video.floor

\* When the close handler deletes the session, no worker is left to use it, and
\* video_mtx is not destroyed while it is held.
ClosedIsQuiet ==
    conn = "closed" => video_mtx = NoOne /\ \A w \in Workers : worker[w].pc = "idle"

\* The threads never wait for each other in a circle: as long as there are workers,
\* for which the close handler's join or [init_video]'s lock may wait, one of them
\* does not wait for video_mtx itself or can have it.
WorkersNeverStuck ==
    ~ Joined =>
        \E w \in Workers :
            worker[w].pc # "idle" /\ (worker[w].pc = "v_lock" => video_mtx = NoOne)

Spectra == INSTANCE AnswerStream WITH
    Restarts <- FALSE,
    live <- conn # "closed",
    newest <- last_seq,
    floor <- floor,
    answered <- spectrum.seq

Videos == INSTANCE AnswerStream WITH
    Restarts <- TRUE,
    live <- conn # "closed",
    newest <- last_video_seq,
    floor <- vfloor,
    answered <- video.seq

\* The spectrum threads, the checks of UserSession::last_seq between their steps and
\* [kalman_reset] act like one sequential server: each spectrum or viewport sent
\* answers the newest request, whose number only grows, of a session that exists.
SpectraInSequence == Spectra!Spec

\* So do the video threads, which hold video_mtx from their check of last_video_seq to
\* their last message; only [init_video] starts the numbers afresh.
VideosInSequence == Videos!Spec

\* A connection that the client closes is taken down: whatever the workers are in
\* the middle of and whoever waits for video_mtx, the close handler's join returns
\* and the session is deleted.
CloseCompletes == conn = "closing" ~> conn = "closed"

\* A spectrum thread never works with Kalman filters that have been destroyed, by
\* [kalman_reset] after it gained "unique access" or by another spectrum thread.
FilterInUseExists == dangling = {}

-----------------------------------------------------------------------------
(* The inductive invariant behind the safety properties.                    *)

\* last_seq never falls behind what was reset to or answered.
SpectrumInv == floor <= last_seq /\ SpectrumInOrder

Holding == {"v_admit", "v_frame", "v_reply", "v_send"}
Admitted == {"v_frame", "v_reply", "v_send"}

\* Exactly the holder of video_mtx is past the lock, and once admitted its number
\* is last_video_seq: nobody else can set it before the holder is done.
VideoInv ==
    /\ \A w \in Workers : worker[w].pc \in Holding <=> video_mtx = w
    /\ \A w \in Workers : worker[w].pc \in Admitted => worker[w].seq = last_video_seq
    /\ vfloor <= last_video_seq
    /\ VideoInOrder

IInv == SpectrumInv /\ VideoInv /\ ClosedIsQuiet

=============================================================================
