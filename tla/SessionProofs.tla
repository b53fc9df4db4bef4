--------------------------- MODULE SessionProofs ---------------------------
(***************************************************************************)
(* Proofs about Session, for every number of workers, sequence numbers and *)
(* video frames.                                                           *)
(***************************************************************************)
EXTENDS Session, TLAPS

USE MaxSeqAssumption, NoOneAssumption, FramesAssumption DEF Seqs, NoSeq

\* The larger of two sequence numbers is one, and bounds both.
LEMMA NewerBounds ==
    ASSUME NEW a \in Seqs \cup {NoSeq}, NEW b \in Seqs \cup {NoSeq}
    PROVE  /\ Newer(a, b) \in Seqs \cup {NoSeq}
           /\ a <= Newer(a, b) /\ b <= Newer(a, b)
           /\ Newer(a, b) \in {a, b}
  BY DEF Newer

\* A worker that moves on or ends stays a worker; nobody else moves.
LEMMA GotoType ==
    ASSUME NEW w \in Workers, NEW pc \in PCs, TypeOK, Goto(w, pc)
    PROVE  /\ worker' \in [Workers -> [pc : PCs, seq : Seqs]]
           /\ worker'[w].pc = pc /\ worker'[w].seq = worker[w].seq
           /\ \A v \in Workers \ {w} : worker'[v] = worker[v]
  BY DEF Goto, TypeOK

LEMMA FinishType ==
    ASSUME NEW w \in Workers, TypeOK, Finish(w)
    PROVE  /\ worker' \in [Workers -> [pc : PCs, seq : Seqs]]
           /\ worker'[w].pc = "idle"
           /\ \A v \in Workers \ {w} : worker'[v] = worker[v]
  BY DEF Finish, Idle, PCs, TypeOK

\* A check of the active flag moves one worker, to the next step, the alternative
\* or the end.
LEMMA IfActiveType ==
    ASSUME NEW w \in Workers, NEW from, NEW to \in PCs, NEW otherwise \in PCs,
           TypeOK, IfActive(w, from, to, otherwise)
    PROVE  /\ TypeOK'
           /\ worker[w].pc = from
           /\ worker'[w].pc \in {to, otherwise}
           /\ \A v \in Workers \ {w} : worker'[v] = worker[v]
           /\ UNCHANGED <<conn, stream, requests>>
  <1>1. /\ conn' = conn /\ stream' = stream /\ requests' = requests
        /\ worker[w].pc = from
    BY DEF IfActive
  <1>2. (Finish(w) /\ otherwise = "idle") \/ \E pc \in {to, otherwise} : Goto(w, pc)
    BY DEF IfActive
  <1>3. CASE Finish(w) /\ otherwise = "idle"
    <2>1. /\ worker' \in [Workers -> [pc : PCs, seq : Seqs]]
          /\ worker'[w].pc = otherwise
          /\ \A v \in Workers \ {w} : worker'[v] = worker[v]
      BY <1>3, FinishType
    <2> QED
      BY <1>1, <2>1 DEF TypeOK, stream, requests
  <1>4. ASSUME NEW pc \in {to, otherwise}, Goto(w, pc)
        PROVE  /\ TypeOK'
               /\ worker'[w].pc = pc
               /\ \A v \in Workers \ {w} : worker'[v] = worker[v]
    <2>1. /\ worker' \in [Workers -> [pc : PCs, seq : Seqs]]
          /\ worker'[w].pc = pc
          /\ \A v \in Workers \ {w} : worker'[v] = worker[v]
      <3>1. pc \in PCs
        OBVIOUS
      <3> QED
        BY <1>4, <3>1, GotoType
    <2> QED
      BY <1>1, <2>1 DEF TypeOK, stream, requests
  <1> QED
    BY <1>1, <1>2, <1>3, <1>4

-----------------------------------------------------------------------------
LEMMA InitType == Init => TypeOK
  <1>1. Idle \in [pc : PCs, seq : Seqs]
    BY DEF Idle, PCs
  <1>2. NoAnswer \in Answer
    BY DEF NoAnswer, Answer
  <1> QED
    BY <1>1, <1>2 DEF Init, TypeOK

\* The steps of a worker that check the active flag or have nothing to send.
Checks(w) ==
    \/ SpectrumStart(w) \/ ViewReply(w) \/ SpectrumReply(w) \/ VideoStart(w)
    \/ ImageStart(w) \/ ImageReply(w)

\* A check made without the lock leads to a step without the lock.
LEMMA IfActiveMove ==
    ASSUME NEW w \in Workers, NEW from \in PCs \ (Holding \cup {"idle"}),
           NEW to \in PCs \ Holding, NEW otherwise \in PCs \ Holding,
           TypeOK, IfActive(w, from, to, otherwise)
    PROVE  /\ TypeOK'
           /\ worker[w].pc \notin Holding /\ worker'[w].pc \notin Holding
           /\ worker[w].pc # "idle"
           /\ \A v \in Workers \ {w} : worker'[v] = worker[v]
           /\ UNCHANGED <<conn, stream, requests>>
  <1>1. from \notin Holding /\ from # "idle"
    OBVIOUS
  <1>2. to \in PCs /\ otherwise \in PCs
    OBVIOUS
  <1>3. /\ TypeOK'
        /\ worker[w].pc = from
        /\ worker'[w].pc \in {to, otherwise}
        /\ \A v \in Workers \ {w} : worker'[v] = worker[v]
        /\ UNCHANGED <<conn, stream, requests>>
    BY <1>2, IfActiveType, Zenon
  <1>4. worker'[w].pc \notin Holding
    BY <1>3
  <1> QED
    BY <1>1, <1>3, <1>4

\* Such a step moves one worker among the steps that hold no lock.
LEMMA ChecksMove ==
    ASSUME NEW w \in Workers, TypeOK, Checks(w)
    PROVE  /\ TypeOK'
           /\ worker[w].pc \notin Holding /\ worker'[w].pc \notin Holding
           /\ worker[w].pc # "idle"
           /\ \A v \in Workers \ {w} : worker'[v] = worker[v]
           /\ UNCHANGED <<conn, stream, requests>>
  <1>0. /\ {"s_start", "s_view", "s_reply", "v_start", "i_start", "i_reply"}
             \subseteq PCs \ (Holding \cup {"idle"})
        /\ {"s_admit", "s_view_send", "s_reply", "s_send", "s_track", "v_lock",
            "i_reply", "i_send", "idle"} \subseteq PCs \ Holding
    BY DEF PCs, SpectrumPCs, VideoPCs, ImagePCs, Holding
  <1>1. CASE SpectrumStart(w)
    BY <1>1, <1>0, IfActiveMove DEF SpectrumStart
  <1>2. CASE ViewReply(w)
    BY <1>2, <1>0, IfActiveMove DEF ViewReply
  <1>3. CASE SpectrumReply(w)
    BY <1>3, <1>0, IfActiveMove DEF SpectrumReply
  <1>4. CASE VideoStart(w)
    BY <1>4, <1>0, IfActiveMove DEF VideoStart
  <1>5. CASE ImageStart(w)
    BY <1>5, <1>0, IfActiveMove DEF ImageStart
  <1>6. CASE ImageReply(w)
    BY <1>6, <1>0, IfActiveMove DEF ImageReply
  <1> QED
    BY <1>1, <1>2, <1>3, <1>4, <1>5, <1>6 DEF Checks

\* The steps that change nothing but where the worker is.
Moves(w) == NoView(w) \/ NoSpectrum(w) \/ NoCube(w) \/ SpectrumTrack(w) \/ ImageSend(w)

LEMMA MovesMove ==
    ASSUME NEW w \in Workers, TypeOK, Moves(w)
    PROVE  /\ TypeOK'
           /\ worker[w].pc \notin Holding /\ worker'[w].pc \notin Holding
           /\ worker[w].pc # "idle"
           /\ \A v \in Workers \ {w} : worker'[v] = worker[v]
           /\ UNCHANGED <<conn, stream, requests>>
  <1> USE DEF PCs, SpectrumPCs, VideoPCs, ImagePCs, Holding
  <1>1. /\ UNCHANGED <<conn, stream, requests>>
        /\ worker[w].pc \in {"s_view", "s_reply", "s_track", "i_send"}
        /\ \/ Finish(w)
           \/ \E pc \in {"s_reply", "s_track", "s_kalman", "s_create", "i_reply"} : Goto(w, pc)
    BY DEF Moves, NoView, NoSpectrum, NoCube, NothingToSend, SpectrumTrack, ImageSend
  <1>2. CASE Finish(w)
    <2>1. /\ worker' \in [Workers -> [pc : PCs, seq : Seqs]]
          /\ worker'[w].pc = "idle"
          /\ \A v \in Workers \ {w} : worker'[v] = worker[v]
      BY <1>2, FinishType
    <2> QED
      BY <1>1, <2>1 DEF TypeOK, stream, requests
  <1>3. ASSUME NEW pc \in {"s_reply", "s_track", "s_kalman", "s_create", "i_reply"}, Goto(w, pc)
        PROVE  /\ TypeOK'
               /\ worker'[w].pc = pc
               /\ \A v \in Workers \ {w} : worker'[v] = worker[v]
    <2>1. pc \in PCs
      OBVIOUS
    <2>2. /\ worker' \in [Workers -> [pc : PCs, seq : Seqs]]
          /\ worker'[w].pc = pc
          /\ \A v \in Workers \ {w} : worker'[v] = worker[v]
      BY <1>3, <2>1, GotoType
    <2> QED
      BY <1>1, <2>2 DEF TypeOK, stream, requests
  <1> QED
    BY <1>1, <1>2, <1>3

-----------------------------------------------------------------------------
\* A worker that neither holds nor takes video_mtx leaves the video stream's part
\* of the invariant alone.
LEMMA VideoKept ==
    ASSUME NEW w \in Workers, TypeOK, VideoInv, ClosedIsQuiet,
           worker[w].pc \notin Holding, worker'[w].pc \notin Holding,
           \A v \in Workers \ {w} : worker'[v] = worker[v],
           conn = "open" \/ worker[w].pc # "idle",
           conn' = conn, stream' = stream
    PROVE  VideoInv' /\ ClosedIsQuiet'
  <1>1. /\ video_mtx' = video_mtx /\ last_video_seq' = last_video_seq
        /\ vfloor' = vfloor /\ video' = video
    BY DEF stream
  <1>2. VideoInv'
    <2>1. \A v \in Workers : worker'[v].pc \in Holding <=> video_mtx' = v
      BY <1>1 DEF VideoInv
    <2>2. \A v \in Workers : worker'[v].pc \in Admitted => worker'[v].seq = last_video_seq'
      BY <1>1 DEF VideoInv, Admitted, Holding
    <2> QED
      BY <1>1, <2>1, <2>2 DEF VideoInv, VideoInOrder
  <1>3. ClosedIsQuiet'
    BY <1>1 DEF ClosedIsQuiet
  <1> QED
    BY <1>2, <1>3

\* A new thread starts while the session is open.
LEMMA SpawnStep ==
    ASSUME NEW w \in Workers, NEW pc \in {"s_start", "v_start", "i_start"}, NEW s \in Seqs,
           TypeOK, IInv, Spawn(w, pc, s)
    PROVE  TypeOK' /\ IInv'
  <1>1. /\ conn = "open" /\ conn' = conn /\ stream' = stream /\ requests' = requests
        /\ worker[w].pc = "idle"
        /\ worker' = [worker EXCEPT ![w] = [pc |-> pc, seq |-> s]]
    BY DEF Spawn
  <1>2. /\ worker' \in [Workers -> [pc : PCs, seq : Seqs]]
        /\ worker'[w].pc = pc
        /\ \A v \in Workers \ {w} : worker'[v] = worker[v]
    BY <1>1 DEF TypeOK, PCs, SpectrumPCs, VideoPCs, ImagePCs
  <1>3. TypeOK'
    BY <1>1, <1>2 DEF TypeOK, stream, requests
  <1>4. VideoInv' /\ ClosedIsQuiet'
    BY <1>1, <1>2, VideoKept DEF IInv, Holding
  <1>5. SpectrumInv'
    BY <1>1 DEF IInv, SpectrumInv, SpectrumInOrder, requests
  <1> QED
    BY <1>3, <1>4, <1>5 DEF IInv

LEMMA KalmanResetStep ==
    ASSUME NEW s \in Seqs, TypeOK, IInv, KalmanReset(s)
    PROVE  TypeOK' /\ IInv'
  <1>1. /\ conn = "open" /\ conn' = conn /\ stream' = stream /\ worker' = worker
        /\ spectrum' = spectrum
        /\ kal' = FALSE /\ dangling' = dangling \cup FilterUsers
        /\ last_seq' = Newer(s, last_seq) /\ floor' = Newer(s, floor)
    BY DEF KalmanReset, ResetTo
  <1>2. /\ last_seq \in Seqs \cup {NoSeq} /\ floor \in Seqs \cup {NoSeq}
        /\ s \in Seqs \cup {NoSeq}
    BY DEF TypeOK
  <1>3. last_seq' \in Seqs \cup {NoSeq} /\ floor' \in Seqs \cup {NoSeq}
    BY <1>1, <1>2, NewerBounds
  <1>4. dangling' \in SUBSET Workers
    BY <1>1 DEF TypeOK, FilterUsers
  <1>5. TypeOK'
    BY <1>1, <1>3, <1>4 DEF TypeOK, stream
  <1>6. floor' <= last_seq'
    BY <1>1, <1>2 DEF Newer, IInv, SpectrumInv
  <1>7. SpectrumInv'
    BY <1>1, <1>6 DEF IInv, SpectrumInv, SpectrumInOrder
  <1>8. VideoInv' /\ ClosedIsQuiet'
    BY <1>1 DEF IInv, VideoInv, VideoInOrder, ClosedIsQuiet, stream
  <1> QED
    BY <1>5, <1>7, <1>8 DEF IInv

\* A new stream begins when nobody holds video_mtx, so no admitted frame is left.
LEMMA InitVideoStep ==
    ASSUME NEW s \in Seqs, TypeOK, IInv, InitVideo(s)
    PROVE  TypeOK' /\ IInv'
  <1>1. TypeOK'
    BY DEF InitVideo, TypeOK, requests
  <1>2. SpectrumInv'
    BY DEF InitVideo, IInv, SpectrumInv, SpectrumInOrder, requests
  <1>3. \A w \in Workers : worker[w].pc \notin Holding
    BY DEF InitVideo, IInv, VideoInv
  <1>4. VideoInv'
    <2>1. /\ worker' = worker /\ video_mtx' = video_mtx /\ video_mtx = NoOne
          /\ vfloor' = s /\ last_video_seq' = s /\ video' = video
      BY DEF InitVideo
    <2>2. \A w \in Workers : worker'[w].pc \in Holding <=> video_mtx' = w
      BY <1>3, <2>1
    <2>3. \A w \in Workers : worker'[w].pc \in Admitted => worker'[w].seq = last_video_seq'
      BY <1>3, <2>1 DEF Admitted, Holding
    <2> QED
      BY <2>1, <2>2, <2>3 DEF IInv, VideoInv, VideoInOrder
  <1>5. ClosedIsQuiet'
    BY DEF InitVideo, ClosedIsQuiet
  <1> QED
    BY <1>1, <1>2, <1>4, <1>5 DEF IInv

LEMMA CloseStep ==
    ASSUME TypeOK, IInv, Close \/ Delete
    PROVE  TypeOK' /\ IInv'
  <1>1. /\ stream' = stream /\ requests' = requests /\ worker' = worker
        /\ \/ conn' = "closing"
           \/ conn' = "closed" /\ Joined
    BY DEF Close, Delete
  <1>2. TypeOK'
    BY <1>1 DEF TypeOK, stream, requests
  <1>3. SpectrumInv' /\ VideoInv'
    BY <1>1 DEF IInv, SpectrumInv, SpectrumInOrder, VideoInv, VideoInOrder, stream, requests
  <1>4. Joined => video_mtx = NoOne
    BY DEF Joined, IInv, VideoInv, Holding, TypeOK
  <1>5. ClosedIsQuiet'
    BY <1>1, <1>4 DEF ClosedIsQuiet, Joined, stream
  <1> QED
    BY <1>2, <1>3, <1>5 DEF IInv

-----------------------------------------------------------------------------
(* The spectrum threads.                                                    *)

\* The number of an admitted request is the newest one: last_seq does not fall.
LEMMA SpectrumAdmitStep ==
    ASSUME NEW w \in Workers, TypeOK, IInv, SpectrumAdmit(w)
    PROVE  TypeOK' /\ IInv'
  <1>1. /\ worker[w].pc = "s_admit"
        /\ conn' = conn /\ stream' = stream /\ kal' = kal /\ dangling' = dangling
        /\ floor' = floor /\ spectrum' = spectrum
        /\ \/ Finish(w) /\ last_seq' = last_seq
           \/ /\ ~ Outdated(worker[w].seq)
              /\ last_seq' = worker[w].seq
              /\ \E pc \in {"s_view", "s_reply"} : Goto(w, pc)
    BY DEF SpectrumAdmit
  <1>2. last_seq' \in Seqs \cup {NoSeq} /\ last_seq <= last_seq'
    BY <1>1 DEF TypeOK, Outdated
  <1>3. /\ worker' \in [Workers -> [pc : PCs, seq : Seqs]]
        /\ worker'[w].pc \in {"idle", "s_view", "s_reply"}
        /\ \A v \in Workers \ {w} : worker'[v] = worker[v]
    <2>1. CASE Finish(w)
      BY <2>1, FinishType
    <2>2. ASSUME NEW pc \in {"s_view", "s_reply"}, Goto(w, pc)
          PROVE  /\ worker' \in [Workers -> [pc : PCs, seq : Seqs]]
                 /\ worker'[w].pc = pc
                 /\ \A v \in Workers \ {w} : worker'[v] = worker[v]
      <3>1. pc \in PCs
        BY DEF PCs, SpectrumPCs
      <3> QED
        BY <2>2, <3>1, GotoType
    <2> QED
      BY <1>1, <2>1, <2>2
  <1>4. TypeOK'
    BY <1>1, <1>2, <1>3 DEF TypeOK, stream
  <1>5. SpectrumInv'
    <2>1. floor \in Int /\ last_seq \in Int /\ last_seq' \in Int /\ floor <= last_seq
      BY <1>2 DEF TypeOK, IInv, SpectrumInv
    <2> QED
      BY <1>1, <1>2, <2>1 DEF IInv, SpectrumInv, SpectrumInOrder
  <1>6. VideoInv' /\ ClosedIsQuiet'
    BY <1>1, <1>3, VideoKept DEF IInv, Holding
  <1> QED
    BY <1>4, <1>5, <1>6 DEF IInv

\* What is sent answers last_seq, which is no older than the floor.
LEMMA SendStep ==
    ASSUME NEW w \in Workers, TypeOK, IInv, ViewSend(w) \/ SpectrumSend(w)
    PROVE  TypeOK' /\ IInv'
  <1>1. PICK from \in {"s_view_send", "s_send"}, to \in {"s_reply", "s_track"} : Send(w, from, to)
    BY DEF ViewSend, SpectrumSend
  <1> DEFINE s == worker[w].seq
  <1>2. /\ worker[w].pc = from
        /\ conn' = conn /\ stream' = stream /\ last_seq' = last_seq
        /\ kal' = kal /\ dangling' = dangling
        /\ Goto(w, to)
        /\ \/ s = last_seq /\ spectrum' = [seq |-> s, floor |-> floor] /\ floor' = Newer(s, floor)
           \/ spectrum' = spectrum /\ floor' = floor
    BY <1>1 DEF Send, Wanted
  <1>3. to \in PCs
    BY DEF PCs, SpectrumPCs
  <1>4. /\ worker' \in [Workers -> [pc : PCs, seq : Seqs]]
        /\ worker'[w].pc = to
        /\ \A v \in Workers \ {w} : worker'[v] = worker[v]
    BY <1>2, <1>3, GotoType
  <1>5. s \in Seqs /\ floor \in Seqs \cup {NoSeq} /\ last_seq \in Seqs \cup {NoSeq}
    BY DEF TypeOK
  <1>6. TypeOK' /\ SpectrumInv'
    <2>1. CASE s = last_seq /\ spectrum' = [seq |-> s, floor |-> floor] /\ floor' = Newer(s, floor)
      <3>1. floor <= s
        BY <2>1 DEF IInv, SpectrumInv
      <3>2. floor' \in Seqs \cup {NoSeq} /\ floor' <= last_seq'
        BY <1>2, <1>5, <2>1, <3>1 DEF Newer
      <3>3. spectrum' \in Answer /\ spectrum'.seq >= spectrum'.floor
        BY <1>5, <2>1, <3>1 DEF Answer
      <3> QED
        BY <1>2, <1>4, <3>2, <3>3 DEF TypeOK, stream, SpectrumInv, SpectrumInOrder
    <2>2. CASE spectrum' = spectrum /\ floor' = floor
      BY <1>2, <1>4, <2>2 DEF TypeOK, stream, IInv, SpectrumInv, SpectrumInOrder
    <2> QED
      BY <1>2, <2>1, <2>2
  <1>7. VideoInv' /\ ClosedIsQuiet'
    BY <1>2, <1>4, VideoKept DEF IInv, Holding
  <1> QED
    BY <1>6, <1>7 DEF IInv

LEMMA FiltersStep ==
    ASSUME NEW w \in Workers, TypeOK, IInv, SpectrumCreate(w) \/ SpectrumEnd(w)
    PROVE  TypeOK' /\ IInv'
  <1>1. /\ worker[w].pc \in {"s_create", "s_kalman"}
        /\ Finish(w)
        /\ kal' \in {TRUE, kal}
        /\ dangling' \in {dangling, dangling \cup FilterUsers, dangling \ {w}}
        /\ conn' = conn /\ stream' = stream /\ last_seq' = last_seq
        /\ floor' = floor /\ spectrum' = spectrum
    BY DEF SpectrumCreate, SpectrumEnd
  <1>2. /\ worker' \in [Workers -> [pc : PCs, seq : Seqs]]
        /\ worker'[w].pc = "idle"
        /\ \A v \in Workers \ {w} : worker'[v] = worker[v]
    BY <1>1, FinishType
  <1>3. dangling' \in SUBSET Workers /\ kal' \in BOOLEAN
    BY <1>1 DEF TypeOK, FilterUsers
  <1>4. TypeOK'
    BY <1>1, <1>2, <1>3 DEF TypeOK, stream
  <1>5. SpectrumInv'
    BY <1>1 DEF IInv, SpectrumInv, SpectrumInOrder
  <1>6. VideoInv' /\ ClosedIsQuiet'
    BY <1>1, <1>2, VideoKept DEF IInv, Holding
  <1> QED
    BY <1>4, <1>5, <1>6 DEF IInv

-----------------------------------------------------------------------------
(* The video threads.                                                       *)

\* A step of a running worker that holds video_mtx or finds it free keeps the video
\* stream's part of the invariant if it holds the lock afterwards exactly when it is
\* past it, and its number, once admitted, is last_video_seq.
LEMMA HolderStep ==
    ASSUME NEW w \in Workers, TypeOK, VideoInv, ClosedIsQuiet,
           worker[w].pc # "idle", video_mtx \in {w, NoOne},
           \A v \in Workers \ {w} : worker'[v] = worker[v],
           conn' = conn,
           video_mtx' = IF worker'[w].pc \in Holding THEN w ELSE NoOne,
           worker'[w].pc \in Admitted => worker'[w].seq = last_video_seq',
           vfloor' <= last_video_seq', VideoInOrder'
    PROVE  VideoInv' /\ ClosedIsQuiet'
  <1>1. \A v \in Workers \ {w} : worker'[v].pc \notin Holding
    BY DEF VideoInv
  <1>2. \A v \in Workers : worker'[v].pc \in Holding <=> video_mtx' = v
    BY <1>1
  <1>3. \A v \in Workers : worker'[v].pc \in Admitted => worker'[v].seq = last_video_seq'
    BY <1>1 DEF Holding, Admitted
  <1>4. conn' # "closed"
    BY DEF ClosedIsQuiet
  <1> QED
    BY <1>2, <1>3, <1>4 DEF VideoInv, ClosedIsQuiet

\* What the steps of the holder have in common: it goes on holding video_mtx at pc,
\* or it ends.
LEMMA VideoMove ==
    ASSUME NEW w \in Workers, NEW pc \in Holding, TypeOK,
           (Goto(w, pc) /\ video_mtx' = w) \/ VideoUnlock(w)
    PROVE  /\ worker' \in [Workers -> [pc : PCs, seq : Seqs]]
           /\ \A v \in Workers \ {w} : worker'[v] = worker[v]
           /\ worker'[w].pc \in {pc, "idle"}
           /\ worker'[w].pc = pc => worker'[w].seq = worker[w].seq
           /\ video_mtx' = IF worker'[w].pc \in Holding THEN w ELSE NoOne
           /\ video_mtx' \in Workers \cup {NoOne}
  <1>1. pc \in PCs /\ pc # "idle"
    BY DEF Holding, PCs, VideoPCs
  <1>2. CASE Goto(w, pc) /\ video_mtx' = w
    <2>1. /\ worker' \in [Workers -> [pc : PCs, seq : Seqs]]
          /\ worker'[w].pc = pc /\ worker'[w].seq = worker[w].seq
          /\ \A v \in Workers \ {w} : worker'[v] = worker[v]
      BY <1>1, <1>2, GotoType
    <2> QED
      BY <1>2, <2>1
  <1>3. CASE VideoUnlock(w)
    <2>1. /\ worker' \in [Workers -> [pc : PCs, seq : Seqs]]
          /\ worker'[w].pc = "idle"
          /\ \A v \in Workers \ {w} : worker'[v] = worker[v]
          /\ video_mtx' = NoOne
      BY <1>3, FinishType DEF VideoUnlock
    <2> QED
      BY <1>1, <2>1 DEF Holding
  <1> QED
    BY <1>2, <1>3

LEMMA VideoLockStep ==
    ASSUME NEW w \in Workers, TypeOK, IInv, VideoLock(w)
    PROVE  TypeOK' /\ IInv'
  <1>1. /\ worker[w].pc = "v_lock" /\ video_mtx = NoOne
        /\ Goto(w, "v_admit") /\ video_mtx' = w
        /\ conn' = conn /\ requests' = requests
        /\ last_video_seq' = last_video_seq /\ last_frame_idx' = last_frame_idx
        /\ encoder' = encoder /\ vfloor' = vfloor /\ video' = video
    BY DEF VideoLock, VideoLockFree
  <1>2. "v_admit" \in Holding
    BY DEF Holding
  <1>3. /\ worker' \in [Workers -> [pc : PCs, seq : Seqs]]
        /\ \A v \in Workers \ {w} : worker'[v] = worker[v]
        /\ worker'[w].pc \in {"v_admit", "idle"}
        /\ video_mtx' = IF worker'[w].pc \in Holding THEN w ELSE NoOne
        /\ video_mtx' \in Workers \cup {NoOne}
    BY <1>1, <1>2, VideoMove
  <1>4. TypeOK'
    BY <1>1, <1>3 DEF TypeOK, requests
  <1>5. SpectrumInv'
    BY <1>1 DEF IInv, SpectrumInv, SpectrumInOrder, requests
  <1>6. vfloor' <= last_video_seq' /\ VideoInOrder'
    BY <1>1 DEF IInv, VideoInv, VideoInOrder
  <1>7. worker'[w].pc \notin Admitted
    BY <1>3 DEF Admitted
  <1>8. VideoInv' /\ ClosedIsQuiet'
    BY <1>1, <1>3, <1>6, <1>7, HolderStep DEF IInv
  <1> QED
    BY <1>4, <1>5, <1>8 DEF IInv

\* An admitted number becomes last_video_seq, which does not fall.
LEMMA VideoAdmitStep ==
    ASSUME NEW w \in Workers, TypeOK, IInv, VideoAdmit(w)
    PROVE  TypeOK' /\ IInv'
  <1>1. /\ worker[w].pc = "v_admit"
        /\ conn' = conn /\ requests' = requests /\ last_frame_idx' = last_frame_idx
        /\ encoder' = encoder /\ vfloor' = vfloor /\ video' = video
        /\ \/ VideoUnlock(w) /\ last_video_seq' = last_video_seq
           \/ /\ ~ VideoOutdated(worker[w].seq)
              /\ last_video_seq' = worker[w].seq
              /\ Goto(w, "v_frame") /\ video_mtx' = video_mtx
    BY DEF VideoAdmit
  <1>2. "v_frame" \in Holding /\ video_mtx = w
    BY <1>1 DEF Holding, IInv, VideoInv
  <1>3. /\ worker' \in [Workers -> [pc : PCs, seq : Seqs]]
        /\ \A v \in Workers \ {w} : worker'[v] = worker[v]
        /\ worker'[w].pc \in {"v_frame", "idle"}
        /\ worker'[w].pc = "v_frame" => worker'[w].seq = worker[w].seq
        /\ video_mtx' = IF worker'[w].pc \in Holding THEN w ELSE NoOne
        /\ video_mtx' \in Workers \cup {NoOne}
    BY <1>1, <1>2, VideoMove
  <1>4. last_video_seq' \in Seqs \cup {NoSeq} /\ last_video_seq <= last_video_seq'
    BY <1>1 DEF TypeOK, VideoOutdated
  <1>5. TypeOK'
    BY <1>1, <1>3, <1>4 DEF TypeOK, requests
  <1>6. SpectrumInv'
    BY <1>1 DEF IInv, SpectrumInv, SpectrumInOrder, requests
  <1>7. vfloor' <= last_video_seq' /\ VideoInOrder'
    <2>1. vfloor \in Int /\ last_video_seq \in Int /\ last_video_seq' \in Int
      BY <1>4 DEF TypeOK
    <2> QED
      BY <1>1, <1>4, <2>1 DEF IInv, VideoInv, VideoInOrder
  <1>8. worker'[w].pc \in Admitted => worker'[w].seq = last_video_seq'
    <2>1. CASE VideoUnlock(w)
      BY <2>1, FinishType DEF VideoUnlock, Admitted
    <2>2. CASE last_video_seq' = worker[w].seq
      BY <1>3, <2>2 DEF Admitted
    <2> QED
      BY <1>1, <2>1, <2>2
  <1>9. VideoInv' /\ ClosedIsQuiet'
    BY <1>1, <1>2, <1>3, <1>7, <1>8, HolderStep DEF IInv
  <1> QED
    BY <1>5, <1>6, <1>9 DEF IInv

\* A frame is made and sent, one part after the other, under video_mtx: the number
\* of its request is still last_video_seq, which is no older than the floor.
LEMMA VideoFrameStep ==
    ASSUME NEW w \in Workers, TypeOK, IInv, VideoFrame(w) \/ VideoReply(w) \/ VideoSend(w)
    PROVE  TypeOK' /\ IInv'
  <1> DEFINE s == worker[w].seq
  <1>1. /\ worker[w].pc \in Admitted
        /\ conn' = conn /\ requests' = requests
        /\ last_video_seq' = last_video_seq /\ encoder' = encoder
    BY DEF VideoFrame, VideoReply, VideoSend, Admitted
  <1>2. last_frame_idx' \in Frames \cup {NoSeq}
    BY DEF VideoFrame, VideoReply, VideoSend, TypeOK
  <1>3. \/ vfloor' = vfloor /\ video' = video
        \/ vfloor' = Newer(s, vfloor) /\ video' = [seq |-> s, floor |-> vfloor]
    BY DEF VideoFrame, VideoReply, VideoSend
  <1>4. video_mtx = w
    BY <1>1 DEF Admitted, Holding, IInv, VideoInv
  <1>5. PICK pc \in {"v_reply", "v_send"} : (Goto(w, pc) /\ video_mtx' = w) \/ VideoUnlock(w)
    BY <1>4 DEF VideoFrame, VideoReply, VideoSend
  <1>6. pc \in Holding
    BY DEF Holding
  <1>7. /\ worker' \in [Workers -> [pc : PCs, seq : Seqs]]
        /\ \A v \in Workers \ {w} : worker'[v] = worker[v]
        /\ worker'[w].pc \in {pc, "idle"}
        /\ worker'[w].pc = pc => worker'[w].seq = worker[w].seq
        /\ video_mtx' = IF worker'[w].pc \in Holding THEN w ELSE NoOne
        /\ video_mtx' \in Workers \cup {NoOne}
    BY <1>5, <1>6, VideoMove
  <1>8. s = last_video_seq /\ vfloor <= s
    BY <1>1 DEF IInv, VideoInv
  <1>9. /\ vfloor' \in Seqs \cup {NoSeq} /\ vfloor' <= last_video_seq'
        /\ video' \in Answer /\ VideoInOrder'
    <2>1. s \in Seqs /\ vfloor \in Seqs \cup {NoSeq} /\ video \in Answer
      BY DEF TypeOK
    <2>2. CASE vfloor' = vfloor /\ video' = video
      BY <1>1, <2>1, <2>2 DEF IInv, VideoInv, VideoInOrder
    <2>3. CASE vfloor' = Newer(s, vfloor) /\ video' = [seq |-> s, floor |-> vfloor]
      <3>1. vfloor' = s
        BY <1>8, <2>1, <2>3 DEF Newer
      <3>2. video' \in Answer /\ video'.seq >= video'.floor
        BY <1>8, <2>1, <2>3 DEF Answer
      <3> QED
        BY <1>1, <1>8, <2>1, <3>1, <3>2 DEF VideoInOrder
    <2> QED
      BY <1>3, <2>2, <2>3
  <1>10. TypeOK'
    BY <1>1, <1>2, <1>7, <1>9 DEF TypeOK, requests
  <1>11. SpectrumInv'
    BY <1>1 DEF IInv, SpectrumInv, SpectrumInOrder, requests
  <1>12. worker'[w].pc \in Admitted => worker'[w].seq = last_video_seq'
    BY <1>1, <1>7, <1>8 DEF Admitted
  <1>13. worker[w].pc # "idle"
    BY <1>1 DEF Admitted
  <1>14. VideoInv' /\ ClosedIsQuiet'
    BY <1>1, <1>4, <1>7, <1>9, <1>12, <1>13, HolderStep DEF IInv
  <1> QED
    BY <1>10, <1>11, <1>14 DEF IInv

-----------------------------------------------------------------------------
LEMMA InitInv == Init => IInv
  BY DEF Init, IInv, SpectrumInv, SpectrumInOrder, VideoInv, VideoInOrder, ClosedIsQuiet,
         NoAnswer, Idle, Holding, Admitted

\* Every step of a worker preserves the invariant.
LEMMA WorkStep ==
    ASSUME NEW w \in Workers, TypeOK, IInv, Work(w)
    PROVE  TypeOK' /\ IInv'
  <1>1. CASE Checks(w) \/ Moves(w)
    <2>1. /\ TypeOK'
          /\ worker[w].pc \notin Holding /\ worker'[w].pc \notin Holding
          /\ worker[w].pc # "idle"
          /\ \A v \in Workers \ {w} : worker'[v] = worker[v]
          /\ conn' = conn /\ stream' = stream /\ requests' = requests
      BY <1>1, ChecksMove, MovesMove
    <2>2. VideoInv' /\ ClosedIsQuiet'
      BY <2>1, VideoKept DEF IInv
    <2>3. SpectrumInv'
      BY <2>1 DEF IInv, SpectrumInv, SpectrumInOrder, requests
    <2> QED
      BY <2>1, <2>2, <2>3 DEF IInv
  <1>2. CASE ~ (Checks(w) \/ Moves(w))
    <2>1. \/ SpectrumAdmit(w) \/ ViewSend(w) \/ SpectrumSend(w)
          \/ SpectrumCreate(w) \/ SpectrumEnd(w)
          \/ VideoLock(w) \/ VideoAdmit(w)
          \/ VideoFrame(w) \/ VideoReply(w) \/ VideoSend(w)
      BY <1>2 DEF Work, Checks, Moves
    <2> QED
      BY <2>1, SpectrumAdmitStep, SendStep, FiltersStep, VideoLockStep, VideoAdmitStep,
         VideoFrameStep
  <1> QED
    BY <1>1, <1>2

LEMMA NextStep == TypeOK /\ IInv /\ [Next]_vars => TypeOK' /\ IInv'
  <1> SUFFICES ASSUME TypeOK, IInv, [Next]_vars
               PROVE  TypeOK' /\ IInv'
    OBVIOUS
  <1>1. ASSUME NEW w \in Workers, NEW s \in Seqs, RequestSpectrum(w, s) \/ RequestVideo(w, s)
        PROVE  TypeOK' /\ IInv'
    BY <1>1, SpawnStep DEF RequestSpectrum, RequestVideo
  <1>2. ASSUME NEW w \in Workers, RequestImage(w)
        PROVE  TypeOK' /\ IInv'
    <2>1. 0 \in Seqs
      OBVIOUS
    <2> QED
      BY <1>2, <2>1, SpawnStep DEF RequestImage
  <1>3. ASSUME NEW s \in Seqs, KalmanReset(s) \/ InitVideo(s)
        PROVE  TypeOK' /\ IInv'
    BY <1>3, KalmanResetStep, InitVideoStep
  <1>4. CASE Close \/ Delete
    BY <1>4, CloseStep
  <1>5. ASSUME NEW w \in Workers, Work(w)
        PROVE  TypeOK' /\ IInv'
    BY <1>5, WorkStep
  <1>6. CASE UNCHANGED vars
    <2>1. /\ conn' = conn /\ stream' = stream /\ requests' = requests /\ worker' = worker
      BY <1>6 DEF vars
    <2> QED
      BY <2>1 DEF TypeOK, IInv, SpectrumInv, SpectrumInOrder, VideoInv, VideoInOrder,
                  ClosedIsQuiet, stream, requests
  <1> QED
    BY <1>1, <1>2, <1>3, <1>4, <1>5, <1>6 DEF Next, EventLoop, Finished

LEMMA Invariance == Spec => [](TypeOK /\ IInv)
  <1>1. Init => TypeOK /\ IInv
    BY InitType, InitInv
  <1> QED
    BY <1>1, NextStep, PTL DEF Spec

\* The session's variables keep their types.
THEOREM TypeCorrect == Spec => []TypeOK
  BY Invariance, PTL

\* However many spectrum threads run and however they are scheduled, no spectrum or
\* viewport is sent that is older than a reset handled or an answer sent before it.
THEOREM SpectrumInOrderHolds == Spec => []SpectrumInOrder
  <1>1. IInv => SpectrumInOrder
    BY DEF IInv, SpectrumInv
  <1> QED
    BY <1>1, Invariance, PTL

\* The frames of one video stream never go back in time.
THEOREM VideoInOrderHolds == Spec => []VideoInOrder
  <1>1. IInv => VideoInOrder
    BY DEF IInv, VideoInv
  <1> QED
    BY <1>1, Invariance, PTL

\* No thread outlives the session it works for, and video_mtx is free when the
\* session is deleted.
THEOREM ClosedIsQuietHolds == Spec => []ClosedIsQuiet
  <1>1. IInv => ClosedIsQuiet
    BY DEF IInv
  <1> QED
    BY <1>1, Invariance, PTL

-----------------------------------------------------------------------------
(* The threads and video_mtx.                                               *)

\* Whoever holds video_mtx does not wait for it; if nobody does, nobody waits.
THEOREM WorkersNeverStuckHolds == Spec => []WorkersNeverStuck
  <1>1. TypeOK /\ IInv => WorkersNeverStuck
    <2> SUFFICES ASSUME TypeOK, VideoInv, NEW w \in Workers, worker[w].pc # "idle"
                 PROVE  \E v \in Workers :
                            /\ worker[v].pc # "idle"
                            /\ worker[v].pc = "v_lock" => video_mtx = NoOne
      BY DEF WorkersNeverStuck, Joined, IInv
    <2>1. CASE video_mtx = NoOne
      BY <2>1
    <2>2. CASE video_mtx \in Workers
      <3>1. worker[video_mtx].pc \in Holding
        BY <2>2 DEF VideoInv
      <3>2. worker[video_mtx].pc # "idle" /\ worker[video_mtx].pc # "v_lock"
        BY <3>1 DEF Holding
      <3> QED
        BY <2>2, <3>2
    <2> QED
      BY <2>1, <2>2 DEF TypeOK
  <1> QED
    BY <1>1, Invariance, PTL

-----------------------------------------------------------------------------
(* The workers implement a sequential server (AnswerStream), once for the   *)
(* spectra and once for the video frames.                                   *)

\* The workers that are left keep the session alive.
LEMMA RunningIsLive ==
    ASSUME ClosedIsQuiet, NEW w \in Workers, worker[w].pc # "idle"
    PROVE  conn # "closed"
  BY DEF ClosedIsQuiet

\* All that the two abstract servers see.
seen == <<conn, last_seq, floor, spectrum.seq, last_video_seq, vfloor, video.seq>>

\* Checks, moves between the parts of an answer and new threads are not seen.
LEMMA Unseen ==
    ASSUME NEW w \in Workers, TypeOK,
           Checks(w) \/ Moves(w) \/ \E pc \in PCs, s \in Seqs : Spawn(w, pc, s)
    PROVE  seen' = seen
  <1>1. conn' = conn /\ stream' = stream /\ requests' = requests
    BY ChecksMove, MovesMove DEF Spawn
  <1> QED
    BY <1>1 DEF stream, requests, seen

\* Every step of the session is one of these, as far as the two servers see.
LEMMA SeenSteps ==
    ASSUME TypeOK, IInv, [Next]_vars
    PROVE  \/ seen' = seen
           \/ \E s \in Seqs : KalmanReset(s) \/ InitVideo(s)
           \/ Close \/ Delete
           \/ \E w \in Workers :
                \/ SpectrumAdmit(w) \/ ViewSend(w) \/ SpectrumSend(w)
                \/ VideoAdmit(w) \/ VideoSend(w)
  <1>1. ASSUME NEW w \in Workers, NEW s \in Seqs, RequestSpectrum(w, s) \/ RequestVideo(w, s)
        PROVE  seen' = seen
    <2>1. "s_start" \in PCs /\ "v_start" \in PCs
      BY DEF PCs, SpectrumPCs, VideoPCs
    <2> QED
      BY <1>1, <2>1, Unseen DEF RequestSpectrum, RequestVideo
  <1>2. ASSUME NEW w \in Workers, RequestImage(w)
        PROVE  seen' = seen
    <2>1. "i_start" \in PCs /\ 0 \in Seqs
      BY DEF PCs, ImagePCs
    <2> QED
      BY <1>2, <2>1, Unseen DEF RequestImage
  <1>3. ASSUME NEW w \in Workers, Work(w)
        PROVE  \/ seen' = seen
               \/ SpectrumAdmit(w) \/ ViewSend(w) \/ SpectrumSend(w)
               \/ VideoAdmit(w) \/ VideoSend(w)
    <2>1. CASE Checks(w) \/ Moves(w)
      BY <2>1, Unseen
    <2>2. CASE SpectrumCreate(w) \/ SpectrumEnd(w)
      BY <2>2 DEF SpectrumCreate, SpectrumEnd, stream, seen
    <2>3. CASE VideoLock(w) \/ VideoFrame(w) \/ VideoReply(w)
      BY <2>3 DEF VideoLock, VideoFrame, VideoReply, requests, seen
    <2> QED
      BY <1>3, <2>1, <2>2, <2>3 DEF Work, Checks, Moves
  <1>4. CASE UNCHANGED vars
    BY <1>4 DEF vars, stream, requests, seen
  <1> QED
    BY <1>1, <1>2, <1>3, <1>4 DEF Next, EventLoop, Finished

LEMMA SpectraInit == Init => Spectra!Init
  BY DEF Init, NoAnswer, Spectra!Init, Spectra!NoSeq

\* The admission of a request takes on the newest one; an answer is a reply to it; all
\* but these and [kalman_reset] is not seen.
LEMMA SpectraStep ==
    ASSUME TypeOK, IInv, [Next]_vars
    PROVE  [Spectra!Next]_(Spectra!vars)
  <1> USE DEF Spectra!Seqs, Spectra!NoSeq
  <1>1. ASSUME seen' = seen
        PROVE  UNCHANGED Spectra!vars
    BY <1>1 DEF seen, Spectra!vars
  <1>2. ASSUME NEW s \in Seqs, KalmanReset(s)
        PROVE  Spectra!Reset
    <2>1. /\ conn = "open" /\ conn' = conn /\ spectrum' = spectrum
          /\ last_seq' = Newer(s, last_seq) /\ floor' = Newer(s, floor)
      BY <1>2 DEF KalmanReset, ResetTo
    <2> QED
      BY <2>1 DEF Spectra!Reset, Spectra!Newer, Newer
  <1>3. ASSUME NEW s \in Seqs, InitVideo(s)
        PROVE  UNCHANGED Spectra!vars
    BY <1>3 DEF InitVideo, requests, Spectra!vars
  <1>4. ASSUME Close
        PROVE  UNCHANGED Spectra!vars
    BY <1>4 DEF Close, requests, Spectra!vars
  <1>5. ASSUME Delete
        PROVE  Spectra!End
    BY <1>5 DEF Delete, requests, Spectra!End
  <1>6. ASSUME NEW w \in Workers, SpectrumAdmit(w)
        PROVE  Spectra!Take \/ UNCHANGED Spectra!vars
    <2>1. /\ worker[w].pc = "s_admit" /\ conn' = conn /\ spectrum' = spectrum
          /\ floor' = floor
      BY <1>6 DEF SpectrumAdmit
    <2>2. \/ last_seq' = last_seq
          \/ last_seq' = worker[w].seq /\ ~ (last_seq > worker[w].seq)
      BY <1>6 DEF SpectrumAdmit, Outdated
    <2>3. conn # "closed"
      BY <2>1, RunningIsLive DEF IInv
    <2>4. CASE last_seq' = last_seq
      BY <2>1, <2>4 DEF Spectra!vars
    <2>5. CASE last_seq' = worker[w].seq /\ ~ (last_seq > worker[w].seq)
      <3>1. worker[w].seq \in Seqs /\ worker[w].seq >= last_seq
        BY <2>5 DEF TypeOK
      <3> QED
        BY <2>1, <2>3, <2>5, <3>1 DEF Spectra!Take
    <2> QED
      BY <2>2, <2>4, <2>5
  <1>7. ASSUME NEW w \in Workers, ViewSend(w) \/ SpectrumSend(w)
        PROVE  Spectra!Reply \/ UNCHANGED Spectra!vars
    <2>1. /\ worker[w].pc # "idle" /\ conn' = conn /\ last_seq' = last_seq
          /\ \/ /\ worker[w].seq = last_seq
                /\ spectrum' = [seq |-> worker[w].seq, floor |-> floor]
                /\ floor' = Newer(worker[w].seq, floor)
             \/ spectrum' = spectrum /\ floor' = floor
      BY <1>7 DEF ViewSend, SpectrumSend, Send, Wanted
    <2>2. conn # "closed"
      BY <2>1, RunningIsLive DEF IInv
    <2>3. worker[w].seq # -1
      BY DEF TypeOK
    <2>4. CASE /\ worker[w].seq = last_seq
               /\ spectrum' = [seq |-> worker[w].seq, floor |-> floor]
               /\ floor' = Newer(worker[w].seq, floor)
      <3>1. floor' = last_seq
        BY <2>4 DEF Newer, IInv, SpectrumInv, TypeOK
      <3> QED
        BY <2>1, <2>2, <2>3, <2>4, <3>1 DEF Spectra!Reply
    <2>5. CASE spectrum' = spectrum /\ floor' = floor
      BY <2>1, <2>5 DEF Spectra!vars
    <2> QED
      BY <2>1, <2>4, <2>5
  <1>8. ASSUME NEW w \in Workers, VideoAdmit(w) \/ VideoSend(w)
        PROVE  UNCHANGED Spectra!vars
    BY <1>8 DEF VideoAdmit, VideoSend, requests, Spectra!vars
  <1> QED
    BY SeenSteps, <1>1, <1>2, <1>3, <1>4, <1>5, <1>6, <1>7, <1>8 DEF Spectra!Next

\* The spectrum threads of a session act like a sequential server that only answers
\* the newest request.
THEOREM SpectraInSequenceHolds == Spec => SpectraInSequence
  <1>1. Init => Spectra!Init
    BY SpectraInit
  <1>2. TypeOK /\ IInv /\ [Next]_vars => [Spectra!Next]_(Spectra!vars)
    BY SpectraStep
  <1> QED
    BY <1>1, <1>2, Invariance, PTL DEF Spec, SpectraInSequence, Spectra!Spec

LEMMA VideosInit == Init => Videos!Init
  BY DEF Init, NoAnswer, Videos!Init, Videos!NoSeq

\* [init_video] starts the numbers afresh; the frames are sent by the worker that
\* holds video_mtx, whose number is last_video_seq.
LEMMA VideosStep ==
    ASSUME TypeOK, IInv, [Next]_vars
    PROVE  [Videos!Next]_(Videos!vars)
  <1> USE DEF Videos!Seqs, Videos!NoSeq
  <1>1. ASSUME seen' = seen
        PROVE  UNCHANGED Videos!vars
    BY <1>1 DEF seen, Videos!vars
  <1>2. ASSUME NEW s \in Seqs, KalmanReset(s)
        PROVE  UNCHANGED Videos!vars
    BY <1>2 DEF KalmanReset, stream, Videos!vars
  <1>3. ASSUME NEW s \in Seqs, InitVideo(s)
        PROVE  Videos!Reset
    BY <1>3 DEF InitVideo, Videos!Reset
  <1>4. ASSUME Close
        PROVE  UNCHANGED Videos!vars
    BY <1>4 DEF Close, stream, Videos!vars
  <1>5. ASSUME Delete
        PROVE  Videos!End
    BY <1>5 DEF Delete, stream, Videos!End
  <1>6. ASSUME NEW w \in Workers, SpectrumAdmit(w) \/ ViewSend(w) \/ SpectrumSend(w)
        PROVE  UNCHANGED Videos!vars
    BY <1>6 DEF SpectrumAdmit, ViewSend, SpectrumSend, Send, stream, Videos!vars
  <1>7. ASSUME NEW w \in Workers, VideoAdmit(w)
        PROVE  Videos!Take \/ UNCHANGED Videos!vars
    <2>1. /\ worker[w].pc = "v_admit" /\ conn' = conn /\ video' = video
          /\ vfloor' = vfloor
      BY <1>7 DEF VideoAdmit
    <2>2. \/ last_video_seq' = last_video_seq
          \/ last_video_seq' = worker[w].seq /\ ~ (last_video_seq > worker[w].seq)
      BY <1>7 DEF VideoAdmit, VideoOutdated
    <2>3. conn # "closed"
      BY <2>1, RunningIsLive DEF IInv
    <2>4. CASE last_video_seq' = last_video_seq
      BY <2>1, <2>4 DEF Videos!vars
    <2>5. CASE last_video_seq' = worker[w].seq /\ ~ (last_video_seq > worker[w].seq)
      <3>1. worker[w].seq \in Seqs /\ worker[w].seq >= last_video_seq
        BY <2>5 DEF TypeOK
      <3> QED
        BY <2>1, <2>3, <2>5, <3>1 DEF Videos!Take
    <2> QED
      BY <2>2, <2>4, <2>5
  <1>8. ASSUME NEW w \in Workers, VideoSend(w)
        PROVE  Videos!Reply
    <2>1. /\ worker[w].pc = "v_send" /\ conn' = conn /\ last_video_seq' = last_video_seq
          /\ video' = [seq |-> worker[w].seq, floor |-> vfloor]
          /\ vfloor' = Newer(worker[w].seq, vfloor)
      BY <1>8 DEF VideoSend
    <2>2. conn # "closed"
      BY <2>1, RunningIsLive DEF IInv
    <2>3. worker[w].seq = last_video_seq
      BY <2>1 DEF IInv, VideoInv, Admitted
    <2>4. last_video_seq # -1
      BY <2>3 DEF TypeOK
    <2>5. vfloor' = last_video_seq
      BY <2>1, <2>3 DEF Newer, IInv, VideoInv, TypeOK
    <2> QED
      BY <2>1, <2>2, <2>3, <2>4, <2>5 DEF Videos!Reply
  <1> QED
    BY SeenSteps, <1>1, <1>2, <1>3, <1>4, <1>5, <1>6, <1>7, <1>8 DEF Videos!Next

\* The video threads of a session act like a sequential server, too: video_mtx makes
\* the check of the number and the sending of the frame one step.
THEOREM VideosInSequenceHolds == Spec => VideosInSequence
  <1>1. Init => Videos!Init
    BY VideosInit
  <1>2. TypeOK /\ IInv /\ [Next]_vars => [Videos!Next]_(Videos!vars)
    BY VideosStep
  <1> QED
    BY <1>1, <1>2, Invariance, PTL DEF Spec, VideosInSequence, Videos!Spec

=============================================================================
