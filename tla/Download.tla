------------------------------ MODULE Download ------------------------------
(***************************************************************************)
(* Downloading a FITS file and compressing it as it arrives (from_url,     *)
(* write_data, scan_fits_header and scan_fits_data in src/src/fits.cpp),   *)
(* and the HTTP handlers of src/src/main_uWS.cpp that wait for the result. *)
(*                                                                         *)
(* libcurl cuts the stream into chunks as it likes and calls write_data    *)
(* for each.  A callback appends its chunk to a buffer and takes from it   *)
(* either one unit of the header or pixels up to the end of a plane, and   *)
(* the rest stays in the buffer for the next callback.  The bytes also go  *)
(* to a .tmp file, through a buffer of stdio, which a complete download    *)
(* turns into the .fits file.                                              *)
(*                                                                         *)
(* A run that stops in an orderly way leaves a .json.gz file and the       *)
(* compressed blocks behind, from which the next run restores what it can  *)
(* before it downloads anything (see Persistence for the steps of both).   *)
(*                                                                         *)
(* Bytes and pixels are counted, their values are left out.  The header    *)
(* has HeaderUnits units, the last of which has the END card, and the file *)
(* is padded to whole units, as the FITS standard demands.                 *)
(***************************************************************************)
EXTENDS Integers

CONSTANTS
    Word,           \* sizeof(int32_t), the bytes of a pixel as the code reads it
    Unit,           \* FITS_CHUNK_LENGTH
    WriteSize,      \* CURL_MAX_WRITE_SIZE
    Stdio,          \* the bytes that stdio collects before it writes to the file
    HeaderUnits,    \* the length of the header
    Cubes,          \* the data that may be at the URL, and what goes wrong with it
    HeaderRequests, \* HTTP handlers that wait for the header (get_molecules)
    DataRequests    \* HTTP threads that wait for the data (get_spectrum, get_fits)

Requests == HeaderRequests \cup DataRequests
NoFile == -1

\* Width times height, depth, and the bytes of a pixel as the file has them; float
\* says that BITPIX is -32.  There is one polarisation: with more the code counts
\* the pixels of all, but has planes for those of the first only.  faults says what
\* may happen to the server that downloads it: "memory" runs short, the "disk" is full.
Cube == [plane : Nat \ {0}, depth : Nat \ {0}, bytes : Nat \ {0}, float : BOOLEAN,
         faults : SUBSET {"memory", "disk"}]

ASSUME WordAssumption == Word \in Nat \ {0}
ASSUME UnitAssumption == Unit \in Nat /\ Word <= Unit
ASSUME WriteAssumption == WriteSize \in Nat /\ Unit <= WriteSize
ASSUME StdioAssumption == Stdio \in Nat \ {0}
ASSUME HeaderAssumption == HeaderUnits \in Nat \ {0}
ASSUME CubesAssumption ==
    /\ Cubes \subseteq Cube
    /\ \A c \in Cubes : c.float => c.bytes = Word
ASSUME RequestsAssumption == HeaderRequests \cap DataRequests = {}

VARIABLES
    cube,         \* what is at the URL
    phase,        \* how far from_url has got
    size,         \* bytes received
    buffer_size,  \* bytes in the buffer
    hdr_end,      \* the header is complete
    hdr_len,      \* bytes of the header
    running_size, \* pixels taken from the buffer
    bSuccess,
    fits_cube,    \* the frames held as raw planes
    compressed,   \* the blocks of four frames that were compressed in this run
    starved,      \* history: memory ran short while a block was compressed, or
                  \* there was no CURL handle
    file,         \* the lengths of the .tmp and .fits files
    unflushed,    \* bytes of the .tmp file that stdio has still to write
    saved,        \* what the .json.gz file says, if there is one, and the image
    cached,       \* the blocks that are in files
    flags,        \* the flags of the dataset that others see
    request       \* what each HTTP request waits for or was answered

download == <<size, buffer_size, hdr_end, hdr_len, running_size, bSuccess,
              fits_cube, compressed, starved>>
cache == <<saved, cached>>
vars == <<cube, phase, download, file, unflushed, cache, flags, request>>

Frames == 0 .. cube.depth - 1
Pixels == cube.plane * cube.depth
HeaderLength == HeaderUnits * Unit

\* The stream's length, and where its pixels end for a reader of Word bytes each.
StreamLength ==
    HeaderLength + ((Pixels * cube.bytes + Unit - 1) \div Unit) * Unit
DataEnd == HeaderLength + Pixels * Word

\* The buffer of FITSDownloadStruct.
Capacity == WriteSize + Unit

Phases == {"down", "created", "read", "opened", "transfer", "ended", "accepted",
           "judged", "done", "restored"}
Flags == [has_header : BOOLEAN, has_data : BOOLEAN, has_error : BOOLEAN,
          processed_header : BOOLEAN, processed_data : BOOLEAN]
Defaults == [has_header |-> FALSE, has_data |-> FALSE, has_error |-> FALSE,
             processed_header |-> FALSE, processed_data |-> FALSE]

\* json: the file exists; whole: its header is; image: so are the image files.
Saved == [json : BOOLEAN, whole : BOOLEAN, data : BOOLEAN, error : BOOLEAN, image : BOOLEAN]
NothingSaved ==
    [json |-> FALSE, whole |-> FALSE, data |-> FALSE, error |-> FALSE, image |-> FALSE]

TypeOK ==
    /\ cube \in Cubes
    /\ phase \in Phases
    /\ size \in Nat /\ buffer_size \in Nat /\ hdr_len \in Nat /\ running_size \in Nat
    /\ hdr_end \in BOOLEAN /\ bSuccess \in BOOLEAN /\ starved \in BOOLEAN
    /\ fits_cube \in SUBSET Nat
    /\ compressed \in SUBSET Nat
    /\ file \in [{"tmp", "fits"} -> Nat \cup {NoFile}]
    /\ unflushed \in Nat
    /\ saved \in Saved
    /\ cached \in SUBSET Nat
    /\ flags \in Flags
    /\ request \in [Requests -> {"idle", "waiting", "found", "missing"}]

Init ==
    /\ cube \in Cubes
    /\ phase = "down"
    /\ size = 0 /\ buffer_size = 0 /\ hdr_len = 0 /\ running_size = 0
    /\ hdr_end = FALSE /\ bSuccess = TRUE /\ starved = FALSE
    /\ fits_cube = {} /\ compressed = {}
    /\ flags = Defaults
    /\ request = [r \in Requests |-> "idle"]
    /\ file = [kind \in {"tmp", "fits"} |-> NoFile]
    /\ unflushed = 0
    /\ saved = NothingSaved
    /\ cached = {}

-----------------------------------------------------------------------------
(* Operators the specification does not use and that stand before the one   *)
(* they vary are faulty variants of it: with them the property they are     *)
(* meant for must fail.                                                     *)

\* execute_fits creates the dataset and starts the thread of from_url.
Create ==
    /\ phase = "down"
    /\ phase' = "created"
    /\ UNCHANGED <<cube, download, file, unflushed, cache, flags, request>>

\* The blocks of the cube; an image has none.
AllBlocks == IF cube.depth = 1 THEN {} ELSE {f \in Frames : f % 4 = 0}
Mapped == AllBlocks \subseteq cached

\* deserialise, with which from_url starts, finds nothing.
NothingToRestore ==
    /\ phase = "created"
    /\ ~ saved.json
    /\ phase' = "opened"
    /\ UNCHANGED <<cube, download, file, unflushed, cache, flags, request>>

\* It announces what the JSON file says.
ReadFields ==
    /\ phase = "created"
    /\ saved.json
    /\ phase' = "read"
    /\ flags' = [flags EXCEPT !.has_header = saved.whole, !.has_data = saved.data,
                             !.has_error = saved.error]
    /\ UNCHANGED <<cube, download, file, unflushed, cache, request>>

\* Data whose image is not stored in full is withdrawn.
Restore(everything) ==
    /\ phase = "read"
    /\ flags' = [flags EXCEPT !.has_data = flags.has_data /\ saved.image,
                             !.processed_header = TRUE, !.processed_data = everything]
    /\ UNCHANGED <<cube, download, file, unflushed, cache, request>>

\* Every block is mapped, or there is none as far as a header that broke off says:
\* from_url returns at once, whether or not there is data.
RestoreAll ==
    /\ Mapped \/ ~ saved.whole
    /\ Restore(TRUE)
    /\ phase' = "restored"

\* A block is missing: the data is downloaded although it may be announced already.
RestorePart ==
    /\ saved.whole /\ ~ Mapped
    /\ Restore(FALSE)
    /\ phase' = "opened"

Deserialise == NothingToRestore \/ ReadFields \/ RestoreAll \/ RestorePart

\* from_url locks both mutexes of the dataset, which it holds until it returns, and
\* opens the temporary file.  Without a CURL handle there is no transfer and no
\* verdict.
Begin ==
    /\ phase = "opened"
    /\ \/ /\ phase' = "transfer"
          /\ file' = [file EXCEPT !["tmp"] = 0]
          /\ UNCHANGED starved
       \/ /\ phase' = "judged"
          /\ starved' = TRUE
          /\ UNCHANGED file
    /\ UNCHANGED <<cube, size, buffer_size, hdr_end, hdr_len, running_size, bSuccess,
                   fits_cube, compressed, unflushed, cache, flags, request>>

LockedNever == FALSE
Locked == phase \in {"read", "transfer", "ended", "accepted", "judged"}

MemoryShort == "memory" \in cube.faults

DiskShort == "disk" \in cube.faults

\* How much stdio writes to the file once it holds that many bytes: all but the
\* last, incomplete buffer.
Flushed(bytes) == IF bytes <= Stdio THEN 0 ELSE bytes - (bytes % Stdio)

Flush(n) ==
    /\ file' = [file EXCEPT !["tmp"] = @ + Flushed(unflushed + n)]
    /\ unflushed' = unflushed + n - Flushed(unflushed + n)
    /\ UNCHANGED phase

\* A part of it is written, the rest of the buffer is lost.
FlushShort(n) ==
    /\ DiskShort
    /\ \E m \in 0 .. Flushed(unflushed + n) - 1 : file' = [file EXCEPT !["tmp"] = @ + m]
    /\ unflushed' = 0

\* write_data first appends the chunk to the file.  What it returns after a short
\* write makes libcurl give up the transfer.
WriteIgnored(n) == Flush(n) \/ (FlushShort(n) /\ phase' = phase)
Write(n) == Flush(n) \/ (FlushShort(n) /\ phase' = "ended")

-----------------------------------------------------------------------------
(* The header.                                                              *)

\* One unit at a time, when there is a whole one.
TakeUnitAlways(n) == Unit
TakeUnit(n) == IF buffer_size + n < Unit THEN 0 ELSE Unit

\* A data type other than 32-bit floats is reported, yet the transfer goes on.
HeaderFlagsOptimistic ==
    [flags EXCEPT !.has_header = TRUE, !.processed_header = TRUE,
                  !.has_data = cube.float, !.processed_data = ~ cube.float]
HeaderFlags ==
    [flags EXCEPT !.has_header = TRUE, !.processed_header = TRUE,
                  !.processed_data = flags.processed_data \/ ~ cube.float]

ReceiveHeader(n) ==
    /\ phase = "transfer" /\ ~ hdr_end
    /\ size + n <= StreamLength
    /\ size' = size + n
    /\ hdr_len' = hdr_len + TakeUnit(n)
    /\ buffer_size' = buffer_size + n - TakeUnit(n)
    /\ hdr_end' = (hdr_len' = HeaderLength)
    /\ flags' = IF hdr_end' THEN HeaderFlags ELSE flags
    /\ Write(n)
    /\ UNCHANGED <<cube, running_size, bSuccess, fits_cube, compressed, starved, cache, request>>

-----------------------------------------------------------------------------
(* The data.                                                                *)

Smaller(a, b) == IF a <= b THEN a ELSE b

\* Where the next pixel goes: its frame, and its place in the frame.
Frame == running_size \div cube.plane
Start == running_size % cube.plane

\* How many pixels a callback takes: of those that are there and are missing, for a
\* cube, not more than the current plane has left.
There(n) == Smaller((buffer_size + n) \div Word, Pixels - running_size)
WorkWholePlanes(n) ==
    IF cube.depth = 1 THEN There(n)
    ELSE IF There(n) < cube.plane - Start THEN 0 ELSE cube.plane - Start
Work(n) == IF cube.depth = 1 THEN There(n) ELSE Smaller(There(n), cube.plane - Start)

FrameEnds(n) == Start + Work(n) = cube.plane

\* The first frame of the block that is compressed after frame f, if any.
BlockAfterFourth(f) == IF f % 4 = 3 THEN {f - 3} ELSE {}
BlockAfter(f) ==
    IF f < 3 THEN {}
    ELSE IF (f - 3) % 4 = 0 THEN {f - 3}
    ELSE IF f = cube.depth - 1 THEN {f - (f % 4)}
    ELSE {}

BlockFrames(k) == {f \in Frames : k <= f /\ f < k + 4}

KeepRaw(raw) == fits_cube' = raw /\ UNCHANGED <<compressed, starved>>

\* zfp_compress_cube.  The compressed block replaces the raw planes.  A block that
\* lacks a frame stays raw.  So does one without memory for the planes; without
\* memory for the compressor's buffer the raw planes are dropped all the same.
Compress(k, raw) ==
    \/ /\ BlockFrames(k) \subseteq raw
       /\ compressed' = compressed \cup {k}
       /\ fits_cube' = raw \ BlockFrames(k)
       /\ UNCHANGED starved
    \/ /\ ~ BlockFrames(k) \subseteq raw
       /\ KeepRaw(raw)
    \/ /\ BlockFrames(k) \subseteq raw
       /\ MemoryShort
       /\ starved' = TRUE
       /\ fits_cube' \in {raw, raw \ BlockFrames(k)}
       /\ UNCHANGED compressed

\* The current frame gets a plane if it has none yet.
StorePlane(n) ==
    \E raw \in {fits_cube \cup {Frame}} \cup (IF MemoryShort THEN {fits_cube} ELSE {}) :
        /\ bSuccess' = (bSuccess /\ Frame \in raw)
        /\ IF FrameEnds(n) /\ BlockAfter(Frame) # {}
           THEN \E k \in BlockAfter(Frame) : Compress(k, raw)
           ELSE KeepRaw(raw)

ReceiveData(n) ==
    /\ phase = "transfer" /\ hdr_end
    /\ running_size < Pixels
    /\ size + n <= StreamLength
    /\ size' = size + n
    /\ running_size' = running_size + Work(n)
    /\ buffer_size' = buffer_size + n - Work(n) * Word
    /\ IF cube.depth = 1
       THEN UNCHANGED <<bSuccess, fits_cube, compressed, starved>>
       ELSE StorePlane(n)
    /\ Write(n)
    /\ UNCHANGED <<cube, hdr_end, hdr_len, cache, flags, request>>

\* Whatever follows the last pixel is skipped.
ReceivePadding(n) ==
    /\ phase = "transfer" /\ hdr_end
    /\ running_size >= Pixels
    /\ size + n <= StreamLength
    /\ size' = size + n
    /\ Write(n)
    /\ UNCHANGED <<cube, buffer_size, hdr_end, hdr_len, running_size, bSuccess,
                   fits_cube, compressed, starved, cache, flags, request>>

Receive(n) == ReceiveHeader(n) \/ ReceiveData(n) \/ ReceivePadding(n)

-----------------------------------------------------------------------------
(* The end.                                                                 *)

\* The whole stream has arrived, or the connection broke.
TransferEnds ==
    /\ phase = "transfer"
    /\ phase' = "ended"
    /\ UNCHANGED <<cube, download, file, unflushed, cache, flags, request>>

AcceptedWhatArrived == bSuccess /\ running_size # 0
Accepted ==
    /\ bSuccess
    /\ running_size # 0
    /\ hdr_end => running_size = Pixels

\* The file is closed, which writes what stdio still has; nobody looks whether it
\* could.  The verdict comes after that: an incomplete file is removed.
Accept ==
    /\ phase = "ended"
    /\ Accepted
    /\ \E m \in (IF DiskShort THEN 0 .. unflushed ELSE {unflushed}) :
        file' = [file EXCEPT !["tmp"] = @ + m]
    /\ unflushed' = 0
    /\ phase' = "accepted"
    /\ flags' = [flags EXCEPT !.has_data = TRUE]
    /\ UNCHANGED <<cube, download, cache, request>>

Reject ==
    /\ phase = "ended"
    /\ ~ Accepted
    /\ file' = [file EXCEPT !["tmp"] = NoFile]
    /\ unflushed' = 0
    /\ phase' = "judged"
    /\ flags' = [flags EXCEPT !.has_data = FALSE, !.has_error = TRUE]
    /\ UNCHANGED <<cube, download, cache, request>>

Judge == Accept \/ Reject

\* A complete file takes its final name.
Rename ==
    /\ phase = "accepted"
    /\ phase' = "judged"
    /\ file' = [tmp |-> NoFile, fits |-> file["tmp"]]
    /\ UNCHANGED <<cube, download, unflushed, cache, flags, request>>

\* The data is announced and the mutexes are released.
AnnounceForgotten == IF flags.has_data THEN [flags EXCEPT !.processed_data = TRUE] ELSE flags
Announce == [flags EXCEPT !.processed_data = TRUE]

Return ==
    /\ phase = "judged"
    /\ phase' = "done"
    /\ flags' = Announce
    /\ UNCHANGED <<cube, download, file, unflushed, cache, request>>

\* The process is gone, and with it its memory and what stdio had not written.
Vanish ==
    /\ phase' = "down"
    /\ size' = 0 /\ buffer_size' = 0 /\ hdr_len' = 0 /\ running_size' = 0
    /\ hdr_end' = FALSE /\ bSuccess' = TRUE /\ starved' = FALSE
    /\ fits_cube' = {} /\ compressed' = {}
    /\ unflushed' = 0
    /\ flags' = Defaults
    /\ request' = [r \in Requests |-> "idle"]

\* The server dies.
Crash ==
    /\ phase # "down"
    /\ Vanish
    /\ UNCHANGED <<cube, file, cache>>

\* A download that failed has removed the directories of the blocks, if they were
\* empty, so that those it had compressed cannot be saved.
Savable == IF flags.has_data \/ cached # {} THEN compressed ELSE {}

\* The image of this run is saved unless there is a whole one.
SavedImage ==
    IF saved.image \/ ~ hdr_end THEN {saved.image}
    ELSE {TRUE} \cup (IF DiskShort THEN {FALSE} ELSE {})

\* The server stops in order, nobody using the dataset: its destructor saves the
\* blocks, the image and, unless there is one, the JSON file, which takes a header.
Stop ==
    /\ phase \in {"done", "restored"}
    /\ \E kept \in (IF DiskShort THEN SUBSET Savable ELSE {Savable}) : cached' = cached \cup kept
    /\ \E image \in SavedImage :
        saved' = IF saved.json \/ hdr_len = 0 THEN [saved EXCEPT !.image = image]
                 ELSE [json |-> TRUE, whole |-> hdr_end, data |-> flags.has_data,
                       error |-> flags.has_error, image |-> image]
    /\ Vanish
    /\ UNCHANGED <<cube, file>>

-----------------------------------------------------------------------------
(* HTTP requests.                                                           *)

\* A dataset that has failed already is not waited for.
Ask(r) ==
    /\ phase # "down"
    /\ request[r] # "waiting"
    /\ request' = [request EXCEPT ![r] = IF flags.has_error THEN "missing" ELSE "waiting"]
    /\ UNCHANGED <<cube, phase, download, file, unflushed, cache, flags>>

\* The wait is over once its flag is set and its mutex, which from_url holds all the
\* time, is free.
Processed(r) ==
    IF r \in HeaderRequests THEN flags.processed_header ELSE flags.processed_data
Has(r) == IF r \in HeaderRequests THEN flags.has_header ELSE flags.has_data

Answer(r) ==
    /\ request[r] = "waiting"
    /\ ~ Locked
    /\ Processed(r)
    /\ request' = [request EXCEPT ![r] = IF Has(r) THEN "found" ELSE "missing"]
    /\ UNCHANGED <<cube, phase, download, file, unflushed, cache, flags>>

-----------------------------------------------------------------------------
Next ==
    \/ Create \/ Deserialise \/ Begin \/ TransferEnds \/ Judge \/ Rename \/ Return
    \/ Crash \/ Stop
    \/ \E n \in 1 .. Unit : Receive(n)
    \/ \E r \in Requests : Ask(r) \/ Answer(r)

Spec == Init /\ [][Next]_vars

(***************************************************************************)
(* Fairness: the threads run.  A waiting handler gets its mutex because    *)
(* nobody holds it once from_url has returned.  Nothing makes the transfer *)
(* go on or end: the code sets no timeout.                                 *)
(***************************************************************************)
Fairness ==
    /\ WF_vars(Deserialise) /\ WF_vars(Begin)
    /\ WF_vars(Judge) /\ WF_vars(Rename) /\ WF_vars(Return)
    /\ \A r \in Requests : WF_vars(Answer(r))

FairSpec == Spec /\ Fairness

-----------------------------------------------------------------------------
(* Properties                                                               *)

\* The code has no check that keeps a plane from being smaller than a chunk; then a
\* callback can receive more than it may take.
PlanesHoldChunk == cube.depth = 1 \/ cube.plane * Word >= Unit

\* The buffer of FITSDownloadStruct has room for the largest chunk whenever one may
\* be appended: what earlier callbacks left over never piles up.
BufferFits ==
    PlanesHoldChunk /\ phase = "transfer" /\ (hdr_end => running_size < Pixels)
        => buffer_size + Unit <= Capacity

\* The JSON file of an earlier run announces data of which a block or the image is
\* missing: the run that was short of memory or disk committed all the same.
Stale == saved.data /\ ~ (Mapped /\ saved.image)

\* The verdict does not depend on how the stream was cut: a stream that arrived in
\* full is accepted however it was cut, unless a plane could not be allocated or its
\* pixels are too few; what is accepted has all its pixels.  Without a CURL handle
\* what was announced by an earlier run stands, right or wrong.
VerdictFitsStream ==
    phase \in {"judged", "done"} =>
        /\ flags.has_data => size >= DataEnd \/ (size = 0 /\ Stale)
        /\ /\ PlanesHoldChunk /\ bSuccess /\ ~ flags.has_data
           /\ cube.bytes >= Word
           => size < StreamLength

\* A .fits file is complete, whatever crashed or broke before it got its name.  It
\* may lack what stdio held, and the last callback's bytes, if the disk was full: a
\* chunk's pixels count although the chunk was not written, and fclose is not asked.
Lost == IF DiskShort THEN Stdio + Unit ELSE 0
FitsFileComplete == file["fits"] # NoFile => file["fits"] >= DataEnd - Lost

\* Accepted data is all there: each frame of a cube is either a raw plane or in a
\* compressed block, unless memory ran short during a compression, and the blocks of
\* a cube of four or more frames are all compressed.  (scan_fits_data tidies up the
\* odd frames at the end only of a cube that has at least four.)  Restored data is
\* all there, too: its blocks were compressed by earlier runs.
CubeKept ==
    /\ phase \in {"accepted", "judged", "done", "restored"}
    /\ flags.has_data /\ cube.depth > 1 /\ ~ starved
    =>
    /\ \A f \in Frames :
        \/ f \in fits_cube
        \/ f - (f % 4) \in IF phase = "restored" THEN cached ELSE compressed
    /\ cube.depth >= 4 => fits_cube = {}

\* An answer to a request for the data is the verdict, although the header of an
\* unsupported file, or an earlier run, announces the data before it has arrived.
\* After a failure that was saved, all later runs refuse some requests, whatever
\* their own verdict: nobody takes back the has_error that they restore.
AnswersAreFinal ==
    \A r \in DataRequests :
        /\ request[r] = "found" => phase \in {"done", "restored"} /\ flags.has_data
        /\ request[r] = "missing" =>
            \/ phase \in {"judged", "done", "restored"} /\ ~ flags.has_data
            \/ saved.error

\* What the others have seen in a flag, which they read without a lock, stands until
\* the server ends: no callback, verdict or return takes an announcement back.  Except
\* for data that the JSON file announces but that is not there: it is withdrawn, by
\* deserialise or by the verdict on the download that was to replace it.
FlagNames == {"has_header", "has_data", "has_error", "processed_header", "processed_data"}
AnnouncedStands ==
    [][phase' # "down" =>
        \A f \in FlagNames : flags[f] => flags'[f] \/ (f = "has_data" /\ Stale)]_vars

\* All of it, for the HTTP threads that wait for the data and for the next run, is a
\* service that decides once, has the complete file stored with the verdict, and
\* repeats its decision: the chunks, the early flags, what was restored and the
\* mutexes do not show, but for a failure that was saved.
Service == INSTANCE DownloadService WITH
    Requests <- DataRequests,
    up <- phase # "down",
    verdict <- IF phase \notin {"judged", "done", "restored"} THEN "none"
               ELSE IF flags.has_data THEN "data" ELSE "failed",
    stored <- file["fits"] # NoFile /\ file["fits"] >= DataEnd - Lost,
    blamed <- saved.error,
    answer <- [r \in DataRequests |-> request[r]]

ServesData == Service!Spec

\* If the connection always ends some time, a request for the data is answered, and
\* one for the header too unless the header never became complete.
TransfersEnd == []<>(phase # "transfer")
RequestsAnswered ==
    TransfersEnd =>
        \A r \in Requests :
            request[r] = "waiting" ~>
                \/ request[r] # "waiting"
                \/ r \in HeaderRequests /\ phase = "done" /\ ~ hdr_end

=============================================================================
