---------------------------- MODULE Persistence ----------------------------
(***************************************************************************)
(* The on-disk cache of one data cube and the life of the FITS object that *)
(* reads and writes it (deserialise, from_path, ~FITS and serialise in     *)
(* src/src/fits.cpp), across crashes and restarts of the server.           *)
(*                                                                         *)
(* A block of four frames is saved in a .zfp file and, abstracting its     *)
(* four .lz4 files to one, a .lz4 file.  Each holds one record per region, *)
(* appended by the destructor.  The 2D image goes to the .pixels and .mask *)
(* files.  The .json.gz file, written last and never overwritten, commits  *)
(* the whole; the next start restores the cube from it without reading the *)
(* FITS file.                                                              *)
(***************************************************************************)
EXTENDS Integers, FiniteSets

CONSTANTS
    NBlocks,    \* blocks of four frames in the cube
    Regions,    \* regions of a frame, one record of a file each
    Faults,     \* what may fail besides the reads of the FITS file: see AllFaults
    MaxTorn,    \* bound: files in which a crash leaves a part of a record
    NoJson      \* there is no .json.gz file

ASSUME NBlocksAssumption == NBlocks \in Nat \ {0}

\* A record is not written, because open() or write() fails, or only a part of it; so
\* is a plane of the image; there is no memory to compress a block.
AllFaults == {"no_write", "short_write", "short_image", "no_memory"}

\* The FITS header in memory: none, broken off before the dimensions of the cube
\* or after them, or whole.
Headers == {"none", "part", "cut", "whole"}

Blocks == 1 .. NBlocks
Kinds == {"zfp", "lz4"}
Json == [header : Headers, data : BOOLEAN, error : BOOLEAN]

ASSUME RegionsAssumption == Regions # {}
ASSUME MaxTornAssumption == MaxTorn \in Nat
ASSUME FaultsAssumption == Faults \subseteq AllFaults
ASSUME NoJsonAssumption == NoJson \notin Json

(***************************************************************************)
(* What reading a file back finds: the regions with the right data (good), *)
(* those with other data (bad), and what has left a short record in it, if *)
(* anything has (torn): a short write or the end of the process.  The      *)
(* reader loses its place there and finds nothing appended later; the      *)
(* region of the short record counts as bad, also where too little of it   *)
(* is left to find it.                                                     *)
(***************************************************************************)
Tears == {"no", "write", "crash"}
File == [good : SUBSET Regions, bad : SUBSET Regions, torn : Tears]
Empty == [good |-> {}, bad |-> {}, torn |-> "no"]
Complete == [good |-> Regions, bad |-> {}, torn |-> "no"]

VARIABLES
    disk,       \* kind -> block -> file
    image,      \* the .pixels and .mask files: see Images
    json,       \* the .json.gz file
    phase,      \* where the server is with this dataset
    todo,       \* blocks that deserialise or from_path has still to visit
    bSuccess,   \* nothing has gone wrong in the loop over the blocks so far
    blocks,     \* block -> where its compressed data is: see Sources
    unsaved,    \* kind -> block -> regions whose destructor has not run yet
    img,        \* img_pixels and img_mask in memory: "none", "mmap" or "ram"
    header,     \* the FITS header read or restored: see Headers
    flags,      \* has_header, has_data, has_error, processed_header, processed_data
    orphan      \* history: a run died after it had saved an image made of bad reads

memory == <<todo, bSuccess, blocks, unsaved, img, header, flags>>
vars == <<disk, image, json, phase, memory, orphan>>

\* Nothing, mapped from disk, or compressed in this run from good or from wrong
\* data.
Sources == {"none", "mmap", "good", "garbage"}

\* The 2D image is a file of pixels and a file for their mask.  Each is absent,
\* of the wrong size, or of the right size with good or wrong contents.
Planes == {"pixels", "mask"}
Images == {"none", "short", "good", "garbage"}
RightSize == {"good", "garbage"}

Closing == {"drop", "pixels", "mask", "serialise"}
Restoring == {"map_pixels", "map_mask", "announce", "map"}
Phases == {"down", "restore", "open", "read", "ready"} \cup Restoring \cup Closing
Flags == [has_header : BOOLEAN, has_data : BOOLEAN, has_error : BOOLEAN,
          processed_header : BOOLEAN, processed_data : BOOLEAN]

TypeOK ==
    /\ disk \in [Kinds -> [Blocks -> File]]
    /\ image \in [Planes -> Images]
    /\ json \in Json \cup {NoJson}
    /\ phase \in Phases
    /\ todo \in SUBSET Blocks
    /\ bSuccess \in BOOLEAN
    /\ blocks \in [Blocks -> Sources]
    /\ unsaved \in [Kinds -> [Blocks -> SUBSET Regions]]
    /\ img \in [Planes -> {"none", "mmap", "ram"}]
    /\ header \in Headers
    /\ flags \in Flags
    /\ orphan \in BOOLEAN

Defaults == [has_header |-> FALSE, has_data |-> FALSE, has_error |-> FALSE,
             processed_header |-> FALSE, processed_data |-> FALSE]
NothingUnsaved == [kind \in Kinds |-> [b \in Blocks |-> {}]]

NoBlocks == [b \in Blocks |-> "none"]
NoImage == [p \in Planes |-> "none"]

Init ==
    /\ disk = [kind \in Kinds |-> [b \in Blocks |-> Empty]]
    /\ image = NoImage
    /\ json = NoJson
    /\ phase = "down"
    /\ todo = {}
    /\ bSuccess = TRUE
    /\ blocks = NoBlocks
    /\ unsaved = NothingUnsaved
    /\ img = NoImage
    /\ header = "none"
    /\ flags = Defaults
    /\ orphan = FALSE

-----------------------------------------------------------------------------
(* Start-up: deserialise.  Operators the specification does not use and     *)
(* that stand before the one they vary are faulty variants of it: with them *)
(* the property they are meant for must fail.                               *)

\* The dataset is opened: from_path starts with deserialise.
Start ==
    /\ phase = "down"
    /\ phase' = "restore"
    /\ UNCHANGED <<disk, image, json, memory, orphan>>

NothingToRestore ==
    /\ phase = "restore"
    /\ json = NoJson
    /\ phase' = "open"
    /\ UNCHANGED <<disk, image, json, memory, orphan>>

\* The fields of the JSON file.
ReadJson ==
    /\ phase = "restore"
    /\ json # NoJson
    /\ header' = json.header
    /\ flags' = [flags EXCEPT !.has_header = json.header = "whole",
                              !.has_data = json.data,
                              !.has_error = json.error]
    /\ phase' = "map_pixels"
    /\ UNCHANGED <<disk, image, json, todo, bSuccess, blocks, unsaved, img, orphan>>

\* A plane of the image is mapped, or the data is taken back: there is no file of
\* the size that the dimensions call for, or there are no dimensions.
MapPlane(p) ==
    /\ phase = (IF p = "pixels" THEN "map_pixels" ELSE "map_mask")
    /\ \/ /\ image[p] \in RightSize /\ header # "part"
          /\ img' = [img EXCEPT ![p] = "mmap"]
          /\ UNCHANGED flags
       \/ /\ image[p] \notin RightSize \/ header = "part"
          /\ flags' = [flags EXCEPT !.has_data = FALSE]
          /\ UNCHANGED img
    /\ phase' = IF p = "pixels" THEN "map_mask" ELSE "announce"
    /\ UNCHANGED <<disk, image, json, todo, bSuccess, blocks, unsaved, header, orphan>>

\* The header is announced.  Without the dimensions the cube looks like a 2D image
\* and has no blocks to map.
HeaderRestored ==
    /\ phase = "announce"
    /\ flags' = [flags EXCEPT !.processed_header = TRUE]
    /\ todo' = IF header = "part" THEN {} ELSE Blocks
    /\ phase' = "map"
    /\ UNCHANGED <<disk, image, json, bSuccess, blocks, unsaved, img, header, orphan>>

\* zfp_mmap_cube fails for a block if a file of it is missing or empty.
Mappable(b) == \A kind \in Kinds : disk[kind][b] # Empty

MapBlock(b) ==
    /\ phase = "map"
    /\ b \in todo
    /\ todo' = todo \ {b}
    /\ \/ /\ Mappable(b)
          /\ blocks' = [blocks EXCEPT ![b] = "mmap"]
          /\ UNCHANGED bSuccess
       \/ /\ ~ Mappable(b)
          /\ bSuccess' = FALSE
          /\ UNCHANGED blocks
    /\ UNCHANGED <<disk, image, json, phase, unsaved, img, header, flags, orphan>>

\* The cube is announced, unless a block could not be mapped.
AnnouncedNever == flags
Announced == [flags EXCEPT !.processed_data = bSuccess]

MapEnd ==
    /\ phase = "map"
    /\ todo = {}
    /\ flags' = Announced
    /\ phase' = "open"
    /\ UNCHANGED <<disk, image, json, todo, bSuccess, blocks, unsaved, img, header, orphan>>

-----------------------------------------------------------------------------
(* Start-up: from_path.                                                     *)

\* Both waits, for the header and for the data, are over.
ProcessedHeaderOnly(fl) == [fl EXCEPT !.processed_header = TRUE]
Processed(fl) == [fl EXCEPT !.processed_header = TRUE, !.processed_data = TRUE]

\* The FITS file cannot be opened, is too small or cannot be mapped, or its
\* header breaks off (it is only read if it was not restored).
OpenFails ==
    /\ phase = "open"
    /\ flags' = Processed(flags)
    /\ header' \in (IF header = "none" THEN {"none", "part", "cut"} ELSE {header})
    /\ phase' = "ready"
    /\ UNCHANGED <<disk, image, json, todo, bSuccess, blocks, unsaved, img, orphan>>

\* Everything was restored; the FITS file only had to be opened.
AlreadyProcessed ==
    /\ phase = "open"
    /\ flags.processed_header /\ flags.processed_data
    /\ phase' = "ready"
    /\ UNCHANGED <<disk, image, json, memory, orphan>>

HeaderRead == IF header = "none" THEN "whole" ELSE header

\* The header is there; the data is not read: unsupported bitpix or impossible
\* dimensions.
Unsupported ==
    /\ phase = "open"
    /\ ~ (flags.processed_header /\ flags.processed_data)
    /\ header' = HeaderRead
    /\ flags' = [Processed(flags) EXCEPT !.has_header = TRUE]
    /\ phase' = "ready"
    /\ UNCHANGED <<disk, image, json, todo, bSuccess, blocks, unsaved, img, orphan>>

\* The header is there; the vectors of the cube are created afresh.
ReadHeader ==
    /\ phase = "open"
    /\ ~ (flags.processed_header /\ flags.processed_data)
    /\ header' = HeaderRead
    /\ flags' = [flags EXCEPT !.has_header = TRUE, !.processed_header = TRUE]
    /\ img' = [p \in Planes |-> IF img[p] = "none" THEN "ram" ELSE img[p]]
    /\ blocks' = NoBlocks
    /\ bSuccess' = TRUE
    /\ todo' = Blocks
    /\ phase' = "read"
    /\ UNCHANGED <<disk, image, json, unsaved, orphan>>

\* Four frames are read and compressed.  The data starts where the header ends,
\* so after a header that broke off the wrong bytes are read.
ReadBlock(b) ==
    /\ phase = "read"
    /\ b \in todo
    /\ todo' = todo \ {b}
    /\ \/ blocks' = [blocks EXCEPT ![b] = IF header = "whole" THEN "good" ELSE "garbage"]
       \/ "no_memory" \in Faults /\ UNCHANGED blocks
    /\ UNCHANGED <<disk, image, json, phase, bSuccess, unsaved, img, header, flags, orphan>>

\* A frame cannot be read.  If all buffers of the block had been allocated by
\* then, zfp_compress_cube compresses what is in them.
ReadBlockFails(b) ==
    /\ phase = "read"
    /\ b \in todo
    /\ todo' = todo \ {b}
    /\ bSuccess' = FALSE
    /\ blocks' \in {blocks, [blocks EXCEPT ![b] = "garbage"]}
    /\ UNCHANGED <<disk, image, json, phase, unsaved, img, header, flags, orphan>>

\* The outcome: an error unless every block was read.
OutcomeUnchecked == [flags EXCEPT !.has_data = TRUE, !.processed_data = TRUE]
Outcome == [flags EXCEPT !.has_error = flags.has_error \/ ~ bSuccess,
                         !.has_data = bSuccess,
                         !.processed_data = TRUE]

ReadEnd ==
    /\ phase = "read"
    /\ todo = {}
    /\ flags' = Outcome
    /\ phase' = "ready"
    /\ UNCHANGED <<disk, image, json, todo, bSuccess, blocks, unsaved, img, header, orphan>>

-----------------------------------------------------------------------------
(* Shutdown: the signal handler clears DATASETS, which runs ~FITS.          *)

\* Only the blocks compressed in this run append themselves to their files.
AppendsItself(b) == blocks[b] \in {"good", "garbage"}

Destroy ==
    /\ phase = "ready"
    /\ unsaved' = [kind \in Kinds |->
                      [b \in Blocks |-> IF AppendsItself(b) THEN Regions ELSE {}]]
    /\ phase' = "drop"
    /\ UNCHANGED <<disk, image, json, todo, bSuccess, blocks, img, header, flags, orphan>>

\* A whole record goes in; after a short one, out of the reader's reach.  Of two
\* records of a region the reader keeps the later one.
Appended(file, r, ok) ==
    IF file.torn # "no" THEN file
    ELSE IF ok THEN [file EXCEPT !.good = file.good \cup {r}, !.bad = file.bad \ {r}]
    ELSE [file EXCEPT !.good = file.good \ {r}, !.bad = file.bad \cup {r}]

\* A part of a record goes in: the region is found, if at all, with the wrong data.
AppendedShort(file, r, why) ==
    IF file.torn # "no" THEN file
    ELSE [good |-> file.good \ {r}, bad |-> file.bad \cup {r}, torn |-> why]

\* The pixels of all blocks are saved before the masks, in the order of blocks.
NextToSave(kind, b) ==
    /\ unsaved[kind][b] # {}
    /\ \A c \in Blocks : c < b => unsaved[kind][c] = {}
    /\ kind = "lz4" => \A c \in Blocks : unsaved["zfp"][c] = {}

Saved(kind, b, file) == [disk EXCEPT ![kind] = [disk[kind] EXCEPT ![b] = file]]

Append(kind, b, r) ==
    /\ phase = "drop"
    /\ NextToSave(kind, b)
    /\ r \in unsaved[kind][b]
    /\ unsaved' = [unsaved EXCEPT ![kind] = [unsaved[kind] EXCEPT ![b] = unsaved[kind][b] \ {r}]]
    /\ \/ disk' = Saved(kind, b, Appended(disk[kind][b], r, blocks[b] = "good"))
       \/ "no_write" \in Faults /\ UNCHANGED disk
       \/ /\ "short_write" \in Faults
          /\ disk' = Saved(kind, b, AppendedShort(disk[kind][b], r, "write"))
    /\ UNCHANGED <<image, json, phase, todo, bSuccess, blocks, img, header, flags, orphan>>

PixelsAppended == unsaved["zfp"] = NothingUnsaved["zfp"]
AllAppended == unsaved = NothingUnsaved

DropEnd ==
    /\ phase = "drop"
    /\ AllAppended
    /\ phase' = "pixels"
    /\ UNCHANGED <<disk, image, json, memory, orphan>>

\* The deleters of img_pixels and img_mask save a plane that was computed in this
\* run, unless a file of the right size is there already.
MustSave(p) == img[p] = "ram" /\ image[p] \notin RightSize

SaveImage(p) ==
    /\ phase = p
    /\ \/ /\ MustSave(p)
          /\ \E saved \in {IF flags.has_data /\ header = "whole" THEN "good" ELSE "garbage"} \cup
                          (IF "short_image" \in Faults THEN {"short"} ELSE {}) :
              image' = [image EXCEPT ![p] = saved]
       \/ ~ MustSave(p) /\ UNCHANGED image
    /\ phase' = IF p = "pixels" THEN "mask" ELSE "serialise"
    /\ UNCHANGED <<disk, json, memory, orphan>>

\* The process is gone, and with it all of its memory.
Vanish ==
    /\ phase' = "down"
    /\ todo' = {}
    /\ bSuccess' = TRUE
    /\ blocks' = NoBlocks
    /\ unsaved' = NothingUnsaved
    /\ img' = NoImage
    /\ header' = "none"
    /\ flags' = Defaults

\* The JSON file is written to a temporary file and renamed; one that exists is
\* left alone.
Serialise ==
    /\ phase = "serialise"
    /\ json # NoJson \/ header # "none"
    /\ json' = IF json = NoJson
               THEN [header |-> header, data |-> flags.has_data, error |-> flags.has_error]
               ELSE json
    /\ Vanish
    /\ UNCHANGED <<disk, image, orphan>>

Orphaned == orphan \/ (json = NoJson /\ \E p \in Planes : image'[p] = "garbage")

\* There is no header to save: json_mkstring(NULL) ends the process.
SerialiseCrashes ==
    /\ phase = "serialise"
    /\ json = NoJson /\ header = "none"
    /\ Vanish
    /\ UNCHANGED <<disk, image, json>>
    /\ orphan' = Orphaned

\* The process dies, perhaps in the middle of saving a record or a plane of the
\* image.
Torn == {file \in Kinds \X Blocks : disk[file[1]][file[2]].torn = "crash"}

TornRecord ==
    /\ phase = "drop"
    /\ Cardinality(Torn) < MaxTorn
    /\ \E kind \in Kinds, b \in Blocks : \E r \in unsaved[kind][b] :
        /\ NextToSave(kind, b)
        /\ disk' = Saved(kind, b, AppendedShort(disk[kind][b], r, "crash"))
    /\ UNCHANGED image

TornPlane ==
    /\ \E p \in Planes : /\ phase = p
                         /\ MustSave(p)
                         /\ image' = [image EXCEPT ![p] = "short"]
    /\ UNCHANGED disk

Crash ==
    /\ phase # "down"
    /\ TornRecord \/ TornPlane \/ UNCHANGED <<disk, image>>
    /\ Vanish
    /\ UNCHANGED json
    /\ orphan' = Orphaned

-----------------------------------------------------------------------------
Loader ==
    \/ NothingToRestore
    \/ ReadJson
    \/ \E p \in Planes : MapPlane(p)
    \/ HeaderRestored
    \/ \E b \in Blocks : MapBlock(b)
    \/ MapEnd
    \/ OpenFails
    \/ AlreadyProcessed
    \/ Unsupported
    \/ ReadHeader
    \/ \E b \in Blocks : ReadBlock(b)
    \/ \E b \in Blocks : ReadBlockFails(b)
    \/ ReadEnd

Destructor ==
    \/ \E kind \in Kinds, b \in Blocks, r \in Regions : Append(kind, b, r)
    \/ DropEnd
    \/ \E p \in Planes : SaveImage(p)
    \/ Serialise
    \/ SerialiseCrashes

Next == Start \/ Loader \/ Destroy \/ Destructor \/ Crash

Spec == Init /\ [][Next]_vars

\* The loader is a thread that runs; nothing makes the server stop or crash.
FairSpec == Spec /\ WF_vars(Loader)

-----------------------------------------------------------------------------
(* Properties                                                               *)

Committed == json # NoJson /\ json.data

\* The JSON file that serialise leaves behind commits the whole cache: when it
\* says has_data, every region of every block is in its .zfp and .lz4 files with
\* the right data, whatever crashes, failed reads and restarts came before.  A file
\* in which an earlier run died in the middle of a record is the exception: the next
\* run appends behind it.  The image is right too, unless an earlier run died with an
\* image of bad reads on disk: such a file has the right size and the deleters never
\* replace it.
Whole(kind, b) == disk[kind][b] = Complete \/ disk[kind][b].torn = "crash"
CommitIsComplete ==
    Committed =>
        /\ \A kind \in Kinds, b \in Blocks : Whole(kind, b)
        /\ \A p \in Planes : image[p] = "good" \/ orphan

\* Once the start-up is over, a dataset that from_path or deserialise declared to
\* have data has all of it: each block was compressed from good reads in this run
\* or is mapped from complete files, save those a crash has torn.  A restored header that broke off is the
\* exception: from_path then reads the data from the wrong offset.
AllThere ==
    \A b \in Blocks :
        \/ blocks[b] = "good"
        \/ blocks[b] = "mmap" /\ \A kind \in Kinds : Whole(kind, b)
ReadyIsComplete ==
    phase = "ready" /\ flags.has_data /\ header = "whole" => AllThere

\* A committed cache is never written again: no later run of deserialise,
\* from_path and ~FITS appends to its files, replaces its image or its JSON file.
CommittedFrozen == [][Committed => UNCHANGED <<disk, image, json>>]_vars

\* What the handlers have seen in a flag, which they read without a lock, stands until
\* the server ends: the data that deserialise announces before it has mapped a block
\* is not taken back when from_path reads the FITS file after all.
FlagNames == {"has_header", "has_data", "has_error", "processed_header", "processed_data"}
AnnouncedStands ==
    [][phase' # "down" => \A f \in FlagNames : flags[f] => flags'[f]]_vars

\* Over all runs, crashes and restarts the files are a store: what a run has committed
\* every later run has, all of it and right (save in files that a crash tore), without
\* the FITS file's data; and no run commits what it does not have.
Store == INSTANCE DatasetStore WITH
    up <- phase # "down",
    ready <- IF phase \notin {"ready"} \cup Closing THEN "none"
             ELSE IF flags.has_data /\ header = "whole" /\ AllThere THEN "data"
             ELSE "nothing",
    committed <- Committed

StoresData == Store!Spec

\* Whatever start-up finds on disk and in the FITS file, those who wait for
\* processed_header and processed_data are released, or the server is gone.
StartSettles ==
    phase = "restore" ~>
        \/ flags.processed_header /\ flags.processed_data
        \/ phase = "down"

-----------------------------------------------------------------------------
(* The inductive invariant behind the safety properties, in the absence of  *)
(* Faults.                                                                  *)

\* What has not been saved yet is only left in the loop over the blocks, and what
\* a good block has saved is in its files.
SavedInv ==
    /\ phase # "drop" => unsaved = NothingUnsaved
    /\ phase \in Closing =>
        \A kind \in Kinds, b \in Blocks :
            blocks[b] = "good" =>
                \/ disk[kind][b].torn = "crash"
                \/ /\ Regions \subseteq disk[kind][b].good \cup unsaved[kind][b]
                   /\ disk[kind][b].bad \subseteq unsaved[kind][b]
    /\ \A kind \in Kinds, b \in Blocks : disk[kind][b].torn # "write"

\* The loops over the blocks; data announced before the end of the start-up comes
\* from a commit.
LoadInv ==
    /\ phase = "read" /\ bSuccess /\ header = "whole" =>
        \A b \in Blocks \ todo : blocks[b] = "good"
    /\ phase \in Restoring \cup {"open"} /\ flags.has_data => Committed
    /\ phase \in {"down", "restore", "map_pixels", "map_mask", "announce"} => bSuccess

\* Before the first commit: nothing is restored, a run that has data has all of
\* it in memory, and a bad image is either this run's or an orphan.
FreshInv ==
    json = NoJson =>
        /\ phase \notin Restoring
        /\ phase \in {"down", "restore", "open"} =>
            header = "none" /\ ~ flags.has_data /\ img = NoImage
        /\ phase = "read" => header = "whole" /\ \A p \in Planes : img[p] = "ram"
        /\ phase \in {"ready"} \cup Closing /\ flags.has_data =>
            /\ header = "whole"
            /\ \A b \in Blocks : blocks[b] = "good"
            /\ \A p \in Planes : img[p] = "ram"
        /\ \A p \in Planes :
            image[p] = "garbage" => orphan \/ (~ flags.has_data /\ phase \in {"mask", "serialise"})
        /\ flags.has_data /\ phase \in {"mask", "serialise"} => image["pixels"] \in RightSize
        /\ flags.has_data /\ phase = "serialise" => image["mask"] \in RightSize

\* After a commit with data everything is mapped and nothing is left to save.
CommitInv ==
    Committed =>
        /\ \A kind \in Kinds, b \in Blocks : Whole(kind, b)
        /\ \A p \in Planes : image[p] \in RightSize /\ (image[p] = "good" \/ orphan)
        /\ unsaved = NothingUnsaved
        /\ \A b \in Blocks : blocks[b] \in {"none", "mmap"}
        /\ \A p \in Planes : img[p] # "ram"
        /\ phase # "read"
        /\ phase = "map" =>
            /\ bSuccess
            /\ flags.processed_header
            /\ header = "whole" => \A b \in Blocks \ todo : blocks[b] = "mmap"
        /\ phase = "open" => flags.processed_header /\ flags.processed_data
        /\ phase = "open" /\ header = "whole" => \A b \in Blocks : blocks[b] = "mmap"

IInv == SavedInv /\ LoadInv /\ FreshInv /\ CommitInv /\ ReadyIsComplete

=============================================================================
