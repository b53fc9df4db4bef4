# A TLA+ model of FITSWEBQLSE, the FITSWebQL server

The server (`src/src/`) opens FITS data cubes that may be far larger than memory,
compresses them in blocks of four frames, keeps the blocks on disk, and serves images,
spectra and video to browsers over HTTP and WebSockets. The modules in this directory
model the parts of it that are hard to test: a shared cache under a deliberately coarse
set of locks, an on-disk cache that has to survive crashes, a download that arrives in pieces,
datasets that are opened by several requests and saved at shutdown, and sessions whose answers
are computed by any number of threads.

Contents: [inventory](#1-the-system) · [modules and code](#2-modules) ·
[runs](#3-what-the-runs-show) · [fairness](#4-fairness) · [proofs](#5-proofs) ·
[disagreements between code and comments](#6-disagreements-found) ·
[limits](#7-what-is-not-modelled) · [what could follow](#8-what-could-follow)

## 1. The system

| Component | Code | State | Operations | What makes it correct |
|---|---|---|---|---|
| **Region cache** | `fits.cpp` `request_cached_region_ptr`, `purge_cache`; `zfp_compress_cube`, `zfp_mmap_cube` publish | `cube_pixels`, `cube_mask`, `cache[frame][idy][idx]` with timestamps, `cache_mtx[block]` | look up, decode a block and insert four frames, purge | an entry holds the data of the frame it is filed under; accesses to a `std::map` exclude each other; a request for published data returns data; unused entries go |
| **On-disk cache** | `deserialise`, `serialise`, `~FITS`, `zfp_mmap_cube`, `DropCompressed…`, `FITSDeleter` | `.zfp` and `.lz4` files, `.pixels`, `.mask`, `.json.gz` | append a block, save an image, commit, restore | a commit is complete and final, whatever crashed before it |
| **Loader** | `from_path`, `from_path_mmap` | header, image, compressed cube, five atomic flags | restore, read header, read blocks, announce | waiters are released; `has_data` means all data is there |
| **Downloader** | `from_url`, `scan_fits_header`, `scan_fits_data`, `write_data` | buffer of a chunk and a unit, header and data cursors, raw planes, `.tmp` file with its stdio buffer, `.fits` file | restore, one callback per chunk, verdict | the outcome does not depend on how the download is cut into chunks; the buffer suffices; no frame is lost; a short file never gets the final name |
| **WebSocket sessions** | `main_uWS.cpp` `.ws` handlers, `global.h` `UserSession` | sequence numbers, encoder, Kalman filters, active threads, `mtx`, `video_mtx` | numbered requests, resets, stream restarts, close | answers never go back in time; nothing works on a deleted session; close returns |
| **Progress registry** | `m_progress`, `open`/`close`, `send_progress_notification` | map from dataset to set of raw socket pointers | register, unregister, notify | live sockets are notified, dead ones are not touched and are forgotten |
| **Dataset registry** | `DATASETS`, `execute_fits`, `signalHandler` | map from id to `FITS`, shared pointers, purge threads | look up, insert, let go, shut down | one object per dataset; shutdown saves what nobody uses, and ends |
| **Spectrum, cube and video queries** | `get_spectrum`, `get_cube`, `get_video_frame` | — | data-parallel numeric loops over the region cache | numeric |
| **HTTP handlers** | routes in `main_uWS.cpp` | — | wait for the flags, format, stream | every wait ends |
| **Cluster beacon** | `zbeacon` in `main_uWS.cpp` | set of node addresses | ENTER, LEAVE | the set follows the live nodes |
| **Bounds and unit conversions** | `get_spectrum_range`, … | — | pure | numeric |
| **Kalman filter, classifier, contours, ISPC kernels** | `kalman.cpp`, `classifier.cpp`, `contours.cpp`, `webql.ispc` | — | floating-point arithmetic | numeric |
| **Third-party** | `json.c`, `par_msquares.cpp`, LZ4 | | | |

How they interact. `execute_fits` creates a `FITS` object, puts it into `DATASETS` and starts
a loader or downloader thread. It fills the compressed cube and announces `processed_header`,
`processed_data`, `has_header`, `has_data` and `has_error`. HTTP handlers wait for
these flags; WebSocket handlers test them and start a thread per request. The threads read the
compressed cube through the region cache. The loader reports progress to the sockets in
`m_progress`. When the server stops, the destructor of each `FITS` appends the compressed
blocks to the cache files and commits them with the JSON file. The cache's purge thread runs as long as the object
does.

The hard behaviours, all listed with their lines under `hazards` in `PROJECT.json`:

* **Interleaving**: fillers, readers and the purger on one cache; workers, resets and the event
  loop on one session; registration, removal and notification on one set of sockets.
* **Ordering**: spectrum and video threads finish in any order; the detached threads of
  `open` and `close` run in any order.
* **Crashes and partial failures**: between two appends of a long shutdown, between the files
  and the JSON file that commits them, in the middle of one record, while an image is saved. Writes that fail without anybody looking.
* **Boundaries**: a cube whose depth is not a multiple of four, a request for a frame that is
  not at the start of its block, a header unit or a pixel split between two chunks, a plane smaller
  than a chunk.
* **Lifetime**: two requests for the same new dataset; a shutdown while loaders, requests and purge
  threads are at work; a new socket at the address of one whose removal is still to come.
* **Waiting**: the event loop joins threads that queue on a mutex which it takes itself;
  exclusive locks compete with readers; HTTP handlers wait for flags that only the loader sets; the
  destructor joins a thread whose wake-up call can be lost.

## 2. Modules

Each component has one module, a module of proofs and, if the instance needs more than a
`.cfg`, an `MC…` module. The definitions keep the names of the code; `PROJECT.json` maps each one
to its lines. Operators that the specification does not use, standing before the one they
vary (`MaskAtBlock`, `WantedAlways`, …), are plausible faults: with them in place of the original
a property fails. They document what each property detects.

### RegionCache

One action for every section between two lock operations. `LockShared`, `Lookup` and `Refresh` are the
hit (the timestamp is written after the shared lock is released). `Decode` and `DecodeFails` are the miss,
done without a lock, and `LockExclusive`, `Insert` and `InsertSkipped` are the loop that inserts up to four
frames under one lock. `PurgeWake`, `PurgeLock` and `PurgeErase` go over the cube frame by frame, and
`PublishPixels` and `PublishMask` are the loader's half. Pixels are represented by two labels: the frame whose pixels
were decoded (`pix`) and the frame whose NaN mask and value range were applied (`mask`). This
is exactly what separates right from wrong data here, so ZFP, LZ4 and half-floats need no model.
Time is the age of an entry in ticks, cut off just after `CACHE_TIMEOUT`, since the code asks only whether
the age exceeds it. A lock is implied by the program counter of its holder. A thread keeps
the entry it found alive by a `shared_ptr`, so its data stays valid after a purge: `entry` is the copy,
and `attached` says whether the cache still has the same object.

### Persistence

A dataset's life over any number of runs of the server. `Start`, the actions of deserialise, the loops over the
blocks (`map` while mapping, `read` while compressing) and `Destroy` lead through the phases

    down → restore → map_pixels → map_mask → announce → map → open → read → ready → drop → pixels → mask → serialise → down

`ReadJson` sets the flags as the JSON file says, `MapPlane` withdraws `has_data` where a plane of the image is not of the right size,
`HeaderRestored` announces the header: three steps, since the flags are atomics that handlers read at any time. `restore` leads
to `open` directly if there is no JSON file, `open` to `ready` if everything was restored or the FITS file cannot be used. A file is represented by what reading
it back finds: regions with right data, with wrong data, and whether a torn record makes the reader lose its place. A block
whose file is missing or empty (`Empty`) cannot be mapped.

`Crash` is possible in every phase and loses the memory. It may tear the record that is being appended (`TornRecord`)
or the plane that is being saved (`TornPlane`). `Faults` says what else may fail: `no_write` (`open()` or `write()`
fails and nothing is stored), `short_write` (a part of a record), `short_image` (a part of a plane), `no_memory` (a block is not compressed).
None of the first three is noticed by more than a message. Failed reads, unreadable files and crashes can always happen. `torn` also records
which of the two tore the file, a short write or a crash, because `CommitIsComplete` excepts the second only (section 6). A
header is none, broken off before (`part`) or after (`cut`) the dimensions, or whole: the code restores a broken header and
takes its length for the data offset, so the difference matters.

### Session

The handlers of one connection and its threads. The event loop's actions are whole handlers; a thread is a
program counter and the number of its request. A section under `UserSession::mtx` is one step; `video_mtx` is held
over several and is a variable. Sending is not atomic with the check that precedes it: the session may close in between, and a
frame is sent NAL unit by NAL unit. `floor` and `vfloor` are history: what has been reset to or
answered, against which the next answer is compared. `dangling` is history, too: threads that use Kalman
filters destroyed since they took the pointers. `SpectrumCreate` tests again whether the filters are there, as the code does, since
another thread or a reset may have come between.

### Progress

`open` and `close` each start a detached thread (`Register`, `Unregister`), which nothing orders. The set holds raw
`TWebSocket*`, so what is registered is an address (`ws`), not a connection. uWS frees a socket after its close handler, and a later
connection may get the address while the threads of the earlier one have still to run: `Open` needs only that no
live connection of the dataset has it. `Unregister` then removes what the new connection has registered. `reused` records the connections to which this can
happen, `late` those registered after their own removal. A loader
copies the set under the shared lock (`Notify`, `Find`) and holds the lock while it visits the sockets.
`entry` is the node of the `unordered_map`: the last socket to go takes it away, and a loader that finds none
inserts one (`InsertEntry`) although it holds the lock only shared. `Delete` stands for the end of
Session's close handler (the join there is `Session!Joined`) and the freeing of the socket; the two modules meet in the order
closing → closed, which each has.

### Download

`from_url` with the callback that libcurl calls for each piece of the stream, however it cuts the stream: `Receive(n)`
for every `n` up to a unit. Bytes and pixels are counted; their values play no part. `from_url` starts with `deserialise`:
`ReadFields` announces what an earlier run's JSON file says, then `RestoreAll` finds every block, and nothing is downloaded, or `RestorePart`
does not, and the download begins with `has_header`, `processed_header` and perhaps `has_data` set. (What deserialise does
step by step is Persistence's subject; here it is two steps, the second one withdrawing the data whose image is incomplete.)

`ReceiveHeader` takes one unit from the buffer if there is one, `ReceiveData` the pixels up to the end of the current plane, and the
rest stays in the buffer. `StorePlane` keeps the plane, and `Compress` is `zfp_compress_cube`, called after every fourth frame and
after the last (`BlockAfter`). `Write` is the `fwrite` of each callback: stdio collects `Stdio` bytes (`unflushed`) before it writes them
(`Flush`), and only a write in that very callback can fail it (`FlushShort`). `Judge` closes the file and gives the verdict: `Accept` first sets `has_data`, whether
or not the rest of the buffer could be written, and `Rename` follows as a step of its own; `Reject` removes the `.tmp` file. `Return` is the announcement. `Crash`
is possible at any moment. `Stop` is an orderly end, whose destructor saves what it can: blocks, image, and a JSON file unless there is
one. `Ask` and `Answer` are the HTTP handlers that wait on `processed_header` or `processed_data` under mutexes that `from_url` holds
from `Begin` to its end. What may go wrong is a property of the instance (`faults` of a cube): short memory, a full disk.

### Registry

`DATASETS`, the shared pointers that keep a `FITS` object alive (those of the map, of the loader's thread and
of the requests), and SIGINT. `Miss` and `Insert` are `execute_fits` with its two critical sections. Whoever lets go
of the last pointer (`Release`, `Loaded`, `DropEntry`) runs the destructor: `Terminate`, `Join` of the purge thread, `Save`. The
purge thread tests `terminate` and waits in two steps (`PurgeCheck`, `PurgeDone`), so it can miss the notification between
them; `PurgeTimeout` is its ten seconds. The main thread holds `fits_mutex` during `DATASETS.clear()`, so nobody else looks
anything up or inserts (`Served`) until the last destructor that it runs has returned.

The modules meet at interfaces. Registry's `Save` is what Persistence details from `Destroy` to `Serialise`; its
`Loaded` is the end of Persistence's or Download's loader. The flags of Download and Persistence are the same atomics, and
the blocks that Download compresses are what RegionCache reads once `PublishPixels` and `PublishMask` have put them there.

### RegionService

What `request_cached_region_ptr` promises: one step that returns nothing or the frame's own pixels under its own mask, with no
cache, locks or purge thread. After the first miss on an unaligned frame the promise is weaker (`Near`): the pixels or the mask
is right and the other at most three frames off. `RegionCache!ServesRegions` is the refinement: a call that runs is pending, its
result becomes visible when it returns, and every lock, insertion and purge is a stuttering step.

### AnswerStream

What a session promises about one kind of numbered requests: a sequential server that knows the newest request and answers no
other. Session implements it twice. `SpectraInSequence`: spectrum threads do without a lock between their check of `last_seq` and
the next one, but check it in the step that sends, and `[kalman_reset]` only raises the number (`Restarts` is `FALSE`).
`VideosInSequence`: `[init_video]` sets the number to whatever it likes, so the threads need `video_mtx` from the check to the last NAL unit.

### DatasetStore

What the on-disk cache promises over all runs: a start-up ends with the data or without, a run that has the data may leave a commit
behind, and from then on every start-up ends with the data. `Persistence!StoresData` is the refinement. "With the data" means
`has_data`, a whole header and every block right, save in files that a crash tore (`AllThere`), "committed" only that the JSON file says `has_data`: so the refinement says both that a commit is never a
lie and that it is always restored, which neither `CommitIsComplete` nor `ReadyIsComplete` does.

### DownloadService

What `from_url` promises the handlers that wait for the data, and the next run of the server: one decision per run, a complete file
that exists from a favourable decision on, and answers that repeat the decision, except that a failure which a run has saved (`blamed`) makes
later runs refuse requests whatever they decide. `Download!ServesData` is the refinement. The decision is `Rename`, `Reject` or `RestoreAll`,
or `Begin` where there is no CURL handle; every chunk, every flag that the header or the JSON file sets early and `Accept` are stuttering steps. "Complete" is
what `FitsFileComplete` says it is, up to `Lost`. Requests for the
header (`HeaderRequests`) are outside: they may be answered before the decision.

## 3. What the runs show

| Run | Instance | Shows |
|---|---|---|
| `cache_safe` | 6 frames (a block and half a block), 1 region, 2 threads, calls for frames 3 and 4, timeout 0 | `CacheShape`, `ExactUnlessUnaligned`, `RaceNeedsCrossing`, `NullOnlyAtTail`; `ServesRegions`: the cache implements RegionService |
| `cache_live` | 2 frames, calls for both | `RequestReturns`, `UnusedIsPurged` |
| `cache_exact` | 5 frames, calls for 3 and 4 | counterexample to `CacheExact` |
| `disk_crash` | 2 blocks, 2 regions, no `Faults`, one file torn by a crash | `CommitIsComplete`, `ReadyIsComplete`, `CommittedFrozen`, `AnnouncedStands`; `StoresData`: the cache implements DatasetStore |
| `disk_live` | 2 blocks, 1 region, all four `Faults`, no torn records | `StartSettles` |
| `disk_short_write` | 2 blocks, 2 regions, failed and short writes | counterexample to `CommitIsComplete` |
| `session_order` | 2 workers at a time, numbers 0 and 1, 2 frames | `SpectrumInOrder`, `VideoInOrder`, `ClosedIsQuiet`, `WorkersNeverStuck`; `SpectraInSequence`, `VideosInSequence`: both kinds of threads implement AnswerStream |
| `session_close` | 2 workers, one number, 2 frames | `CloseCompletes` |
| `session_filter` | 2 workers, numbers 0 and 1 | counterexample to `FilterInUseExists` |
| `progress` | 3 connections at 2 addresses, 2 loaders | `TouchesLive`, `OpenIsNotified`, `MapRaceNeedsNobody`, `ClosedIsForgotten` |
| `download` | 10 files, units of 4 bytes, pixels of 2, a stdio buffer of 4, a header of 2 units, chunks of 1 to 4 bytes, 2 requests, faults as below | `BufferFits`, `VerdictFitsStream`, `FitsFileComplete`, `CubeKept`, `AnswersAreFinal`, `RequestsAnswered`, `AnnouncedStands`; `ServesData`: the download implements DownloadService |
| `registry` | 2 datasets, 2 objects, 2 requests | `OneObject`, `ShutdownSaves`, `HeldIsAlive`, `DestroyedOnce`, `ShutdownCompletes` |

Why the bounds are enough.

* **Region cache.** Frames 3 and 4 of six are the two sides of a block boundary: a miss on 3 fills 3–5 across the boundary, a
  miss on 4 is aligned but runs out of frames, and 4 and 5 form a short last block. A request for an aligned frame
  and for an unaligned one meet in the same maps. Two threads and the purger are the three kinds of parties a map can
  have; a lock that excludes two excludes more. The proofs remove the bounds for the safety properties. With timeout 0 an entry expires
  at the first tick, so purges meet everything else. Liveness is checked on a smaller cube because the fairness formula has a
  conjunct per thread; the lock protocol does not depend on the depth.
* **On-disk cache.** Two blocks give "one saved, one not"; two regions give "one record written, one not" and one
  torn record before a good one. The runs are unbounded in the number of starts and crashes. `MaxTorn` bounds the files that crashes tear: one
  is enough to have a torn file beside whole ones, and files do not affect each other. `disk_live` has none, because what
  a start finds in a torn file plays no part in whether it ends. The proofs again hold for all sizes and every `MaxTorn`.
* **Session.** Two concurrent workers are enough to overtake each other. The slots are reused, so any number
  of requests is made in turn. Two numbers give older, equal and newer; `NoSeq` (-1) is the initial value.
* **Progress.** The third connection makes "the last one leaves" happen while others come and go; two loaders overlap in their
  shared locks, which is what can starve the writers. Three connections have two addresses, and every assignment of them is an initial state: all
  different is impossible, two of them share one while the third stands beside, or all follow each other at one. The
  proofs hold for any number of connections and addresses.
* **Download.** Every way of cutting the streams is covered, since a chunk has any length up to a unit, and the arithmetic of the
  code depends on the sizes only through whole units, pixels and planes. The files are images shorter and longer than a unit; cubes of
  three, four, five and six frames (no block, one full block, a last block of one and of two); planes equal to and larger than a chunk, and, outside
  the hypothesis of `BufferFits`, smaller; and data of other types whose stream is too short, as long, or too long. The stdio buffer of
  four bytes holds the pieces of several callbacks, so that a full disk loses bytes of earlier ones. Each cube has the faults that its shape makes interesting:
  the images and the smallest cube have both, the others short memory or a full disk, the other data types neither. Stopping and
  starting again goes on for ever, each run with what the runs before have saved. The proofs remove all these bounds.
* **Registry.** Two requests can miss the same dataset together; one object can be orphaned or opened again while another is saved. A second
  dataset keeps the main thread busy while the first is opened again. `Objs` bounds the objects of a run. The proofs remove the bounds for the invariants.

The symmetry sets contain only constants that no property or fairness condition tells apart; the runs of
temporal properties under fairness use none. `MaxSeq`, `MaxTorn`, the upper end of `Ages` and the size of `Objs` are the only cut-offs. Deadlock is
checked in every run. `Session!Finished` and `Registry!Finished` let a connection that is gone and a process that has ended stay so.

## 4. Fairness

* **Threads run**: weak fairness of every step a thread can take alone. This is what an operating system provides.
* **A lock that is free again and again is granted**: strong fairness of `LockShared`, `LockExclusive`, `PurgeLock`.
  This is the usual assumption about mutexes. For `m_progress_mutex` less is enough: one of the threads that wait for
  it gets it (strong fairness of their disjunction); each connection has two such threads, so all have their turn.
* **Readers do not starve writers**: `std::shared_mutex` does not promise it. It is therefore not part of the specification but a hypothesis of the
  properties that need it: `LocksDrain` for `RequestReturns` and `UnusedIsPurged`, `LockDrains` for `ClosedIsForgotten`. Without it TLC shows
  overlapping readers keep a writer out for ever. `CloseCompletes` and `StartSettles` do not need it.
* **Images and frames have finitely many parts**: the last part of an answer is sent some time (strong fairness
  of the step that ends the thread's loop).
* **Transfers**: the code sets no timeout, so nothing makes a transfer go on or end. That it ends some time is the hypothesis
  `TransfersEnd` of `RequestsAnswered`; beside that only `Deserialise`, `Begin`, `Judge`, `Rename`, `Return` and `Answer` have to run.
* **Shutdown**: the signal handler, the destructors and the purge threads run. A purge thread that has missed its
  notification wakes up after its ten seconds (weak fairness of its steps, the timeout being one of them).
* **Nothing forces** a request, a message, a close, a shutdown, a crash or a failed allocation.

## 5. Proofs

Every invariant, every action property and every refinement that a passing run checks holds for every
value of the constants (on-disk cache: in the absence of `Faults`, like the run). TLAPS
checks the proofs in `RegionCacheProofs`, `PersistenceProofs`, `SessionProofs`, `ProgressProofs`, `DownloadProofs`, `RegistryProofs` and
`RegionServiceProofs`. Each follows the same
plan: a type invariant, an inductive invariant (`IInv` at the end of the component's module, or, for the last three, in parts in the
module of proofs), one lemma per action or
kind of action that it is preserved, and the theorems by temporal logic. Why the properties are not inductive on their own:

* **RegionCache.** That a filler files the right frame depends on its loop counter never running past the cube and on
  its block being aligned unless `unaligned` is set (`FillerInv`). That a hit returns the right data depends on what it holds
  (`HolderInv`, `AttachedInv`), a race being impossible within a block on the mutual exclusion of the locks (`LockInv`), and
  `NullOnlyAtTail` on the published data staying published (`ReadyInv`).
* **Persistence.** A commit is complete because of what the run before it had in memory (`FreshInv`: everything good and
  compressed in this run), what the deleters have saved so far (`SavedInv`), and what the start-up's loops have already visited (`LoadInv`).
  That it implements DatasetStore (`CacheStoresData`) needs that a start after a commit has the
  data before it looks at the FITS file (`RestoredInv`) and that the destructor leaves the files of mapped blocks alone (`QueuedInv`). No flag is taken back
  (`AnnouncedStands`) because what was restored is never read from the FITS file, and what is read was not announced (`AnnouncedInv`). All but the type
  invariant assume `Faults = {}`, and none can do without: after a failed write a committed block may have no file or an
  empty one. The next start then cannot map it, reads the FITS file, appends to the committed files and withdraws `has_data` if the read
  fails. After a short write `CommitIsComplete` is false (section 6), after a short image `MapPlane` withdraws what
  `ReadJson` has announced, and without memory a block is missing. Crashes, also in the middle of a record, failed reads and broken headers are covered.
* **Session.** `last_seq` never falls behind what was reset to or answered (`SpectrumInv`). For video, exactly the holder of `video_mtx` is past the
  lock and its number is `last_video_seq` from its admission to its end (`VideoInv`): that is why `[init_video]` can set the number back without disturbing the
  frame being sent. It waits for the mutex, and `Joined` implies that the mutex is free. From the same invariant follow `WorkersNeverStuck` and the two
  refinements of AnswerStream. Their steps are sorted by what the servers see of them (`SeenSteps`): most steps are not seen, and an answer
  is a reply to the newest request because of `Wanted` for spectra and of `VideoInv` for frames.
* **Progress.** A loader's copy is a subset of the set as long as it holds the lock (`CopyInv`). A registered address is that of a
  connection whose removal has not happened since (`HeldInv`), and no removal of an open connection's address is pending unless one was when it opened (`AddressInv`, with
  `EraserInv`): that is why `OpenIsNotified` needs no other exception than `reused`. A loader inserts the dataset's entry only while no socket is registered, because
  nobody can register while it holds the lock (`EntryInv`).
* **Download.** Everything rests on the balance of bytes (`StreamInv`): as long as pixels are missing, what was received is the header, what was
  taken and what is in the buffer. Less than a unit stays in the buffer, and less than a pixel while a plane is in progress (`BufferInv`). From
  these follow the room in the buffer and that a stream of full length has all its pixels. `CubeInv` says of every frame before the current one that it is a
  raw plane of the current block or in a compressed one. What a full disk can lose is bounded by the buffer of stdio and one chunk, because a
  write that fails in a callback ends the transfer and only the last flush, in `fclose`, goes unnoticed (`FileInv`). What the flags say before a verdict
  comes from the JSON file, and differs from what is on disk only if an earlier run saved less than it announced (`FlagsInv`, `Stale`). For the refinement of DownloadService the verdict stays as it is
  (`JudgedInv`), and a file that was stored is kept or replaced by a complete one (`ServiceStep`). The arithmetic of frames and blocks (`DivMod`, `Place`, `WorkTaken`, `NextPlace`) comes first.
* **Registry.** While the server runs DATASETS keeps what it has, so an object that is not there came second, and
  the request that made it looked the dataset up together with another (`RegisteredWhileRunning`). For the shutdown, an object is in
  DATASETS, or the main thread is running its destructor, or it is one of those excepted (`TrackedInv`); that an object with a registered pointer
  or a user is not being destroyed is `HeldInv`, from which `HeldIsAlive` follows. That one thread runs each destructor (`DestroyedOnce`) needs `OnceInv`:
  destructors that run are those of different objects, and by `HeldInv` an object that somebody can still let go of has not begun one.
* **RegionService.** The refinement: initial states map to initial states, and each step of RegionCache maps to a step or a stutter of the
  service. What a thread found or is about to return is near the frame it asked for (`AnswerInv`, by `CacheShape`), and right unless a miss
  was unaligned (RegionCache's `IInv`).

The assumptions are the named `ASSUME`s of the modules: sizes are naturals, null values are not data, a
unit holds a pixel and the largest write a unit, and files of 32-bit floats have pixels of that size.

Only model-checked: the liveness properties (`RequestReturns`, `UnusedIsPurged`, `StartSettles`, `CloseCompletes`,
`ClosedIsForgotten`, `RequestsAnswered`, `ShutdownCompletes`), which need fairness and `ENABLED`, beyond what the prover supports.

## 6. Disagreements found

Each but the second is a run that is expected to end in a counterexample, with the quotation in `PROJECT.json`.

1. **`cache_exact`** (`fits.cpp:4780`). The pixels of a decoded block are counted from the start of the block, but masks, ranges and the
   entries' frames from the frame asked for. A miss on a frame that is not a multiple of four files wrong pixels. The callers' comment says
   the start "needs to be a multiple of 4", but they skip the frames below it, and `get_video_frame` asks for any frame. What does hold is
   `ExactUnlessUnaligned`.
2. Such a miss also writes the maps of the next block under the lock of its own: `fits.cpp:4779`, "lock the cache for writing".
   `RaceNeedsCrossing`, an invariant of `cache_safe`, shows that this is the only way to get a race.
3. **`disk_short_write`** (`fits.cpp:6452`). A "finally an atomic append write" that fails or falls short is printed and then committed.
4. **`session_filter`** (`main_uWS.cpp:3198`). `[kalman_reset]`'s "unique access" does not keep the spectrum threads, which use the
   filters without the mutex, from using what it destroys.

Other weaknesses show up as exceptions or hypotheses written into properties:

* `orphan` in `CommitIsComplete`: an image of bad reads saved by a run that crashed is never replaced.
* `Whole` in `CommitIsComplete`, `ReadyIsComplete` and `StoresData`: a file in which a run died in the middle of a record is never replaced or
  cut. The next run appends behind the torn record, where the reader does not find it, and commits.
* `late` in Progress: a registration overtaken by its removal is never undone. `MapRaceNeedsNobody`: two loaders
  may insert into the map together while nobody is connected.
* `reused` in `OpenIsNotified` and `MapRaceNeedsNobody`: a connection that gets the address of a socket whose removal is still to come loses
  its registration to it, and with the registration goes the map's entry.
* `PlanesHoldChunk` in `BufferFits` and `VerdictFitsStream`: with planes smaller than a chunk of 2880 bytes (about 27 × 27 pixels)
  the buffer fills faster than it is emptied, and nothing checks its size.
* `RequestsAnswered`: a handler that waits for a header that never became complete waits for ever, in the event loop for
  `get_molecules`.
* `Lost` in `FitsFileComplete` and `ServesData`: on a full disk the `.fits` file may lack what stdio still held when `fclose`, whose result
  nobody looks at, wrote the rest, and a last chunk whose pixels were counted all the same.
* `Stale` in Download's `AnnouncedStands` and `VerdictFitsStream`: a JSON file announces data of which a block or the image was not saved. The flag is seen by
  requests before it is withdrawn, or stays set where there is no CURL handle.
* `saved.error` in `AnswersAreFinal`, `blamed` in `ServesData`: a restored `has_error` is never reset, so that requests are refused although
  a later download succeeded.
* `starved` in `CubeKept`: short memory in the compressor loses frames that are announced.
* `raced` and `reborn` in `OneObject`, `busy` and `orphan` in `ShutdownSaves`: two objects of a dataset write the same cache files, and
  what is in use at shutdown is not saved.

## 7. What is not modelled

* **In RegionCache**: the numeric content of pixels; more than two kinds of failure of the decoder. `get_spectrum`
  and the others are represented by their calls.
* **In Persistence**: the four `.lz4` files of a block are one file; failures of `gzopen` and of renaming; 2D images
  (`depth = 1`), whose data is always read from the FITS file; statistics and histograms; what the reader makes of the bytes behind a torn
  record, other than that it finds no region there; two `FITS` objects for the same id
  (Registry says when there are two). Requests that arrive between `has_data` and the vectors of the cube during a restore.
* **In Download**: the steps of deserialise and of the destructor one by one, and the files' contents (Persistence has them); crashes in
  the middle of the destructor; more than one polarisation (the code then waits for the pixels of all, but has planes for those of the first
  only); the 2D image, statistics and notifications; failures to allocate the header or the image or to open the `.tmp`
  file (null pointers are used then); chunks longer than the `CURLOPT_BUFFERSIZE` that was asked for.
* **In Registry**: what other threads do to `DATASETS` while its static destructor runs in `exit()`; the cluster's and the
  libraries' clean-up.
* **In Session**: the user's copy of the image, which spectrum threads read through raw pointers while image threads assign its shared
  pointers without a lock; the heartbeat and other messages that change no session state; a
  request without a number (the code's default is -1); the `streaming` flag, which `[end_video]` writes and nothing reads; the
  quality of answers that could not be computed (nondeterministic).
* **In Progress**: the other datasets of the map, whose loaders can insert, too, and whose connections can get the addresses of this one's sockets;
  what a damaged map does afterwards.
* **Components** without a module are listed in `PROJECT.json` with the reason: pure I/O and formatting, floating-point
  numerics, or third-party code.

Most of the repository is code that the server does not consist of: the vendored sources of FFmpeg, OpenEXR, mongoose, CRoaring and others, the
browser client, generated tables and older programs (`scratchpad.cpp`, the Rust and C predecessors). The server is
`fits.cpp`, `main_uWS.cpp` and their headers, about 14,000 lines, more than half of them numeric loops, JSON and HTML formatting; the modules
map the parts of it that have control state.

## 8. What could follow

1. **The user's image** in Session, down to the reference counts that unlocked `shared_ptr` assignments change.
2. **Restore and requests**: composing Persistence's start-up with workers that test `has_data` only, to say exactly which
   requests meet half-made vectors.
3. **Two objects of one dataset** (Registry's `raced`) on Persistence's files.
4. **Failed allocations** in Persistence: what a commit still guarantees then.
5. **Abstract specifications** of the two components that have none yet: the progress registry as a set of live sockets, the dataset
   registry as a map of objects that are saved when the last pointer goes.
