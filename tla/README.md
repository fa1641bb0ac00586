# XWEBQL: a TLA+ verification project

XWEBQL is a web viewer for X-ray event lists. A Julia server (`Julia/xwebql.jl`,
`Julia/xevent.jl`) loads FITS event files, keeps them in memory, and answers
browsers over HTTP and websockets with images, spectra and HEVC video; a
Fortran library bins events; the browser side is JavaScript with WebAssembly
decoders. This directory models the parts of it where steps of several actors
meet, checks them with TLC on small instances, and proves the main safety
properties of some of them with TLAPS for every instance.

## Inventory

| Component | State | Operations | Talks to | What is hard |
|---|---|---|---|---|
| Dataset registry (`xevent.jl`, `xwebql.jl` `streamXEvents`) | `XOBJECTS` under `XLOCK`; per dataset `has_events`, `has_error`, `last_accessed` | lookup, restore or create, insert, fetch, touch, purge, finalise | loader, collector, cache, tabs | the lock is held per dictionary operation: check-then-insert, find-then-fetch and check-then-remove are all two steps |
| Garbage collector (`garbage_collector`) | none of its own | a sweep every ten seconds | registry, finalisers, `main` | unlocked iteration, interrupts swallowed half way, its end is the server's signal to stop |
| Loading and progress (`load_events`, `get_progress`, `streamProgress`) | `total`, `progress`, `has_events`, `has_error` | download callback, open, reset, read; progress request | libcurl, browser and warmer polls | two atomic fields written and read one at a time |
| Dataset cache (`serialize_dataset`, restore in `streamXEvents`) | one `.jls` file per uri | check, write, remove on failure; restore | file system, finalisers | check-then-write, torn files after a crash |
| Server process (`main`, `exitFunc`, `stop_http_server`, `gracefullyShutdown`) | `running`, `gc_task`, `http_server` | start, `/exit`, interrupt, close, purge, exit | all of the above | who is still running while the registry is emptied |
| Websocket session (`ws_coroutine`) | outgoing queue, request queues, session dimensions | heartbeat, viewport, image, init/end/video | registry, encoder, client | bounded queues, tasks that outlive one another |
| Video encoder (in `ws_coroutine`) | x265 handles under `video_mtx` | init_video, end_video, frame workers, release | session | shared planes, stale dimensions, release without the lock |
| Image and spectrum pipeline (`getImageSpectrum`, `getViewportSpectrum`, `getVideoFrame`) | none | histogram, scale, mask, compress | Fortran binning | numeric edges |
| Bayesian binning (`Fortran/fbh.f90`) | weights and change points of a call, shared by its tasks | partition, divide, conquer, count | pipeline | tasks that share a weight, off-by-one |
| FITS table reader (`C/sxs.c`, `Zig/test_sxs.zig`) | none | column offsets, row decoding | a file | overflow, missing columns |
| Browser client (`htdocs/xwebql/xwebql.js`, workers) | page, video and spectrum state | polls, heartbeats, hover, video refresh | server | replies out of order, timers, reconnection |
| WebAssembly decoder (`WebAssembly/main.cc`, `hevc_decoder.c`) | frames, codec contexts | init, decode, destroy | client | frame life cycle |
| Cache warmer (`Julia/preload_xrism.jl`) | none | load, poll, wait | server | relies on the meaning of 100% |
| Catalogue tools, list page, Kalman filter | | | | not modelled (below) |

FFmpeg, zfp, bzip2, the sorting code in Julia and `zfp.jl` are third-party or
unused by the server.

For each component, correctness means:

* registry: what is under a key is alive, is the key's own dataset, and is not
  taken away from a tab that watches it; what nobody watches goes away;
* loading: a progress of 100% means that the file is there; progress never
  falls back; every poller comes to an end;
* cache: what is restored is what was written; a complete file is not lost;
* server: it stops when asked and only then, and empties the registry alone;
* session and encoder: the decoder gets whole frames in order; no encoder is
  used after it was closed or with planes of another size; the session ends;
  what the page shows at rest belongs together and is the newest;
* client: the server's encoder follows the hovers of the mouse across breaks of
  the connection; a hover shows frames of its own; the video comes to rest
  where the mouse does;
* binning: each section's blocks are the best ones and every event is counted
  once, in whatever order the tasks run.

## Modules

| Module | Models | Correspondence |
|---|---|---|
| `Registry` | `streamXEvents`, `streamImageSpectrum`, the heartbeat of `ws_coroutine`, `garbage_collector`, `load_events`' outcome, `serialize_dataset`'s effect | one action per critical section or request: `Request`/`Hit`/`Miss` are the parts of a page request between its uses of `XLOCK`; `Condemn`/`Purge` are the two halves of the collector's step; `Collect` is Julia's own collector running the finaliser of a displaced object; `Tick` is time |
| `DataStore` | what `Registry` promises: a cell per key that is filled, finished, emptied as a whole, and shown | abstract; `Registry` maps its object of a key to a cell (`Store`, `ImplementsStore`) |
| `MCRegistry` | | two tabs, a local and a remote file, keys `n1`, `n2`, symmetry in tabs and objects |
| `RegistryProofs` | | proofs about `Registry` |
| `LoadProgress` | `load_events` with `download_progress`, `streamProgress`/`get_progress`, `poll_progress` of the browser and of the warmer | each store and each load of `total` and `progress` is a step |
| `LoadProgressProofs` | | proofs about `LoadProgress` |
| `ServerMain` | `main`, `garbage_collector` as a task, `gracefullyShutdown`, `stop_http_server`, `exitFunc`, `finale` | the tasks' positions are `main`, `gc`, `http`, `busy`; a dataset moves from `registry` through `queue` (its serialisation is scheduled) to `finalised` |
| `ServerMainProofs` | | proofs about `ServerMain` |
| `CacheFile` | `serialize_dataset` and the restore of `streamXEvents`, on one file, block by block | a file is the set of its blocks; a removed file lives on while a task has it open |
| `MCCacheFile` | | symmetry in files and finalisers |
| `CacheFileProofs` | | proofs about `CacheFile` |
| `VideoSession` | `ws_coroutine`: receive loop, `sent_task`, the realtime and the video task with their queues, the frame workers, the tasks that answer viewport and image requests, `init_video`, `end_video`, the end of the coroutine; and the page's `spectrum_stack` and image | one step per queue operation, lock operation and handle operation; an answer is a number, and its parts are queued by a task of its own |
| `VideoSessionProofs` | | types, the encoder's life, the order of the NAL units |
| `SettledViewProofs` | | what the page shows at rest; extends `VideoSessionProofs` |
| `ClientVideo` | `x_axis_mouseenter`, `x_axis_mouseleave`, `x_axis_move`, `videoTimeout`, the page's websocket with its reconnection, `process_video`; `hevc_decoder.c`; the server's session as far as the page can see it | messages travel in order in `up` and `down`; a position on the axis is a band; a frame is one message |
| `ClientVideoProofs` | | proofs about `ClientVideo` |
| `BayesBlocks` | `fbh.f90`: `parallel_bayesian_binning`, `divide_bayesian_binning`, `conquer_bayesian_binning`, `count_between_edges`, `build_blocks` | a task is the status of its section; the tasks share `weights`; the loops of the dynamic programming and the counting are recursive functions that build a sequence element by element (`Built`) |
| `MCBayesBlocks` | | a sample of ten values, its counts and a table of logarithms |
| `BayesBlocksProofs` | | proofs about `BayesBlocks` |

The modules share no variables. `Registry` treats the loader as a stage, the
cache as a set of uris and the process as immortal; `LoadProgress`, `CacheFile`
and `ServerMain` open up these three. `VideoSession` sees the registry as the
outcome of a heartbeat (alive or gone). `ClientVideo` composes the page, the
connection, the decoder and a server session; it leaves to `VideoSession` what
happens inside a session (locks, queues at their limit, the end), and adds what
the client makes of it: a server that has answered but not yet opened its
encoder, and a session that starts anew with every connection.

`BayesBlocks` counts in halves, so that a halved weight and the midpoint of two
values are exact, and takes logarithms from a table: the rounding of the code's
floats is left out, and ties of the fitness may be broken either way.

Every module defines, directly before some of its actions, faulty variants of
them that no specification uses. `PROJECT.json` ("mutants") pairs each checked
property with a variant that breaks it, which shows that the property can fail.

## Runs

| Run | Module, cfg | Checks | Bounds and why they are enough |
|---|---|---|---|
| `registry` | `MCRegistry`, `MCRegistry.cfg` | `TypeOK`, `ServedIsLive`, `ServedOwnData`, `WatchedIsFresh`, `PurgeSparesWatched`, `ImplementsStore` | two tabs, so that one can displace or surprise the other; two objects, so that a displaced one and its successor coexist; a timeout of one tick, below and above which an age can be; 912 thousand states |
| `registry_live` | `MCRegistry`, `MCRegistryLive.cfg` | `PollSettles`, `UnwantedIsPurged` | one local file, which has both exceptions, the dead loader and the dataset without an image, without symmetry; a remote one would make it two million states; 158 thousand states |
| `loading` | `LoadProgress`, `MCLoadProgress.cfg` | `TypeOK`, `FullMeansFetched`, `OverflowOnlyAtReset`, `ProgressNeverFallsBack`, `PollersStop` | three chunks: nothing, part and all of a file, and two different parts; one poller of each kind |
| `progress_over_100` | `LoadProgressNoAnomaly.cfg` | `NoAnomaly`, violated | as above |
| `warmer_waits` | `LoadProgressWarmerWaits.cfg` | `WarmerWaits`, violated | as above |
| `server` | `ServerMain`, `MCServerMain.cfg` | `TypeOK`, `StopsOnlyWhenAsked`, `PurgesAlone`, `NothingLeftBehind`, `StopCompletes` | three datasets (removed by the collector, by `exitFunc`, and inserted late), two handlers; 238 thousand states |
| `timeout_zero` | `MCServerTimeoutZero.cfg` | `StopsOnlyWhenAsked`, violated | a timeout of 0 |
| `exit_serialises` | `MCServerExitSerialises.cfg` | `ExitSerialises`, violated | one dataset, one handler |
| `cache` | `MCCacheFile`, `MCCacheFile.cfg` | `TypeOK`, `RestoredIsWhole`, `TornByCrash`, `WholeIsKept`, `TornStays` | three blocks: a hole has data before and after it; two finalisers and one reader; three files, the most that can be open or named at once when another is created; 189 thousand states |
| `video` | `VideoSession`, `MCVideoSession.cfg` | `TypeOK`, `NalsInOrder`, `EncoderIsLive`, `SizesMatch`, `SessionReleasesEncoder`, `SettledView`, `SessionEnds` | four client messages reach every hazard: a second init_video over workers of the first, a full queue under a dead sender, a release under a worker, two answers under way at once; queues of two (32 in the code) and two units per frame; 576 thousand states |
| `client_video` | `ClientVideo`, `MCClientVideo.cfg` | `TypeOK`, `DecodesInOrder`, `ShowsOwnHover`, `InitMeetsNoEncoder`, `HoverIsServed`, `RestIsShown` | two positions; two moves, so that one can be skipped or repeated; three hovers and breaks in all: a hover, one that follows it at once, and a break between or inside them; 1.2 million states |
| `binning` | `MCBayesBlocks`, `MCBayesBlocks.cfg` | `TypeOK`, `BlocksAreBest`, `EveryEventCounted`, `WeightsAreStable` | ten values, divided three times into sections of two to four, so that tasks are nested and neighbours share points on either side; 128 choices of counts, with which a section has no, one or two blocks, and the first section may be one that cannot be cut; 65 thousand states |

Deadlock checking is off where the system stops: when every poller has stopped
(`loading`), after the exit of the process (`server`), after the end of a
session (`video`), when the user has no turns left (`client_video`).

### What the runs show

`registry`. Whatever the order of requests, loads, sweeps and finalisers, an
object in the registry is never one that has been finalised (`ServedIsLive`),
and a tab shows events of a file with its own key (`ServedOwnData`; two files
with the same name in different directories do share a key, so the property
says no more than the code gives). Heartbeats keep a watched object young even
if it was displaced meanwhile (`WatchedIsFresh`), so the collector can surprise
only a tab that arrived between its idle check and its removal
(`PurgeSparesWatched`); the model has behaviours in which it does. Seen from the
tabs, all this is `DataStore`: a displaced object, the finalisers and the locks
do not show (`ImplementsStore`).

`registry_live`. A tab that polls for its image gets it or is told 404, with two
exceptions, in which it polls for ever and its own heartbeats keep the dataset
(`Imageless`, which `PollSettles` names): the loader of a local file died
outside its try block, and every answer is 202; or the events are loaded but
`getImageSpectrum` or a compression throws on them (`xwebql.jl:1272`), every
answer is 500, and the page asks again. A file without events in the range of
energies is of the second kind, the stage `blank`. Whether a dataset is blank is
settled when it is loaded or restored: the width and height of the tab have no
part in it.

`loading`. 100% is never told before the file has arrived, but it is told
before the events are read; more than 100% can be told, only for a download and
only around the reset of the two fields.

`server`. With a timeout the server stops only when asked, and it does stop,
wherever an interrupt strikes the collector. When `exitFunc` empties the
registry the collector is gone and nothing arrives; a dataset can be left
behind only by a handler that outlived the forced close of its connection.
A single interrupt that reaches the collector inside its inner `try` is lost:
`StopCompletes` therefore starts from `running` being cleared, not from Ctrl-C.
After the forced close `main` waits for `close(server)` once more
(`xwebql.jl:2165`): that this returns is relied on from the HTTP library
(`CloseReturns`, which is fair); whether the handlers have ended by then is left
open.

`cache`. A crash is the only way to a torn file at rest, and such a file is
never mended: `isfile` protects it. Two finalisers that pass the check together
(two threads, or two servers that share a cache) can destroy a complete file
and let a reader see zeros; without such an overlap neither happens.

`video`. Holding the lock while queuing keeps frames whole and in order. A
broken connection ends the session except in two situations, which the model
reaches and `SessionEnds` names. In one, `Stuck`, the sender has ended, the
queue is full, and the receive loop, or the worker whose lock it waits for,
blocks in `put!`. In the other, `thrown`, the break shows in an error that is no
`WebSocketError`: `websocket_receive_guarded` rethrows it (`xwebql.jl:1317`), as
`websocket_send_guarded` does when a heartbeat is answered with `[close]`, and
it leaves `ws_coroutine` past the end of the session: the queues stay open, their
tasks wait for ever, and the encoder is never closed. A session that does end
has closed every encoder it opened, unless an init_video met one
(`SessionReleasesEncoder`). Only the end of the
session closes an encoder under a worker, and planes of a wrong size need an
init_video that arrives over an open encoder or over workers in flight. Once
all is quiet the page shows the newest spectrum of the pointer, and an image
with its own full spectrum. There are two exceptions, which the model reaches
and `SettledView` names: an image and its spectrum carry no number, so that two
answers under way at once can leave parts of either (`crossed`); and
`spectrum_stack` is looked at from its top once per animation frame, so that an
older spectrum that arrives after a newer one within a frame hides it (`buried`).

`client_video`. The page tells the server of the end of a hover only when it has
a frame, which it gets with the answer to `init_video`. So a hover that ends
before the answer leaves an encoder open, which the next `init_video` overwrites
(`early`, an exception of three of the properties); every other hover finds the
encoder closed, gets one of its own and shows frames of that one only, across
breaks of the connection. A page that reconnects inside a hover has no encoder
until the mouse enters again. A mouse that rests gets its last frame
(`RestIsShown`) if it had one when it moved last, and if no older computation
overtakes the last one: the workers share their planes, and nothing is asked for
again.

`binning`. Tasks that share a middle point see it halved on either side,
whatever the order in which they run; the merged blocks are the best of every
section, and each event is counted once by its full weight. Two exceptions are
named in `EveryEventCounted`. If the first section cannot be cut into blocks, its
left end is no edge, and the single pass of `count_between_edges` puts all events
into the last block; the run has such samples. If the whole sample is one section
that cannot be cut, there is one edge and no block, and `count_between_edges`
reads `edges(2)` and writes `counts(1)` past the ends of its arrays
(`fbh.f90:277`, `511-522`). That is undefined (`Overrun`): `BuildBlocks` lets the
program crash or go on with an empty histogram, and the property says that
nothing else leads there. The sample of the run is divided, so that it shows only
that a divided sample never does; for a small one this is proved.

### Disagreements with what the repository says

* `preload_xrism.jl:95` calls a progress over 100% something that should not
  happen; `load_events` (`xevent.jl:344`) makes it possible for a download. The
  warmer asks for local files, so it meets a download only when a `url=` page
  has registered one under the same name (`progress_over_100`).
* `preload_xrism.jl:84` waits "until a dataset has been loaded"; the progress is
  100% before the events are read (`warmer_waits`).
* `CentOS.md:33` says that 0 disables the timeout; it ends the server
  (`timeout_zero`).
* `xwebql.jl:694` says that a dataset is serialised when it is removed; at exit
  the process does not wait for that (`exit_serialises`).

## Fairness

Safety is checked on `Spec`, which has none. `FairSpec` adds:

* weak fairness of every task's own steps: Julia's scheduler runs every task
  that can run, and none of the modelled tasks computes without end;
* weak fairness of polls and heartbeats, which are timers in the browser, and
  none of what users do (asking for pages, leaving, sending messages);
* `Registry`: strong fairness of `Condemn` per key and of `Tick`: the collector
  looks at every entry every ten seconds, and time passes between the
  heartbeats that reset an age;
* `LoadProgress`: strong fairness of `DownloadEnds`, which callbacks interrupt;
* `VideoSession`: strong fairness of taking `video_mtx`, whose waiters queue.
  The tasks that answer owe nothing: no property waits for them;
* `ClientVideo`: weak fairness of the page (timers, arriving messages, animation
  frames) and of the server's session; the user and the network are free.

## Proofs

`TLAPS` proves, for every value of the constants:

* `RegistryProofs`: `TypeOK`, `ServedIsLive`, `ServedOwnData`, `WatchedIsFresh`
  and `PurgeSparesWatched`. The invariant adds to them that an object is under
  at most its own key, that what is in use has a uri, and that the tabs that
  watch a condemned key are all in `late` unless its entry is old.
  `ImplementsDataStore` shows that every step is a step of `DataStore` or leaves
  it alone, under the mapping of an object to its key's cell.
* `LoadProgressProofs`: `TypeOK`, `FullMeansFetched`, `OverflowOnlyAtReset`,
  `ProgressNeverFallsBack`. The invariant follows the two fields through the
  loader's life (`FieldsFollowLoader`) and bounds what a request that is under
  way has read (`NumIsPast`), which is what makes a late division harmless;
  `RequestsAreAhead` says that such a request will not answer less than the last
  answer its poller got.
* `ServerMainProofs`: `TypeOK`, `PurgesAlone`, `NothingLeftBehind`, and, for a
  timeout other than 0, `StopsOnlyWhenAsked`. `PlanCovers` says that the
  iteration of `exitFunc` still covers the registry as long as no handler has
  outlived a forced close; `GoesOn` that the collector goes on while nobody has
  asked the server to stop.
* `CacheFileProofs`: `TypeOK`, `RestoredIsWhole`, `TornByCrash`, `WholeIsKept`,
  `TornStays`. The key is `NameIsTended`: without a crash, a named file is whole
  or has a writer since whose opening nobody has truncated it. It survives
  overlapping writers, because the last one to open the file is such a writer.
* `VideoSessionProofs`: `TypeOK`, `EncoderIsLive`, `SizesMatch`,
  `SessionReleasesEncoder` (which says of every state, not of the end only, that no
  opened encoder but the current one is open), `NalsInOrder`. The invariant: numbers of encoders and
  frames are new (`NumbersAreFresh`), a closed encoder is no longer the current
  one before the end of the session (`FreedWhenGone`), without an overlap all
  sizes are one (`OneSize`), a worker that encodes or queues has the lock
  (`LockIsHeld`), and what is queued is older than what is to be queued
  (`UnitsAreOlder`).
* `SettledViewProofs`: `SettledView`. The messages from the queue to the page, the
  replies not yet queued and what the page has are one line: of spectra, which
  number is where (`Bounded`, `NewestIsThere`, `Ascends`); of images, that without
  a crossing an image is followed by its own full spectrum and nothing else.
* `ClientVideoProofs`: `TypeOK`, `HoverIsServed`, `InitMeetsNoEncoder`,
  `ShowsOwnHover`, `DecodesInOrder`. `EncoderInv` reads the messages under way as
  a history that has not happened yet: each `init_video` among them is preceded
  by an `end_video`, or finds no encoder (`InitsAreEnded`), and the hover's own is
  the last word (`HoverIsTraced`). `StreamInv` does so for the frames: they are
  numbered from the decoder's last one to the encoder's (`Streams`), until which
  the hover's `init_video` is under way (`Coming`).
* `BayesBlocksProofs`: `TypeOK`, `WeightsAreStable`, `EveryEventCounted`,
  `BlocksAreBest`, and that every weight is restored when the binning has ended (`RestoredWeights`). The
  sections in use form a tree in which a parent waits for its halves (`Tree`,
  `Wide`, `Closed`), and a weight is halved exactly while a task waits that
  divided its section there (`Halved`). To that, `DataInv` adds what the tasks
  hand on: change points are edges between the ends of their section (`Inside`),
  an ended call has its right end among them (`EndsIn`), and the histogram is
  made of those of the root (`IsHistogram`). What the loops compute is proved
  by an induction of the module's own (`Induction`, over a set of numbers
  instead of a predicate): sums grow (`UptoGrows`), each choice of the dynamic
  programming is an integer that looks back (`BestType`), a section's own edges
  separate its points (`OwnCounts`), sorting ranks (`SortedIs`), and the pass of
  `count_between_edges` stops at the first block that ends at or after an event
  (`BinsFit`), hence never goes past its own, or stays with the last once it is
  there (`BinsStayLast`). The outer edges of a section are its first and last
  value (`EndEdges`), so that a section that can be cut has two, and so does a
  divided one: a single edge is left to a sample that is neither
  (`OverrunIsUncut`). That the dynamic programming is
  optimal is an induction over the points too (`OptimalStep`): a cut of the first
  points is worth what it is worth without its last block, and that block
  (`WorthOfLast`), and no choice is missed because a block that begins earlier
  has enough when a later one has (`FairEarlier`). `LeavesInv` carries what one
  task found to the histogram: a task sees the weights of the property although
  other calls are waiting or divide (`WorkingWeights`, `SharedStays`), a divided
  section holds what its merged halves hold (`HalvesGathered`), and so the whole
  sample what its leaves do (`FoundByLeaves`); two leaves have at most an end in
  common (`EdgesOfLeaf`).

The assumptions are those the modules name: constants are of their type, the
model values for "nothing" are none of the real ones, the sample of `BayesBlocks`
increases, and its table of logarithms (`Ln`) has an integer for every count and
width that can occur (`LnAssumption`); no proof depends on which.

Only model-checked: the liveness properties, because liveness under fairness is
out of the prover's reach. Every invariant and every action property that a run
checks is stated by a theorem as well.

## Not modelled

* The image and spectrum pipeline (`getImageSpectrum`, `getViewportSpectrum`,
  `getVideoFrame`): histograms, masks and scaling of floats without state. That
  its energy cap compares logarithms with electronvolts is a hazard without a
  property.
* The table reader `sxs.c`: planned, below.
* Of the client, the spectrum under the pointer beyond its order, drawing and
  layout; of the decoder, colour maps, contours and decompression. The video and
  wasm workers are in the repository, but the page does not start them.
* Of `ClientVideo`'s server, an `init_video` that fails: without a dataset
  (`xwebql.jl:1830-1836`) or an encoder (`1987-1990`) the hover has none, which
  `HoverIsServed` and `RestIsShown` do not consider. `VideoSession` has both.
* Image requests that answer 404 for want of a width or height: the window of a
  tab has both.
* Of the binning, the filter by energy, the rounding of floats, and the
  sequential `fast_bayesian_binning`, which is the case of one section.
* A second interrupt during shutdown. A data race of the collector's iteration
  with an insertion on another thread, whose outcome depends on the layout of
  the dictionary. Session queues that delay heartbeats by more than the timeout.
* Page parameters that name one uri in two ways: a restored dataset then goes
  back under the name it was serialised with. The key is a function of the uri
  here.
* The Kalman filter (floating point, its prediction is unused), the catalogue
  tools and the list page (plain I/O), page generation and layout.

## Plan

1. Done: `Registry` with `DataStore`, `LoadProgress`, `ServerMain`, `CacheFile`,
   `VideoSession`, `ClientVideo`, `BayesBlocks`, with the proofs above.
2. `FitsTable` (offsets and row decoding of `sxs.c`) and the pixel arithmetic of
   the image pipeline (`get_image_scale` on both sides, viewport clipping).
3. Page parameters that name one uri in two ways, in `Registry`.
