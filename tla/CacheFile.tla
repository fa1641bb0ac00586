----------------------------- MODULE CacheFile -----------------------------
(***************************************************************************)
(* The cache file of one uri (Julia/xevent.jl, serialize_dataset;          *)
(* Julia/xwebql.jl, streamXEvents): finalisers of datasets with that uri   *)
(* write it unless it exists, page requests restore a dataset from it, and *)
(* the process may die at any point.                                       *)
(*                                                                         *)
(* A file is the set of the blocks that hold data. A block that is missing *)
(* below the end of the file is a hole and reads as zeros; one beyond it   *)
(* is the end of the file, which deserialize reports as an error.          *)
(***************************************************************************)
EXTENDS Naturals

CONSTANTS
  Size,     \* blocks of a serialised dataset
  Writers,  \* finaliser tasks, of threads or servers that share the cache
  Readers,  \* page requests
  Files,    \* identities for files, those without a name included
  NoFile

ASSUME CacheAssumption ==
  /\ Size \in Nat \ {0}
  /\ NoFile \notin Files

VARIABLES
  name,       \* the file under the cache name, or NoFile
  blocks,     \* the blocks of each file
  wpc,        \* where each finaliser is
  wfile,      \* the file it writes
  offset,     \* how much it has written
  rpc,        \* where each page request is
  rfile,      \* the file it reads
  position,   \* how much it has read
  zeros,      \* whether it has read a hole
  crashed,    \* history: whether the process has ever died
  overlapped  \* history: whether two finalisers have ever been past the check

writers == <<wpc, wfile, offset>>
readers == <<rpc, rfile, position, zeros>>
history == <<crashed, overlapped>>
vars    == <<name, blocks, writers, readers, history>>

PastCheck(w) == wpc[w] \in {"checked", "writing"}
Whole(f)     == blocks[f] = 1 .. Size
InUse(f)     ==
  \/ f = name
  \/ \E w \in Writers : wpc[w] = "writing" /\ wfile[w] = f
  \/ \E r \in Readers : rpc[r] = "reading" /\ rfile[r] = f

BeingWritten == \E w \in Writers : wpc[w] = "writing" /\ wfile[w] = name

Cached == name # NoFile /\ Whole(name)
Torn   == name # NoFile /\ ~Whole(name)

TypeOK ==
  /\ name \in Files \cup {NoFile}
  /\ blocks \in [Files -> SUBSET (1 .. Size)]
  /\ wpc \in [Writers -> {"idle", "checked", "writing"}]
  /\ wfile \in [Writers -> Files \cup {NoFile}]
  /\ offset \in [Writers -> 0 .. Size]
  /\ rpc \in [Readers -> {"idle", "reading", "restored"}]
  /\ rfile \in [Readers -> Files \cup {NoFile}]
  /\ position \in [Readers -> 0 .. Size]
  /\ zeros \in [Readers -> BOOLEAN]
  /\ crashed \in BOOLEAN /\ overlapped \in BOOLEAN

Init ==
  /\ name = NoFile
  /\ blocks = [f \in Files |-> {}]
  /\ wpc = [w \in Writers |-> "idle"]
  /\ wfile = [w \in Writers |-> NoFile]
  /\ offset = [w \in Writers |-> 0]
  /\ rpc = [r \in Readers |-> "idle"]
  /\ rfile = [r \in Readers |-> NoFile]
  /\ position = [r \in Readers |-> 0]
  /\ zeros = [r \in Readers |-> FALSE]
  /\ crashed = FALSE /\ overlapped = FALSE

-----------------------------------------------------------------------------
(* Finalisers.                                                             *)

(* Faulty variants of the definition that follows, here and below: bugs    *)
(* the code could have had, each caught by a property.                     *)
SerializeUnchecked(w) ==
  /\ wpc[w] = "idle"
  /\ wpc' = [wpc EXCEPT ![w] = "checked"]
  /\ overlapped' = (overlapped \/ \E v \in Writers : PastCheck(v))
  /\ UNCHANGED <<name, blocks, wfile, offset, readers, crashed>>

(* isfile(filename): a file that exists is left alone, torn or not. *)
Check(w) ==
  /\ wpc[w] = "idle" /\ name = NoFile
  /\ wpc' = [wpc EXCEPT ![w] = "checked"]
  /\ overlapped' = (overlapped \/ \E v \in Writers : PastCheck(v))
  /\ UNCHANGED <<name, blocks, wfile, offset, readers, crashed>>

(* serialize opens the file: creates it, or truncates one that has come to *)
(* exist since the check.                                                  *)
Open(w) ==
  /\ wpc[w] = "checked"
  /\ \E f \in Files :
       /\ IF name = NoFile THEN ~InUse(f) ELSE f = name
       /\ name' = f
       /\ wfile' = [wfile EXCEPT ![w] = f]
       /\ blocks' = [blocks EXCEPT ![f] = {}]
  /\ wpc' = [wpc EXCEPT ![w] = "writing"]
  /\ offset' = [offset EXCEPT ![w] = 0]
  /\ UNCHANGED <<readers, history>>

WriteTooFar(w) ==
  /\ wpc[w] = "writing" /\ offset[w] <= Size
  /\ offset' = [offset EXCEPT ![w] = offset[w] + 1]
  /\ blocks' = [blocks EXCEPT ![wfile[w]] = @ \cup {offset[w] + 1}]
  /\ UNCHANGED <<name, wpc, wfile, readers, history>>

Write(w) ==
  /\ wpc[w] = "writing" /\ offset[w] < Size
  /\ offset' = [offset EXCEPT ![w] = offset[w] + 1]
  /\ blocks' = [blocks EXCEPT ![wfile[w]] = @ \cup {offset[w] + 1}]
  /\ UNCHANGED <<name, wpc, wfile, readers, history>>

Rest(w) ==
  /\ wpc' = [wpc EXCEPT ![w] = "idle"]
  /\ wfile' = [wfile EXCEPT ![w] = NoFile]
  /\ offset' = [offset EXCEPT ![w] = 0]

Finish(w) ==
  /\ wpc[w] = "writing" /\ offset[w] = Size
  /\ Rest(w)
  /\ UNCHANGED <<name, blocks, readers, history>>

FailKeepsFile(w) ==
  /\ PastCheck(w)
  /\ Rest(w)
  /\ UNCHANGED <<name, blocks, readers, history>>

(* An exception while opening, writing or reporting success: the file,     *)
(* whosever it is by now, is removed by name.                              *)
Fail(w) ==
  /\ PastCheck(w)
  /\ name' = NoFile
  /\ Rest(w)
  /\ UNCHANGED <<blocks, readers, history>>

-----------------------------------------------------------------------------
(* Page requests.                                                          *)

StartRestore(r) ==
  /\ rpc[r] = "idle" /\ name # NoFile
  /\ rpc' = [rpc EXCEPT ![r] = "reading"]
  /\ rfile' = [rfile EXCEPT ![r] = name]
  /\ UNCHANGED <<name, blocks, writers, position, zeros, history>>

Drop(r) ==
  /\ rpc' = [rpc EXCEPT ![r] = "idle"]
  /\ rfile' = [rfile EXCEPT ![r] = NoFile]
  /\ position' = [position EXCEPT ![r] = 0]
  /\ zeros' = [zeros EXCEPT ![r] = FALSE]

AtHole(r) == \E b \in blocks[rfile[r]] : b > position[r] + 1

ReadPastEnd(r) ==
  /\ rpc[r] = "reading" /\ position[r] < Size
  /\ position' = [position EXCEPT ![r] = position[r] + 1]
  /\ zeros' = [zeros EXCEPT ![r] = zeros[r] \/ position[r] + 1 \notin blocks[rfile[r]]]
  /\ UNCHANGED <<name, blocks, writers, rpc, rfile, history>>

(* The next block, data or a hole. *)
Read(r) ==
  /\ rpc[r] = "reading" /\ position[r] < Size
  /\ position[r] + 1 \in blocks[rfile[r]] \/ AtHole(r)
  /\ position' = [position EXCEPT ![r] = position[r] + 1]
  /\ zeros' = [zeros EXCEPT ![r] = zeros[r] \/ position[r] + 1 \notin blocks[rfile[r]]]
  /\ UNCHANGED <<name, blocks, writers, rpc, rfile, history>>

(* The end of the file, or zeros that make no sense where they are: the    *)
(* exception makes streamXEvents load the events from their source.        *)
RestoreFails(r) ==
  /\ rpc[r] = "reading" /\ position[r] < Size
  /\ position[r] + 1 \notin blocks[rfile[r]]
  /\ Drop(r)
  /\ UNCHANGED <<name, blocks, writers, history>>

Restore(r) ==
  /\ rpc[r] = "reading" /\ position[r] = Size
  /\ rpc' = [rpc EXCEPT ![r] = "restored"]
  /\ UNCHANGED <<name, blocks, writers, rfile, position, zeros, history>>

(* The restored dataset leaves the registry; Check is its finaliser. *)
Evict(r) ==
  /\ rpc[r] = "restored"
  /\ Drop(r)
  /\ UNCHANGED <<name, blocks, writers, history>>

(* The process dies; the file stays as it is. *)
Crash ==
  /\ wpc' = [w \in Writers |-> "idle"]
  /\ wfile' = [w \in Writers |-> NoFile]
  /\ offset' = [w \in Writers |-> 0]
  /\ rpc' = [r \in Readers |-> "idle"]
  /\ rfile' = [r \in Readers |-> NoFile]
  /\ position' = [r \in Readers |-> 0]
  /\ zeros' = [r \in Readers |-> FALSE]
  /\ crashed' = TRUE
  /\ UNCHANGED <<name, blocks, overlapped>>

Next ==
  \/ \E w \in Writers : Check(w) \/ Open(w) \/ Write(w) \/ Finish(w) \/ Fail(w)
  \/ \E r \in Readers :
       StartRestore(r) \/ Read(r) \/ RestoreFails(r) \/ Restore(r) \/ Evict(r)
  \/ Crash

Spec == Init /\ [][Next]_vars

-----------------------------------------------------------------------------
(* What a page restores is what a finaliser wrote, however the reads fall  *)
(* among the writes; only two finalisers that were past the check at once  *)
(* can make it read zeros for events.                                      *)
RestoredIsWhole ==
  \A r \in Readers : rpc[r] = "restored" /\ zeros[r] => overlapped

(* A torn file that nobody is writing is the work of a crash: an error     *)
(* while writing removes the file.                                         *)
TornByCrash ==
  Torn /\ ~BeingWritten => crashed

(* A complete file is lost only to a finaliser that had passed the check   *)
(* together with another one.                                              *)
WholeIsKept == [][Cached /\ ~BeingWritten /\ ~Cached' => overlapped]_vars

(* Once a file is torn and no finaliser is past the check, both are so for *)
(* ever: isfile says yes, nobody mends the file, and every later load      *)
(* starts from the source again.                                           *)
Stuck     == Torn /\ \A w \in Writers : ~PastCheck(w)
TornStays == [][Stuck => Stuck']_vars
=============================================================================
