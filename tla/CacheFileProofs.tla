-------------------------- MODULE CacheFileProofs --------------------------
(***************************************************************************)
(* Proofs about the cache file, for files of any size and any number of    *)
(* finalisers and page requests.                                           *)
(***************************************************************************)
EXTENDS CacheFile, TLAPS

(* A task that works on a file has one. *)
FilesAreHeld ==
  /\ \A w \in Writers : wpc[w] = "writing" => wfile[w] \in Files
  /\ \A r \in Readers : rpc[r] # "idle" => rfile[r] \in Files

(* Without a crash, a named file is whole, or some finaliser is writing it *)
(* and nobody has truncated it since that finaliser opened it.             *)
Witness(w) == wpc[w] = "writing" /\ wfile[w] = name /\ 1 .. offset[w] \subseteq blocks[name]
NameIsTended ==
  name # NoFile /\ ~crashed => Whole(name) \/ \E w \in Writers : Witness(w)

(* Without an overlap, the finaliser that is past the check is alone, has  *)
(* the name to itself, and its file has no holes; nor has any other file,  *)
(* and nobody has read one.                                                *)
OneWriter ==
  ~overlapped =>
    /\ \A v, w \in Writers : PastCheck(v) /\ PastCheck(w) => v = w
    /\ \A w \in Writers :
         /\ wpc[w] = "checked" => name = NoFile
         /\ wpc[w] = "writing" => wfile[w] = name /\ blocks[name] = 1 .. offset[w]
NoHoles ==
  ~overlapped =>
    /\ \A f \in Files : \A b \in blocks[f] : 1 .. b \subseteq blocks[f]
    /\ \A r \in Readers : ~zeros[r]

IInv ==
  /\ TypeOK
  /\ FilesAreHeld
  /\ NameIsTended
  /\ OneWriter
  /\ NoHoles

-----------------------------------------------------------------------------
LEMMA Initially == Init => IInv
<1> SUFFICES ASSUME Init PROVE IInv
  OBVIOUS
<1> USE CacheAssumption DEF Init
<1>1. TypeOK
  <2>1. blocks \in [Files -> SUBSET (1 .. Size)]
    OBVIOUS
  <2>2. offset \in [Writers -> 0 .. Size] /\ position \in [Readers -> 0 .. Size]
    OBVIOUS
  <2>3. wpc \in [Writers -> {"idle", "checked", "writing"}]
    OBVIOUS
  <2>4. rpc \in [Readers -> {"idle", "reading", "restored"}] /\ zeros \in [Readers -> BOOLEAN]
    OBVIOUS
  <2> QED BY <2>1, <2>2, <2>3, <2>4 DEF TypeOK
<1>2. FilesAreHeld /\ NameIsTended /\ OneWriter /\ NoHoles
  BY DEF FilesAreHeld, NameIsTended, OneWriter, NoHoles, PastCheck
<1> QED BY <1>1, <1>2 DEF IInv

LEMMA CheckStep == ASSUME IInv, NEW w \in Writers, Check(w) PROVE IInv'
<1> USE DEF Check, readers
<1>1. TypeOK'
  BY DEF IInv, TypeOK
<1>2. FilesAreHeld' /\ NameIsTended'
  BY DEF IInv, TypeOK, FilesAreHeld, NameIsTended
<1>3. OneWriter'
  BY DEF IInv, TypeOK, OneWriter, PastCheck
<1>4. NoHoles'
  BY DEF IInv, TypeOK, NoHoles
<1> QED BY <1>1, <1>2, <1>3, <1>4 DEF IInv

LEMMA OpenStep == ASSUME IInv, NEW w \in Writers, Open(w) PROVE IInv'
<1> USE CacheAssumption DEF readers, history
<1>1. PICK f \in Files :
        /\ name' = f
        /\ wfile' = [wfile EXCEPT ![w] = f]
        /\ blocks' = [blocks EXCEPT ![f] = {}]
  BY DEF Open
<1>2. /\ wpc[w] = "checked"
      /\ wpc' = [wpc EXCEPT ![w] = "writing"]
      /\ offset' = [offset EXCEPT ![w] = 0]
      /\ UNCHANGED <<readers, history>>
  BY DEF Open
<1>3. TypeOK'
  BY <1>1, <1>2 DEF IInv, TypeOK
<1>4. FilesAreHeld'
  BY <1>1, <1>2 DEF IInv, TypeOK, FilesAreHeld
<1>5. NameIsTended'
  <2>1. wpc'[w] = "writing" /\ wfile'[w] = name' /\ offset'[w] = 0
    BY <1>1, <1>2 DEF IInv, TypeOK
  <2>2. 1 .. offset'[w] \subseteq blocks'[name']
    BY <2>1
  <2> QED BY <2>1, <2>2 DEF NameIsTended, Witness
<1>6. OneWriter'
  <2>1. wpc'[w] = "writing" /\ wfile'[w] = name' /\ blocks'[name'] = {} /\ offset'[w] = 0
    BY <1>1, <1>2 DEF IInv, TypeOK
  <2>2. blocks'[name'] = 1 .. offset'[w]
    BY <2>1
  <2>3. ~overlapped => \A v \in Writers : v # w => ~PastCheck(v)
    BY <1>2 DEF IInv, OneWriter, PastCheck
  <2>4. \A v \in Writers : v # w => wpc'[v] = wpc[v]
    BY <1>2 DEF IInv, TypeOK
  <2> QED BY <1>2, <2>1, <2>2, <2>3, <2>4 DEF OneWriter, PastCheck
<1>7. NoHoles'
  BY <1>1, <1>2 DEF IInv, TypeOK, NoHoles
<1> QED BY <1>3, <1>4, <1>5, <1>6, <1>7 DEF IInv

LEMMA WriteStep == ASSUME IInv, NEW w \in Writers, Write(w) PROVE IInv'
<1> USE CacheAssumption DEF readers, history
<1> DEFINE f == wfile[w]
           n == offset[w] + 1
<1>1. /\ wpc[w] = "writing" /\ f \in Files /\ n \in 1 .. Size
      /\ offset' = [offset EXCEPT ![w] = n]
      /\ blocks' = [blocks EXCEPT ![f] = blocks[f] \cup {n}]
      /\ UNCHANGED <<name, wpc, wfile, readers, history>>
  BY DEF Write, IInv, TypeOK, FilesAreHeld
<1>2. 1 .. n = (1 .. offset[w]) \cup {n}
  BY <1>1 DEF IInv, TypeOK
<1> HIDE DEF f, n
<1>3. TypeOK'
  BY <1>1 DEF IInv, TypeOK
<1>4. FilesAreHeld'
  BY <1>1 DEF IInv, FilesAreHeld
<1>5. \A g \in Files : blocks[g] \subseteq blocks'[g]
  BY <1>1 DEF IInv, TypeOK
<1>6. NameIsTended'
  <2>1. CASE name # NoFile /\ ~crashed /\ Whole(name)
    <3>1. name \in Files
      BY <2>1 DEF IInv, TypeOK
    <3>2. blocks'[name] = 1 .. Size
      <4>1. blocks[name] = 1 .. Size
        BY <2>1 DEF Whole
      <4>2. blocks[name] \subseteq blocks'[name] /\ blocks'[name] \subseteq 1 .. Size
        BY <1>3, <1>5, <3>1 DEF TypeOK
      <4> QED BY <4>1, <4>2
    <3> QED BY <1>1, <3>2 DEF NameIsTended, Whole
  <2>2. ASSUME name # NoFile, ~crashed, NEW v \in Writers, Witness(v)
        PROVE  NameIsTended'
    <3>1. name \in Files
      BY <2>2 DEF IInv, TypeOK
    <3>2. CASE v = w
      <4>1. f = name /\ 1 .. offset[w] \subseteq blocks[name]
        BY <2>2, <3>2 DEF Witness, f
      <4>2. blocks'[name] = blocks[name] \cup {n} /\ offset'[w] = n
        BY <1>1, <3>1, <4>1 DEF IInv, TypeOK
      <4>3. Witness(w)'
        BY <1>1, <1>2, <4>1, <4>2 DEF Witness, f
      <4> QED BY <4>3 DEF NameIsTended
    <3>3. CASE v # w
      <4>1. offset'[v] = offset[v]
        BY <1>1, <3>3 DEF IInv, TypeOK
      <4>2. Witness(v)'
        BY <1>1, <1>5, <2>2, <3>1, <4>1 DEF Witness
      <4> QED BY <4>2 DEF NameIsTended
    <3> QED BY <3>2, <3>3
  <2> QED BY <1>1, <2>1, <2>2 DEF IInv, NameIsTended
<1>7. OneWriter'
  <2> SUFFICES ASSUME ~overlapped PROVE OneWriter'
    BY <1>1 DEF OneWriter
  <2>1. f = name /\ blocks[name] = 1 .. offset[w]
    BY <1>1 DEF IInv, OneWriter, f
  <2>2. blocks'[name] = 1 .. n /\ offset'[w] = n
    BY <1>1, <1>2, <2>1 DEF IInv, TypeOK
  <2>3. \A v \in Writers : PastCheck(v) => v = w
    BY <1>1 DEF IInv, OneWriter, PastCheck
  <2> QED BY <1>1, <2>1, <2>2, <2>3 DEF IInv, OneWriter, PastCheck, f
<1>8. NoHoles'
  <2> SUFFICES ASSUME ~overlapped, NEW g \in Files, NEW b \in blocks'[g]
               PROVE  1 .. b \subseteq blocks'[g]
    BY <1>1 DEF IInv, NoHoles
  <2>1. CASE b \in blocks[g]
    BY <1>5, <2>1 DEF IInv, NoHoles
  <2>2. CASE b \notin blocks[g]
    <3>1. g = f /\ b = n
      BY <1>1, <2>2 DEF IInv, TypeOK
    <3>2. blocks[f] = 1 .. offset[w]
      BY <1>1 DEF IInv, OneWriter, f
    <3>3. blocks'[f] = 1 .. n
      BY <1>1, <1>2, <3>2 DEF IInv, TypeOK
    <3> QED BY <3>1, <3>3
  <2> QED BY <2>1, <2>2
<1> QED BY <1>3, <1>4, <1>6, <1>7, <1>8 DEF IInv

LEMMA FinishStep == ASSUME IInv, NEW w \in Writers, Finish(w) PROVE IInv'
<1> USE CacheAssumption DEF readers, history
<1>1. /\ wpc[w] = "writing" /\ offset[w] = Size
      /\ wpc' = [wpc EXCEPT ![w] = "idle"]
      /\ wfile' = [wfile EXCEPT ![w] = NoFile]
      /\ offset' = [offset EXCEPT ![w] = 0]
      /\ UNCHANGED <<name, blocks, readers, history>>
  BY DEF Finish, Rest
<1>2. TypeOK'
  BY <1>1 DEF IInv, TypeOK
<1>3. FilesAreHeld'
  BY <1>1 DEF IInv, TypeOK, FilesAreHeld
<1>4. NameIsTended'
  <2>1. CASE name # NoFile /\ ~crashed /\ Whole(name)
    BY <1>1, <2>1 DEF NameIsTended, Whole
  <2>2. ASSUME name # NoFile, ~crashed, NEW v \in Writers, Witness(v)
        PROVE  NameIsTended'
    <3>1. CASE v = w
      <4>1. blocks[name] = 1 .. Size
        BY <1>1, <2>2, <3>1 DEF Witness, IInv, TypeOK
      <4> QED BY <1>1, <4>1 DEF NameIsTended, Whole
    <3>2. CASE v # w
      <4>1. Witness(v)'
        BY <1>1, <2>2, <3>2 DEF Witness, IInv, TypeOK
      <4> QED BY <4>1 DEF NameIsTended
    <3> QED BY <3>1, <3>2
  <2> QED BY <1>1, <2>1, <2>2 DEF IInv, NameIsTended
<1>5. OneWriter'
  BY <1>1 DEF IInv, TypeOK, OneWriter, PastCheck
<1>6. NoHoles'
  BY <1>1 DEF IInv, NoHoles
<1> QED BY <1>2, <1>3, <1>4, <1>5, <1>6 DEF IInv

LEMMA FailStep == ASSUME IInv, NEW w \in Writers, Fail(w) PROVE IInv'
<1> USE CacheAssumption DEF readers, history
<1>1. /\ PastCheck(w)
      /\ wpc' = [wpc EXCEPT ![w] = "idle"]
      /\ wfile' = [wfile EXCEPT ![w] = NoFile]
      /\ offset' = [offset EXCEPT ![w] = 0]
      /\ name' = NoFile
      /\ UNCHANGED <<blocks, readers, history>>
  BY DEF Fail, Rest
<1>2. TypeOK' /\ FilesAreHeld' /\ NameIsTended' /\ NoHoles'
  BY <1>1 DEF IInv, TypeOK, FilesAreHeld, NameIsTended, NoHoles
<1>3. OneWriter'
  <2>1. ~overlapped => \A v \in Writers : v # w => ~PastCheck(v)
    BY <1>1 DEF IInv, OneWriter
  <2> QED BY <1>1, <2>1 DEF IInv, TypeOK, OneWriter, PastCheck
<1> QED BY <1>2, <1>3 DEF IInv

LEMMA ReaderStep ==
  ASSUME IInv, NEW r \in Readers,
         StartRestore(r) \/ Read(r) \/ RestoreFails(r) \/ Restore(r) \/ Evict(r)
  PROVE  IInv'
<1> USE CacheAssumption DEF writers, history
<1>1. UNCHANGED <<name, blocks, writers, history>>
  BY DEF StartRestore, Read, RestoreFails, Restore, Evict
<1>2. TypeOK' /\ FilesAreHeld'
  <2>1. CASE StartRestore(r)
    BY <2>1 DEF StartRestore, IInv, TypeOK, FilesAreHeld
  <2>2. CASE Read(r)
    BY <2>2 DEF Read, IInv, TypeOK, FilesAreHeld
  <2>3. CASE RestoreFails(r) \/ Evict(r)
    <3>1. TypeOK'
      <4>1. /\ rpc' = [rpc EXCEPT ![r] = "idle"]
            /\ rfile' = [rfile EXCEPT ![r] = NoFile]
            /\ position' = [position EXCEPT ![r] = 0]
            /\ zeros' = [zeros EXCEPT ![r] = FALSE]
        BY <2>3 DEF RestoreFails, Evict, Drop
      <4>2. position' \in [Readers -> 0 .. Size]
        BY <4>1 DEF IInv, TypeOK
      <4> QED BY <1>1, <4>1, <4>2 DEF IInv, TypeOK
    <3>2. FilesAreHeld'
      BY <1>1, <2>3 DEF RestoreFails, Evict, Drop, IInv, TypeOK, FilesAreHeld
    <3> QED BY <3>1, <3>2
  <2>4. CASE Restore(r)
    BY <2>4 DEF Restore, IInv, TypeOK, FilesAreHeld
  <2> QED BY <2>1, <2>2, <2>3, <2>4
<1>3. NameIsTended' /\ OneWriter'
  BY <1>1 DEF IInv, NameIsTended, OneWriter, Whole, Witness, PastCheck
<1>4. NoHoles'
  <2> SUFFICES ASSUME ~overlapped PROVE \A q \in Readers : ~zeros'[q]
    BY <1>1 DEF IInv, NoHoles
  <2>1. CASE StartRestore(r) \/ Restore(r)
    BY <2>1 DEF StartRestore, Restore, IInv, NoHoles
  <2>2. CASE RestoreFails(r) \/ Evict(r)
    BY <2>2 DEF RestoreFails, Evict, Drop, IInv, TypeOK, NoHoles
  <2>3. CASE Read(r)
    <3>1. position[r] + 1 \in blocks[rfile[r]]
      <4>1. rfile[r] \in Files /\ position[r] \in Nat
        BY <2>3 DEF Read, IInv, TypeOK, FilesAreHeld
      <4>2. ASSUME NEW b \in blocks[rfile[r]], b > position[r] + 1
            PROVE  position[r] + 1 \in blocks[rfile[r]]
        <5>1. b \in Nat /\ 1 .. b \subseteq blocks[rfile[r]]
          BY <4>1 DEF IInv, TypeOK, NoHoles
        <5>2. position[r] + 1 \in 1 .. b
          BY <4>1, <4>2, <5>1
        <5> QED BY <5>1, <5>2
      <4> QED BY <2>3, <4>2 DEF Read, AtHole
    <3> QED BY <2>3, <3>1 DEF Read, IInv, TypeOK, NoHoles
  <2> QED BY <2>1, <2>2, <2>3
<1> QED BY <1>2, <1>3, <1>4 DEF IInv

LEMMA CrashStep == ASSUME IInv, Crash PROVE IInv'
BY CacheAssumption
DEF Crash, IInv, TypeOK, FilesAreHeld, NameIsTended, OneWriter, NoHoles, PastCheck

LEMMA Inductive == IInv /\ [Next]_vars => IInv'
<1>1. ASSUME IInv, UNCHANGED vars PROVE IInv'
  BY <1>1 DEF vars, writers, readers, history, IInv, TypeOK, FilesAreHeld, NameIsTended,
              OneWriter, NoHoles, Whole, Witness, PastCheck
<1> QED BY <1>1, CheckStep, OpenStep, WriteStep, FinishStep, FailStep, ReaderStep, CrashStep
        DEF Next

THEOREM Invariance == Spec => []IInv
BY Initially, Inductive, PTL DEF Spec

(* Every variable keeps its type. *)
THEOREM TypeCorrect == Spec => []TypeOK
<1>1. IInv => TypeOK
  BY DEF IInv
<1> QED BY <1>1, Invariance, PTL

(* No page restores zeros for events, unless two finalisers overlapped. *)
THEOREM RestoresWhatWasWritten == Spec => []RestoredIsWhole
<1>1. IInv => RestoredIsWhole
  BY DEF IInv, NoHoles, RestoredIsWhole
<1> QED BY <1>1, Invariance, PTL

(* Only a crash leaves a torn file that nobody is writing. *)
THEOREM OnlyCrashesTear == Spec => []TornByCrash
<1>1. IInv => TornByCrash
  BY DEF IInv, NameIsTended, Witness, TornByCrash, Torn, BeingWritten
<1> QED BY <1>1, Invariance, PTL

(* A torn file stays torn once no finaliser is past the check. *)
THEOREM TornForEver == Spec => TornStays
<1>1. Stuck /\ [Next]_vars => Stuck'
  <2> USE DEF Stuck, Torn, Whole, PastCheck
  <2>1. ASSUME Stuck, NEW w \in Writers,
               Check(w) \/ Open(w) \/ Write(w) \/ Finish(w) \/ Fail(w)
        PROVE  FALSE
    BY <2>1 DEF Check, Open, Write, Finish, Fail
  <2>2. ASSUME Stuck, NEW r \in Readers,
               StartRestore(r) \/ Read(r) \/ RestoreFails(r) \/ Restore(r) \/ Evict(r)
        PROVE  Stuck'
    BY <2>2 DEF StartRestore, Read, RestoreFails, Restore, Evict, writers
  <2>3. ASSUME Stuck, Crash PROVE Stuck'
    BY <2>3 DEF Crash
  <2>4. ASSUME Stuck, UNCHANGED vars PROVE Stuck'
    BY <2>4 DEF vars, writers
  <2> QED BY <2>1, <2>2, <2>3, <2>4 DEF Next
<1> QED BY <1>1, PTL DEF Spec, TornStays

(* A complete file is lost only after an overlap. *)
THEOREM CompleteFileIsKept == Spec => WholeIsKept
<1>1. IInv /\ Cached /\ ~BeingWritten /\ [Next]_vars => Cached' \/ overlapped
  <2> SUFFICES ASSUME IInv, Cached, ~BeingWritten, ~overlapped, [Next]_vars PROVE Cached'
    OBVIOUS
  <2> USE DEF Cached, Whole
  <2>1. \A w \in Writers : ~PastCheck(w)
    BY DEF IInv, OneWriter, PastCheck, BeingWritten
  <2>2. ASSUME NEW w \in Writers, Check(w) \/ Open(w) \/ Write(w) \/ Finish(w) \/ Fail(w)
        PROVE  Cached'
    BY <2>1, <2>2 DEF Check, Open, Write, Finish, Fail, PastCheck
  <2>3. ASSUME NEW r \in Readers,
               StartRestore(r) \/ Read(r) \/ RestoreFails(r) \/ Restore(r) \/ Evict(r)
        PROVE  Cached'
    BY <2>3 DEF StartRestore, Read, RestoreFails, Restore, Evict
  <2>4. CASE Crash
    BY <2>4 DEF Crash
  <2>5. CASE UNCHANGED vars
    BY <2>5 DEF vars
  <2> QED BY <2>2, <2>3, <2>4, <2>5 DEF Next
<1> QED BY <1>1, Invariance, PTL DEF Spec, WholeIsKept
=============================================================================
