-------------------------- MODULE StrataFlashProofs --------------------------
(* Proofs about StrataFlash, for every size, payload set and environment.  *)
EXTENDS StrataFlash, TLAPS

-----------------------------------------------------------------------------
(* The operators on backing files stay within their types.                 *)

LEMMA SectorInMap ==
  ASSUME NEW ss, NEW o \in Offsets
  PROVE  SectorOf(ss, o) \in Sectors(ss)
  BY DEF Sectors

LEMMA HullFacts ==
  ASSUME NEW S \in SUBSET Offsets
  PROVE  Hull(S) \in SUBSET Offsets /\ S \subseteq Hull(S)
  BY ConstAssumption DEF Hull, Offsets

LEMMA OpenPathType ==
  ASSUME params \in Params, params.path # NoFile,
         NEW b \in Backings, NEW c \in OpenPath(b)
  PROVE  /\ c \in Backings
         /\ c.files = b.files /\ c.dirty = b.dirty /\ c.since = b.since
         /\ ~OpenMayFail => c.opened = params.path
  BY DEF OpenPath, Backings, Params

LEMMA CopyRangeType ==
  ASSUME params \in Params, params.path # NoFile,
         NEW b \in Backings, NEW d \in [Offsets -> Bytes],
         NEW S \in SUBSET Offsets
  PROVE  /\ CopyRange(b, d, S) \in Backings
         /\ CopyRange(b, d, S).dirty = b.dirty
         /\ CopyRange(b, d, S).since = b.since
         /\ CopyRange(b, d, S).opened = b.opened
         /\ \A o \in Offsets \ S :
              CopyRange(b, d, S).files[params.path][o] = b.files[params.path][o]
         /\ CanWrite(b, S) =>
              \A o \in S : CopyRange(b, d, S).files[params.path][o] = d[o]
         /\ ~CanWrite(b, S) => CopyRange(b, d, S) = b
  <1> DEFINE g == [o \in Offsets |-> IF o \in S THEN d[o]
                                               ELSE b.files[params.path][o]]
             fs == [b.files EXCEPT ![params.path] = g]
             r == [b EXCEPT !.files = fs]
  <1>1. /\ params.path \in Files
        /\ b = [files |-> b.files, opened |-> b.opened, dirty |-> b.dirty,
                since |-> b.since]
        /\ b.files \in [Files -> [Offsets -> Bytes]]
        /\ b.opened \in Files \cup {NoFile}
        /\ b.dirty \in SUBSET Offsets /\ b.since \in 0 .. MaxDeferred
    BY DEF Backings, Params
  <1>2. g \in [Offsets -> Bytes]
    BY <1>1
  <1>3. /\ \A o \in Offsets \ S : g[o] = b.files[params.path][o]
        /\ \A o \in S : g[o] = d[o]
    OBVIOUS
  <1>4. CanWrite(b, S) => CopyRange(b, d, S) = r
    BY DEF CopyRange
  <1> HIDE DEF g
  <1>5. fs \in [Files -> [Offsets -> Bytes]] /\ fs[params.path] = g
    BY <1>1, <1>2
  <1> HIDE DEF fs
  <1>6. r \in Backings /\ r.files = fs /\ r.opened = b.opened
        /\ r.dirty = b.dirty /\ r.since = b.since
    BY <1>1, <1>5 DEF Backings
  <1> HIDE DEF r
  <1>7. CASE CanWrite(b, S)
    BY <1>3, <1>4, <1>5, <1>6, <1>7
  <1>8. CASE ~CanWrite(b, S)
    BY <1>8 DEF CopyRange
  <1>9. QED
    BY <1>7, <1>8

LEMMA FlushResultType ==
  ASSUME params \in Params, params.path # NoFile,
         NEW b \in Backings, NEW d \in [Offsets -> Bytes]
  PROVE  /\ FlushResult(b, d) \in Backings
         /\ FlushResult(b, d).opened = b.opened
         /\ \A o \in Offsets :
              FlushResult(b, d).files[params.path][o]
                \in {b.files[params.path][o], d[o]}
         /\ \A o \in b.dirty :
              \/ o \in FlushResult(b, d).dirty
              \/ FlushResult(b, d).files[params.path][o] = d[o]
         /\ \/ FlushResult(b, d) = b
            \/ FlushResult(b, d).dirty = {} /\ FlushResult(b, d).since = 0
         /\ CanWrite(b, b.dirty) =>
              FlushResult(b, d).dirty = {} /\ FlushResult(b, d).since = 0
  <1> DEFINE r == CopyRange(b, d, b.dirty)
  <1>0. b.dirty \in SUBSET Offsets /\ MaxDeferred \in Nat
    BY ConstAssumption DEF Backings
  <1>1. CASE CanWrite(b, b.dirty)
    <2>1. FlushResult(b, d) = [files |-> r.files, opened |-> b.opened,
                               dirty |-> {}, since |-> 0]
      BY <1>1 DEF FlushResult
    <2>2. /\ r \in Backings
          /\ r.opened = b.opened
          /\ \A o \in Offsets \ b.dirty :
               r.files[params.path][o] = b.files[params.path][o]
          /\ \A o \in b.dirty : r.files[params.path][o] = d[o]
      BY <1>0, <1>1, CopyRangeType
    <2> HIDE DEF r
    <2>3. /\ FlushResult(b, d) \in Backings
          /\ FlushResult(b, d).files = r.files
          /\ FlushResult(b, d).opened = b.opened
          /\ FlushResult(b, d).dirty = {}
          /\ FlushResult(b, d).since = 0
      BY <1>0, <2>1, <2>2 DEF Backings
    <2>4. ASSUME NEW o \in Offsets
          PROVE  /\ FlushResult(b, d).files[params.path][o]
                      \in {b.files[params.path][o], d[o]}
                 /\ o \in b.dirty =>
                      FlushResult(b, d).files[params.path][o] = d[o]
      BY <2>2, <2>3
    <2>5. QED
      BY <1>0, <2>2, <2>3, <2>4
  <1>2. CASE ~CanWrite(b, b.dirty)
    BY <1>2 DEF FlushResult
  <1>3. QED
    BY <1>1, <1>2

LEMMA FlushType ==
  ASSUME params \in Params, NEW b \in Backings,
         NEW d \in [Offsets -> Bytes], NEW c \in FlushDeferred(b, d)
  PROVE  c \in Backings
  <1>1. CASE b.dirty = {} \/ params.path = NoFile
    BY <1>1 DEF FlushDeferred
  <1>2. CASE ~ (b.dirty = {} \/ params.path = NoFile)
    <2>1. PICK e \in OpenPath(b) : c = FlushResult(e, d)
      BY <1>2 DEF FlushDeferred
    <2>2. QED
      BY <1>2, <2>1, OpenPathType, FlushResultType
  <1>3. QED
    BY <1>1, <1>2

LEMMA EnsureType ==
  ASSUME params \in Params, params.path # NoFile, NEW b \in Backings,
         NEW d \in [Offsets -> Bytes], NEW c \in EnsureBacking(b, d)
  PROVE  c \in Backings
  <1>1. CASE b.opened = params.path
    BY <1>1 DEF EnsureBacking
  <1>2. CASE b.opened # params.path
    <2>1. PICK e \in FlushDeferred(b, d) :
            c \in OpenPath([e EXCEPT !.opened = NoFile])
      BY <1>2 DEF EnsureBacking
    <2>2. e \in Backings
      BY <2>1, FlushType
    <2>3. [e EXCEPT !.opened = NoFile] \in Backings
      BY <2>2 DEF Backings
    <2>4. QED
      BY <2>1, <2>3, OpenPathType
  <1>3. QED
    BY <1>1, <1>2

LEMMA DeferredType ==
  ASSUME NEW b \in Backings, NEW S \in SUBSET Offsets
  PROVE  /\ Deferred(b, S) \in Backings
         /\ Deferred(b, S).files = b.files
         /\ b.dirty \cup S \subseteq Deferred(b, S).dirty
  <1>1. b.dirty \in SUBSET Offsets /\ b.since \in 0 .. MaxDeferred
    BY DEF Backings
  <1>2. /\ Hull(b.dirty \cup S) \in SUBSET Offsets
        /\ b.dirty \cup S \subseteq Hull(b.dirty \cup S)
    BY <1>1, HullFacts
  <1>3. (IF b.since < MaxDeferred THEN b.since + 1 ELSE b.since)
          \in 0 .. MaxDeferred
    BY <1>1, ConstAssumption
  <1> HIDE DEF Hull
  <1>4. QED
    BY <1>1, <1>2, <1>3 DEF Deferred, Backings

LEMMA WriteBackingType ==
  ASSUME params \in Params, NEW b \in Backings,
         NEW d \in [Offsets -> Bytes], NEW S \in SUBSET Offsets,
         NEW c \in WriteBacking(b, d, S)
  PROVE  c \in Backings
  <1>1. CASE S = {} \/ params.path = NoFile
    BY <1>1 DEF WriteBacking
  <1>2. CASE ~ (S = {} \/ params.path = NoFile) /\ params.defer
    <2>1. c \in FlushDeferred(Deferred(b, S), d) \cup {Deferred(b, S)}
      BY <1>2 DEF WriteBacking
    <2>2. QED
      BY <2>1, DeferredType, FlushType
  <1>3. CASE ~ (S = {} \/ params.path = NoFile) /\ ~params.defer
    <2>1. PICK e \in EnsureBacking(b, d) : c = CopyRange(e, d, S)
      BY <1>3 DEF WriteBacking
    <2>2. QED
      BY <1>3, <2>1, EnsureType, CopyRangeType
  <1>4. QED
    BY <1>1, <1>2, <1>3

-----------------------------------------------------------------------------
(* Programming and erasing                                                 *)

\* What every operation on the array does, seen from outside: the change is
\* confined to a range S that was handed to write_backing_range, and the
\* sector map stays sound.
ArrayChange ==
  /\ data' \in [Offsets -> Bytes]
  /\ erased' \in [Sectors(params.sector_size) -> BOOLEAN]
  /\ \A o \in Offsets :
       erased'[SectorOf(params.sector_size, o)] => data'[o] = Erased
  /\ \E S \in SUBSET Offsets :
       /\ \A o \in Offsets \ S : data'[o] = data[o]
       /\ backing' \in WriteBacking(backing, data', S)

LEMMA EraseSectorStep ==
  ASSUME TypeOK, SectorMapSound, NEW o \in Offsets, EraseSector(o)
  PROVE  ArrayChange /\ mode' = "read_status" /\ pending' = "none"
  <1> DEFINE ss == params.sector_size
             S == SectorBytes(ss, SectorOf(ss, o))
  <1>0. mode' = "read_status" /\ pending' = "none"
    BY DEF EraseSector
  <1>1. CASE erased[SectorOf(ss, o)]
    <2>1. UNCHANGED <<data, erased, backing>>
      BY <1>1 DEF EraseSector
    <2>2. backing' \in WriteBacking(backing, data', {})
      BY <2>1 DEF WriteBacking
    <2>3. QED
      BY <1>0, <2>1, <2>2 DEF TypeOK, SectorMapSound, ArrayChange
  <1>2. CASE ~ erased[SectorOf(ss, o)]
    <2>1. /\ data' = [x \in Offsets |-> IF x \in S THEN Erased ELSE data[x]]
          /\ erased' = [erased EXCEPT ![SectorOf(ss, o)] = TRUE]
          /\ backing' \in WriteBacking(backing, data', S)
      BY <1>2 DEF EraseSector
    <2>2. S \in SUBSET Offsets
      BY DEF SectorBytes
    <2>3. data' \in [Offsets -> Bytes]
      BY <2>1 DEF TypeOK, Bytes, Erased
    <2>4. erased' \in [Sectors(ss) -> BOOLEAN]
      BY <2>1 DEF TypeOK
    <2>5. ASSUME NEW x \in Offsets, erased'[SectorOf(ss, x)]
          PROVE  data'[x] = Erased
      <3>1. SectorOf(ss, x) \in Sectors(ss)
        BY SectorInMap
      <3>2. CASE SectorOf(ss, x) = SectorOf(ss, o)
        BY <2>1, <3>2 DEF SectorBytes
      <3>3. CASE SectorOf(ss, x) # SectorOf(ss, o)
        <4>1. erased[SectorOf(ss, x)]
          BY <2>1, <2>5, <3>1, <3>3 DEF TypeOK
        <4>2. data[x] = Erased
          BY <4>1 DEF SectorMapSound
        <4>3. QED
          BY <2>1, <4>2
      <3>4. QED
        BY <3>2, <3>3
    <2>6. \A x \in Offsets \ S : data'[x] = data[x]
      BY <2>1
    <2>7. QED
      BY <1>0, <2>1, <2>2, <2>3, <2>4, <2>5, <2>6 DEF ArrayChange
  <1>3. QED
    BY <1>1, <1>2

LEMMA ProgramBytesStep ==
  ASSUME TypeOK, SectorMapSound, NEW o \in Offsets, NEW p, Len(p) \in Nat,
         \A i \in 1 .. Len(p) : p[i] \in Bytes, InRange(o, p),
         ProgramBytes(o, p)
  PROVE  ArrayChange /\ mode' = "read_status" /\ pending' = "none"
  <1> DEFINE ss == params.sector_size
             d == [x \in Offsets |-> IF x \in Covered(o, p)
                                     THEN Programmed(data[x], p[x - o + 1])
                                     ELSE data[x]]
             C == {x \in Covered(o, p) : d[x] # data[x]}
  <1>0. mode' = "read_status" /\ pending' = "none"
    BY DEF ProgramBytes
  <1>1. /\ data' = d
        /\ erased' = MarkProgrammed(erased, d, Hull(C))
        /\ backing' \in WriteBacking(backing, d, Hull(C))
    BY DEF ProgramBytes
  <1>2. Covered(o, p) \in SUBSET Offsets
    BY ConstAssumption DEF Covered, InRange, Offsets
  <1>3. d \in [Offsets -> Bytes]
    <2>1. ASSUME NEW x \in Offsets, x \in Covered(o, p)
          PROVE  Programmed(data[x], p[x - o + 1]) \in Bytes
      <3>1. data[x] \in Bytes
        BY DEF TypeOK
      <3>2. QED
        BY <3>1 DEF Programmed, Bytes, Erased
    <2>2. QED
      BY <2>1 DEF TypeOK
  <1> HIDE DEF d
  <1>4. C \in SUBSET Offsets
    BY <1>2
  <1>5. Hull(C) \in SUBSET Offsets /\ C \subseteq Hull(C)
    BY <1>4, HullFacts
  <1>6. \A x \in Offsets \ Hull(C) : d[x] = data[x]
    BY <1>5 DEF d
  <1> HIDE DEF C
  <1>7. erased' \in [Sectors(ss) -> BOOLEAN]
    BY <1>1 DEF MarkProgrammed, TypeOK
  <1>8. ASSUME NEW x \in Offsets, erased'[SectorOf(ss, x)]
        PROVE  d[x] = Erased
    <2>1. SectorOf(ss, x) \in DOMAIN erased
      BY SectorInMap DEF TypeOK
    <2>2. /\ erased[SectorOf(ss, x)]
          /\ x \in Hull(C) => d[x] = Erased
      BY <1>1, <1>8, <2>1 DEF MarkProgrammed
    <2>3. QED
      BY <1>6, <2>2 DEF SectorMapSound
  <1>9. QED
    BY <1>0, <1>1, <1>3, <1>5, <1>6, <1>7, <1>8 DEF ArrayChange

LEMMA ProgramStep ==
  ASSUME TypeOK, SectorMapSound, NEW o \in Offsets, NEW p, Len(p) \in Nat,
         \A i \in 1 .. Len(p) : p[i] \in Bytes, InRange(o, p),
         Program(o, p)
  PROVE  ArrayChange /\ mode' = "read_status" /\ pending' = "none"
  BY EraseSectorStep, ProgramBytesStep DEF Program

-----------------------------------------------------------------------------
(* Types, sector map and write buffer are preserved by every step.         *)

CoreInv == TypeOK /\ SectorMapSound /\ BufferFresh

LEMMA PayloadFacts ==
  ASSUME NEW p \in Payloads
  PROVE  Len(p) \in Nat /\ \A i \in 1 .. Len(p) : p[i] \in Bytes
  BY ConstAssumption

LEMMA ErasedByte == Erased \in Bytes /\ [o \in Offsets |-> Erased] \in [Offsets -> Bytes]
  BY DEF Erased, Bytes

LEMMA RebuiltMapSound ==
  ASSUME NEW d, NEW ss
  PROVE  /\ RebuiltMap(d, ss) \in [Sectors(ss) -> BOOLEAN]
         /\ \A o \in Offsets :
              RebuiltMap(d, ss)[SectorOf(ss, o)] => d[o] = Erased
  <1>1. RebuiltMap(d, ss) \in [Sectors(ss) -> BOOLEAN]
    BY DEF RebuiltMap
  <1>2. ASSUME NEW o \in Offsets, RebuiltMap(d, ss)[SectorOf(ss, o)]
        PROVE  d[o] = Erased
    BY <1>2, SectorInMap DEF RebuiltMap, SectorBytes
  <1>3. QED
    BY <1>1, <1>2

\* An array change that keeps the parameters keeps types and map.
LEMMA ArrayChangeCore ==
  ASSUME CoreInv, ArrayChange, params' = params, grants' \in SUBSET Grants,
         mode' \in Modes, pending' \in Pendings
  PROVE  /\ data' \in [Offsets -> Bytes]
         /\ erased' \in [Sectors(params'.sector_size) -> BOOLEAN]
         /\ backing' \in Backings
         /\ params' \in Params
         /\ SectorMapSound'
  <1>1. PICK S \in SUBSET Offsets : backing' \in WriteBacking(backing, data', S)
    BY DEF ArrayChange
  <1>2. backing \in Backings /\ params \in Params
    BY DEF CoreInv, TypeOK
  <1>3. data' \in [Offsets -> Bytes]
    BY DEF ArrayChange
  <1>4. backing' \in Backings
    BY <1>1, <1>2, <1>3, WriteBackingType
  <1>5. SectorMapSound'
    BY DEF ArrayChange, SectorMapSound
  <1>6. QED
    BY <1>2, <1>3, <1>4, <1>5 DEF ArrayChange

LEMMA ClearWriteBufferCore ==
  ASSUME ClearWriteBuffer
  PROVE  /\ wbase' \in Offsets /\ wlen' \in 0 .. Size
         /\ wbytes' \in [Offsets -> Bytes] /\ written' \in SUBSET Offsets
         /\ wlen' = 0 /\ wbase' + wlen' <= Size /\ written' = {}
  BY ConstAssumption, ErasedByte DEF ClearWriteBuffer, Offsets

LEMMA CoreInit == Init => CoreInv
  <1> SUFFICES ASSUME Init PROVE CoreInv
    OBVIOUS
  <1>1. PICK fs \in [Files -> Images] :
          backing = [files |-> fs, opened |-> NoFile, dirty |-> {}, since |-> 0]
    BY DEF Init
  <1>2. fs \in [Files -> [Offsets -> Bytes]]
    BY ConstAssumption
  <1>3. backing \in Backings
    BY <1>1, <1>2, ConstAssumption DEF Backings
  <1>4. data \in [Offsets -> Bytes]
    BY <1>1, <1>2, ConstAssumption, ErasedByte DEF Init, ImageOf
  <1>5. /\ erased \in [Sectors(params.sector_size) -> BOOLEAN]
        /\ SectorMapSound
    BY RebuiltMapSound DEF Init, SectorMapSound
  <1>6. /\ mode \in Modes /\ pending \in Pendings /\ params \in Params
        /\ grants \in SUBSET Grants /\ wbase \in Offsets
        /\ wlen \in 0 .. Size /\ written \in SUBSET Offsets
    BY ConstAssumption DEF Init, Modes, Pendings, Offsets
  <1>7. wbytes \in [Offsets -> Bytes]
    BY ErasedByte DEF Init
  <1>8. BufferFresh
    BY ConstAssumption DEF Init, BufferFresh
  <1>9. QED
    BY <1>3, <1>4, <1>5, <1>6, <1>7, <1>8 DEF CoreInv, TypeOK

LEMMA CoreWriteProgram ==
  ASSUME CoreInv, NEW o \in Offsets, NEW p \in Payloads, WriteProgram(o, p)
  PROVE  CoreInv'
  <1>1. /\ ArrayChange /\ mode' = "read_status" /\ pending' = "none"
        /\ params' = params /\ grants' = grants
        /\ UNCHANGED <<wbase, wlen, wbytes, written>>
        /\ pending = "program"
    BY PayloadFacts, ProgramStep DEF CoreInv, WriteProgram
  <1>2. /\ data' \in [Offsets -> Bytes]
        /\ erased' \in [Sectors(params'.sector_size) -> BOOLEAN]
        /\ backing' \in Backings /\ params' \in Params /\ SectorMapSound'
    BY <1>1, ArrayChangeCore DEF CoreInv, TypeOK, Modes, Pendings
  <1>3. TypeOK'
    BY <1>1, <1>2 DEF CoreInv, TypeOK, Modes, Pendings
  <1>4. BufferFresh'
    BY <1>1 DEF CoreInv, BufferFresh, Buffer
  <1>5. QED
    BY <1>2, <1>3, <1>4 DEF CoreInv

LEMMA CoreWriteCount ==
  ASSUME CoreInv, NEW o \in Offsets, NEW n \in BufferCounts, WriteCount(o, n)
  PROVE  CoreInv'
  <1>1. UNCHANGED <<data, erased, params, backing, grants>>
    BY DEF WriteCount
  <1>2. n \in Nat \ {0} /\ o \in Nat /\ Size \in Nat
    BY ConstAssumption DEF Offsets
  <1>3. SectorMapSound'
    BY <1>1 DEF CoreInv, SectorMapSound
  <1>4. CASE o + n > Size
    <2>1. ClearWriteBuffer /\ pending' = "none" /\ mode' = "read_status"
      BY <1>4 DEF WriteCount
    <2>2. TypeOK'
      BY <1>1, <2>1, ClearWriteBufferCore DEF CoreInv, TypeOK, Modes, Pendings
    <2>3. BufferFresh'
      BY <2>1, ClearWriteBufferCore DEF BufferFresh
    <2>4. QED
      BY <1>3, <2>2, <2>3 DEF CoreInv
  <1>5. CASE ~ (o + n > Size)
    <2>1. /\ wbase' = o /\ wlen' = n /\ written' = {}
          /\ wbytes' = [x \in Offsets |-> Erased]
          /\ pending' = "write_buffer_data" /\ mode' = "read_status"
      BY <1>5 DEF WriteCount
    <2>2. wlen' \in 0 .. Size
      BY <1>2, <1>5, <2>1
    <2>3. TypeOK'
      BY <1>1, <2>1, <2>2, ErasedByte DEF CoreInv, TypeOK, Modes, Pendings
    <2>4. BufferFresh'
      BY <1>2, <1>5, <2>1 DEF BufferFresh
    <2>5. QED
      BY <1>3, <2>3, <2>4 DEF CoreInv
  <1>6. QED
    BY <1>4, <1>5

\* The confirmed buffer is a well-typed payload that lies in the flash.
LEMMA ConfirmBufferPayload ==
  ASSUME CoreInv, ConfirmBuffer
  PROVE  LET p == [i \in 1 .. wlen |-> wbytes[wbase + i - 1]]
         IN  /\ wbase \in Offsets /\ Len(p) = wlen /\ Len(p) \in Nat
             /\ \A i \in 1 .. Len(p) : p[i] \in Bytes
             /\ InRange(wbase, p) /\ Program(wbase, p)
             /\ ClearWriteBuffer /\ UNCHANGED <<params, grants>>
  <1> DEFINE p == [i \in 1 .. wlen |-> wbytes[wbase + i - 1]]
  <1>1. /\ wlen \in Nat /\ wbase \in Offsets /\ wbase + wlen <= Size
        /\ wbytes \in [Offsets -> Bytes] /\ Size \in Nat /\ wbase \in Nat
    BY ConstAssumption DEF CoreInv, TypeOK, BufferFresh, Offsets
  <1>2. \A i \in 1 .. wlen : wbytes[wbase + i - 1] \in Bytes
    BY <1>1 DEF Offsets
  <1>3. p \in Seq(Bytes) /\ Len(p) = wlen
    BY <1>1, <1>2
  <1>4. InRange(wbase, p)
    BY <1>1, <1>3 DEF InRange
  <1>5. \A i \in 1 .. Len(p) : p[i] \in Bytes
    BY <1>2, <1>3
  <1>6. Program(wbase, p) /\ ClearWriteBuffer /\ UNCHANGED <<params, grants>>
    BY DEF ConfirmBuffer
  <1>7. wbase \in Offsets /\ Len(p) = wlen /\ Len(p) \in Nat
    BY <1>1, <1>3
  <1>8. QED
    BY <1>4, <1>5, <1>6, <1>7, Zenon

LEMMA ConfirmBufferStep ==
  ASSUME CoreInv, ConfirmBuffer
  PROVE  /\ ArrayChange /\ mode' = "read_status" /\ pending' = "none"
         /\ ClearWriteBuffer /\ UNCHANGED <<params, grants>>
  <1> DEFINE p == [i \in 1 .. wlen |-> wbytes[wbase + i - 1]]
  <1>1. /\ wbase \in Offsets /\ Len(p) \in Nat
        /\ \A i \in 1 .. Len(p) : p[i] \in Bytes
        /\ InRange(wbase, p) /\ Program(wbase, p)
        /\ ClearWriteBuffer /\ UNCHANGED <<params, grants>>
    BY ConfirmBufferPayload
  <1> HIDE DEF p
  <1>2. QED
    BY <1>1, ProgramStep DEF CoreInv

LEMMA CoreConfirmBuffer ==
  ASSUME CoreInv, ConfirmBuffer
  PROVE  CoreInv'
  <1>1. /\ ArrayChange /\ mode' = "read_status" /\ pending' = "none"
        /\ ClearWriteBuffer /\ UNCHANGED <<params, grants>>
    BY ConfirmBufferStep
  <1>2. /\ data' \in [Offsets -> Bytes]
        /\ erased' \in [Sectors(params'.sector_size) -> BOOLEAN]
        /\ backing' \in Backings /\ params' \in Params /\ SectorMapSound'
    BY <1>1, ArrayChangeCore DEF CoreInv, TypeOK, Modes, Pendings
  <1>3. TypeOK'
    BY <1>1, <1>2, ClearWriteBufferCore
       DEF CoreInv, TypeOK, Modes, Pendings
  <1>4. BufferFresh'
    BY <1>1, ClearWriteBufferCore DEF BufferFresh
  <1>5. QED
    BY <1>2, <1>3, <1>4 DEF CoreInv

LEMMA CoreWriteBufferData ==
  ASSUME CoreInv, NEW o \in Offsets, NEW p \in Payloads, WriteBufferData(o, p)
  PROVE  CoreInv'
  <1>1. UNCHANGED <<data, erased, params, backing, grants>>
    BY DEF WriteBufferData
  <1>2. SectorMapSound'
    BY <1>1 DEF CoreInv, SectorMapSound
  <1>3. CASE o \in Buffer
    <2>1. /\ wbytes' = [x \in Offsets |-> IF x \in Buffer \cap Covered(o, p)
                                          THEN p[x - o + 1] ELSE wbytes[x]]
          /\ written' = written \cup (Buffer \cap Covered(o, p))
          /\ mode' = "read_status"
          /\ UNCHANGED <<wbase, wlen, pending>>
      BY <1>3 DEF WriteBufferData
    <2>2. \A x \in Covered(o, p) : p[x - o + 1] \in Bytes
      BY PayloadFacts DEF Covered, Offsets
    <2>3. wbytes' \in [Offsets -> Bytes]
      BY <2>1, <2>2 DEF CoreInv, TypeOK
    <2>4. Buffer \subseteq Offsets
      BY ConstAssumption DEF CoreInv, TypeOK, BufferFresh, Buffer, Offsets
    <2>5. TypeOK'
      BY <1>1, <2>1, <2>3, <2>4 DEF CoreInv, TypeOK, Modes
    <2>6. BufferFresh'
      BY <2>1 DEF CoreInv, BufferFresh, Buffer
    <2>7. QED
      BY <1>2, <2>5, <2>6 DEF CoreInv
  <1>4. CASE o \notin Buffer
    <2>1. ClearWriteBuffer /\ pending' = "none" /\ mode' = mode
      BY <1>4 DEF WriteBufferData
    <2>2. TypeOK'
      BY <1>1, <2>1, ClearWriteBufferCore DEF CoreInv, TypeOK, Pendings
    <2>3. BufferFresh'
      BY <2>1, ClearWriteBufferCore DEF BufferFresh
    <2>4. QED
      BY <1>2, <2>2, <2>3 DEF CoreInv
  <1>5. QED
    BY <1>3, <1>4

LEMMA CoreWriteCommand ==
  ASSUME CoreInv, NEW o \in Offsets, NEW c, WriteCommand(o, c)
  PROVE  CoreInv'
  <1>1. params' = params /\ grants' \in SUBSET Grants
        /\ pending \in {"none", "erase", "lock"}
    BY DEF WriteCommand, InvalidateDmi, CoreInv, TypeOK
  <1>2. CASE ConfirmErase(o, c)
    <2>1. /\ ArrayChange /\ mode' = "read_status" /\ pending' = "none"
          /\ UNCHANGED <<wbase, wlen, wbytes, written>>
      BY <1>2, EraseSectorStep DEF ConfirmErase, CoreInv
    <2>2. /\ data' \in [Offsets -> Bytes]
          /\ erased' \in [Sectors(params'.sector_size) -> BOOLEAN]
          /\ backing' \in Backings /\ params' \in Params /\ SectorMapSound'
      BY <1>1, <2>1, ArrayChangeCore DEF Modes, Pendings
    <2>3. TypeOK'
      BY <1>1, <2>1, <2>2 DEF CoreInv, TypeOK, Modes, Pendings
    <2>4. BufferFresh'
      BY <1>1, <2>1 DEF CoreInv, BufferFresh, Buffer
    <2>5. QED
      BY <2>2, <2>3, <2>4 DEF CoreInv
  <1>3. CASE ConfirmLock(c)
    <2>1. /\ UNCHANGED <<data, erased, backing, wbase, wlen, wbytes, written>>
          /\ mode' = "read_status" /\ pending' = "none"
      BY <1>3 DEF ConfirmLock
    <2>2. QED
      BY <1>1, <2>1 DEF CoreInv, TypeOK, SectorMapSound, BufferFresh, Buffer,
                        Modes, Pendings
  <1>4. CASE PlainCommand(c)
    <2>1. /\ UNCHANGED <<data, erased, backing>>
          /\ mode' \in Modes
          /\ pending' \in Pendings /\ pending' # "write_buffer_data"
          /\ ClearWriteBuffer \/ UNCHANGED <<wbase, wlen, wbytes, written>>
      BY <1>4 DEF PlainCommand, Dispatch, Modes, Pendings, CoreInv, TypeOK
    <2>2. SectorMapSound'
      BY <1>1, <2>1 DEF CoreInv, SectorMapSound
    <2>3. TypeOK'
      BY <1>1, <2>1, ClearWriteBufferCore DEF CoreInv, TypeOK
    <2>4. BufferFresh'
      BY <1>1, <2>1, ClearWriteBufferCore DEF CoreInv, BufferFresh, Buffer
    <2>5. QED
      BY <2>2, <2>3, <2>4 DEF CoreInv
  <1>5. QED
    BY <1>2, <1>3, <1>4 DEF WriteCommand

LEMMA CoreGetDirectMemPtr ==
  ASSUME CoreInv, NEW r \in DmiRanges, GetDirectMemPtr(r)
  PROVE  CoreInv'
  <1>1. UNCHANGED <<data, mode, pending, wbase, wlen, wbytes, written, erased,
                    params>>
    BY DEF GetDirectMemPtr
  <1>2. backing \in Backings /\ params \in Params /\ data \in [Offsets -> Bytes]
    BY DEF CoreInv, TypeOK
  <1>3. PICK b \in FlushDeferred(backing, data) :
          IF params.path = NoFile
          THEN /\ backing' = b
               /\ grants' = grants \cup {[src |-> ARRAY, range |-> r]}
          ELSE \E c \in EnsureBacking(b, data) :
                 /\ backing' = c
                 /\ grants' = grants \cup
                      {[src |-> IF CanWrite(c, r) THEN params.path ELSE ARRAY,
                        range |-> r]}
    BY DEF GetDirectMemPtr
  <1>4. b \in Backings
    BY <1>2, FlushType
  <1>5. backing' \in Backings
    BY <1>2, <1>3, <1>4, EnsureType
  <1>6. params.path \in Files \cup {NoFile}
    BY <1>2 DEF Params
  <1>7. grants' \in SUBSET Grants
    BY <1>3, <1>6 DEF Grants, CoreInv, TypeOK
  <1>8. QED
    BY <1>1, <1>5, <1>7
       DEF CoreInv, TypeOK, SectorMapSound, BufferFresh, Buffer

LEMMA CoreParams ==
  ASSUME CoreInv,
         SetEnableDmi \/ SetCompat \/ SetDefer \/ SetInterval \/ SetBackingFile
  PROVE  CoreInv'
  <1>1. /\ UNCHANGED <<flashVars, erased, grants>>
        /\ backing' \in FlushDeferred(backing, data) \cup {backing}
    BY DEF SetEnableDmi, SetCompat, SetDefer, SetInterval, SetBackingFile
  <1>2. backing' \in Backings
    BY <1>1, FlushType DEF CoreInv, TypeOK
  <1>3. params' \in Params /\ params'.sector_size = params.sector_size
    BY ConstAssumption
       DEF SetEnableDmi, SetCompat, SetDefer, SetInterval, SetBackingFile,
           CoreInv, TypeOK, Params
  <1>4. QED
    BY <1>1, <1>2, <1>3
       DEF flashVars, CoreInv, TypeOK, SectorMapSound, BufferFresh, Buffer

LEMMA CoreSetSectorSize ==
  ASSUME CoreInv, SetSectorSize
  PROVE  CoreInv'
  <1>1. PICK ss \in SectorSizes :
          /\ params' = [params EXCEPT !.sector_size = ss]
          /\ erased' = RebuiltMap(data, ss)
    BY DEF SetSectorSize
  <1>2. params' \in Params /\ params'.sector_size = ss
    BY <1>1 DEF CoreInv, TypeOK, Params
  <1>3. UNCHANGED <<flashVars, backing, grants>>
    BY DEF SetSectorSize
  <1>4. /\ erased' \in [Sectors(ss) -> BOOLEAN]
        /\ \A o \in Offsets : erased'[SectorOf(ss, o)] => data[o] = Erased
    BY <1>1, RebuiltMapSound
  <1>5. SectorMapSound'
    BY <1>2, <1>3, <1>4 DEF SectorMapSound, flashVars
  <1>6. QED
    BY <1>2, <1>3, <1>4, <1>5
       DEF flashVars, CoreInv, TypeOK, BufferFresh, Buffer

LEMMA CoreLoadImage ==
  ASSUME CoreInv, NEW o \in Offsets, NEW p \in Payloads, LoadImage(o, p)
  PROVE  CoreInv'
  <1> DEFINE ss == params.sector_size
  <1>1. /\ data' = [x \in Offsets |-> IF x \in Covered(o, p) THEN p[x - o + 1]
                                                             ELSE data[x]]
        /\ erased' = [s \in DOMAIN erased |->
                        IF \E x \in Covered(o, p) : SectorOf(ss, x) = s
                        THEN RebuiltMap(data', ss)[s]
                        ELSE erased[s]]
        /\ UNCHANGED <<mode, pending, wbase, wlen, wbytes, written, params,
                       backing, grants>>
    BY DEF LoadImage
  <1>2. \A x \in Covered(o, p) : p[x - o + 1] \in Bytes
    BY PayloadFacts DEF Covered, Offsets
  <1>3. data' \in [Offsets -> Bytes]
    BY <1>1, <1>2 DEF CoreInv, TypeOK
  <1>4. /\ RebuiltMap(data', ss) \in [Sectors(ss) -> BOOLEAN]
        /\ \A x \in Offsets :
             RebuiltMap(data', ss)[SectorOf(ss, x)] => data'[x] = Erased
    BY RebuiltMapSound
  <1>5. DOMAIN erased = Sectors(ss)
    BY DEF CoreInv, TypeOK
  <1>6. erased' \in [Sectors(ss) -> BOOLEAN]
    BY <1>1, <1>4, <1>5 DEF CoreInv, TypeOK
  <1>7. ASSUME NEW x \in Offsets, erased'[SectorOf(ss, x)]
        PROVE  data'[x] = Erased
    <2>1. SectorOf(ss, x) \in DOMAIN erased
      BY <1>5, SectorInMap
    <2>2. CASE \E y \in Covered(o, p) : SectorOf(ss, y) = SectorOf(ss, x)
      BY <1>1, <1>4, <1>7, <2>1, <2>2
    <2>3. CASE ~ \E y \in Covered(o, p) : SectorOf(ss, y) = SectorOf(ss, x)
      <3>1. x \notin Covered(o, p) /\ erased[SectorOf(ss, x)]
        BY <1>1, <1>7, <2>1, <2>3
      <3>2. QED
        BY <1>1, <3>1 DEF CoreInv, SectorMapSound
    <2>4. QED
      BY <2>2, <2>3
  <1>8. SectorMapSound'
    BY <1>1, <1>7 DEF SectorMapSound
  <1>9. QED
    BY <1>1, <1>3, <1>6, <1>8 DEF CoreInv, TypeOK, BufferFresh, Buffer

LEMMA CoreRestarted ==
  ASSUME CoreInv, NEW fs \in [Files -> [Offsets -> Bytes]], Restarted(fs)
  PROVE  CoreInv'
  <1>1. data' \in [Offsets -> Bytes]
    BY ConstAssumption, ErasedByte DEF Restarted, ImageOf
  <1>2. params' = params /\ params \in Params
    BY DEF Restarted, CoreInv, TypeOK
  <1>3. /\ erased' \in [Sectors(params'.sector_size) -> BOOLEAN]
        /\ SectorMapSound'
    BY <1>2, RebuiltMapSound DEF Restarted, SectorMapSound
  <1>4. backing' \in Backings
    BY ConstAssumption DEF Restarted, Backings
  <1>5. /\ mode' \in Modes /\ pending' = "none" /\ grants' = {}
        /\ ClearWriteBuffer
    BY DEF Restarted, Modes
  <1>6. TypeOK'
    BY <1>1, <1>2, <1>3, <1>4, <1>5, ClearWriteBufferCore DEF TypeOK, Pendings
  <1>7. BufferFresh'
    BY <1>5, ClearWriteBufferCore DEF BufferFresh
  <1>8. QED
    BY <1>3, <1>6, <1>7 DEF CoreInv

LEMMA CoreRestart ==
  ASSUME CoreInv, Crash \/ Destroy
  PROVE  CoreInv'
  <1>1. PICK b \in {backing} \cup FlushDeferred(backing, data) :
          Restarted(b.files)
    BY DEF Crash, Destroy
  <1>2. b \in Backings
    BY <1>1, FlushType DEF CoreInv, TypeOK
  <1>3. b.files \in [Files -> [Offsets -> Bytes]]
    BY <1>2 DEF Backings
  <1>4. QED
    BY <1>1, <1>3, CoreRestarted

LEMMA CoreStep == CoreInv /\ [Next]_vars => CoreInv'
  <1> SUFFICES ASSUME CoreInv, [Next]_vars PROVE CoreInv'
    OBVIOUS
  <1>1. CASE Write
    BY <1>1, CoreWriteProgram, CoreWriteBufferData, CoreWriteCount,
       CoreWriteCommand DEF Write
  <1>2. CASE ConfirmBuffer
    BY <1>2, CoreConfirmBuffer
  <1>3. CASE \E r \in DmiRanges : GetDirectMemPtr(r)
    BY <1>3, CoreGetDirectMemPtr
  <1>4. CASE SetEnableDmi \/ SetCompat \/ SetDefer \/ SetInterval
             \/ SetBackingFile
    BY <1>4, CoreParams
  <1>5. CASE SetSectorSize
    BY <1>5, CoreSetSectorSize
  <1>6. CASE \E o \in Offsets, p \in Payloads : LoadImage(o, p)
    BY <1>6, CoreLoadImage
  <1>7. CASE Crash \/ Destroy
    BY <1>7, CoreRestart
  <1>8. CASE UNCHANGED vars
    BY <1>8 DEF vars, CoreInv, TypeOK, SectorMapSound, BufferFresh, Buffer
  <1>9. QED
    BY <1>1, <1>2, <1>3, <1>4, <1>5, <1>6, <1>7, <1>8 DEF Next

\* In every reachable state the flash is well typed, for every size, payload
\* set, file length and pattern of open failures.
THEOREM TypeCorrect == Spec => []TypeOK
  <1>1. CoreInv => TypeOK
    BY DEF CoreInv
  <1>2. QED
    BY <1>1, CoreInit, CoreStep, PTL DEF Spec

\* The sector map never calls a programmed sector erased, whatever commands,
\* images, sector sizes, compatibility switches and restarts occur: skipping
\* an erase in erase_sector is always right.
THEOREM SectorMapIsSound == Spec => []SectorMapSound
  <1>1. CoreInv => SectorMapSound
    BY DEF CoreInv
  <1>2. QED
    BY <1>1, CoreInit, CoreStep, PTL DEF Spec

\* The write buffer exists only while its data is awaited and never reaches
\* past the end of the flash.
THEOREM BufferIsFresh == Spec => []BufferFresh
  <1>1. CoreInv => BufferFresh
    BY DEF CoreInv
  <1>2. QED
    BY <1>1, CoreInit, CoreStep, PTL DEF Spec

-----------------------------------------------------------------------------
(* DMI grants and the command state                                        *)

\* The strengthening: a grant was made with the switch on, so the next
\* command does invalidate it.
DmiInv ==
  "enable_dmi" \notin Env =>
    (grants # {} => /\ mode = "read_array" /\ pending = "none"
                    /\ params.enable_dmi)

LEMMA DmiStep == TypeOK /\ DmiInv /\ [Next]_vars => DmiInv'
  <1> SUFFICES ASSUME TypeOK, DmiInv, [Next]_vars, "enable_dmi" \notin Env
               PROVE  grants' # {} => /\ mode' = "read_array"
                                      /\ pending' = "none"
                                      /\ params'.enable_dmi
    BY DEF DmiInv
  <1> USE DEF DmiInv
  <1>1. CASE Write
    <2>1. ASSUME NEW o \in Offsets, NEW p \in Payloads,
                 WriteProgram(o, p) \/ WriteBufferData(o, p)
          PROVE  grants' = {}
      BY <2>1 DEF WriteProgram, WriteBufferData
    <2>2. ASSUME NEW o \in Offsets, NEW n \in BufferCounts, WriteCount(o, n)
          PROVE  grants' = {}
      BY <2>2 DEF WriteCount
    <2>3. ASSUME NEW o \in Offsets, NEW c, WriteCommand(o, c)
          PROVE  grants' = {}
      BY <2>3 DEF WriteCommand, InvalidateDmi
    <2>4. QED
      BY <1>1, <2>1, <2>2, <2>3 DEF Write
  <1>2. CASE ConfirmBuffer
    BY <1>2 DEF ConfirmBuffer
  <1>3. CASE \E r \in DmiRanges : GetDirectMemPtr(r)
    BY <1>3 DEF GetDirectMemPtr
  <1>4. CASE SetEnableDmi
    BY <1>4 DEF SetEnableDmi
  <1>5. CASE SetCompat \/ SetDefer \/ SetInterval \/ SetBackingFile
    <2>1. UNCHANGED <<flashVars, grants>>
          /\ params'.enable_dmi = params.enable_dmi
      BY <1>5 DEF SetCompat, SetDefer, SetInterval, SetBackingFile, TypeOK,
                  Params
    <2>2. QED
      BY <2>1 DEF flashVars
  <1>6. CASE SetSectorSize
    BY <1>6 DEF SetSectorSize, flashVars, TypeOK, Params
  <1>7. CASE \E o \in Offsets, p \in Payloads : LoadImage(o, p)
    BY <1>7 DEF LoadImage
  <1>8. CASE Crash \/ Destroy
    BY <1>8 DEF Crash, Destroy, Restarted
  <1>9. CASE UNCHANGED vars
    BY <1>9 DEF vars
  <1>10. QED
    BY <1>1, <1>2, <1>3, <1>4, <1>5, <1>6, <1>7, <1>8, <1>9 DEF Next

\* Unless enable_dmi is rewritten, initiators hold DMI pointers only while
\* reads return the array: no command, buffer abort, parameter, image or
\* restart leaves a pointer behind.
THEOREM DmiIsOnlyInArrayMode == Spec => []DmiOnlyInArrayMode
  <1>1. Init => DmiInv
    BY DEF Init, DmiInv
  <1>2. DmiInv => DmiOnlyInArrayMode
    BY DEF DmiInv, DmiOnlyInArrayMode
  <1>3. QED
    BY <1>1, <1>2, TypeCorrect, DmiStep, PTL DEF Spec

-----------------------------------------------------------------------------
(* The backing file                                                        *)

\* The file agrees with d on T, up to the dirty range.
CohOn(b, d, T) ==
  \A o \in T : b.files[params.path][o] = d[o] \/ o \in b.dirty

LEMMA FlushCoherent ==
  ASSUME params \in Params, params.path # NoFile, FilesCover,
         NEW b \in Backings, NEW d \in [Offsets -> Bytes],
         NEW T \in SUBSET Offsets, CohOn(b, d, T),
         NEW c \in FlushDeferred(b, d)
  PROVE  /\ CohOn(c, d, T)
         /\ c.dirty \subseteq b.dirty
         /\ ~OpenMayFail => \/ c.dirty = {} /\ c.since = 0
                            \/ c = b /\ b.dirty = {}
  <1>1. CASE b.dirty = {}
    BY <1>1 DEF FlushDeferred
  <1>2. CASE b.dirty # {}
    <2>1. PICK e \in OpenPath(b) : c = FlushResult(e, d)
      BY <1>2 DEF FlushDeferred
    <2>2. /\ e \in Backings /\ e.files = b.files /\ e.dirty = b.dirty
          /\ ~OpenMayFail => e.opened = params.path
      BY <2>1, OpenPathType
    <2>3. b.dirty \in SUBSET Offsets
      BY DEF Backings
    <2>4. /\ \A o \in Offsets : c.files[params.path][o]
                                  \in {e.files[params.path][o], d[o]}
          /\ \A o \in e.dirty : o \in c.dirty \/ c.files[params.path][o] = d[o]
          /\ c = e \/ (c.dirty = {} /\ c.since = 0)
          /\ CanWrite(e, e.dirty) => c.dirty = {} /\ c.since = 0
      BY <2>1, <2>2, FlushResultType
    <2>5. Fits(b.dirty)
      BY <2>3, ConstAssumption DEF Fits, FilesCover, Offsets, Params
    <2>6. ~OpenMayFail => c.dirty = {} /\ c.since = 0
      BY <2>2, <2>4, <2>5 DEF CanWrite
    <2>7. CohOn(c, d, T)
      BY <2>2, <2>4 DEF CohOn
    <2>8. QED
      BY <2>2, <2>4, <2>6, <2>7
  <1>3. QED
    BY <1>1, <1>2

LEMMA EnsureCoherent ==
  ASSUME params \in Params, params.path # NoFile, FilesCover,
         NEW b \in Backings, NEW d \in [Offsets -> Bytes],
         NEW T \in SUBSET Offsets, CohOn(b, d, T),
         NEW c \in EnsureBacking(b, d)
  PROVE  /\ CohOn(c, d, T)
         /\ c.dirty \subseteq b.dirty
         /\ ~OpenMayFail => c.opened = params.path
         /\ ~OpenMayFail => \/ c.dirty = {} /\ c.since = 0
                            \/ c.dirty = b.dirty /\ c.since = b.since
  <1>1. CASE b.opened = params.path
    BY <1>1 DEF EnsureBacking
  <1>2. CASE b.opened # params.path
    <2>1. PICK e \in FlushDeferred(b, d) :
            c \in OpenPath([e EXCEPT !.opened = NoFile])
      BY <1>2 DEF EnsureBacking
    <2>2. /\ CohOn(e, d, T) /\ e.dirty \subseteq b.dirty
          /\ ~OpenMayFail => \/ e.dirty = {} /\ e.since = 0
                             \/ e = b /\ b.dirty = {}
      BY <2>1, FlushCoherent
    <2>3. e \in Backings
      BY <2>1, FlushType
    <2> DEFINE g == [e EXCEPT !.opened = NoFile]
    <2>4. /\ g \in Backings /\ g.files = e.files /\ g.dirty = e.dirty
          /\ g.since = e.since
      BY <2>3 DEF Backings
    <2>5. /\ c.files = g.files /\ c.dirty = g.dirty /\ c.since = g.since
          /\ ~OpenMayFail => c.opened = params.path
      BY <2>1, <2>4, OpenPathType
    <2> HIDE DEF g
    <2>6. QED
      BY <2>2, <2>4, <2>5 DEF CohOn
  <1>3. QED
    BY <1>1, <1>2

LEMMA WriteBackingCoherent ==
  ASSUME params \in Params, params.path # NoFile, FilesCover,
         OpenMayFail => params.defer,
         NEW b \in Backings, NEW S \in SUBSET Offsets,
         NEW d0 \in [Offsets -> Bytes], NEW d \in [Offsets -> Bytes],
         \A o \in Offsets \ S : d[o] = d0[o],
         CohOn(b, d0, Offsets), NEW c \in WriteBacking(b, d, S)
  PROVE  CohOn(c, d, Offsets)
  <1>1. CASE S = {}
    BY <1>1 DEF WriteBacking, CohOn
  <1>2. CASE S # {} /\ params.defer
    <2> DEFINE e == Deferred(b, S)
    <2>1. /\ e \in Backings /\ e.files = b.files
          /\ b.dirty \cup S \subseteq e.dirty
      BY DeferredType
    <2>2. c = e \/ c \in FlushDeferred(e, d)
      BY <1>2 DEF WriteBacking
    <2> HIDE DEF e
    <2>3. CohOn(e, d, Offsets)
      BY <2>1 DEF CohOn
    <2>4. QED
      BY <2>1, <2>2, <2>3, FlushCoherent
  <1>3. CASE S # {} /\ ~params.defer
    <2>1. PICK e \in EnsureBacking(b, d) : c = CopyRange(e, d, S)
      BY <1>3 DEF WriteBacking
    <2>2. CohOn(b, d, Offsets \ S)
      BY DEF CohOn
    <2>3. CohOn(e, d, Offsets \ S) /\ e.opened = params.path
      <3>1. ~OpenMayFail
        BY <1>3
      <3>2. QED
        BY <2>1, <2>2, <3>1, EnsureCoherent
    <2>4. e \in Backings
      BY <2>1, EnsureType
    <2>5. Fits(S)
      BY ConstAssumption DEF Fits, FilesCover, Offsets, Params
    <2>6. /\ \A o \in Offsets \ S : c.files[params.path][o] = e.files[params.path][o]
          /\ \A o \in S : c.files[params.path][o] = d[o]
          /\ c.dirty = e.dirty
      BY <2>1, <2>3, <2>4, <2>5, CopyRangeType DEF CanWrite
    <2>7. QED
      BY <2>3, <2>6 DEF CohOn
  <1>4. QED
    BY <1>1, <1>2, <1>3

\* The count of deferred changes stays under the flush interval.
Bounded(b) ==
  /\ params.interval # 0 => b.since < params.interval
  /\ b.dirty = {} => b.since = 0

LEMMA WriteBackingBounded ==
  ASSUME params \in Params, params.path # NoFile, FilesCover, ~OpenMayFail,
         NEW b \in Backings, NEW S \in SUBSET Offsets,
         NEW d \in [Offsets -> Bytes], Bounded(b),
         NEW c \in WriteBacking(b, d, S)
  PROVE  Bounded(c)
  <1>0. params.interval \in Nat
    BY ConstAssumption DEF Params
  <1>1. CASE S = {}
    BY <1>1 DEF WriteBacking
  <1>2. CASE S # {} /\ params.defer
    <2> DEFINE e == Deferred(b, S)
    <2>1. /\ e \in Backings
          /\ b.dirty \cup S \subseteq e.dirty
      BY DeferredType
    <2>2. \/ c = e /\ ~ (params.interval # 0 /\ e.since >= params.interval)
          \/ c \in FlushDeferred(e, d)
      BY <1>2 DEF WriteBacking
    <2> HIDE DEF e
    <2>3. e.dirty # {} /\ e.since \in Nat
      BY <1>2, <2>1, ConstAssumption DEF Backings
    <2>4. CASE c \in FlushDeferred(e, d)
      <3>1. CohOn(e, d, {})
        BY DEF CohOn
      <3>2. c.dirty = {} /\ c.since = 0
        BY <2>1, <2>3, <2>4, <3>1, FlushCoherent
      <3>3. QED
        BY <1>0, <3>2 DEF Bounded
    <2>5. CASE c = e /\ ~ (params.interval # 0 /\ e.since >= params.interval)
      BY <1>0, <2>3, <2>5 DEF Bounded
    <2>6. QED
      BY <2>2, <2>4, <2>5
  <1>3. CASE S # {} /\ ~params.defer
    <2>1. PICK e \in EnsureBacking(b, d) : c = CopyRange(e, d, S)
      BY <1>3 DEF WriteBacking
    <2>2. CohOn(b, d, {})
      BY DEF CohOn
    <2>3. \/ e.dirty = {} /\ e.since = 0
          \/ e.dirty = b.dirty /\ e.since = b.since
      BY <2>1, <2>2, EnsureCoherent
    <2>4. e \in Backings
      BY <2>1, EnsureType
    <2>5. c.dirty = e.dirty /\ c.since = e.since
      BY <2>1, <2>4, CopyRangeType
    <2>6. QED
      BY <1>0, <2>3, <2>5 DEF Bounded
  <1>4. QED
    BY <1>1, <1>2, <1>3

\* Pointers into the mapped file are pointers into the selected file, and
\* nothing is deferred while one is held.
GrantsClean ==
  (~OpenMayFail /\ "enable_dmi" \notin Env) =>
    \A g \in grants : g.src # ARRAY => g.src = params.path /\ backing.dirty = {}

BackInv ==
  Durable =>
    /\ params.path \in {NoFile, ImageFile}
    /\ params.path = NoFile => backing.dirty = {} /\ backing.since = 0
    /\ params.path # NoFile => CohOn(backing, data, Offsets)
    /\ ~OpenMayFail => Bounded(backing)
    /\ GrantsClean

LEMMA BackInit == Init => BackInv
  <1> SUFFICES ASSUME Init, Durable PROVE BackInv
    BY DEF BackInv
  <1>1. params.path \in {NoFile, ImageFile}
    BY ConstAssumption DEF Init
  <1>2. backing.dirty = {} /\ backing.since = 0 /\ grants = {}
    BY DEF Init
  <1>3. params.path # NoFile => CohOn(backing, data, Offsets)
    BY <1>1, ConstAssumption DEF Init, CohOn, ImageOf, Durable, FilesCover, Offsets
  <1>4. Bounded(backing)
    <2>1. params.interval \in Nat
      BY ConstAssumption DEF Init, Params
    <2>2. QED
      BY <1>2, <2>1 DEF Bounded
  <1>5. QED
    BY <1>1, <1>2, <1>3, <1>4 DEF BackInv, GrantsClean

\* A change of the array with the parameters kept and no pointer left.
LEMMA BackArrayChange ==
  ASSUME CoreInv, BackInv, ArrayChange, params' = params,
         (~OpenMayFail /\ "enable_dmi" \notin Env) => grants' = {}
  PROVE  BackInv'
  <1> SUFFICES ASSUME Durable PROVE BackInv'
    BY DEF BackInv
  <1>1. PICK S \in SUBSET Offsets :
          /\ \A o \in Offsets \ S : data'[o] = data[o]
          /\ backing' \in WriteBacking(backing, data', S)
    BY DEF ArrayChange
  <1>2. /\ params \in Params /\ backing \in Backings
        /\ data \in [Offsets -> Bytes] /\ data' \in [Offsets -> Bytes]
        /\ FilesCover
    BY DEF CoreInv, TypeOK, ArrayChange, Durable
  <1>3. GrantsClean'
    BY DEF GrantsClean
  <1>4. CASE params.path = NoFile
    <2>1. backing' = backing
      BY <1>1, <1>4 DEF WriteBacking
    <2>2. QED
      BY <1>3, <1>4, <2>1 DEF BackInv, Bounded
  <1>5. CASE params.path # NoFile
    <2>1. ASSUME OpenMayFail PROVE params.defer
      <3>1. params.defer \in DeferValues
        BY <1>2 DEF Params
      <3>2. DeferValues = {TRUE}
        BY <2>1 DEF Durable
      <3>3. QED
        BY <3>1, <3>2
    <2>2. CohOn(backing', data', Offsets)
      BY <1>1, <1>2, <1>5, <2>1, WriteBackingCoherent DEF BackInv
    <2>3. ~OpenMayFail => Bounded(backing')
      BY <1>1, <1>2, <1>5, WriteBackingBounded DEF BackInv
    <2>4. QED
      BY <1>3, <1>5, <2>2, <2>3 DEF BackInv, Bounded, CohOn
  <1>6. QED
    BY <1>4, <1>5

\* A step that keeps array and parameters, and at most flushes.
LEMMA BackQuiet ==
  ASSUME BackInv, data' = data, backing' = backing,
         params'.path = params.path, params'.interval = params.interval,
         grants' \subseteq grants
  PROVE  BackInv'
  BY DEF BackInv, GrantsClean, Bounded, CohOn

LEMMA BackFlush ==
  ASSUME CoreInv, BackInv, data' = data, params' \in Params,
         backing' \in FlushDeferred(backing, data),
         params'.path = params.path, grants' = grants
  PROVE  BackInv'
  <1> SUFFICES ASSUME Durable PROVE BackInv'
    BY DEF BackInv
  <1>1. /\ params \in Params /\ backing \in Backings
        /\ data \in [Offsets -> Bytes] /\ FilesCover
    BY DEF CoreInv, TypeOK, Durable
  <1>2. params'.interval \in Nat
    BY ConstAssumption DEF Params
  <1>3. CASE params.path = NoFile
    <2>1. backing' = backing
      BY <1>3 DEF FlushDeferred
    <2>2. QED
      BY <1>2, <1>3, <2>1 DEF BackInv, GrantsClean, Bounded
  <1>4. CASE params.path # NoFile
    <2>1. /\ CohOn(backing', data, Offsets)
          /\ backing'.dirty \subseteq backing.dirty
          /\ ~OpenMayFail => \/ backing'.dirty = {} /\ backing'.since = 0
                             \/ backing' = backing /\ backing.dirty = {}
      BY <1>1, <1>4, FlushCoherent DEF BackInv
    <2>2. ~OpenMayFail => backing'.since = 0
      BY <2>1 DEF BackInv, Bounded
    <2>3. (~OpenMayFail => Bounded(backing))'
      BY <1>2, <2>2 DEF Bounded
    <2>4. GrantsClean'
      BY <2>1 DEF BackInv, GrantsClean
    <2>5. CohOn(backing, data, Offsets)'
      BY <2>1 DEF CohOn
    <2>6. QED
      BY <1>4, <2>3, <2>4, <2>5 DEF BackInv
  <1>5. QED
    BY <1>3, <1>4

LEMMA BackGetDirectMemPtr ==
  ASSUME CoreInv, DmiInv, BackInv, NEW r \in DmiRanges, GetDirectMemPtr(r)
  PROVE  BackInv'
  <1> SUFFICES ASSUME Durable PROVE BackInv'
    BY DEF BackInv
  <1>1. /\ params \in Params /\ backing \in Backings
        /\ data \in [Offsets -> Bytes] /\ FilesCover
    BY DEF CoreInv, TypeOK, Durable
  <1>2. data' = data /\ params' = params
    BY DEF GetDirectMemPtr
  <1>3. CASE params.path = NoFile
    <2>1. backing' = backing
      BY <1>3 DEF GetDirectMemPtr, FlushDeferred
    <2>2. grants' = grants \cup {[src |-> ARRAY, range |-> r]}
      BY <1>3 DEF GetDirectMemPtr
    <2>3. GrantsClean'
      BY <1>2, <2>1, <2>2 DEF BackInv, GrantsClean
    <2>4. QED
      BY <1>2, <1>3, <2>1, <2>3 DEF BackInv, Bounded, CohOn
  <1>4. CASE params.path # NoFile
    <2>0. PICK b \in FlushDeferred(backing, data) :
            \E c \in EnsureBacking(b, data) :
              /\ backing' = c
              /\ grants' = grants \cup
                   {[src |-> IF CanWrite(c, r) THEN params.path ELSE ARRAY,
                     range |-> r]}
      BY <1>4 DEF GetDirectMemPtr
    <2>1. PICK c \in EnsureBacking(b, data) :
            /\ backing' = c
            /\ grants' = grants \cup
                 {[src |-> IF CanWrite(c, r) THEN params.path ELSE ARRAY,
                   range |-> r]}
      BY <2>0
    <2>2. /\ CohOn(b, data, Offsets)
          /\ b.dirty \subseteq backing.dirty
          /\ ~OpenMayFail => \/ b.dirty = {} /\ b.since = 0
                             \/ b = backing /\ backing.dirty = {}
      BY <1>1, <1>4, FlushCoherent DEF BackInv
    <2>3. b \in Backings
      BY <1>1, FlushType
    <2>4. ~OpenMayFail => b.dirty = {} /\ b.since = 0
      BY <2>2 DEF BackInv, Bounded
    <2>5. /\ CohOn(c, data, Offsets)
          /\ c.dirty \subseteq b.dirty
          /\ ~OpenMayFail => \/ c.dirty = {} /\ c.since = 0
                             \/ c.dirty = b.dirty /\ c.since = b.since
      BY <1>1, <1>4, <2>1, <2>2, <2>3, EnsureCoherent
    <2>6. ~OpenMayFail => c.dirty = {} /\ c.since = 0
      BY <2>4, <2>5
    <2>7. params.interval \in Nat
      BY <1>1, ConstAssumption DEF Params
    <2>8. (~OpenMayFail => Bounded(backing))'
      BY <1>2, <2>1, <2>6, <2>7 DEF Bounded
    <2>9. GrantsClean'
      BY <1>2, <2>1, <2>6 DEF BackInv, GrantsClean
    <2>10. CohOn(backing, data, Offsets)'
      BY <1>2, <2>1, <2>5 DEF CohOn
    <2>11. QED
      BY <1>2, <1>4, <2>8, <2>9, <2>10 DEF BackInv
  <1>5. QED
    BY <1>3, <1>4

\* A crash reloads a file that agrees with the flash outside the dirty
\* range; after a flush it agrees everywhere.
LEMMA BackRestarted ==
  ASSUME CoreInv, BackInv, NEW fs \in [Files -> [Offsets -> Bytes]],
         Restarted(fs)
  PROVE  BackInv'
  <1> SUFFICES ASSUME Durable PROVE BackInv'
    BY DEF BackInv
  <1>1. /\ params' = params /\ grants' = {}
        /\ backing' = [files |-> fs, opened |-> NoFile, dirty |-> {},
                       since |-> 0]
        /\ data' = ImageOf(fs, ImageFile)
    BY DEF Restarted
  <1>2. \A o \in Offsets : data'[o] = fs[ImageFile][o]
    BY <1>1, ConstAssumption DEF ImageOf, Durable, FilesCover, Offsets
  <1>3. params.path # NoFile => CohOn(backing, data, Offsets)'
    BY <1>1, <1>2 DEF BackInv, CohOn
  <1>4. params.interval \in Nat
    BY ConstAssumption DEF CoreInv, TypeOK, Params
  <1>5. Bounded(backing)'
    BY <1>1, <1>4 DEF Bounded
  <1>6. GrantsClean'
    BY <1>1 DEF GrantsClean
  <1>7. QED
    BY <1>1, <1>3, <1>5, <1>6 DEF BackInv

LEMMA BackRestart ==
  ASSUME CoreInv, BackInv, Crash \/ Destroy
  PROVE  BackInv'
  <1>1. PICK b \in {backing} \cup FlushDeferred(backing, data) :
          Restarted(b.files)
    BY DEF Crash, Destroy
  <1>2. b \in Backings
    BY <1>1, FlushType DEF CoreInv, TypeOK
  <1>3. b.files \in [Files -> [Offsets -> Bytes]]
    BY <1>2 DEF Backings
  <1>4. QED
    BY <1>1, <1>3, BackRestarted

LEMMA BackWrite ==
  ASSUME CoreInv, DmiInv, BackInv, Write \/ ConfirmBuffer
  PROVE  BackInv'
  <1>1. ASSUME NEW o \in Offsets, NEW p \in Payloads, WriteProgram(o, p)
        PROVE  BackInv'
    <2>1. ArrayChange /\ params' = params /\ grants' = grants
      BY <1>1, PayloadFacts, ProgramStep DEF CoreInv, WriteProgram
    <2>2. "enable_dmi" \notin Env => grants' = {}
      BY <1>1, <2>1 DEF DmiInv, WriteProgram
    <2>3. QED
      BY <2>1, <2>2, BackArrayChange
  <1>2. ASSUME NEW o \in Offsets, NEW p \in Payloads, WriteBufferData(o, p)
        PROVE  BackInv'
    BY <1>2, BackQuiet DEF WriteBufferData
  <1>3. ASSUME NEW o \in Offsets, NEW n \in BufferCounts, WriteCount(o, n)
        PROVE  BackInv'
    BY <1>3, BackQuiet DEF WriteCount
  <1>4. ASSUME NEW o \in Offsets, NEW c, WriteCommand(o, c)
        PROVE  BackInv'
    <2>1. /\ params' = params
          /\ grants' \subseteq grants
          /\ "enable_dmi" \notin Env => grants' = {}
      BY <1>4 DEF WriteCommand, InvalidateDmi, DmiInv
    <2>2. CASE ConfirmErase(o, c)
      <3>1. ArrayChange
        BY <2>2, EraseSectorStep DEF ConfirmErase, CoreInv
      <3>2. QED
        BY <2>1, <3>1, BackArrayChange
    <2>3. CASE ConfirmLock(c)
      BY <2>1, <2>3, BackQuiet DEF ConfirmLock
    <2>4. CASE PlainCommand(c)
      BY <2>1, <2>4, BackQuiet DEF PlainCommand, Dispatch
    <2>5. QED
      BY <1>4, <2>2, <2>3, <2>4 DEF WriteCommand
  <1>5. CASE ConfirmBuffer
    <2>1. ArrayChange /\ UNCHANGED <<params, grants>>
      BY <1>5, ConfirmBufferStep
    <2>2. "enable_dmi" \notin Env => grants' = {}
      BY <1>5, <2>1 DEF DmiInv, ConfirmBuffer
    <2>3. QED
      BY <2>1, <2>2, BackArrayChange
  <1>6. QED
    BY <1>1, <1>2, <1>3, <1>4, <1>5 DEF Write

LEMMA BackStep == CoreInv /\ DmiInv /\ BackInv /\ [Next]_vars => BackInv'
  <1> SUFFICES ASSUME CoreInv, DmiInv, BackInv, [Next]_vars PROVE BackInv'
    OBVIOUS
  <1>0. params \in Params
    BY DEF CoreInv, TypeOK
  <1>1. CASE Write \/ ConfirmBuffer
    BY <1>1, BackWrite
  <1>2. CASE \E r \in DmiRanges : GetDirectMemPtr(r)
    BY <1>2, BackGetDirectMemPtr
  <1>3. CASE SetEnableDmi \/ SetCompat \/ SetSectorSize
    <2>1. /\ data' = data /\ backing' = backing /\ grants' = grants
          /\ params'.path = params.path /\ params'.interval = params.interval
      BY <1>0, <1>3 DEF SetEnableDmi, SetCompat, SetSectorSize, flashVars,
                        Params
    <2>2. QED
      BY <2>1, BackQuiet
  <1>4. CASE SetDefer \/ SetInterval
    <2>1. /\ data' = data /\ backing' \in FlushDeferred(backing, data)
          /\ grants' = grants /\ params' \in Params
          /\ params'.path = params.path
      BY <1>0, <1>4 DEF SetDefer, SetInterval, flashVars, Params
    <2>2. QED
      BY <2>1, BackFlush
  <1>5. CASE SetBackingFile \/ \E o \in Offsets, p \in Payloads : LoadImage(o, p)
    BY <1>5 DEF SetBackingFile, LoadImage, BackInv, Durable
  <1>6. CASE Crash \/ Destroy
    BY <1>6, BackRestart
  <1>7. CASE UNCHANGED vars
    BY <1>7, BackQuiet DEF vars
  <1>8. QED
    BY <1>1, <1>2, <1>3, <1>4, <1>5, <1>6, <1>7 DEF Next

FullInv == CoreInv /\ DmiInv /\ BackInv

LEMMA FullInvariant == Spec => []FullInv
  <1>1. Init => DmiInv
    BY DEF Init, DmiInv
  <1>2. Init => FullInv
    BY <1>1, CoreInit, BackInit DEF FullInv
  <1>3. FullInv /\ [Next]_vars => FullInv'
    BY CoreStep, DmiStep, BackStep DEF FullInv, CoreInv
  <1>4. QED
    BY <1>2, <1>3, PTL DEF Spec

\* While one file that covers the flash is selected, each byte is in that
\* file or in the dirty range, whichever flushes and opens fail.
THEOREM BackingIsCoherent == Spec => []BackingCoherent
  <1>1. FullInv => BackingCoherent
    BY DEF FullInv, BackInv, BackingCoherent, CohOn
  <1>2. QED
    BY <1>1, FullInvariant, PTL

\* Fewer than flush_interval changes are ever deferred.
THEOREM FlushIsBounded == Spec => []FlushBound
  <1>1. FullInv => FlushBound
    BY DEF FullInv, BackInv, FlushBound, Bounded
  <1>2. QED
    BY <1>1, FullInvariant, PTL

\* A DMI read returns what a transaction would.
THEOREM DmiIsTransparent == Spec => []DmiTransparent
  <1>1. ASSUME FullInv, Durable, ~OpenMayFail, "enable_dmi" \notin Env,
               NEW g \in grants, NEW o \in g.range
        PROVE  /\ mode = "read_array"
               /\ g.src # ARRAY => backing.files[g.src][o] = data[o]
    <2>1. mode = "read_array"
      BY <1>1 DEF FullInv, DmiInv
    <2>2. ASSUME g.src # ARRAY PROVE backing.files[g.src][o] = data[o]
      <3>1. g \in Grants
        BY <1>1 DEF FullInv, CoreInv, TypeOK
      <3>2. g.src \in Files /\ o \in Offsets
        BY <2>2, <3>1, ConstAssumption DEF Grants
      <3>3. g.src = params.path /\ backing.dirty = {}
        BY <1>1, <2>2 DEF FullInv, BackInv, GrantsClean
      <3>4. params.path # NoFile
        BY <3>2, <3>3, ConstAssumption
      <3>5. QED
        BY <1>1, <3>2, <3>3, <3>4 DEF FullInv, BackInv, CohOn
    <2>3. QED
      BY <2>1, <2>2
  <1>2. FullInv => DmiTransparent
    BY <1>1 DEF DmiTransparent
  <1>3. QED
    BY <1>2, FullInvariant, PTL

\* What a crash can cost is bounded by the dirty range.
THEOREM CrashIsBounded == Spec => CrashLosesOnlyDirty
  <1>1. ASSUME FullInv, Durable, params.path # NoFile, Crash,
               NEW o \in Offsets \ backing.dirty
        PROVE  data'[o] = data[o]
    <2>1. data' = ImageOf(backing.files, ImageFile) /\ params.path = ImageFile
      BY <1>1 DEF Crash, Restarted, FullInv, BackInv
    <2>2. data'[o] = backing.files[ImageFile][o]
      BY <1>1, <2>1, ConstAssumption DEF ImageOf, Durable, FilesCover, Offsets
    <2>3. QED
      BY <1>1, <2>1, <2>2 DEF FullInv, BackInv, CohOn
  <1>2. FullInv /\ [Next]_vars =>
          [(Durable /\ params.path # NoFile /\ Crash) =>
             \A o \in Offsets \ backing.dirty : data'[o] = data[o]]_vars
    BY <1>1
  <1>3. QED
    BY <1>2, FullInvariant, PTL DEF Spec, CrashLosesOnlyDirty

\* The destructor flushes what is deferred, so that starting again from the
\* file brings back every byte.
THEOREM DestroyIsClean == Spec => DestroyLosesNothing
  <1>1. ASSUME FullInv, Durable, ~OpenMayFail, params.path # NoFile, Destroy
        PROVE  data' = data
    <2>1. PICK b \in FlushDeferred(backing, data) : Restarted(b.files)
      BY <1>1 DEF Destroy
    <2>2. /\ params \in Params /\ backing \in Backings
          /\ data \in [Offsets -> Bytes] /\ FilesCover
          /\ CohOn(backing, data, Offsets) /\ params.path = ImageFile
      BY <1>1 DEF FullInv, CoreInv, TypeOK, Durable, BackInv
    <2>3. CohOn(b, data, Offsets) /\ b.dirty = {}
      BY <1>1, <2>1, <2>2, FlushCoherent
    <2>4. data' = ImageOf(b.files, ImageFile)
      BY <2>1 DEF Restarted
    <2>5. \A o \in Offsets : b.files[ImageFile][o] = data[o] /\ o < FileSize[ImageFile]
      BY <2>2, <2>3, ConstAssumption DEF CohOn, FilesCover, Offsets
    <2>6. QED
      BY <2>2, <2>4, <2>5 DEF ImageOf
  <1>2. FullInv /\ [Next]_vars =>
          [(Durable /\ ~OpenMayFail /\ params.path # NoFile /\ Destroy) =>
             data' = data]_vars
    BY <1>1
  <1>3. QED
    BY <1>2, FullInvariant, PTL DEF Spec, DestroyLosesNothing

-----------------------------------------------------------------------------
(* The dirty range                                                         *)

\* From b to c, with d in the array: a byte of the selected file stays or
\* becomes d's, and one that leaves the dirty range has become d's.
Keeps(b, c, d) ==
  \A o \in Offsets :
    /\ c.files[params.path][o] \in {b.files[params.path][o], d[o]}
    /\ o \in b.dirty => o \in c.dirty \/ c.files[params.path][o] = d[o]

LEMMA KeepsTransitive ==
  ASSUME NEW b, NEW c, NEW e, NEW d, Keeps(b, c, d), Keeps(c, e, d)
  PROVE  Keeps(b, e, d)
  BY DEF Keeps

LEMMA FlushKeeps ==
  ASSUME params \in Params, params.path # NoFile, NEW b \in Backings,
         NEW d \in [Offsets -> Bytes], NEW c \in FlushDeferred(b, d)
  PROVE  Keeps(b, c, d)
  <1>1. CASE b.dirty = {}
    BY <1>1 DEF FlushDeferred, Keeps
  <1>2. CASE b.dirty # {}
    <2>1. PICK e \in OpenPath(b) : c = FlushResult(e, d)
      BY <1>2 DEF FlushDeferred
    <2>2. e \in Backings /\ e.files = b.files /\ e.dirty = b.dirty
      BY <2>1, OpenPathType
    <2>3. QED
      BY <2>1, <2>2, FlushResultType DEF Keeps
  <1>3. QED
    BY <1>1, <1>2

LEMMA EnsureKeeps ==
  ASSUME params \in Params, params.path # NoFile, NEW b \in Backings,
         NEW d \in [Offsets -> Bytes], NEW c \in EnsureBacking(b, d)
  PROVE  Keeps(b, c, d)
  <1>1. CASE b.opened = params.path
    BY <1>1 DEF EnsureBacking, Keeps
  <1>2. CASE b.opened # params.path
    <2>1. PICK e \in FlushDeferred(b, d) :
            c \in OpenPath([e EXCEPT !.opened = NoFile])
      BY <1>2 DEF EnsureBacking
    <2>2. e \in Backings /\ Keeps(b, e, d)
      BY <2>1, FlushType, FlushKeeps
    <2> DEFINE g == [e EXCEPT !.opened = NoFile]
    <2>3. g \in Backings /\ g.files = e.files /\ g.dirty = e.dirty
      BY <2>2 DEF Backings
    <2>4. c.files = g.files /\ c.dirty = g.dirty
      BY <2>1, <2>3, OpenPathType
    <2> HIDE DEF g
    <2>5. QED
      BY <2>2, <2>3, <2>4 DEF Keeps
  <1>3. QED
    BY <1>1, <1>2

LEMMA WriteBackingKeeps ==
  ASSUME params \in Params, params.path # NoFile, NEW b \in Backings,
         NEW d \in [Offsets -> Bytes], NEW S \in SUBSET Offsets,
         NEW c \in WriteBacking(b, d, S)
  PROVE  Keeps(b, c, d)
  <1>1. CASE S = {}
    BY <1>1 DEF WriteBacking, Keeps
  <1>2. CASE S # {} /\ params.defer
    <2> DEFINE e == Deferred(b, S)
    <2>1. e \in Backings /\ e.files = b.files /\ b.dirty \cup S \subseteq e.dirty
      BY DeferredType
    <2>2. c = e \/ c \in FlushDeferred(e, d)
      BY <1>2 DEF WriteBacking
    <2> HIDE DEF e
    <2>3. Keeps(b, e, d)
      BY <2>1 DEF Keeps
    <2>4. QED
      BY <2>1, <2>2, <2>3, FlushKeeps, KeepsTransitive
  <1>3. CASE S # {} /\ ~params.defer
    <2>1. PICK e \in EnsureBacking(b, d) : c = CopyRange(e, d, S)
      BY <1>3 DEF WriteBacking
    <2>2. e \in Backings /\ Keeps(b, e, d)
      BY <2>1, EnsureType, EnsureKeeps
    <2>3. Keeps(e, c, d)
      BY <2>1, <2>2, CopyRangeType DEF Keeps
    <2>4. QED
      BY <2>2, <2>3, KeepsTransitive
  <1>4. QED
    BY <1>1, <1>2, <1>3

\* Every step but the end of the process: the write-back either is not
\* involved, or is one of the operators above.
LEMMA StepKeeps ==
  ASSUME CoreInv, Next, ~ (Crash \/ Destroy), params.path # NoFile
  PROVE  backing'.dirty = backing.dirty \/ Keeps(backing, backing', data')
  <1>0. /\ params \in Params /\ backing \in Backings
        /\ data \in [Offsets -> Bytes] /\ TypeOK /\ SectorMapSound
    BY DEF CoreInv, TypeOK
  <1>1. ASSUME ArrayChange PROVE Keeps(backing, backing', data')
    <2>1. PICK S \in SUBSET Offsets : backing' \in WriteBacking(backing, data', S)
      BY <1>1 DEF ArrayChange
    <2>2. QED
      BY <1>0, <1>1, <2>1, WriteBackingKeeps DEF ArrayChange
  <1>2. CASE Write
    <2>1. ASSUME NEW o \in Offsets, NEW p \in Payloads, WriteProgram(o, p)
          PROVE  ArrayChange
      BY <1>0, <2>1, PayloadFacts, ProgramStep DEF WriteProgram
    <2>2. ASSUME NEW o \in Offsets, NEW p \in Payloads, WriteBufferData(o, p)
          PROVE  backing' = backing
      BY <2>2 DEF WriteBufferData
    <2>3. ASSUME NEW o \in Offsets, NEW n \in BufferCounts, WriteCount(o, n)
          PROVE  backing' = backing
      BY <2>3 DEF WriteCount
    <2>4. ASSUME NEW o \in Offsets, NEW c, WriteCommand(o, c)
          PROVE  ArrayChange \/ backing' = backing
      <3>1. CASE ConfirmErase(o, c)
        BY <1>0, <3>1, EraseSectorStep DEF ConfirmErase
      <3>2. CASE ConfirmLock(c) \/ PlainCommand(c)
        BY <3>2 DEF ConfirmLock, PlainCommand, Dispatch
      <3>3. QED
        BY <2>4, <3>1, <3>2 DEF WriteCommand
    <2>5. QED
      BY <1>1, <1>2, <2>1, <2>2, <2>3, <2>4 DEF Write
  <1>3. CASE ConfirmBuffer
    BY <1>1, <1>3, ConfirmBufferStep
  <1>4. CASE \E r \in DmiRanges : GetDirectMemPtr(r)
    <2>1. data' = data
      BY <1>4 DEF GetDirectMemPtr
    <2>2. PICK b \in FlushDeferred(backing, data) :
            backing' \in EnsureBacking(b, data)
      BY <1>4 DEF GetDirectMemPtr
    <2>3. b \in Backings
      BY <1>0, <2>2, FlushType
    <2>4. Keeps(backing, b, data) /\ Keeps(b, backing', data)
      BY <1>0, <2>2, <2>3, FlushKeeps, EnsureKeeps
    <2>5. QED
      BY <2>1, <2>4, KeepsTransitive
  <1>5. CASE SetDefer \/ SetInterval \/ SetBackingFile
    <2>1. data' = data /\ backing' \in FlushDeferred(backing, data)
      BY <1>5 DEF SetDefer, SetInterval, SetBackingFile, flashVars
    <2>2. QED
      BY <1>0, <2>1, FlushKeeps
  <1>6. CASE SetEnableDmi \/ SetCompat \/ SetSectorSize
             \/ \E o \in Offsets, p \in Payloads : LoadImage(o, p)
    BY <1>6 DEF SetEnableDmi, SetCompat, SetSectorSize, LoadImage
  <1>7. QED
    BY <1>2, <1>3, <1>4, <1>5, <1>6 DEF Next

\* Without a selected file nothing is ever taken out of the dirty range.
LEMMA StepKeepsNoFile ==
  ASSUME CoreInv, Next, ~ (Crash \/ Destroy), params.path = NoFile
  PROVE  backing'.dirty = backing.dirty
  <1>0. TypeOK /\ SectorMapSound
    BY DEF CoreInv
  <1>1. ASSUME ArrayChange PROVE backing' = backing
    BY <1>1 DEF ArrayChange, WriteBacking
  <1>2. CASE Write
    <2>1. ASSUME NEW o \in Offsets, NEW p \in Payloads, WriteProgram(o, p)
          PROVE  ArrayChange
      BY <1>0, <2>1, PayloadFacts, ProgramStep DEF WriteProgram
    <2>2. ASSUME NEW o \in Offsets, NEW p \in Payloads, WriteBufferData(o, p)
          PROVE  backing' = backing
      BY <2>2 DEF WriteBufferData
    <2>3. ASSUME NEW o \in Offsets, NEW n \in BufferCounts, WriteCount(o, n)
          PROVE  backing' = backing
      BY <2>3 DEF WriteCount
    <2>4. ASSUME NEW o \in Offsets, NEW c, WriteCommand(o, c)
          PROVE  ArrayChange \/ backing' = backing
      <3>1. CASE ConfirmErase(o, c)
        BY <1>0, <3>1, EraseSectorStep DEF ConfirmErase
      <3>2. CASE ConfirmLock(c) \/ PlainCommand(c)
        BY <3>2 DEF ConfirmLock, PlainCommand, Dispatch
      <3>3. QED
        BY <2>4, <3>1, <3>2 DEF WriteCommand
    <2>5. QED
      BY <1>1, <1>2, <2>1, <2>2, <2>3, <2>4 DEF Write
  <1>3. CASE ConfirmBuffer
    BY <1>1, <1>3, ConfirmBufferStep
  <1>4. CASE \E r \in DmiRanges : GetDirectMemPtr(r)
    BY <1>4 DEF GetDirectMemPtr, FlushDeferred
  <1>5. CASE SetDefer \/ SetInterval \/ SetBackingFile
    BY <1>5 DEF SetDefer, SetInterval, SetBackingFile, FlushDeferred
  <1>6. CASE SetEnableDmi \/ SetCompat \/ SetSectorSize
             \/ \E o \in Offsets, p \in Payloads : LoadImage(o, p)
    BY <1>6 DEF SetEnableDmi, SetCompat, SetSectorSize, LoadImage
  <1>7. QED
    BY <1>2, <1>3, <1>4, <1>5, <1>6 DEF Next

\* Whatever is reconfigured, switched, loaded or fails to open, no byte is
\* dropped from the dirty range while the file does not hold it.
THEOREM DirtyIsKept == Spec => DirtyKept
  <1>1. ASSUME CoreInv, Next, ~ (Crash \/ Destroy), NEW o \in backing.dirty
        PROVE  o \in backing'.dirty \/ backing'.files[params.path][o] = data'[o]
    <2>1. o \in Offsets
      BY <1>1 DEF CoreInv, TypeOK, Backings
    <2>2. CASE params.path = NoFile
      BY <1>1, <2>2, StepKeepsNoFile
    <2>3. CASE params.path # NoFile
      BY <1>1, <2>1, <2>3, StepKeeps DEF Keeps
    <2>4. QED
      BY <2>2, <2>3
  <1>2. CoreInv /\ [Next]_vars =>
          [~ (Crash \/ Destroy) =>
             \A o \in backing.dirty :
               o \in backing'.dirty
               \/ backing'.files[params.path][o] = data'[o]]_vars
    BY <1>1
  <1>3. QED
    BY <1>2, CoreInit, CoreStep, PTL DEF Spec, DirtyKept

-----------------------------------------------------------------------------
(* The refinement of the NOR array                                         *)

\* An erase, carried out or skipped because the map calls the sector erased,
\* sets one block and nothing else.
LEMMA EraseIsBlock ==
  ASSUME CoreInv, NEW o \in Offsets, EraseSector(o)
  PROVE  Nor!EraseBlock
  <1> DEFINE ss == params.sector_size
             s == SectorOf(ss, o)
             d == [x \in Offsets |-> IF SectorOf(ss, x) = s THEN Erased ELSE data[x]]
  <1>1. data \in [Offsets -> Bytes]
    BY DEF CoreInv, TypeOK
  <1>2. data' = d
    <2>1. CASE erased[s]
      <3>1. data' = data
        BY <2>1 DEF EraseSector
      <3>2. \A x \in Offsets : SectorOf(ss, x) = s => data[x] = Erased
        BY <2>1 DEF CoreInv, SectorMapSound
      <3>3. QED
        BY <1>1, <3>1, <3>2
    <2>2. CASE ~ erased[s]
      BY <2>2 DEF EraseSector, SectorBytes
    <2>3. QED
      BY <2>1, <2>2
  <1>3. /\ \A x \in Offsets : BlockOf[x] = SectorOf(ss, x)
        /\ s \in {BlockOf[x] : x \in Offsets}
    BY DEF BlockOf
  <1> HIDE DEF s, ss
  <1>4. data' = [x \in Offsets |-> IF BlockOf[x] = s THEN Erased ELSE data[x]]
    BY <1>2, <1>3
  <1>5. QED
    BY <1>3, <1>4 DEF Nor!EraseBlock

\* The bit-clearing loop clears bits, but for the bytes 0xff sets when asked.
LEMMA ProgramIsProgram ==
  ASSUME CoreInv, NEW o \in Offsets, NEW p, Len(p) \in Nat,
         \A i \in 1 .. Len(p) : p[i] \in Bytes, InRange(o, p),
         ProgramBytes(o, p)
  PROVE  Nor!ProgramBytes
  <1>1. data' \in [Offsets -> Bytes]
    BY ProgramBytesStep DEF CoreInv, ArrayChange
  <1>2. ASSUME NEW x \in Offsets
        PROVE  data'[x] \subseteq data[x] \/ (params.ff_sets_bits /\ data'[x] = Erased)
    BY DEF ProgramBytes, Programmed
  <1>3. params.ff_sets_bits => "byte" \in Lax
    BY DEF Lax
  <1>4. QED
    BY <1>1, <1>2, <1>3 DEF Nor!ProgramBytes

LEMMA ProgramIsComplete ==
  ASSUME CoreInv, NEW o \in Offsets, NEW p, Len(p) \in Nat,
         \A i \in 1 .. Len(p) : p[i] \in Bytes, InRange(o, p),
         Program(o, p), Asked = "program", params' = params
  PROVE  Nor!Complete
  <1>1. pending' = "none"
    BY ProgramStep DEF CoreInv
  <1>2. Asked' = "none" /\ UNCHANGED <<BlockOf, Lax>>
    BY <1>1 DEF Asked, BlockOf, Lax
  <1>3. CASE FfErasesSector(o, p)
    <2>1. EraseSector(o) /\ "block" \in Lax
      BY <1>3 DEF Program, FfErasesSector, Lax
    <2>2. QED
      BY <1>2, <2>1, EraseIsBlock DEF Nor!Complete
  <1>4. CASE ~ FfErasesSector(o, p)
    <2>1. ProgramBytes(o, p)
      BY <1>4 DEF Program
    <2>2. QED
      BY <1>2, <2>1, ProgramIsProgram DEF Nor!Complete
  <1>5. QED
    BY <1>3, <1>4

\* A command that leaves the array and the parameters alone.
LEMMA QuietAsks ==
  ASSUME data' = data, params' = params
  PROVE  Nor!Ask
  <1>1. Asked' \in {"none", "program", "erase"}
    BY DEF Asked
  <1>2. UNCHANGED <<BlockOf, Lax>>
    BY DEF BlockOf, Lax
  <1>3. QED
    BY <1>1, <1>2 DEF Nor!Ask

LEMMA NorStep ==
  ASSUME CoreInv, [Next]_vars, Env \cap {"load", "crash", "destroy"} = {}
  PROVE  [Nor!Next]_Nor!vars
  <1>1. CASE Write
    <2>1. ASSUME NEW o \in Offsets, NEW p \in Payloads, WriteProgram(o, p)
          PROVE  Nor!Next
      <3>1. Asked = "program" /\ params' = params /\ InRange(o, p) /\ Program(o, p)
        BY <2>1 DEF WriteProgram, Asked
      <3>2. QED
        BY <3>1, PayloadFacts, ProgramIsComplete DEF Nor!Next
    <2>2. ASSUME NEW o \in Offsets, NEW p \in Payloads, WriteBufferData(o, p)
          PROVE  Nor!Next
      BY <2>2, QuietAsks DEF WriteBufferData, Nor!Next
    <2>3. ASSUME NEW o \in Offsets, NEW n \in BufferCounts, WriteCount(o, n)
          PROVE  Nor!Next
      BY <2>3, QuietAsks DEF WriteCount, Nor!Next
    <2>4. ASSUME NEW o \in Offsets, NEW c, WriteCommand(o, c)
          PROVE  Nor!Next
      <3>1. params' = params
        BY <2>4 DEF WriteCommand
      <3>2. CASE ConfirmErase(o, c)
        <4>1. EraseSector(o) /\ Asked = "erase" /\ pending' = "none"
          BY <3>2 DEF ConfirmErase, EraseSector, Asked
        <4>2. Asked' = "none" /\ UNCHANGED <<BlockOf, Lax>>
          BY <3>1, <4>1 DEF Asked, BlockOf, Lax
        <4>3. QED
          BY <4>1, <4>2, EraseIsBlock DEF Nor!Complete, Nor!Next
      <3>3. CASE ConfirmLock(c) \/ PlainCommand(c)
        BY <3>1, <3>3, QuietAsks DEF ConfirmLock, PlainCommand, Dispatch, Nor!Next
      <3>4. QED
        BY <2>4, <3>2, <3>3 DEF WriteCommand
    <2>5. QED
      BY <1>1, <2>1, <2>2, <2>3, <2>4 DEF Write
  <1>2. CASE ConfirmBuffer
    <2> DEFINE p == [i \in 1 .. wlen |-> wbytes[wbase + i - 1]]
    <2>1. /\ wbase \in Offsets /\ Len(p) \in Nat
          /\ \A i \in 1 .. Len(p) : p[i] \in Bytes
          /\ InRange(wbase, p) /\ Program(wbase, p) /\ params' = params
      BY <1>2, ConfirmBufferPayload
    <2>2. Asked = "program"
      BY <1>2 DEF ConfirmBuffer, Asked
    <2> HIDE DEF p
    <2>3. QED
      BY <2>1, <2>2, ProgramIsComplete DEF Nor!Next
  <1>3. CASE \/ \E r \in DmiRanges : GetDirectMemPtr(r)
             \/ SetEnableDmi \/ SetCompat \/ SetDefer \/ SetInterval
             \/ SetBackingFile \/ SetSectorSize
    <2>1. data' = data /\ pending' = pending
      BY <1>3 DEF GetDirectMemPtr, SetEnableDmi, SetCompat, SetDefer,
                  SetInterval, SetBackingFile, SetSectorSize, flashVars
    <2>2. Asked' = Asked
      BY <2>1 DEF Asked
    <2>3. QED
      BY <2>1, <2>2 DEF Nor!Configure, Nor!Next
  <1>4. CASE \/ \E o \in Offsets, p \in Payloads : LoadImage(o, p)
             \/ Crash \/ Destroy
    BY <1>4 DEF LoadImage, Crash, Destroy
  <1>5. CASE UNCHANGED vars
    BY <1>5 DEF vars, Asked, BlockOf, Lax, Nor!vars
  <1>6. QED
    BY <1>1, <1>2, <1>3, <1>4, <1>5 DEF Next

\* The command state machine, with its write buffer, its sector map that lets
\* it skip erases and its compatibility switches, implements a NOR array,
\* unless an image is loaded over it or the platform is restarted.
THEOREM FlashImplementsNorArray ==
  ASSUME Env \cap {"load", "crash", "destroy"} = {}
  PROVE  Spec => ImplementsNorArray
  <1>1. Init => Nor!Init
    <2> SUFFICES ASSUME Init PROVE Nor!Init
      OBVIOUS
    <2>1. data \in [Offsets -> Bytes]
      BY CoreInit DEF CoreInv, TypeOK
    <2>2. Asked = "none"
      BY DEF Init, Asked
    <2>3. QED
      BY <2>1, <2>2 DEF Nor!Init
  <1>2. CoreInv /\ [Next]_vars => [Nor!Next]_Nor!vars
    BY NorStep
  <1>3. QED
    BY <1>1, <1>2, CoreInit, CoreStep, PTL DEF Spec, ImplementsNorArray, Nor!Spec
=============================================================================
