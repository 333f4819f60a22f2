---------------------------- MODULE StrataFlash ----------------------------
(***************************************************************************)
(* The strata_flash_j3 component: an Intel J3 NOR flash behind a TLM       *)
(* target socket, with a command state machine, a write buffer, a map of   *)
(* the sectors known to be erased, a backing file written through or       *)
(* deferred, and direct memory (DMI) grants to the initiators.             *)
(*                                                                         *)
(* A byte is the set of its 1 bits: 0xff is Bits, programming is           *)
(* intersection.  With fewer than eight Bits, an element of Bits stands    *)
(* for a group of bits that are all 1; "all 1 in the group" commutes with  *)
(* &, and only 0xff has every group set.  Every command code except 0xff   *)
(* has a 0 bit in each nibble, so with two groups each of them is the      *)
(* byte {} (see CommandsOf).                                               *)
(***************************************************************************)
EXTENDS Integers, Sequences

CONSTANTS
  Size,          \* p_size: the number of bytes of the flash
  Bits,          \* the bits of a byte
  Payloads,      \* the sequences of bytes a write transaction carries
  BufferCounts,  \* the lengths a write-to-buffer command announces
  SectorSizes,   \* the values of p_sector_size
  Intervals,     \* the values of p_defer_backing_flush_interval (0: never)
  MaxDeferred,   \* where m_backing_deferred_since_flush saturates
  Files,         \* the values of p_backing_file, besides the empty one
  NoFile,        \* the empty p_backing_file
  ImageFile,     \* the file the loader fills the flash from
  StartPaths,    \* the p_backing_file the platform is configured with
  Images,        \* the contents the files are deployed with
  FileSize,      \* the length of each backing file
  DmiRanges,     \* the address ranges p_dmi_ranges allows
  ARRAY,         \* the DMI pointer into m_data
  OpenMayFail,   \* whether open, fstat or mmap of a backing file may fail
  DeferValues,   \* the values of p_defer_backing_write
  CompatValues,  \* the values of p_program_ff_sets_bits, _erases_sector
  Env            \* what the environment does besides memory accesses

Offsets == 0 .. Size - 1
Bytes == SUBSET Bits
Erased == Bits                        \* 0xff
Tunables == {"enable_dmi", "compat", "defer", "interval", "sector_size",
             "backing_file", "load", "crash", "destroy"}

ASSUME ConstAssumption ==
  /\ Size \in Nat \ {0}
  /\ Payloads \subseteq (Seq(Bytes) \ {<<>>})
  /\ BufferCounts \subseteq Nat \ {0}
  /\ SectorSizes \subseteq Nat \ {0} /\ SectorSizes # {}
  /\ Intervals \subseteq Nat /\ Intervals # {}
  /\ MaxDeferred \in Nat /\ \A i \in Intervals : i <= MaxDeferred
  /\ NoFile \notin Files /\ ImageFile \in Files
  /\ StartPaths \subseteq {NoFile, ImageFile}
  /\ Images \subseteq [Offsets -> Bytes]
  /\ FileSize \in [Files -> Nat]
  /\ DmiRanges \subseteq SUBSET Offsets
  /\ ARRAY \notin Files
  /\ OpenMayFail \in BOOLEAN
  /\ DeferValues \subseteq BOOLEAN /\ DeferValues # {}
  /\ CompatValues \subseteq BOOLEAN /\ CompatValues # {}
  /\ Env \subseteq Tunables

VARIABLES
  data,      \* m_data
  mode,      \* m_mode
  pending,   \* m_pending
  wbase,     \* m_write_buffer_base
  wlen,      \* the length of m_write_buffer
  wbytes,    \* m_write_buffer, by flash offset
  written,   \* m_write_buffer_written: the offsets already received
  erased,    \* m_sector_erased, by sector index
  params,    \* the hot parameters, as the post-write callbacks cache them
  backing,   \* the backing files and the state of their write-back
  grants     \* the DMI grants the initiators hold; m_dmi_granted is # {}

vars == <<data, mode, pending, wbase, wlen, wbytes, written, erased, params,
          backing, grants>>

-----------------------------------------------------------------------------
(* Types                                                                   *)

Modes == {"read_array", "read_id", "read_query", "read_status"}
Pendings == {"none", "program", "write_buffer_count", "write_buffer_data",
             "erase", "lock"}
Params == [enable_dmi : BOOLEAN, ff_sets_bits : BOOLEAN,
           ff_erases_sector : BOOLEAN, defer : DeferValues,
           interval : Intervals, sector_size : SectorSizes,
           path : Files \cup {NoFile}]
\* files: the contents; opened: m_open_backing_file, mapped while it is not
\* empty; dirty: m_backing_dirty_start .. m_backing_dirty_end, {} when
\* m_backing_dirty is false; since: m_backing_deferred_since_flush.
Backings == [files : [Files -> [Offsets -> Bytes]],
             opened : Files \cup {NoFile},
             dirty : SUBSET Offsets, since : 0 .. MaxDeferred]
Grants == [src : Files \cup {ARRAY}, range : DmiRanges]

SectorOf(ss, o) == o \div ss
Sectors(ss) == {SectorOf(ss, o) : o \in Offsets}
SectorBytes(ss, s) == {o \in Offsets : SectorOf(ss, o) = s}

\* The map holds one flag per sector of the present sector size.
TypeOK ==
  /\ data \in [Offsets -> Bytes]
  /\ mode \in Modes
  /\ pending \in Pendings
  /\ wbase \in Offsets
  /\ wlen \in 0 .. Size
  /\ wbytes \in [Offsets -> Bytes]
  /\ written \in SUBSET Offsets
  /\ params \in Params
  /\ erased \in [Sectors(params.sector_size) -> BOOLEAN]
  /\ backing \in Backings
  /\ grants \in SUBSET Grants

-----------------------------------------------------------------------------
(* The sector map                                                          *)

\* rebuild_sector_erased_map: a flag is set iff the whole sector is 0xff.
RebuiltMap(d, ss) ==
  [s \in Sectors(ss) |-> \A o \in SectorBytes(ss, s) : d[o] = Erased]

\* The offsets from the first to the last member of S.
Hull(S) == {o \in Offsets : \E a, b \in S : a <= o /\ o <= b}

\* Mutant: only the sector of the first byte is marked.
MarkProgrammedFirst(m, d, S) ==
  [s \in DOMAIN m |->
     m[s] /\ ~ \E o \in S : /\ SectorOf(params.sector_size, o) = s
                            /\ \A x \in S : o <= x
                            /\ d[o] # Erased]

\* mark_programmed_byte and mark_programmed_range over first .. last
\* changed: a sector that received a byte other than 0xff is not erased.
MarkProgrammed(m, d, S) ==
  [s \in DOMAIN m |->
     m[s] /\ ~ \E o \in S : /\ SectorOf(params.sector_size, o) = s
                            /\ d[o] # Erased]

-----------------------------------------------------------------------------
(* The backing file.  An operator yields the set of results that opening   *)
(* the file, which may fail, can produce.                                  *)

Fits(S) == \A o \in S : o < FileSize[params.path]

\* The open in ensure_backing_file: the old handle has been closed.
OpenPath(b) ==
  IF b.opened = params.path THEN {b}
  ELSE {[b EXCEPT !.opened = f] :
          f \in {params.path} \cup (IF OpenMayFail THEN {NoFile} ELSE {})}

\* write_backing_range_now, once ensure_backing_file has returned: nothing
\* is written when the range does not lie in the file as a whole.
CanWrite(b, S) == b.opened = params.path /\ Fits(S)
\* Mutant: the last byte of the range is not copied.
CopyRangeShort(b, d, S) ==
  IF CanWrite(b, S)
  THEN [b EXCEPT !.files[params.path] =
          [o \in Offsets |-> IF o \in S /\ o + 1 \in S THEN d[o] ELSE @[o]]]
  ELSE b
CopyRange(b, d, S) ==
  IF CanWrite(b, S)
  THEN [b EXCEPT !.files[params.path] =
          [o \in Offsets |-> IF o \in S THEN d[o] ELSE @[o]]]
  ELSE b

\* Mutant: the range is forgotten although the write failed.
FlushResultForgets(b, d) ==
  [files |-> CopyRange(b, d, b.dirty).files, opened |-> b.opened,
   dirty |-> {}, since |-> 0]

\* flush_deferred_backing: a failed write leaves the range dirty.
FlushResult(b, d) ==
  IF CanWrite(b, b.dirty)
  THEN [files |-> CopyRange(b, d, b.dirty).files, opened |-> b.opened,
        dirty |-> {}, since |-> 0]
  ELSE b
FlushDeferred(b, d) ==
  IF b.dirty = {} \/ params.path = NoFile THEN {b}
  ELSE {FlushResult(c, d) : c \in OpenPath(b)}

\* ensure_backing_file for a path that is not empty: closing the previous
\* file flushes first, and that flush already goes to the new path.
EnsureBacking(b, d) ==
  IF b.opened = params.path THEN {b}
  ELSE UNION {OpenPath([c EXCEPT !.opened = NoFile]) :
                c \in FlushDeferred(b, d)}

\* Mutant: a new dirty range replaces the old one.
DeferredLatest(b, S) ==
  [b EXCEPT !.dirty = Hull(S),
            !.since = IF @ < MaxDeferred THEN @ + 1 ELSE @]
Deferred(b, S) ==
  [b EXCEPT !.dirty = Hull(@ \cup S),
            !.since = IF @ < MaxDeferred THEN @ + 1 ELSE @]

\* write_backing_range: d is m_data after the change, S the changed range.
WriteBacking(b, d, S) ==
  IF S = {} \/ params.path = NoFile THEN {b}
  ELSE IF params.defer
       THEN LET c == Deferred(b, S)
            IN  IF params.interval # 0 /\ c.since >= params.interval
                THEN FlushDeferred(c, d)
                ELSE {c}
       ELSE {CopyRange(c, d, S) : c \in EnsureBacking(b, d)}

-----------------------------------------------------------------------------
(* Programming and erasing                                                 *)

Covered(o, p) == o .. o + Len(p) - 1

\* Mutant: programming overwrites the byte.
ProgrammedOverwrites(old, p) == p

\* The byte that programming p over old leaves.
Programmed(old, p) ==
  IF params.ff_sets_bits /\ p = Erased THEN Erased ELSE old \cap p

\* erase_sector: a sector the map calls erased is not touched at all.
EraseSector(o) ==
  LET ss == params.sector_size
      S  == SectorBytes(ss, SectorOf(ss, o))
      d  == [x \in Offsets |-> IF x \in S THEN Erased ELSE data[x]]
  IN  /\ IF erased[SectorOf(ss, o)]
         THEN UNCHANGED <<data, erased, backing>>
         ELSE /\ data' = d
              /\ erased' = [erased EXCEPT ![SectorOf(ss, o)] = TRUE]
              /\ backing' \in WriteBacking(backing, d, S)
      /\ mode' = "read_status"
      /\ pending' = "none"

\* is_sector_aligned_program_ff_erase
FfErasesSector(o, p) ==
  /\ params.ff_erases_sector
  /\ p = <<Erased>>
  /\ o % params.sector_size = 0

\* The bit-clearing loop of program().
ProgramBytes(o, p) ==
  LET d == [x \in Offsets |-> IF x \in Covered(o, p)
                              THEN Programmed(data[x], p[x - o + 1])
                              ELSE data[x]]
      S == Hull({x \in Covered(o, p) : d[x] # data[x]})
  IN  /\ data' = d
      /\ erased' = MarkProgrammed(erased, d, S)
      /\ backing' \in WriteBacking(backing, d, S)
      /\ mode' = "read_status"
      /\ pending' = "none"

Program(o, p) ==
  IF FfErasesSector(o, p) THEN EraseSector(o) ELSE ProgramBytes(o, p)

-----------------------------------------------------------------------------
(* Write transactions: write(), one action per pending command             *)

ClearWriteBuffer ==
  /\ wbase' = 0
  /\ wlen' = 0
  /\ written' = {}
  /\ wbytes' = [o \in Offsets |-> Erased]

InRange(o, p) == o + Len(p) <= Size

WriteProgram(o, p) ==
  /\ pending = "program"
  /\ InRange(o, p)
  /\ Program(o, p)
  /\ UNCHANGED <<wbase, wlen, wbytes, written, params, grants>>

\* begin_write_buffer: the announced buffer must lie in the flash.
WriteCount(o, n) ==
  /\ pending = "write_buffer_count"
  /\ mode' = "read_status"
  /\ IF o + n > Size
     THEN ClearWriteBuffer /\ pending' = "none"
     ELSE /\ wbase' = o
          /\ wlen' = n
          /\ written' = {}
          /\ wbytes' = [x \in Offsets |-> Erased]
          /\ pending' = "write_buffer_data"
  /\ UNCHANGED <<data, erased, params, backing, grants>>

\* write_buffer_complete: m_write_buffer_written has no false entry.
Buffer == wbase .. wbase + wlen - 1
Complete == wlen # 0 /\ written = Buffer

\* confirm_write_buffer, reached by a one-byte 0xd0 to a complete buffer:
\* program() of the buffer, then clear_write_buffer.
ConfirmBuffer ==
  /\ pending = "write_buffer_data"
  /\ Complete
  /\ Program(wbase, [i \in 1 .. wlen |-> wbytes[wbase + i - 1]])
  /\ ClearWriteBuffer
  /\ UNCHANGED <<params, grants>>

\* collect_write_buffer_data: a write outside the buffer drops it, and bytes
\* past its end are ignored.
WriteBufferData(o, p) ==
  /\ pending = "write_buffer_data"
  /\ InRange(o, p)
  /\ IF o \in Buffer
     THEN /\ wbytes' = [x \in Offsets |-> IF x \in Buffer \cap Covered(o, p)
                                          THEN p[x - o + 1] ELSE wbytes[x]]
          /\ written' = written \cup (Buffer \cap Covered(o, p))
          /\ mode' = "read_status"
          /\ UNCHANGED <<wbase, wlen, pending>>
     ELSE /\ ClearWriteBuffer
          /\ pending' = "none"
          /\ UNCHANGED mode
  /\ UNCHANGED <<data, erased, params, backing, grants>>

\* The commands a byte can be: 0xff, the codes (all of them {}), any other.
CommandCodes == {"read_id", "read_query", "read_status", "clear_status",
                 "write_to_buffer", "word_program", "block_erase",
                 "lock_unlock", "block_erase_ack", "lock_block"}
CommandsOf(b) ==
  CASE b = Erased -> {"read_array"}
    [] b = {}     -> CommandCodes \cup {"other"}
    [] OTHER      -> {"other"}

\* invalidate_dmi is skipped while the parameter enable_dmi is off.
InvalidateDmi == grants' = IF params.enable_dmi THEN {} ELSE grants

\* The second switch of handle_command, once a pending erase or lock is over.
Dispatch(c) ==
  /\ mode' = CASE c \in {"read_id", "read_query"} -> c
               [] c \in {"read_status", "clear_status", "write_to_buffer"}
                    -> "read_status"
               [] c \in {"word_program", "block_erase", "lock_unlock"} -> mode
               [] OTHER -> "read_array"
  /\ pending' = CASE c = "write_to_buffer" -> "write_buffer_count"
                  [] c = "word_program"    -> "program"
                  [] c = "block_erase"     -> "erase"
                  [] c = "lock_unlock"     -> "lock"
                  [] OTHER                 -> "none"
  /\ IF c = "write_to_buffer"
     THEN ClearWriteBuffer
     ELSE UNCHANGED <<wbase, wlen, wbytes, written>>
  /\ UNCHANGED <<data, erased, backing>>

ConfirmErase(o, c) ==
  /\ pending = "erase" /\ c = "block_erase_ack"
  /\ EraseSector(o)
  /\ UNCHANGED <<wbase, wlen, wbytes, written>>

ConfirmLock(c) ==
  /\ pending = "lock" /\ c \in {"lock_block", "block_erase_ack"}
  /\ mode' = "read_status"
  /\ pending' = "none"
  /\ UNCHANGED <<data, erased, backing, wbase, wlen, wbytes, written>>

PlainCommand(c) ==
  /\ ~ (pending = "erase" /\ c = "block_erase_ack")
  /\ ~ (pending = "lock" /\ c \in {"lock_block", "block_erase_ack"})
  /\ Dispatch(c)

WriteCommand(o, c) ==
  /\ pending \in {"none", "erase", "lock"}
  /\ InvalidateDmi
  /\ ConfirmErase(o, c) \/ ConfirmLock(c) \/ PlainCommand(c)
  /\ UNCHANGED params

Write ==
  \E o \in Offsets :
    \/ \E p \in Payloads :
         WriteProgram(o, p) \/ WriteBufferData(o, p)
    \/ \E n \in BufferCounts : WriteCount(o, n)
    \/ \E p \in Payloads :
         InRange(o, p) /\ \E c \in CommandsOf(p[1]) : WriteCommand(o, c)

-----------------------------------------------------------------------------
(* Direct memory                                                           *)

\* Mutant: the deferred bytes are not flushed first.
GetDirectMemPtrUnflushed(r) ==
  /\ params.enable_dmi
  /\ mode = "read_array" /\ pending = "none"
  /\ grants' = grants \cup
       {[src |-> IF params.path # NoFile /\ CanWrite(backing, r)
                 THEN params.path ELSE ARRAY,
         range |-> r]}
  /\ UNCHANGED <<data, mode, pending, wbase, wlen, wbytes, written, erased,
                 params, backing>>

\* get_direct_mem_ptr for a range r that contains the request: the deferred
\* bytes are flushed, then the pointer goes into the mapped file if the
\* range lies in it, and into m_data otherwise.
GetDirectMemPtr(r) ==
  /\ params.enable_dmi
  /\ mode = "read_array" /\ pending = "none"
  /\ \E b \in FlushDeferred(backing, data) :
       IF params.path = NoFile
       THEN /\ backing' = b
            /\ grants' = grants \cup {[src |-> ARRAY, range |-> r]}
       ELSE \E c \in EnsureBacking(b, data) :
              /\ backing' = c
              /\ grants' = grants \cup
                   {[src |-> IF CanWrite(c, r) THEN params.path ELSE ARRAY,
                     range |-> r]}
  /\ UNCHANGED <<data, mode, pending, wbase, wlen, wbytes, written, erased, params>>

-----------------------------------------------------------------------------
(* Parameters, images and restarts                                         *)

flashVars == <<data, mode, pending, wbase, wlen, wbytes, written>>

SetEnableDmi ==
  /\ "enable_dmi" \in Env
  /\ \E v \in BOOLEAN : params' = [params EXCEPT !.enable_dmi = v]
  /\ UNCHANGED <<flashVars, erased, backing, grants>>

SetCompat ==
  /\ "compat" \in Env
  /\ \E v, w \in CompatValues :
       params' = [params EXCEPT !.ff_sets_bits = v, !.ff_erases_sector = w]
  /\ UNCHANGED <<flashVars, erased, backing, grants>>

\* The callbacks flush under the old value, then take the new one.
SetDefer ==
  /\ "defer" \in Env
  /\ backing' \in FlushDeferred(backing, data)
  /\ \E v \in DeferValues : params' = [params EXCEPT !.defer = v]
  /\ UNCHANGED <<flashVars, erased, grants>>

SetInterval ==
  /\ "interval" \in Env
  /\ backing' \in FlushDeferred(backing, data)
  /\ \E v \in Intervals : params' = [params EXCEPT !.interval = v]
  /\ UNCHANGED <<flashVars, erased, grants>>

SetBackingFile ==
  /\ "backing_file" \in Env
  /\ backing' \in FlushDeferred(backing, data)
  /\ \E f \in Files \cup {NoFile} : params' = [params EXCEPT !.path = f]
  /\ UNCHANGED <<flashVars, erased, grants>>

SetSectorSize ==
  /\ "sector_size" \in Env
  /\ \E ss \in SectorSizes :
       /\ params' = [params EXCEPT !.sector_size = ss]
       /\ erased' = RebuiltMap(data, ss)
  /\ UNCHANGED <<flashVars, backing, grants>>

\* load_image copies over m_data and refreshes the sectors it touched; the
\* backing file and the DMI grants are left alone.
LoadImage(o, p) ==
  /\ "load" \in Env
  /\ InRange(o, p)
  /\ data' = [x \in Offsets |-> IF x \in Covered(o, p) THEN p[x - o + 1]
                                                       ELSE data[x]]
  /\ erased' = [s \in DOMAIN erased |->
                  IF \E x \in Covered(o, p) :
                       SectorOf(params.sector_size, x) = s
                  THEN RebuiltMap(data', params.sector_size)[s]
                  ELSE erased[s]]
  /\ UNCHANGED <<mode, pending, wbase, wlen, wbytes, written, params, backing,
                 grants>>

\* The flash after construction, loaded from the image file f: bytes past
\* the end of the file stay 0xff.
ImageOf(files, f) ==
  [o \in Offsets |-> IF o < FileSize[f] THEN files[f][o] ELSE Erased]

Restarted(files) ==
  /\ data' = ImageOf(files, ImageFile)
  /\ mode' = "read_array"
  /\ pending' = "none"
  /\ ClearWriteBuffer
  /\ erased' = RebuiltMap(data', params.sector_size)
  /\ backing' = [files |-> files, opened |-> NoFile, dirty |-> {},
                 since |-> 0]
  /\ grants' = {}
  /\ UNCHANGED params

\* The process dies: what was memcpy'd into the shared mapping survives.
Crash ==
  /\ "crash" \in Env
  /\ Restarted(backing.files)

\* Mutant: the destructor does not flush.
DestroyUnflushed ==
  /\ "destroy" \in Env
  /\ Restarted(backing.files)

\* The destructor flushes, then the platform is started again.
Destroy ==
  /\ "destroy" \in Env
  /\ \E b \in FlushDeferred(backing, data) : Restarted(b.files)

-----------------------------------------------------------------------------
Init ==
  /\ params \in Params
  /\ params.path \in StartPaths
  /\ {params.ff_sets_bits, params.ff_erases_sector} \subseteq CompatValues
  /\ \E fs \in [Files -> Images] :
       backing = [files |-> fs, opened |-> NoFile, dirty |-> {}, since |-> 0]
  /\ data = ImageOf(backing.files, ImageFile)
  /\ mode = "read_array"
  /\ pending = "none"
  /\ wbase = 0
  /\ wlen = 0
  /\ written = {}
  /\ wbytes = [o \in Offsets |-> Erased]
  /\ erased = RebuiltMap(data, params.sector_size)
  /\ grants = {}

Next ==
  \/ Write
  \/ ConfirmBuffer
  \/ \E r \in DmiRanges : GetDirectMemPtr(r)
  \/ SetEnableDmi \/ SetCompat \/ SetDefer \/ SetInterval
  \/ SetBackingFile \/ SetSectorSize
  \/ \E o \in Offsets, p \in Payloads : LoadImage(o, p)
  \/ Crash \/ Destroy

Spec == Init /\ [][Next]_vars

-----------------------------------------------------------------------------
(* Properties                                                              *)

\* When the backing file is meant to keep what was programmed: one file, as
\* long as the flash, whose content the flash was loaded from; if opening it
\* may fail, every write is deferred (a failed write-through is not retried).
FilesCover == \A f \in Files : FileSize[f] >= Size
Durable ==
  /\ FilesCover
  /\ Env \cap {"backing_file", "load"} = {}
  /\ OpenMayFail => DeferValues = {TRUE}

\* A sector the map calls erased holds only 0xff, so that erase_sector may
\* skip it: across programming, erasing, images and new sector sizes.
SectorMapSound ==
  \A o \in Offsets :
    erased[SectorOf(params.sector_size, o)] => data[o] = Erased

\* A write buffer exists exactly while its data is awaited, lies in the
\* flash, and only bytes of this buffer count as received: a buffer that was
\* dropped or confirmed is never programmed later.
BufferFresh ==
  /\ (pending = "write_buffer_data") <=> (wlen # 0)
  /\ wbase + wlen <= Size
  /\ written \subseteq Buffer

\* While enable_dmi is not rewritten, an initiator holds a DMI grant only
\* when a read transaction would return the array: every command that
\* leaves that state has invalidated the grants.
DmiOnlyInArrayMode ==
  "enable_dmi" \notin Env =>
    (grants # {} => mode = "read_array" /\ pending = "none")

\* What an initiator reads through a DMI pointer is what a transaction
\* returns: a pointer into the mapped file sees every deferred byte.
DmiTransparent ==
  (Durable /\ ~OpenMayFail /\ "enable_dmi" \notin Env) =>
    \A g \in grants : \A o \in g.range :
      mode = "read_array" /\ (g.src # ARRAY => backing.files[g.src][o] = data[o])

\* Every byte of the flash is in the backing file or in the dirty range,
\* whatever flushes failed.
BackingCoherent ==
  (Durable /\ params.path # NoFile) =>
    \A o \in Offsets : \/ backing.files[params.path][o] = data[o]
                       \/ o \in backing.dirty

\* Write-back is deferred for fewer than flush_interval changes.
FlushBound ==
  (Durable /\ ~OpenMayFail /\ params.interval # 0) =>
    backing.since < params.interval

\* A crash costs at most the bytes of the dirty range.
CrashLosesOnlyDirty ==
  [][(Durable /\ params.path # NoFile /\ Crash) =>
       \A o \in Offsets \ backing.dirty : data'[o] = data[o]]_vars

\* An orderly end of the simulation costs nothing.
DestroyLosesNothing ==
  [][(Durable /\ ~OpenMayFail /\ params.path # NoFile /\ Destroy) =>
       data' = data]_vars

\* Whatever the parameters do, a byte leaves the dirty range only when the
\* selected file holds it, except when the process dies.
DirtyKept ==
  [][~ (Crash \/ Destroy) =>
       \A o \in backing.dirty :
         o \in backing'.dirty \/ backing'.files[params.path][o] = data'[o]]_vars

-----------------------------------------------------------------------------
(* The command state machine implements a NOR array.                       *)

\* The operation the commands so far ask for, the block of each byte, and
\* what the compatibility switches allow besides.
Asked == CASE pending \in {"program", "write_buffer_data"} -> "program"
           [] pending = "erase" -> "erase"
           [] OTHER -> "none"
BlockOf == [o \in Offsets |-> SectorOf(params.sector_size, o)]
Lax == (IF params.ff_sets_bits THEN {"byte"} ELSE {})
         \cup (IF params.ff_erases_sector THEN {"block"} ELSE {})

Nor ==
  INSTANCE NorArray WITH
    Offsets <- Offsets, Bytes <- Bytes, Ones <- Erased,
    array <- data, asked <- Asked, blockOf <- BlockOf, lax <- Lax

\* The array changes only as a NOR array may: programming clears bits, only
\* a confirmed erase of one sector sets them, and neither happens unasked;
\* the 0xff compatibility switches add exactly what they say.  (About the
\* commands: no image is loaded and the platform is not restarted.)
ImplementsNorArray == Nor!Spec
=============================================================================
