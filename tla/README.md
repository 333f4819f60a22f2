# A TLA+ model of the Apollo platform's device models

qbox-platform is a virtual platform: SystemC/TLM device models written in C++
(`systemc-components/`), wrappers and accelerators around QEMU processors
(`qemu-components/`), and Lua files that instantiate and connect them
(`platforms/apollo/`).  The QEMU processors, the SystemC kernel and Arm's
firmware are outside this repository.  What the repository itself has to get
right is the behaviour of the devices: what a register write changes, what the
SystemC processes do afterwards and in which order, and what the processors,
the interrupt lines and the files on the host see of it.

The modules here model that behaviour.  `PROJECT.json` says for every
definition which lines it stands for, and lists the runs, the hazards each
property is aimed at, and the theorems.

## 1. Inventory

How the parts run.  A transaction (`b_transport`) executes in one go inside
the SystemC kernel, and so does a callback of a signal socket that it calls.
An `SC_THREAD` runs from one `wait()` to the next.  An `SC_METHOD` runs from
its event to its end.  These never overlap.  Two things do not wait for the
kernel: a processor that has a DMI pointer reads and writes memory while a
device runs, and the host (the file system, another program that uses the same
backing file, the end of the process) acts between any two steps.

| part | state it keeps | operations | interacts with | what is hard | what makes it correct |
|---|---|---|---|---|---|
| `strata_flash_j3` | array, command state, write buffer, map of erased sectors, backing file with a dirty interval, DMI grants | command, program, buffered program, erase, lock, read modes, parameter callbacks, image load, destruction | CPUs by transaction or DMI; a file on the host | opens that fail, deferred writes, a crash between write and flush, a cache of "erased", grants that outlive a mode | NOR semantics; no byte is lost except the dirty ones in a crash; DMI agrees with transactions |
| `mhu320ae`, doorbells | postbox and mailbox words, masks, enables, queue of synthetic completions, rpmsg worker | ring, clear, mask, unmask, enable; completion process; name-service thread | the peer frame, interrupt lines, virtio rings in memory | events that fire while the thread waits elsewhere; two frames changed by one write | lines exact, no kick or transfer lost, announcement published once before it is rung |
| `mhu320ae`, SCMI server | slots in shared memory, power-domain table, one pending reset, pending system reset, performance level | respond to a request; domain-reset thread; system-reset thread | agents by DMI and doorbell; reset lines | a response that grows while it is polled; one ack bit for all channels; one pending reset for all domains | a free channel holds a whole response; lines follow the table; discovery is honest |
| `mhu320ae`, RSE services | protected storage, boot measurements; the words of a message in the channels | respond to a PSA message: storage, measured boot, firmware update | the AP's client, by channel words and by pointers into its memory | words that can only be ORed into, clearing that reaches both frames, a client that restarts half-way, a fault after the effect | each request served once and as sent; the client finds its own reply |
| `zena_fmu` | per bank key, record control and status; two lines | keyed and unkeyed writes, error injection | drives `zena_ssu` | one key, one write; lines that sum up banks | lines exact; nothing is cleared without the key |
| `zena_ssu` | error record, control, system state, output | register writes, two fault inputs | driven by `zena_fmu` | edges that come while it is being reconfigured | a reported state is explained and held |
| `host_ppu` | policy and status registers, reset and load lines | policy write; power-on thread | SCP firmware; reset lines of clusters | power goes off while the power-on thread is waiting | the line follows the status |
| `reset_fanout` | queue of values, last value | input callback, emission process | reset lines | values that arrive before the emission | each change reaches each target once, in order |
| `mmu720ae` | command and event queue indices, error bits | queue processing, event record | SMMU driver, interrupts | wrap bits, full queue | no event overwritten, overflow reported |
| `rse_atu` | 32 regions, latched faults, granted DMI ranges | region writes, translated accesses | RSE CPU, host memory map | DMI granted under a table that is rewritten | a grant never outlives the region it came from |
| `rse_lcm` | one-time words with their image file, life-cycle state, lock | provisioning writes, write-back, start | RSE boot code, a file on the host, `rse_kmu` | a write-back cut short, in place or after truncating the image, images short or unreadable, stores that miss the word path | a burnt bit is lost only in the ways named in section 6 |
| `rse_kmu` | key slots, export addresses | reset (loads keys from the OTP image), key write, export | RSE, CC3XX, the OTP image | export and load that stop half-way | a hardware key is made of burnt bits |
| `dma350` | channel registers | a command runs inside the write | CPU, memory | status after a partial failure | status tells what was done |
| `cc3xx` (+ native QEMU variant) | PKA SRAM, map, lengths and cached modulus; hash, cipher and MAC state; DMI cache | an opcode, a transfer, padding, saving and restoring, reset; an access from the engine | RSE CPU, memory, targets that revoke DMI | a cache of N, partial blocks, transfers that fail half-way, pointers revoked by another thread | results are those of the registers and bytes; a pointer is right when used |
| `rse_cpu_accel` | result caches of boot-loader calls | replace a guest function by a host one | RSE CPU | stale results | a cached result is the one of these bytes |
| `gicx00_multiview`, `rse_protection_ctrl`, `rse_integrity_checker`, `rse_sam`, `rse_sysctrl` | register banks with a few derived bits | register writes | CPUs, interrupt lines | little | locks hold |
| `host_smcf_mgi`, `host_scr`, `host_cmn_cyprus`, `host_ni710ae_nci`, `host_gtimer`, `host_system_pll`, `gic720ae_messreg`, `ras_ffh_stub` | register banks or constants | reads and plain writes | CPUs | nothing | not modelled |
| CPU wrappers, `platforms/apollo/*.lua` | parameters and connections | construction | everything | nothing at run time | used for the values of constants |

## 2. Plan

Order, most important first; a tick says that it is done.

1. `StrataFlash` ✔ with the abstract `NorArray` ✔: the only device whose state
   survives the process.
2. `MhuDoorbell` ✔: the doorbell pairs and their SystemC processes.
3. `ZenaFmu`, `ZenaSsu`, and their composition `FaultPath` ✔.
4. `ScmiPower` ✔: the SCMI server of the same mhu320ae.
5. `EventQueue` ✔ with the abstract `EventFifo` ✔: the event queue of
   `mmu720ae`.
6. `RseAtu` ✔: translation and the DMI ranges granted under it.
7. `RsePsHandlers`, `RsePsProxy` ✔ with the abstract `PsService` ✔: the RSE
   services behind `mhu320ae` and the transport of their messages.
8. `RseLcm`, `RseKmu` and their composition `RseKeys` ✔.
9. `Cc3xxPka`, `Cc3xxDma`, `Cc3xxMemory` and their composition `Cc3xx` ✔: the
   engines and the DMI cache of the native variant.
10. `HostPpu`, with the lines it drives and `reset_fanout`; `Dma350`; the
    caches of `rse_cpu_accel`.
11. The register banks that have locks or derived bits.

Each gets a component module with named assumptions on its constants, an MC
module, runs at the bounds where its hazards happen, and, in a module of its
own, the proof of its safety invariants.  Abstract specifications worth
stating besides `NorArray`, `EventFifo` and `PsService`: a queue of values for
`reset_fanout`.

## 3. Modules and how they correspond to the code

Conventions.  An action is a whole handler, or the part of a process between
two waits.  A word or a byte is the set of its 1 bits (or of its groups of
bits, where the code treats a group alike), so that `|=`, `&= ~` and `&` are
union, difference and intersection.  A pending notification of an `sc_event`
is a flag, or one of `none`, `timed`, `delta` where both kinds meet (a `delta`
notification overrides a `timed` one).  Operators that describe a plausible
bug, used to show that a property can fail, are marked "Mutant" in their comment;
no specification uses them.

### StrataFlash (`strata_flash_j3.h`), NorArray

`data` is `m_data`; `mode`, `pending` the two state variables of the command
machine; `wbase`, `wlen`, `written` the write buffer; `erased` the sector map;
`backing` the host files, which one is open, the dirty interval and the count
of deferred changes; `grants` the DMI pointers that initiators hold, each into
the array or into a mapped file; `params` the CCI parameters.  `Write` is
`write_access()` with its dispatch: the word goes to a program, a buffer
count, buffer data, a confirm or a new command by the pending state.
`OpenPath`, `FlushDeferred` and `EnsureBacking` return the SET of results that
the host's answer to open, fstat and mmap allows.  The Set* actions are the
parameters' write callbacks; `Crash` ends the process with what the files
hold, `Destroy` runs the destructor first.  Data are abstracted: status and
query contents are left out (nothing depends on them), and a byte has one or
two bit groups.  `NorArray` is what a NOR flash promises: bits are cleared
only by an announced program and set only by an announced erase of one block.
Its two configuration variables are read off the device: the block a byte
lies in under the present sector size, and which of the two 0xff compatibility
switches is on, since each of them lets a program of 0xff set a byte or erase
a block.

### MhuDoorbell (`mhu320ae.h`, doorbell protocols)

`protocol` is the postbox's parameter, chosen at the start and never changed;
`pst`, `pint`, `pen`, `pirq` are the postbox frame, `mst`, `mmask`, `mirq` the
mailbox frame, `done`/`doneEvent` the queue of synthetic completions and its
event, `ns` the rpmsg name-service worker with its program counter, `ring` the
host's receive ring in shared memory.  `Ring` is the whole write of a set
register: the bridge, the proxy's reply, the direct-boot reply, the automatic
acknowledgement, the kick.  `NsEvent`, `NsResume`, `NsSignal` are the worker
between its waits.  `HostPost` and `HostMakeReady` are the host, through DMI.
Sizes of messages and the contents of the announcement are left out.

### RsePsHandlers, RsePsProxy, PsService (`mhu320ae.h`, RSE services)

`RsePsHandlers` has no state: it says what parsing, the handlers of the three
services and the reply make of a request, a storage and a table of
measurements.  A message is a row of units (two for the header, one for each
field or datum) instead of bytes; sizes, capacities, offsets and cuts are kept.
Faults of the sender's memory in a pointer request are a choice, made where
the code looks at the answer, so that an input can fail before the effect and
an output after it.  `RsePsProxy` is the transport: `post` and `mail` hold the
words of the two frames, a postbox word being the set of what was ORed into
it, and a message with a missing or mixed word may be read as anything.  The
client is external and sequential: it writes word by word, notifies (which
answers within the write), reads, clears mailbox words up to the moment the
next message reaches that channel, restarts anywhere and then clears the
whole mailbox.  Nothing in the proxy protects a client that clears a channel
it has already written, or one that restarts without clearing.  `PsService` is
the service without channels.  What serving a request may do is a parameter of
it, for which the refinement puts `build_rse_ps_reply`; every outcome must be
`Honoured`, which states independently of the handlers what may change, what a
refusal leaves alone, where the outputs are and what a get delivers.  The interrupts of the pair are
in `MhuDoorbell`.

### ScmiPower (`mhu320ae.h`, SCMI)

Agents post a request (`Post`), ring, poll their channel or sleep until the
mailbox interrupt.  `respond_scmi` is decided in one step (the request was
read) and then written word by word: `WriteResponse` is one `mem_write`,
because processors read shared memory by DMI meanwhile; `Acknowledge` is the
end of the register write.  `table`, `last`, `pend`, `event` are the
power-domain table and the one pending reset, `core` what a core at the end
of a line sees, `sys` the system reset with its thread.  `fate` and `told` are
history variables: what became of the last state set for a domain, and what
discovery has announced.  Payloads other than the argument that decides the
answer are left out.

### ZenaFmu, ZenaSsu, FaultPath (`zena_fmu.h`, `zena_ssu.h`)

Each module has the state and the register writes of its device.  `FaultPath`
composes them: a write to the FMU ends in `emit_irqs()`, which calls the
SSU's callbacks in the same step, the critical line first.  A signal socket
may or may not call its target again for an equal value; both are allowed.
Reads and the read-only identification registers are left out.

### EventQueue (`mmu720ae_core.cc`, `mmu720ae.cc`), EventFifo

The registers are `cr0`, `size` (the entries that EVTQ_BASE gives, 0 when the
queue has no size or no address), `prod`, `cons`, `irqCtrl`, `gerror`; `irq` is
the combined interrupt, `ring` the queue in memory.  A pointer is a number
below twice the size: its index and its wrap bit.  `tbu_b_transport` is a
request while the SMMU is enabled: the record is built, written to memory and
completed in one transaction, or the abort is reported.  The other actions are
the register writes, with `UpdateIrq` in those that call `update_irq()`.  The
driver is external: it sets size and pointers while the queue is disabled, it
enables an empty queue, and its handler reads PROD, the records, and writes
CONS in separate steps (`drv` holds its place and the PROD it saw).
`EventFifo` is what the driver relies on: records come out once, in order and
unchanged, and one is lost only for want of room or when the memory refuses
it, and then the loss is reported.

### RseAtu (`rse_atu.h`)

`table` has the six registers of every region, `atuc` the enabled regions,
`atuis` and `atuma` the latched fault; `memory` is what is behind the unit
(external): ranges of the bus and the host byte each begins at; `grants` the
DMI ranges that initiators hold.  `translate_range(r, a, len)` says that region
r is the first one that holds the whole access and that its offset and its
output security state let the access through.  The offset is two words of
pages, written one at a time, and as a number of bytes is read in two's
complement; the model keeps both widths, `Word` and `Space`.
`translation_get_direct_mem_ptr` inverts the offset over the range that the
memory granted, cuts the result to the region and moves the pointer.  A write
of an aligned word to a region or to ATUC drops all grants; a store of any
other size or alignment changes the registers and drops nothing
(`StoreRegion`, `StoreAtuc`), and `stale` remembers that it did so while a
grant was out.  Which of the reasons a translation was refused for is left
out, since only the trace tells them apart.

### RseLcm, RseKmu, RseKeys (`rse_lcm.h`, `rse_kmu.h`)

`otp` is the window of one-time words, `file` the image with its length,
`lcs` and `locked` the life-cycle state and the lock.  `write_otp` ORs a write
into the words it covers, moves the life-cycle state and writes the window
back.  The write-back is made in place when the image can be opened for that;
else the image is created, which truncates one that is there; else nothing is
written.  Either write stops after any number of words.  The two raw stores are
accesses that the code does not recognise as OTP writes.
`key`, `port` and `dest` are the slots of the KMU, where each is exported to
and what has arrived there; an export may lose any of its words.  `RseKeys`
composes them over simulations that start, stop and crash.  `burnt`, `clean`,
`fouled`, `torn` and `exempt` are history: the bits the image has ever held,
the slots software has not written, the ports that received such a key, the
words of the window that a truncating write-back cut off the image, and the
words of which the window has lost bits, by a raw store or by a start that
found the image unreadable or torn.  `BurntIsKept` speaks of the words that
are not exempt: a torn one is still in the window, and no longer torn after
the next write-back that comes so far.

### Cc3xxPka, Cc3xxDma, Cc3xxMemory, Cc3xx (`cc3xx_core.h`, `qemu_cc3xx.h`)

`Cc3xxPka` is the public-key engine: registers as windows of an SRAM placed by
a map, lengths in bits, the opcodes with their immediates and flags, and the
value of N that is cached between opcodes.  Arithmetic is real, on words of a
few bits.  `Cc3xxDma` is the symmetric side: the hash with its partial block,
length and padding, CTR and ECB streams and CMAC, transfers in chunks that may
fail, saving and restoring.  The compression function and the block cipher
are uninterpreted: a digest is the sequence of blocks it was given, a
ciphertext names its counter and key.  `Cc3xxMemory` is how the native backend
reaches memory: the processor's thread takes one step at a time (QEMU's
address space, lookup, use, request, insertion, second lookup, transaction)
while the kernel's thread remaps a target and then revokes its range.  `late`
marks the one race the code has, an invalidation between the grant and its
insertion.  `Cc3xx` composes the three with the reset; since they share
nothing else, a behaviour uses one engine throughout (`use`).

## 4. Runs

Every run is one question.

| run | bounds | shows |
|---|---|---|
| `strata_nor` | 3 bytes of 2 bit groups, sectors of 1 and 2 bytes, buffers of 2, both compatibility switches and the sector size changed at any time, no file | `ImplementsNorArray`: the refinement; `SectorMapSound`: the cache of erased sectors is never wrong |
| `strata_durable` | 3 bytes of one bit group, sectors of 2, buffers of 2 and 3, flush intervals 0 and 2, one file that covers the flash and always opens, crash and orderly restart | `BackingCoherent`, `CrashLosesOnlyDirty`, `DestroyLosesNothing`: every byte is in the file or in the dirty interval; `DmiTransparent` |
| `strata_paths` | 2 bytes, two files of 1 byte, paths, deferral and DMI switched at any time, images loaded, opens may fail | `DirtyKept`: a byte leaves the dirty interval only into the selected file |
| `mhu_ap_si_cl1` | 1 channel of 2 bits, every word, each of the three protocols; under "doorbell" the pair configured for the absent cluster, 2 polls per round, 2 receive buffers, fair | `IrqLinesExact`, `BridgeAgrees`; `TransferIsOwned`, `KickIsKept`, `NsPublishedFirst`, `NsOnce`, `TxDoneIsReal`; `TransferEnds`, `KickIsAnswered` |
| `rse_ps` | 5 payload channels, 18 requests of every service in both formats, well-formed and not, 1 uid, 1 slot | `ImplementsPsService`: the refinement |
| `scmi_power` | 1 channel, 3 table entries, 2 lines, set/get/system reset, fair | `PendingIsArmed`, `LinesFollowTable`; `SetIsDriven`, `SystemResetPulses` |
| `scmi_protocol` | 2 channels that share the ack bit, discovery and use, responses with data, without and refused; kernel and handler fair | `FreeMeansComplete`, `CompletionIsSignalled`, `AdvertisedIsServed`; `SleeperIsWoken`: no agent that sleeps until the interrupt is forgotten |
| `fault_path` | 2 banks (symmetric) of 2 records, one of each kind, each of which may be switched off; SSU reconfigured at any time; software does not ask for an error state | `FmuLinesExact`, `OneKeyOneWrite`, `FaultReachesSsu`, `ErrorIsHeld`, `ErrorHasRecord` |
| `smmu_events` | a queue of 2 entries, pointers initialised to 0 and 3, 2 events, memory that may refuse, handler fair | `ImplementsEventFifo`, `UnreadIsKept`, `IrqNotMissed`, `EventIsRead` |
| `rse_atu` | a bus of 16 addresses with pages of 2, 2 regions that may overlap, offsets of either sign and too large ones, 2 memory maps, one grant at a time | `DmiAgrees` |
| `rse_keys` | 3 one-bit words, a hardware key in two of them, images absent, of 1 word and of 3, write-backs in place and truncating, stops and starts at any time | `BurntIsKept` |
| `cc3xx_core` | registers of up to 3 one-bit words in an SRAM of 7 at every placement of N; blocks of 4 bytes with 1 byte of length, messages to 7; cipher blocks and chunks of 2, streams to 4, memory with a hole; 2 adjacent DMI windows, 2 backings | `OpcodeComputes`, `DigestIsOfMessage`, `CipherIsOfStream`, `AccessIsCurrent` |

Why the bounds are enough.  Three bytes in sectors of two give a full and a
partial sector, an interval with a gap in the middle and a buffer that crosses
a sector.  A flush interval of 2 is the smallest at which a write is deferred
and the next one flushes; 0 never flushes.  A file shorter than the flash by
one byte has both a byte inside and one outside.  Two bits per word let one
stay pending while the other is cleared; two SCMI channels let one be served
while the other is disturbed; three would repeat these cases.  The doorbell
channels of a pair do not disturb each other except as the words of a message,
which is what `rse_ps` is about: its five payload channels hold a storage
request exactly, a longer request and the longest reply do not fit.  Two polls per round
let the worker succeed after a failure and give up after two.  Two lines and
a domain without a line are all that the single pending reset can tell apart.
Two banks are needed because the lines sum up banks, and each has a record of
each kind, so that a second fault arrives while an error is held, and an
emission for one line repeats the other where that has stayed high.  Three OTP words are the least for a write-back to be cut
short before, inside and behind a key of two.  A queue of two entries
wraps after every second record, and starting at 3 puts the wrap between the
first record and the second; the theorems are for every size.  Two regions
are enough for one to be shadowed by the other, and the property speaks of one
grant at a time; the theorem bounds neither.  Blocks of four bytes with a
length of one byte put the padding boundary between two and three bytes left;
messages of seven bytes reach both sides of it after a whole block.  A
transfer of four bytes is two chunks, and the hole in memory is in the second.
That software prepares its memory before a transfer through the cipher
(`GoodInput`) bounds what the memory can hold: each address has its own byte of
input, so that bytes taken from the wrong place are seen.

No deadlock is possible in these systems, since software may always write
again, and deadlock is checked in every run.

### Fairness

`mhu_ap_si_cl1` assumes weak fairness of the completion process and of the three
segments of the worker: the SystemC kernel runs every process whose event has
fired or whose time has passed, and nothing in the device can disable it again.
Nothing is assumed of the software or the host.  `scmi_power` assumes weak
fairness of the steps of a register write that has begun (`WriteResponse`,
`Acknowledge`), since a call returns, and strong fairness of the two threads:
while a register write is under way the threads wait, so that they are
disabled again and again, but the kernel does resume them between two writes.
`scmi_protocol` assumes besides that the mailbox's handler runs: its interrupt is
a level that stays high while the ack bit is set, and the handler's clearing
write waits for at most the register write under way (strong fairness of
`ClearAck`, weak of `Scan`).  Nobody is assumed to poll.
`smmu_events` assumes weak fairness of the handler's two reads: a processor
takes an interrupt whose line stays high, and the handler loops until it has
read what it saw.  It need not ever give the records back.

## 5. Proofs

Each theorem holds for every value of the constants that satisfies the
assumption of its module (`ConstAssumption`, `FmuAssumption`,
`SsuAssumption`, `LcmAssumption`, `KmuAssumption`, `KeysAssumption`,
`HandlerAssumption`, `CallsAssumption`, `PkaAssumption`, `DmaAssumption`,
`MemoryAssumption`): sizes are natural numbers, sets of inputs are subsets of
their types, parameters are Boolean.  Nothing bounds the size of the flash,
the number of channels, banks, records or domains, the size of a word of the
public-key engine or of a block of the hash.

**StrataFlashProofs.**  `CoreInv` is TypeOK ∧ SectorMapSound ∧ BufferFresh.  The
type alone is not inductive: that the sector map has one flag for each sector
of the present size, and that a buffer lies in the flash, is what keeps the
next program in range.  `DmiInv` adds that, unless `enable_dmi` is switched, a
grant implies the array mode with nothing pending.  `BackInv` says, under `Durable`, that a byte outside the
dirty interval equals the file's, that the interval is an interval, and that
the counter is below the flush interval, and that grants into the file are
of the selected file and exist only while nothing is dirty; it is preserved because each of the
functions that return a set of results (`OpenPath`, `FlushDeferred`,
`EnsureBacking`) has a lemma on what every result satisfies.  `FullInv`
is all of them together.  `DestroyIsClean` and `DirtyIsKept` are about single
steps from a state of `FullInv`: a destruction that can open its file leaves
every byte in it, and a byte leaves the dirty interval only into the selected
file.  `FlashImplementsNorArray` shows every step to be one of `NorArray` or
none, command by command; a program or an erase is mapped to the announced
one because the pending state names it.

**MhuDoorbellProofs.**  The interrupt lines are exact because every handler
ends in the two updates: one lemma per handler.  `BridgeInv` gives
`BridgeAgrees`: it adds that neither process has anything to do on a bridge.  `WorkerInv` ties the worker's program counter to its flags
and the used ring; from it follow `KickIsKept` and `NsOnce`.  `NsBitInv`
adds where the announcement's bit can come from, for `NsPublishedFirst`.
`TxDoneIsAlwaysReal` looks at every step that can raise a transfer interrupt.

The second half is the RSE proxy, `ProxyImplementsService`.  `Sound` is what a
handler promises of its result; there is one lemma per handler, and
`HandlerIsSound` for the dispatch.  `ReplyIs` and `FlattenIs` say what the
reply holds and where, so that every outcome, lost buffers included, is
`Honoured` (`OutcomesAreHonoured`).  `ProxyInv` is the invariant of the
channels: the postbox is clear between two messages and while an answer
waits, holds exactly the words written so far during a message, and is clear
as far as it was drained after a restart.  Hence the message read at a
notification is the one sent; two messages of length 0 cannot be told apart,
but are answered alike (`RequestsNotRead`).

**ScmiPowerProofs.**  `ResponseInv` needs `StageInv`, which says for each stage
of the response which words of the slot are already the response's, and
`PostedInv`, which says that a channel whose doorbell was not rung yet is
marked busy.  `ResetInv` is TypeOK ∧ PendingIsArmed ∧ LinesFollowTable and
is inductive together.  `DiscoveryInv` adds `ToldInv`, that everything told is
in the served tables, and `AnswerInv`, that a status in a slot, or on its way
there, is the one those tables give for the request.

**FaultPathProofs.**  `FaultInv` is TypeOK ∧ FmuLinesExact ∧ SafetyOutputExact ∧
ErrorHasRecord.  The action properties `OneKeyOneWrite`, `FaultReachesSsu` and
`ErrorIsHeld` follow from it one action at a time.

**EventQueueProofs.**  `QueueInv` is TypeOK and, for a queue in use, the order of
four pointers: CONS, the driver's place, the PROD it saw, PROD, with at most
one size from the first to the last (`Ordered`).  Distances between pointers
modulo twice the size make this arithmetic linear; six lemmas say what a step
of a pointer does to them.  From it follow `UnreadIsKept` (the slot that PROD
names is not among the unread ones unless the queue is full) and the
refinement `QueueImplementsFifo`, whose two interesting steps, recording and
taking, are lemmas of their own.  `IrqNotMissed` needs only that a queue is
empty when it is enabled.

**RseAtuProofs.**  `Backed` says of every byte of a grant that some enabled
region takes it to the granted host byte, and is inductive with the types.  It
needs one lemma of arithmetic, `GrantReaches`: inverting an offset over the
memory's range, cut at 0 or at the top of the bus and then to the region,
leaves addresses that the same offset takes back into that range.  The rest is
that every other step either leaves the mapping alone, drops the grants or
marks them.

**RseKeysProofs.**  That what was burnt is in the image and in the window is not
inductive by itself: a write-back copies the window over the image, and a
start copies the image into the window, so that the proof needs the converse
too, `ImageIsBurnt`, that the image holds nothing which is not counted as
burnt.  `FlushSettles` says what a write-back leaves of each word wherever it
stops, in place or truncating: the window's; the old one, torn if it was; or
nothing, and then it is torn unless the window has nothing there either.  Keys and exports follow from
`LoadedKeys` and from the export taking each word from the slot or leaving it.

**Cc3xxProofs.**  The hash: `HashInv` says of the running state that the blocks
compressed and the partial block, put together, are the message so far, that
the length counts it and that the partial block is not full; the padding then
adds one block or two, as the message's length says.  The ciphers: `CipherInv`
says at which place of the stream the counter and the key stream stand, and
what the transfer under way has written.

The public-key engine: `PkaInv` says that the SRAM holds words and that the
cached modulus, unless `stale`, is the number in N's window for the length it
was filled for (`Fresh`); that stores beside N leave it is arithmetic on
windows.  `ModulusIsAlwaysCurrent` follows.  `OpcodesCompute` is then about the
operators.  Every loop of the code is a recursive function, and has to be shown
to exist before it can be unfolded (`LoopExists`); what holds at each pass is
then proved by induction in the form of a set of indices that contains 0 and
every successor (`Induction`, from the well-foundedness of the naturals),
since the provers cannot use an induction rule with an operator for parameter.
Words and numbers correspond digit by digit; the carry or borrow after i words
is that of the numbers cut to i words; shifts are division and multiplication
by two, once per bit; square-and-multiply keeps acc * sq^exp modulo N;
Euclid's algorithm keeps each remainder congruent to its coefficient times
the operand, with coefficients of alternating sign and |nt| * r + |t| * nr = N,
which bounds them, so that the inverse found is reduced.  `OpcodeComputes`
leaves out AND, OR and XOR, whose reference would be their definition.

The path to memory: the cache holds only current entries because a
revocation erases every entry of its window; the walk finds them by their
ends, so that `CacheInv` adds that an entry is not empty and lies in one
window.  A grant under way is current or marked (`GrantInv`), and the history
`seen` of an access contains what its windows are backed by (`SeenInv`), so
that an entry looked up during the access is one of these (`UseInv`).

Proved without a run of their own, because the invariants above need them:
`BufferFresh`, `DmiOnlyInArrayMode`, `FlushBound`, `SafetyOutputExact`,
`CachedIsCurrent`, `ModulusIsCurrent` and the type invariants.

Only model-checked: the liveness properties `TransferEnds`, `KickIsAnswered`,
`SetIsDriven`, `SystemResetPulses`, `SleeperIsWoken` and `EventIsRead`, since
reasoning under fairness is out of the prover's reach.  Every invariant,
action property and refinement that a run checks is also a theorem.

## 6. What is not modelled, and what the models leave open

The parts without a module are listed in section 1 and, with the reason, in
`PROJECT.json`.  The AES rounds, the SHA-256 compression and the arithmetic of
`rse_cpu_accel` (P-256, LMS) are out of a model checker's reach; the public-key
opcodes of cc3xx are checked on one-bit words and proved for every size.

Some behaviours of the code are in the models but no property is stated about
them, because nothing in the repository says what is intended.  Grants handed out before `enable_dmi` is switched off are not revoked
(`strata_flash_j3.h:882`), nor are pointers into a file that is switched away
(`:347`); a write-through that fails is
not retried; a dirty interval that crosses the end of a short file stays
dirty; a power state set for a second domain before the thread runs replaces
the first one's reset; a system reset asked for during the pulse of another
is not carried out; two enabled regions of the ATU that overlap make a DMI
pointer and an access disagree, since an access takes the first region and a
grant covers the whole region it was made in; a store to the ATU's table that is not an
aligned word leaves pointers into the old mapping; the SSU reacts to edges, so that a line which is already
high when the SSU is enabled goes unnoticed; and a non-critical fault that
arrives after a critical one turns ERRC into ERRN (`zena_ssu.h:385`, `:126`).
In the KMU and the LCM, a start that cannot read the image and then burns
replaces the image by its own window, and an eight-byte store just below the
window reaches its first word.  An image that cannot be opened in place is
truncated before it is written (`rse_lcm.h:114`): if that write is cut short and
the simulation ends before another one, the words it did not come to are gone.
An export whose writes fail leaves the port with words of two keys and raises
the completion interrupt all the same (`rse_kmu.h:207`).  In cc3xx, a store to the memory map that is not
one aligned word leaves the cached N of the old map (`cc3xx_core.h:2008`); the
properties of both exclude these states by name.

Two hazards of the code are outside the models: the power-on thread of
`host_ppu` releases the reset after its two waits without looking at the
policy again (`host_ppu.h:130`), and the event queue of `mmu720ae` chooses a
slot before a call that could let another request in if its target waited
(`mmu720ae.cc:188`; no memory of this platform does).
