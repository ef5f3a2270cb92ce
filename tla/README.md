# S5LBox in TLA+

This directory holds a formal model of S5LBox, an iPhone 3G (S5L8900) emulator with
an iOS application around it: TLA+ modules translated from the C and Objective-C
sources, TLC configurations that check them on small instances, and TLAPS proofs of
the properties that matter most for every value of the constants.  `PROJECT.json`
maps every definition to the source lines it models.

Paths are relative to the repository; `app/` stands for `app/Sources/`.

## 1. Inventory

| component | sources | state it keeps | operations | interacts with | what is hard |
|---|---|---|---|---|---|
| guest disk replacement | `app/VMGuestInstall.c` | one live root filesystem; per transaction namespace a backup, a stage directory with a staged image, a journal, a commit record | recover, prepare a stage, clone, discard, publish, confirm, clean up | the callers below; the resume request; the host filesystem | termination or loss of power between any two calls, calls that fail, twelve namespaces that share one live name |
| its callers | `app/VMGuestInstallBuild.c`, `VMFirmwareBoot.c`, `VMIPAPackage.m`, `VMPackageBridge.m` | none of their own | first installation, maintenance, boot repair, app installation, package setup | guest disk replacement, checkpoint | the order of recoveries, what was checked before a long construction |
| checkpoint | `app/VMResumeCheckpoint.c` | state file, bridge file, one-shot marker | save, disarm, probe, consume | boot, engine | a marker that is armed for another generation of the files |
| snapshots | `app/VMSnapshotStore.c`, `VMSnapshotCow.c`, `core/src/snapshot.c` | snapshot directories, copy-on-write block maps | take, restore, delete | block device, engine | partial writes, a write before its block is preserved |
| TCP gateway | `core/src/net/tcp.c` | per connection sequence numbers, buffers, timers | segment from the guest, data from the host, poll, close | PPP, the host sockets | reordering and retransmission, half close, window limits, wrap-around |
| PPP link | `core/src/net/ppp.c` | LCP and IPCP automata, restart timers and counters, transmit ring, frame parser | receive, negotiate, terminate, poll | UART, TCP gateway | crossing negotiations, lost and repeated replies, a guest that starts again |
| network session | `app/VMNetworkSession.c` | host sockets, queues between threads | open, send, receive, close | TCP gateway | threads, late callbacks |
| input queues | `app/VMButtonQueue.c`, `VMTouchQueue.c`, `VMGuestShutdown.c` | bounded queues between the UI and the emulation thread, holds of keys, the shutdown gesture | push, coalesce, drain, release everything, step the gesture | engine, buttons and touch controller | overflow, lost releases, a save or a gesture with a finger down |
| audio buffer | `app/VMAudioBuffer.c`, `VMAudioOutput.m` | two rings between the emulation thread and the audio callbacks, an epoch, switches | put, get, discard, render, record, rebuild the graph | engine | four threads without a lock, wrap-around, sound from before a pause |
| USB mux and host | `core/src/usb_mux.c`, `usb_host.c`, `app/VMUSBTransport.m`, `VMUSBRecovery.c` | channels with windows, enumeration, clients and their socket pairs | open, write, read, close, poll, reconnect | USB OTG controller, client threads | flow control, a controller reset between two polls, a client that gives up |
| guest packet bridge | `core/src/guest_packet_bridge.c` | shared-memory rings | enqueue, dequeue, doorbell | guest driver, network | wrap-around, a peer that restarts |
| memory disk bridge | `core/src/md_raw_bridge.c`, `md_bridge.c`, `vm_block.c` | continuations and bounce buffers, a guard behind the medium | entry call, completion call, checkpoint, reboot | guest kernel threads, block file | threads inside uiomove, partial transfers, a checkpoint in between |
| engine | `app/VMEngine.m`, `VMGuestShutdown.c` | run state of the emulation thread, checkpoint requests | start, stop, pause, checkpoint, shutdown | all of the above | threads, a stop during a save |
| firmware import | `app/VMFirmwareImport.c`, `core/src/firmware/` | partial and final files | import, verify, publish | file system | termination between two files |
| instances | `app/VMInstances.c` | list of machines, files on disk | create, rename, delete | file system | partial creation |
| SoC devices | `core/src/soc/*.c` | registers, FIFOs, interrupt lines | MMIO read and write, ticks | CPU, interrupt controller | level and edge interrupts, DMA order |
| CPU | `core/src/arm`, `core/src/jit`, `core/src/mmu.c` | registers, code caches, TLB | execute | memory, devices | translation against interpretation |
| graphics | `core/src/soc/mbx.c`, `clcd.c`, `tvout.c` | command streams, frame buffers | submit, present | memory | arithmetic on pixels |
| user interface | `app/*ViewController.m` | views; the busy states of the machine's screen | user actions, completions | engine, stores | completions that arrive late or out of order |
| tools | `tools/*.c` | none kept | command line harnesses around the core | core | file formats |

The behaviours that make the system hard are in three places: state that must survive
the process (disk replacement, checkpoint, snapshots, import), protocols with a peer
that is not under control (TCP, PPP, USB, packet bridge), and buffers shared by threads
(queues, audio, engine).

What makes each correct: a complete disk at every instant and a commit record that
never lies (disk replacement); a resume request that only ever restores against the
disk it was saved with (checkpoint); bytes delivered once and in order (TCP, USB mux,
packet bridge); negotiations that converge (PPP); a press that is always followed by
its release (queues); samples in order (audio); preserved blocks that hold the bytes
of the instant of the snapshot (snapshots).

## 2. Plan

Done, in this order: `GuestInstall` with its proof (the largest piece of crash-safe
code, and the one that can lose the owner's data); `TcpNat`; `SnapshotCow` with its
proof; `VMEngine`; `AudioBuffer` over `AudioQueue`, which implements `AudioFifo`;
`PppLink`; `UsbServices` over `UsbMux`; `GuestInput` over `TouchQueue`; `MdRawBridge`,
which implements `MemoryDisk`; then the proofs about `MdRawBridge`, `PppLink`,
`AudioBuffer`, `GuestInput` and `VMEngine`, and of the remaining claims of `GuestInstall`;
the proof about the channels, sessions and windows of `UsbServices`.

Left:

1. Proofs: the contents of the streams of `UsbServices`; the cursor and the windows of
   `TcpNat`; `EvidenceIsClear` of `GuestInstall` under terminations alone.
2. The rest of the network: session, resolver, UDP flows and the guest packet bridge.
3. The two state files of a checkpoint, the publication of imported firmware.
4. Interrupt controllers, timers and DMA of the board.

Each run checks a small number of properties.  Where several belong to one idea they are
stated separately and checked as one conjunction of named parts (`InputAccounted ==
TypeOK /\ FingerAccounted /\ KeyAccounted /\ LiftHasRoom`); every part has a mutant of
its own in `PROJECT.json`.

## 3. Guest disk replacement: `GuestInstall`

### State

`fs` is what the running process sees in the work directory and its stage directories,
`dur` what is certain to survive a loss of power: an fsync of a directory copies the
entries of that directory from `fs` to `dur`.  `soft` are the namespaces whose staged
image has bytes that were not fsynced.  `op` is the call stack of the one thread that
works on the disk (`pc` names the next system call or the place where the code decides;
`todo` are the recoveries still to be made and `goal` where the caller goes on), `txn`
remembers for the properties which image a transaction replaces and by which.  Images
are numbered in the order they come into being; `Torn` is an incomplete file.

### Actions

Every system call that changes a directory entry or makes one durable is one action
(`SwapOut`, `SwapOutSync`, `SwapIn`, ...), so that a fault can happen between any two.
`MaintenanceRecover`, `RecoverFor` and `Continue` are the decisions of
`vm_guest_maintenance_recover`, `guest_recover_for` and `guest_continue`; `Prepare`,
`PrepareStage` and the `St..` calls are `guest_prepare_stage_for`; `Publish` to
`JournalSync` are `guest_publish_for`; `Confirm..` are `guest_confirm_for`; `Copy..` and
`Discard..` the clone and its disposal; `Build..` the publication of the image
constructor `rootfs_work_create`.  `Boot`, `BeginBuild`, `BeginApp`, the gates,
`BeginRepair` and `ConfirmNext` are the callers.  Faults are actions of their own:
`Kill` (the process dies, the page cache stays), `PowerLoss` (each directory is found
as last synced or as last seen, and unsynced bytes are lost), `IoFailure` and
`CleanupFailure` (a call fails without effect), `LoseStage` and `LoseJournal` (the
losses that the repository's own tests exercise).

### Runs

| run | faults | what it shows |
|---|---|---|
| `install_kill` | 2 terminations, guest writes and suspends, fairness | recovery never meets evidence it has to refuse; a boot never resumes a saved machine against another disk; no journal without an image; every open transaction is finished or rolled back |
| `install_faults` | 2 losses of power, failing calls or lost files | the disk survives, there is one claimant of the live name, a commit record never lies, what a preparation established still holds at the publication |

`EvidenceIsClear` are `RecoveryDecides` and `JournalHasEvidence`, `Undisputed` are
`OneClaimant` and `Unopposed`.

Disagreements with the comments that the model shows.  They are not among the listed
runs, which pass; the first two can be reproduced with configurations of their own.

- With a termination and a loss of power (`GuestInstallRollback.cfg`) `JournalHasEvidence`
  fails: the rollback renames the backup to the live name and removes the journal
  afterwards (`VMGuestInstall.c:825`).  An interruption in between leaves a live image,
  a journal, no staged image and no backup, which `guest_continue` calls contradictory
  in every later recovery.  The header says the layer leaves "enough durable evidence to
  finish or roll back after termination at every rename boundary"
  (`VMGuestInstall.h:6`).
- With failing removals and three faults (`GuestInstallDebris.cfg`) `RecoveryDecides`
  fails: the commit record of a repair whose cleanup failed stays, and a first
  installation that is then terminated between its renames has no live image, so that
  `vm_guest_maintenance_recover`, which runs first, refuses the record
  (`VMGuestInstall.c:897`).  The header says of failed cleanup that "the next recovery
  call may retry cleanup" (`VMGuestInstall.h:160`).

Two more can be seen by reading the model.  A termination inside the image constructor
leaves its temporary file in the stage, which every later preparation then refuses
(`VMGuestInstall.c:1190`, against "A journal-free interrupted candidate is inert and is
removed", `VMGuestInstall.h:194`). And a resume request is consumed without a sync of
its directory, so that a loss of power brings it back (`VMFirmwareBoot.c:1943`):
`ResumeMatchesDisk` is therefore checked under terminations only.

Bounds: three namespaces (the first installation, the boot recovery and a permanent
maintenance or an app installation) are enough for every pair of
transactions that share the live name; three images let a second transaction begin
after the first; two or three faults interrupt a transaction, its recovery and the
recovery of that.  Fairness (`FairSpec`): the thread that runs an operation is
scheduled (weak fairness of `Step`), and the owner opens the machine again whenever it
is idle often enough (strong fairness of `Boot`); nothing is assumed of the faults but
their number.

### Proofs

`GuestInstallProof` proves `[]TypeOK`, `[]DiskSurvives`, `[]Undisputed` and
`[]CommitMeansInstalled` for every choice of namespaces, table order, identities, bounds
and fault switches, and `[]ResumeMatchesDisk` for the same on a host that keeps its power
(`~POWER`; the disarmed request of the boot is not synced, see above).  The assumptions
are those named in `GuestInstall`: the namespaces are distinct, the table lists each
maintenance namespace once, bounds are numbers.  Each invariant strengthens the one
before it.

- `IInv`, for `DiskSurvives`.  A loss of power turns what was synced into what is seen,
  and the swap is only safe because of what was established calls ago.  So each of the
  two views keeps a disk by itself (`Keeps`), no backup is incomplete (`Whole`), an
  image a journal speaks of is complete and synced (`JournalledComplete`), and for every
  program counter there is what the code has established by then (`SwapKnows`,
  `StageKnows`).
- `FullInv`, for `Undisputed`.  A namespace claims the live name if it holds the backup
  of an open transaction or could after a loss of power (`Claims`); there is at most one
  claimant, a claim that a loss of power would bring back is one already, and an image
  that recovery took for gone does not come back (`ClaimInv`).  Nothing but the order of
  the recoveries keeps the claimants apart, so `SettleInv` says that the caller has still
  to recover whoever claims the name, or is replacing it.  `SwapHolds`, `CleanupKnows`
  and `StageHolds` are what the swap, the cleanup and the preparation of a stage have
  found or removed; `TidyInv` is that the constructor's temporary file is gone before a
  namespace has a record.  After a removal that failed, the cleanup goes on
  (`op.dirty`) and the stage may still hold files: `Unopposed` excepts it.
- `InstallInv`, for `CommitMeansInstalled`.  Images are numbered as they come into being.
  Until the swap the disk is at most the image the journal names, and that one is the
  only image in the stage; from the swap on, in both views, it is at least that image
  (`Installed`, `ImageInv`).  A later transaction only moves the disk to a greater
  number, and its rollback cannot go below, because its own backup is at least that.
- `ResumeInv`, for `ResumeMatchesDisk`.  A request is for the live disk, or for the
  backup that has its bytes while the live name is free, or a swap is under way
  (`ResumeKnown`) which will invalidate it before its commit record (`ResumeSpent`).

The proof has one step per action for each conjunct the action can disturb; the conjuncts
it cannot disturb are left to lemmas about groups of actions, by the entries they change
(`..Inert`) or the places in the code they reach (`..Elsewhere`).

Only model-checked: `EvidenceIsClear`, which the code gives only while no power is lost,
no call fails and no file disappears (the first two disagreements above), so that the
theorem would be about terminations alone; and `TransactionsSettle` (liveness under
fairness is out of the prover's reach).

Not modelled: path formatting, the byte format of the records (a record is the
identity it carries, or absent), file types other than the expected ones, the HFS+
checks and the package plan, which are choices of the environment.

## 4. TCP gateway: `TcpNat`

### State

One connection.  `flow` is its `net_flow_t` (state, sequence numbers, the two buffers,
congestion window, retransmission and closing deadlines, the pending flags), `outq` the
bounded queue of datagrams toward the guest, `host` the egress socket (what it sent and
took, whether it is ready, closed or failed), `guest` the guest's end with what it sent
and read, `link` the segments on their way to the gateway, `budget` counts the bounded
events.  A byte is its number in the stream it belongs to, so that a property can tell
a lost, repeated or misplaced byte.  Sequence numbers are taken modulo `SeqMod`, chosen
so that both sides wrap during a connection.  A deadline is off, armed or due.

### Actions

`Input` is `net_tcp_input` (SYN, reset, acknowledgement, data, FIN, in the order of the
code, each early return included), `Tick` is `net_tcp_tick` (connect, transfer in both
directions, half-close, pump, retransmission and persist timers, TIME_WAIT), `Elapse`
lets an armed deadline fall due, and `Guest...` are the peer: it opens, sends and
repeats any part of its stream, acknowledges what it has read, closes, resets.  `Lose`
and `Stray` are the link.  The peer is external and less restricted than any real TCP;
the one thing assumed of it is that what it acknowledges it has received.

### Runs

| run | bounds | what it shows |
|---|---|---|
| `tcp_upload` | 2 guest bytes, a receive buffer and an output queue of 1, failing sockets, resets, strays, 2 SYNs, spurious timeouts | the host reads the guest's stream once and in order; nothing acknowledged is lost; the offered window never retracts |
| `tcp_stream` | 2 host bytes, a window of 1, two output slots, 2 losses, `FairSpec` | the guest reads the host's stream once, in order and to its end; the cursor stays within what is buffered; an acknowledged FIN is not sent again; the whole stream arrives although a window update was lost |

`GuestStreamKept` are `TypeOK`, `HostReadsGuestStream` and `AckedIsKept`; `CursorSound`
are `Flight` and `FinAckedOnce`.

Disagreements with the comments that the model shows with configurations of their own:

- With `ServerFirst` (`TcpNatServerFirst.cfg`) `GuestReadsHostStream` fails.  Between
  the SYN-ACK and the guest's ACK a tick already reads the host socket into `txbuf`
  (`tcp.c:639`); `tcp_consume_ack` then takes the acknowledgement of the SYN for one
  byte of data and discards `txbuf[0]` (`tcp.c:335`), so that the first byte of a server
  that speaks first never arrives.  The header says "txbuf[0] is sequence snd_una"
  (`net.h:285`).
- When both ends close in order (`TcpNatHostCloses.cfg`) `CleanCloseFlushed` fails: bytes of
  the guest that were acknowledged and that the socket had refused so far are dropped.
  TLC's behaviour ends in LAST_ACK: the guest's last acknowledgement makes the flow
  CLOSED, and `net_tcp_tick` frees it before it offers the buffer to the socket
  (`tcp.c:591`).  The same happens when the host closes first: in FIN_WAIT_2 a segment
  with data and FIN is stored and acknowledged, and the TIME_WAIT branch returns before
  the buffer is offered (`tcp.c:578`).  The comment says "Whatever the socket refuses
  stays buffered" (`tcp.c:618`), the egress interface of the half-close "The guest sent
  FIN and we have flushed its data" (`net.h:194`).  `AckedIsKept` of the passing run
  speaks of open sockets and does not cover this; no passing run can.

A flow in FIN_WAIT_2 has no deadline and keeps its slot until the guest closes, although
the comment at `tcp.c:686` says that "either way the slot goes back".

The passing runs take a server that speaks only after it has heard the guest
(`ServerFirst = FALSE`), because the first disagreement breaks the stream otherwise.  The
bounds let each stream exceed a segment, a window and a buffer at least once, which is
where partial acceptance, rewinds and probes happen; the retransmission limit is small
so that giving up is reached.

Fairness: the code polls every flow on each tick, so ticks go on and a due deadline is
reached; the guest and the socket answer what keeps being asked of them (strong
fairness where a loss can withdraw the opportunity).  `Input` and `Tick` are large, so
their weak fairness is written out with the condition under which they move something.
The liveness run also sets `Prompt`: a retransmission timer does not run out while
an answer is under way, without which any bounded number of retries can be wasted.

Not modelled: ports, checksums, the options of a SYN other than the segment size it
settles, statistics, more than one flow (a full table is a choice of the environment).
Not proved yet.

## 5. Copy-on-write snapshots: `SnapshotCow`

### State

`disk` is the work image block by block, `ov` the overlays of the snapshots from the
oldest to the newest, each the sequence of its records and whether readers accept it,
`frozen` what each snapshot has to bring back, `cow` the open adapter (its bitmap,
whether it refuses writes, whether the end of the last record is still in the stdio
buffer), `device` what the machine was started on, `op` the write in progress and `rp`
the restore in progress.

### Actions

`BeginWrite`, `SaveBlock`, `SaveFails`, `WriteBlock`, `WriteFails` are `cow_write_at`
block by block, so that the process can end between any two; `CowFlush` is `cow_flush`;
`Start` and `Stop` are the boot owner's `vm_cow_open` and `vm_cow_close`,
`CreateCutShort` an open that ends before the header is written; `ReplayRecord`,
`ReplayOlder` and `ReplayFails` are `vm_cow_replay`.  The owner of the list of snapshots
is not in the repository yet: `TakeSnapshot`, `BeginRestore` and `Restored` follow what
the headers ask of it (newest first, newer snapshots are dropped after a restore, an
interrupted restore is begun again).  `Kill` loses the stdio buffer; `PowerLoss` happens
after a flush and may lose any end of the overlay, which was never synced.

The buffer of the C library (one file-system block, 4096 bytes) is shorter than a
record (4104 bytes), so what a termination can lose is a part of the last record.  A
block that was written in part is a block with another value.

### Runs

| run | bounds | what it shows |
|---|---|---|
| `cow_keep` | 2 blocks, 3 snapshots, 2 faults | what no reader refuses brings each snapshot back; a finished restore is exact |
| `cow_bitmap` | 2 blocks, 2 snapshots, every switch on | no block is recorded twice, the bitmap is the file |

Disagreements with the comments that the model shows.  `cow_flush` hands the overlay's
bytes to the host with `fflush` and then syncs the image (`VMSnapshotCow.c:232`), below
a comment that says "Overlay first. An image that is durable while its overlay is not
describes a past that never happened" (`VMSnapshotCow.c:229`): after a loss of power
(`SnapshotCowPower.cfg`) the overlay may be short by whole records, which no reader
refuses, and `Restorable` fails.  And `vm_cow_open` takes every failure of the first
`fopen` for the absence of the file (`VMSnapshotCow.c:267`), although the header says
"created if absent and APPENDED to if present" (`VMSnapshotCow.h:84`).  With the switch
`Transient`, `Restorable` fails after one such open, because every reader accepts the
emptied file.

`vm_firmware_boot_rearm_overlay` (no caller yet) opens an adapter that the machine does
not write through (`LiveRearm`), and a termination while the guest writes nothing leaves
the end of the last record in the stdio buffer, so that the relaunched session is
refused its overlay (`Kill`): the model has both, and `cow_bitmap` runs with them.

Two blocks make a write straddle a recorded and an unrecorded block; three snapshots
put a block's only record in the middle of the list.

### Proofs

`SnapshotCowProof` proves, for any number of blocks, contents and snapshots and any
number of failing calls and terminations, `[]TypeOK`, `[]OnceRecorded`, `[]Restorable`
and `[]RestoreExact`, under `Sheltered`: the host does not lose power and opens the
files it has, and snapshots are taken of a machine that does not run (each of the three
exceptions breaks `Restorable`).

`Restorable` speaks of a replay as a whole and is not inductive.  The inductive
invariant `IInv` replaces it by `Match`: for each snapshot that can still be asked for
and is readable, the oldest record of a block at or after it holds what the snapshot
had, and so does the image where there is no record.  `Saved` says how far the write in
progress has recorded its range, `Modes` ties the adapter to the device and the state
of the newest file, `Progress` says what an unfinished replay has put back: a block of
a replayed record has that record's contents unless an older replayed one holds it too.
An interrupted restore only narrows what can be asked for (`Wanted`), which is why
`Match` survives it.  From `Match` and `OnceRecorded` the result of a replay follows by
taking the least overlay that holds a block (`Least`, from the well-foundedness of the
natural numbers).

## 6. Engine life cycle: `VMEngine`

### State

`eng` are the engines launched so far, each with what its lock protects (the state, the
stop, save and shutdown requests with their completions, the pause flag), whether it has
the work image open, and the position of its worker thread.  `scr` is the screen that
shows the machine (its busy flags, and a call to the engine it has still to make),
`mainq` the main dispatch queue, `jobs` the force-off jobs on the global queue, `marker`
the one-shot resume marker on disk, and `calls` counts for each request how often its
completion ran.  A completion is a token that names its request, engine and screen.

### Actions

Each section under the engine's lock is one action, and so is each effect between two
sections that another thread can see.  `Prepare` to `Cancel` and `FinishFailedStartup`
are the startup; `Sample`, the save (`BeginSave`, `SaveBusy`, `SaveFails`,
`SaveSucceeds`, `Unsaved`), the shutdown (`Shutdown..`, `SaveWitness`), `Run`,
`AfterRun`, `Close`, `Final` and `Dispatch` are `threadMain`.  `Stopped`, `SaveAsked`
and `ShutdownAsked` are the entry points the screen calls.  `..Tapped`, `Hide` and
`Open` are the owner; `RunBlock` runs the head of the main queue and `Disarm` a
force-off job.  What the guest does, what the host refuses and when a time limit is
reached are choices.  The screen's controls are disabled while it is busy
(`setCheckpointSaving`), so the handlers behind them need `~Busy` even where they do not
test for it.

### Run

| run | bounds | what it shows |
|---|---|---|
| `engine_life` | 2 engines, 2 screens, 3 requests, `FairSpec` | two engines never hold the work image (`DiskOwned`); a marker (`MarkerIsHonest`) is never left beside a disk that is still written, and none survives a force-off; every completion runs once, and in the end |

Two engines and two screens are what a restart, a reset or a screen opened again needs;
three requests let a force-off meet a save that follows a shutdown.  A screen may stop
being used, so deadlock is not checked.

Fairness: the worker, the main queue and the global queue are scheduled (weak).  A save
that is tried again and again ends (strong): the releases of the input have a limit of
time and instructions, and a guest that runs completes its disk operations.  The second
half is an assumption, because the wait for a pending disk operation has no limit
(`VMFirmwareBoot.c:616`).  A shutdown ends after three minutes (strong).  `Answered`
excepts a machine that waits in the background, which is paused on purpose.

Not modelled here: the input drained in the loop (`GuestInput`), the USB session
(`UsbServices`) and audio (`AudioBuffer`), which have modules of their own; clock
synchronisation, published frames, telemetry, the package workflow that follows a
shutdown, the adoption and provisioning of a disk (they end in one of the outcomes of
the boot).  Several stop completions are kept as one block that calls them in order; the
model queues them one after another.

### Proofs

`VMEngineProof` proves `[]DiskOwned`, `[]MarkerIsHonest` and `[]AnsweredOnce` for any
number of engines, screens and requests, and whether or not a machine pauses in the
background.  None of the three is inductive: that a restart may launch a second engine
is only safe because of what a completion on its way says about the first one.  The
inductive invariant therefore follows the completions.

- `Sane`: what the worker of one engine has established at each of its points
  (`Points1`), which completions it keeps (`Answers1`), each of them once (`Once`).
- `OnePlace`: a token is kept by one engine, waits in the main queue, belongs to a
  force-off job or to a call the screen has still to make, and is in one of these only.
- `Listened`: as long as the screen listens to a token, the token's engine is the
  screen's, the busy flag of its kind is up, and no other token is listened to; a
  restart or reset on its way has an engine left to launch.
- `Stages`: a positive answer, a force-off job and its report exist only while their
  engine is idle, and a completion has run exactly if only its second half waits.
- `Alone`: every engine but the screen's is idle.  With `Sane` this is `DiskOwned`.
- `Marks`: a marker never stands beside an engine that is ready and has not just saved;
  a positive save on its way finds it.  This is `MarkerIsHonest`.
- `Remembered`: the token of a request that was not answered is somewhere.  With
  `OnePlace` and `Listened` the counts of `AnsweredOnce` follow.

The proof first treats an engine record by itself (`..Steps`: each section of the worker
leaves a sane record and hands over what it keeps), then lifts this to the system
(`WorkerKeeps`, `AskKeeps`, `OwnerKeeps`, `RunBlockKeeps`).  The only assumption is
`EngineAssumption`, that the bounds are positive numbers.  `Answered` is liveness and
stays with TLC.

## 7. Audio: `AudioBuffer`, `AudioQueue`, `AudioFifo`

### State

`pb` and `mic` are the two rings (`vm_audio_queue_t`: samples, read and write index, which
wrap modulo `INDEX`), `pbPut`, `pbGet`, `micPut`, `micGet` where a call of `put` or `get`
is.  `epoch`, `active`, `host_running` and `microphone_enabled` are the shared atomics.
`guest` is the emulator thread with its resampler and its capture pair, `render` the
render callback with its reserve, fade and last frame, `tap` the microphone callback,
`main` the main thread that stops and rebuilds the graph.  A sample is the epoch it comes
from, so that a property can tell sound from before a boundary.  `use` limits a behaviour
to one direction, which is sound because the two directions share the switches and the
epoch and nothing else.

### Actions

Each load or store another thread can see is a step: `PutBegin`/`PutPublish`,
`GetBegin`/`GetPublish`, `DiscardBegin`/`DiscardStore` of `AudioQueue`, around them
`Active..` (`vm_audio_buffer_active`), `Guest..` and `Capture..` (`vm_audio_guest_frame`
and `resample`), `Render..` (`vm_audio_render`), `Tap..` (`vm_audio_microphone`),
`Stop..`, `StartEngine` and `Store..` (`VMAudioOutput.m`).  Interleaving the steps is
enough: the code uses acquire and release on the indices and the epoch, and each ring has
one producer and one consumer.  There is one render thread, which the audio system calls
again and again.

### Run

| run | bounds | what it shows |
|---|---|---|
| `audio` | rings of 3, indices modulo 6, 3 epochs, a rate below and one above the output's, a reserve of 2 | `QueuesAreFifo`: each ring implements `AudioFifo`, a bounded queue with drops; `NoSoundFromBefore`: a callback that has seen the boundary plays nothing older; `LateIsBounded`: what slips past a rebuild is at most the output of the one call under way; `OldestFrameLeaves`: a clip shorter than the reserve is played in the end |

A ring of three with indices modulo six is full, empty and wrapped within a few frames.
Fairness: the render callback keeps being called (weak fairness of `Render`).

Observation: sound of one guest frame, or the frames of one tap, can cross a rebuild of
the graph, because the producer looks at the epoch once per call.  This is the bound that
`LateIsBounded` states; the comments do not claim less.

### Proofs

`AudioBufferProof` proves `Spec => QueuesAreFifo` and `[]NoSoundFromBefore` for every
length of the rings, every width of the indices that is a multiple of the length, every
rate, reserve, fade and number of epochs.  A ring is first studied as a value with the
positions of its two threads (`QueueInv`): the indices are within `INDEX`, their distance
is at most the length, and the slots between them hold what was put, also while one
thread copies and the other moves its index; the abstract queue is the slots from read
to write index, without those a discard has begun to drop (`ItemsOf`, `Doomed`).  The
arithmetic of wrapping indices (`ModUnique`, `GapFacts`, `PosFacts`) is proved from the
division of integers.  Each step of `AudioQueue` is then a step or a stutter of
`AudioFifo`.  For the second theorem `GuestIsFresh` says that what the emulator thread
resamples and fills after a boundary is from after it, and `RenderIsFresh` that a
callback that has seen the boundary holds and will get nothing older, except what its
discard is about to drop.

Only model-checked: `LateIsBounded`, whose bound rests on how many frames a resampler
still puts for the frame it was given (its phase, a division), and `OldestFrameLeaves`
(liveness).

Not modelled: sample values, gain of a fade, interpolation weights, session interruptions
and routes of `VMAudioOutput.m`.

## 8. PPP: `PppLink`

### State

`peer` holds for the host and the guest the two automata (state, identifiers, restart and
failure counters, timer, what to ask for), whether the link was opened, whether an
address is assigned, and the transmit ring `out`, which is also the line.  `rejected` is
a history of the model's own: the layers a rejection has stopped since LCP last went
down.  `faults` is what is left of a budget of losses, early time-outs, deaths, frames
out of turn and closes.

### Actions

The handlers of `ppp.c` are operators on one end (`EvRcr`, `EvRca`, `EvRcn`, `EvRtr`,
`EvRta`, `Rejected` for a Code-Reject or a Protocol-Reject that arrives, `Reject` for one
that is sent, `EchoReply`, `RestartTimeout`, `PppOpen`, `PppClose`, with `Scr`, `Str`,
`Sta`, `Tlu`, `Tld` and `IpcpStart` below them); `CpInput` and `FrameInput` choose among
them.  `Deliver` gives the oldest frame of an end to the other, `Timeout` is `ppp_tick`,
`Lose` the line, and `GuestLaunch`, `GuestDies`, `GuestStrays` and `GuestGivesUp` are the
guest's pppd, which is not in the repository and is given the same automaton (the
repository's tests do the same); beside it `GuestStrays` sends a rejection, an echo, and
a code and a protocol that ppp.c does not know.  The first byte of the guest opens the
host's end (`Heard`).

### Run

| run | bounds | what it shows |
|---|---|---|
| `ppp` | 4 requests, 1 terminate, 2 failures, a ring of 4 frames, two faults | `Orderly`: an open IPCP has assigned its address; unless IPCP was rejected since LCP last went down, it has left Initial only over an open LCP and the address is assigned only while it is open; every wait has a timer and no other state has one, the ring is not overrun; `Agreement`: two open ends want what the other accepts; `LinkComesUp` |

The guest first asks for an option and an address it is refused, and the host for an
option that pppd rejects, so that every verdict occurs.  The pairs of faults are those
of `MCBudgets`: a loss with a hasty timer, a death or a close, a hasty timer with a
death, two hasty timers, two deaths, and a frame out of turn with a hasty timer, with a close and with another one.
With two losses, and with a frame out of turn beside a loss or a death (666,929 states
in all), the run was checked by hand with the same result.  Fairness: frames that are
not lost arrive, timers expire (strong: an expiry on a quiet line can be postponed by
traffic), launchd starts pppd again.

Observations.  (a) A comment in `ev_rca` expects a time-out in Ack-Rcvd to go back to
Req-Sent; `restart_timeout` stays in Ack-Rcvd, which is why the answer to the repeated
request is taken for a second acknowledgement.  (b) A repeated Ack takes an open layer
down and asks again without a fresh budget (`ppp.c:606`); with `PPP_MAX_CONFIGURE = 2`
TLC finds a link that stays half open after one loss, the code has 10.  (c) `apply_nak`
ignores a Nak of ASYNCMAP although its comment says otherwise.  (d) A rejection "takes
the layer down" (`ppp.c:766`), but only LCP's goes through `tld` (`ppp.c:773`): a
rejection of IPCP leaves the address assigned (`AssignedWhileOpen` fails with
`PppLinkReject.cfg`), and one that arrives before LCP is open puts IPCP in Stopped, from
where a request of the guest makes it negotiate without LCP. LCP going down repairs
both, which is what `Layered` says.  `LinkComesUp` excepts a link of which a layer of
the host stays stopped by a rejection: only a request of the guest starts it again.  (e)
`ppp_close` has no caller; more than `PPP_MAX_FAILURE` refused requests while it is
closing revive the automaton.

### Proofs

`PppLinkProof` proves `[]Orderly` for every number of retries and failures, every width
of the identifiers, every size of the ring and every set of options the ends ask for.  A
handler leaves the order for a moment (`EvRcr` in Opened takes the layer above down
before it stores its own state), so each operator a handler is composed of has a lemma
about the fields it changes (`..Keeps`), and each handler is followed through its cases
with these lemmas alone.  The order is the same for both ends, so the invariant is one
end's (`Good`), for both.  A layer is treated in one of five ways: it stays, moves between
states that are not open, goes up, goes down, or is rejected (`Stays`, `Moves`, `GoesUp`,
`GoesDown`, `RejectedKeeps`); only the last puts IPCP in `rejected`, and only `Tld` of LCP
takes it out.

Only model-checked: `Agreement`, which needs that an identifier is not used again before
its reply has arrived or is lost, which the code bounds by its retries and not by its
identifiers, and `LinkComesUp` (liveness).

Not modelled: escaping, checksum and length checks of the frame parser (a bad frame is a
lost one; no octet of a short or malformed packet reaches a handler), the statistics, IP
packets and their compression.  Discard-Request and Echo-Reply are one frame, which is
ignored.  The guest stops at a rejection as ppp.c does; a real pppd may take it more
mildly.

## 9. USB services: `UsbMux`, `UsbServices`

### State

`UsbMux` is `usb_mux_t` as a record and its functions as operators on it; `UsbServices`
adds the clients (`conn`, the transport's list, the socket pairs, what was written and
read), `host` (the enumeration of `usb_host.c`), `dev` (the guest's controller with the
generation that counts its resets) and the guest's end of every stream.  A byte is its
number in the stream of its sender, so that mixing streams is visible.

### Actions

`Open`, `Wake`, `GiveUp` are `openPort` before, behind and at the end of its wait;
`EngineTurn` is one pass of the USB part of `threadMain`: `Reboot`, `Reattach`,
`StaleHost` (the guest has reset its controller since the last poll), the enumeration
(`PollIdle`, `PollControl`), `Serving` (`usb_mux_poll` followed by `pollWithMux`, whole),
`LinkLost` and `LinkFails` (`vm_usb_recovery_poll`, whose time limits are choices).
`Client..` and `Guest..` are external; the guest keeps to the protocol but resets its
controller, refuses, stalls and hangs up.

### Run

| run | bounds | what it shows |
|---|---|---|
| `usb` | 2 calls of `openPort`, 1 channel, buffers and windows of 1 byte, streams of 2, sequence numbers modulo 8, 1 fault | `StreamsAreWhole`: no byte is lost, repeated or mixed, and a stream the guest closes is read to its end; `WindowsKept` in both directions; `ChannelsSound`: a channel is owned by one client of the list and none leaks; `SessionsAgree`: nobody goes on in a session the guest has reset; `ServicesProgress`: every call is answered and every stream drained |

Streams longer than the windows and buffers fill each of them.  Two channels without
faults (3.3 million states) and a receive buffer of 2 with a window unit of 2 were
checked by hand with the same result.  Fairness: the engine loops, waiting threads are
woken, clients read, the guest's driver and services run; nobody has to give up.

Observations.  A client that writes and closes at once loses what was not sent yet
(`usb_mux_close` empties the send buffer and resets).  A service that answers and resets
before the opening client has been woken makes `openPort` fail although the bytes are
there.  With a full send buffer a hang-up of the client is not noticed until the guest
acknowledges, and a client that does not read blocks its own writes.  After 65535
connections the local ports are used up and every open runs into its time limit.

### Proofs

`UsbServicesProof` proves `[]ChannelsSound`, `[]SessionsAgree` and `[]WindowsKept` for
any number of clients, channels, ports and faults and any sizes of buffers, windows,
frames and sequence numbers that the two assumptions of the modules admit (sizes are
positive, the sequence space is larger than twice a buffer and larger than the guest's
window, the configuration with the mux exists, a guest speaks version 1 or 2).  The window
is a field of 16 bits in units of 256, the sequence numbers have 32 bits.

The inductive invariant of the first two is `Inv1`.  Neither is inductive by itself:

- that no two connections share a channel needs to know that a connection of the list was
  not answered with an error and still holds its socket or is failing, and that a
  cancelled one has a caller who is gone (`Owned`): otherwise a channel could be closed
  under its owner or stay in use behind one that left;
- that a slot is not handed out twice needs the local ports to be distinct and below the
  next one (`Numbered`);
- that the session of the guest is the one of the mux rests on the order of the cable: the
  host has the generation of the controller or learns of the reset before it speaks
  (`Cabled`), and there are no frames under way while the two disagree, or while there is
  no mux (`Linked`);
- `Typed` and `TypedRest` give the records, with the shape of each frame of the guest.

One turn of the emulator thread is one action of the model and many steps of the code.
Its two loops are folds; `FeedRun` and `PollRun` replace a fold by the sequence of its
intermediate values, and `Mid1`, the invariant in the middle of the turn, is carried along
each (`FeedLoop`, `PollLoop`): while the loop over the list runs, a channel may be owned
by a connection that has just been dropped.  Below them there is one lemma per operation
of `UsbMux`, and one per action of the clients, the cable and the guest.

`WindowsKept` needs `Inv2`, which adds what is under way on each stream (`Talk`, one per
channel: the channel, the frame the mux has ready, the frame handed to the guest, the
frames the guest has queued and the guest's stream):

- what the mux sends fits because every acknowledgement the guest has queued, with the
  window it carries, leaves room for the bytes that follow it (`Edge`, `Heard`): these
  acknowledgements come in their order, so the last one a channel has taken is the most
  cautious, and a batch of frames may be taken at any point;
- what the guest sends is taken because the bytes in front of each queued frame are
  counted (`Counts`): the channel has received some of them, the guest has sent all, and
  no window that the mux has announced, or is announcing, goes beyond its buffer
  (`Roomy`, `Grants`);
- the frames of a stream come as an answer, bytes, resets (`Ordered`), and a channel that
  waits has an answer or its request is on the way (`Asked`, `Answered`), so that nothing
  looks like a violation of the handshake;
- a local port that is to be used is unused at both ends (`Ahead`), and nothing of a
  former mux is left when the versions are exchanged (`Early`).

All of it is stated with `Minus`, the distance of two sequence numbers; that the
distances add up as long as they stay below `SEQ` is where the two bounds on the
sequence space are used.  `Inv2` was first checked by TLC on the instance of the run
and, as far as TLC got, with buffers and windows of 2. The mux does the same in the
middle of a turn (`Chatting`), and each action of the guest comes down to one stream
(`GuestStep2`, `GuestStream2`).

Only model-checked: `StreamsAreWhole`, whose invariant would in addition relate the
contents of the five places where the bytes of a stream can be (socket, send buffer, frame,
queue, receive buffer), and `ServicesProgress` (liveness).

Not modelled: packets of 512 bytes and their zero-length ends, header bytes, counters.

## 10. Guest input: `TouchQueue`, `GuestInput`

### State

`touch` and `keys` are the two queues, `active` and `hold` what the engine remembers of a
delivered finger and of each accepted press, `shown` and `silent` the control bar, `z2`
and `board` the touch controller and the buttons with their interrupt, `power` the PMU,
`shut` a shutdown request with its gesture, `life` and `prepared` a checkpoint in
progress.  `user` and `finger` are the two ends: what the person does and what the guest
believes.  `lost` is a history of the releases that the code gives up.

### Actions

`Finger`, `Key`, `Slider`, `RequestCheckpoint`, `RequestShutdown` are the user interface
(`sendTouch`, `setButton` and the requests, under the lock); the engine's turn is
`Checkpoint` (release everything, wait until it is at rest, save or give up),
`GestureTurn` and `GestureAct` (`vm_guest_shutdown_step` and the act it asks for) or
`Drain` (one touch and one button).  `Age` is time: a press is young until it has been
held long enough.  `Guest..` is the guest, `Reboot` its watchdog.

### Run

| run | bounds | what it shows |
|---|---|---|
| `input` | queues of 2, Home, Power and the ringer switch, a drag of 1 step, 4 events (a shutdown counts as 2) | `QuietSave`: a saved machine is at rest; `InputAccounted`: a finger or key that is down has someone who holds it or a release ahead, and a lift always finds room; `PulseIsHeld`: a press is held long enough to be sampled; `EdgesInOrder`: a full queue displaces moves only; `QueuesDrain` |

Queues of two overflow with three events; larger instances (three inputs with a request
and a fault, 7.3 million states; queues of 3, 11.8 million states without reaching the
end) gave no violation.  Fairness: the engine takes its turns, the guest's drivers run
while it has power, time passes.

Observations, excepted by `lost` in the properties.  (i) A checkpoint that begins while
the guest has not read a landed finger cancels the lift; if the guest does not read
within the limits, the save fails and nobody lifts the finger; with two keys held only
the first release is queued when the save is given up.  (ii) A release that finds the
button queue full is dropped and the key stays held, as the comment in
`vm_button_queue_push` admits.  (iii) A release taken while the board sleeps leaves the
key pressed.  (iv) A lift dropped by a controller in reset leaves the delivery marked
active, and every checkpoint then waits for its limit until the controller is up again;
a ringer switch moved during hibernation has the same effect.  (v) A hold that began
before a watchdog reboot outlives it when a checkpoint was given up.

### Proofs

`GuestInputProof` proves `[]InputAccounted`, `[]QuietSave` and `Spec => PulseIsHeld` for
queues of any size, any drag and any set of keys.  That a lift always finds room rests on
the space the queue keeps for the release of the newest landing, whatever moves it
displaces (`LiftHasRoom`, about every queue the operators of `TouchQueue` build).  A
finger or key is accounted for by an owner: the user, the gesture while it runs, or the
history of what was given up (`FingerOwned`, `KeysOwned`), except while a checkpoint is
under way, which cancels what it cannot release; `Seen` says what the control bar, the
controller and the board have accepted, and `Modes` what a prepared checkpoint and each
phase of the gesture have established.

Only model-checked: `EdgesInOrder`, which compares the edges selected from two
sequences (`SelectSeq` is recursive), and `QueuesDrain` (liveness).

Not modelled: positions, the pixel test of the slider (a choice), pauses; the release
of input during a shutdown is one step with respect to new input.

## 11. Memory disk: `MemoryDisk`, `MdRawBridge`

### State

`MemoryDisk` is what the guest may rely on: one store, requests that take effect at one
instant between call and return, or behind a prefix that is reported.  `MdRawBridge` has
the medium `disk`, the `guard` behind it, the continuations `pending` with their
`bounce` buffers, the kernel threads `thr` with the fields of their uio, and the last
`answer`.

### Actions

`md_raw_bridge_handle_svc` decides a request as the code does (`Decision`: busy, empty,
too long, outside, invalid address, direct, redirected) and answers it, moves it at once
(`DirectTransfer`) or starts a `uiomove` (`start_uiomove`); `handle_completion` finishes
it (`Complete`) or stops the machine (`CompletionFails`); `md_bridge_handle_svc` is the
block strategy.  `UioMove` and `UioReturns` are the guest's uiomove, which may fault
behind any prefix.  `Checkpoint` saves and restores into new bridges, which is refused
while a continuation is active; `Reboot` is the watchdog.

### Run

| run | bounds | what it shows |
|---|---|---|
| `memory_disk` | 3 threads, 2 slots, a medium of 1 block, transfers of 2, 3 requests, 1 fault | `ImplementsDisk`: the bridges refine `MemoryDisk`; `BridgeSound`: each slot belongs to the thread inside its uiomove, segments are restored, and no legal sequence makes a completion stale or malformed |

The shapes of the requests lie inside the medium, across its end and in the guard; a set
of all shapes (933,041 states) was checked by hand.  No two written blocks are equal.
Threads call in the order of their numbers where they are interchangeable.

The refinement maps the store to the medium followed by the guard, a thread's request to
its uio, what a waiting read has looked at to its bounce buffer, and a stopped machine to
one that is not up.

Observations.  A fifth overlapping request that faults is answered EBUSY, which the
guest's driver never returned.  A checkpoint that finds a continuation is tried again
without a limit (`VMFirmwareBoot.c:616`): operations that always overlap would starve it, so
no property says that it gets its turn.  That a slot is given back whatever uiomove
returned is part of `BridgeSound` (`SlotsAreOwned`).

### Proofs

`MdRawBridgeProof` proves `[]BridgeSound` and `Spec => ImplementsDisk` for any number of
threads and slots, any size of the medium and of a transfer, and any mixture of faulting
pages, failing transfers, checkpoints and reboots.  The inductive invariant says what a
thread at an entry holds (`AtEntry`: the request as it was asked), that a thread inside
its uiomove owns a slot which describes its request, and that the user's buffer and the
bounce buffer agree as far as it has come (`Underway`), and that an active slot has such
a thread (`Held`).  The refinement then has one lemma per action: a request takes effect
in the step that transfers it or completes it, a faulting write behind a prefix writes
that prefix, and every other step is a stutter.  The store of the abstract disk is the
medium followed by the guard, so a transfer across the end of the medium is one transfer
of the store (`StoredIsStore`).

Not modelled: the checks of the uio's memory (mapping, aliasing, metadata) that stop the
machine on a malformed request, the device number, the limit of 64-bit offsets, the write
trace.

## 12. Not modelled

- CPU, MMU and translator, graphics, and the pixel and sensor devices of the board: their
  state is private to one thread and their content is arithmetic on machine words and
  pixels, which a model checker cannot enumerate.  Together with the command-line tools
  (harnesses around the core, more than half of the lines of the repository) this is most
  of the code by size, so the modules cover a small share of the lines and nearly all of
  the code in which threads, messages or faults meet.
- Parsers and decoders of the firmware, the machine state file: pure functions of bytes.
- Not modelled yet: network session with resolver, UDP and ICMP, the guest packet bridge,
  publication of imported firmware, the list of instances, directories of the snapshot
  store, interrupt controllers, timers and DMA.
