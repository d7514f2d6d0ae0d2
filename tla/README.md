# A TLA+ model of msys-hal

msys-hal gives the applications of an MSYS device one interface to its
hardware. Clients call the *HAL manager* over mIPC; the manager discovers
*providers*, asks them for their devices, routes each device to one of them and
lets a user pin a provider per hardware domain. Two providers hold state of
their own: the *CH347 output control* (a Python process beside the display
output) and the *native HAL* (one C process with, among others, removable
storage). The others hold none and change that of the kernel, wpa_supplicant,
the X server or the display output, in several steps that those answer, lose or
overtake. This directory models both, checks them with TLC on small instances,
and proves every safety property that the passing runs check, for all values of
the constants, with TLAPS.

## 1. Inventory

| part | source | state | operations | what is hard |
|---|---|---|---|---|
| HAL manager | `msys_hal/manager.py` | catalog and its age, pinned selections and their file, device routes, active providers, health, revision | inventory, get_state, set_state, list_providers, get_provider, select_provider, reset_provider, poll_once, refresh_catalog | several worker threads and a polling thread; `_lock` is never held across a provider call, so every method is a series of critical sections; discovery and providers fail; the process dies around the save |
| change journal | `manager.py` (`_append_event_locked`, `watch`, `stop`) | revision, `deque(maxlen=256)`, waiting calls | append, watch, stop | eviction, truncated replies, wake-ups, restart with the revision at 0 |
| mIPC server | `msys_hal/mipc.py` | permits, queue, worker pool | run, `_accept`, `_dispatch` | admission limit, deadlines, every error path must answer, shutdown |
| CH347 touch calibration | `msys_hal/ch347.py` | affine state file, effective document, applied receipt, open preview, watcher thread | get, preview, confirm, cancel, undo, set_state, close, recover_stale_preview | a handshake with another process that may time out, be restarted or die; expiry; kill with a preview open |
| CH347 configuration | `ch347.py` (`set_state`) | five configuration files, their receipts | set_state, restart, reload | several files, one after the other; a state looked up before they are written; receipts of a process that reloads late or is replaced |
| native storage | `native/src/native_hal.c` 1764-2625, 4544-5313 | volume cache, attempted, suppressed and error tables, config, revision | list_volumes, refresh, mount, unmount, set_config, uevents, fallback timer | media and mounts change while it works; fixed tables; commands that are killed; restart |
| network provider | `msys_hal/radios.py` (`NetworkBackend`) | none (wpa_supplicant's networks) | scan, disconnect, connect, forget | command sequences that fail half way or lose an answer; concurrent calls without a lock; ids handed out again; supplicant restart |
| verified writes | `linux.py` (backlight, xinput), `radios.py` (rfkill) | none (kernel, X server) | set_state | lookup, check, write and read-back are separate looks; racing calls, hotplug, outside writers |
| display session | `display_session.py`, `linux.py` | none (documents of outputs and window manager) | get_state, inventory | several sources and files read one by one; freshness under a clock that moves |
| native Bluetooth power | `native_hal.c` 1173-1757 | the last Management error | power on and off | a controller that unregisters; a pulse in two halves; decisions by an error string |
| native Wi-Fi, Bluetooth discovery | `native_hal.c` 896-1012, 1403-1504, 3935-4096 | found devices | connect, forget, scan | as the network provider, with one thread |
| provider service, validation, power, thermal | `provider.py`, `validation.py`, `linux.py` 160-248 | none | dispatch, checks, bounded reads | little: sequential and stateless |

How they interact: the mIPC server calls `HalManager.handle` on a worker
thread; the manager calls providers through `PublicGateway` (blocking, with a
deadline); the CH347 control talks to the display-output process through files
and SIGUSR1, and to msys.core to restart it; the native HAL is polled by the
kernel's uevents and by mIPC. Events go to `msys.hal.changed` and
`msys.hal.storage.changed`.

What makes each part correct is stated in section 4; everything that is hard to
test, with its line, is in the `hazards` list of `PROJECT.json`.

## 2. Modules

Names follow the source. In every module a step is as much as the code does
under one lock, or between two looks at something others change.

**EventJournal** models the journal and its watch clients. A step is one
critical section of `_condition`. `pc[w]` says whether client `w` has a call
waiting; `NotifyAll`, `MustReply`, `Matching`, `Page` and `NeedsResync` are the
lines of `watch`. `Resume` says what the client sends next: the contract leaves
open whether it is the reply's `revision` or that of the last entry, and the
two differ (section 5). `log`, `covered` and `boot` are history: what was
recorded, what each client knows of, which process issued its cursor.

**HalManager** models the manager's threads. `pc[p]` is the place of thread `p`
in the method its request started, `loc[p]` the method's locals; `refresh_catalog`
is a subroutine that returns to `loc[p].ret`. `Publish` is inventory's last
critical section, `CachedRoute`/`LookupRoute` the two reads of `_route`,
`VetSelection`, `Preflight`, `Commit`, `Save`/`SaveFails`, `Install` the stages
of `select_provider`. The commit is one critical section in the code; it is
split here, holding `lock`, so that `Restart` can happen inside it. Discovery
yields any member of `Catalogs`, a provider any member of `Answers` with any
devices. Not modelled: the health snapshot (only `list_providers(probe)`
decides by it, and its choice is left open in `Sweep`), the values of device
states (a poll sees a difference or does not), the text of replies. Lists over
several domains with probe are not made by the code (probe needs a domain).

**ProviderPolicy** is the abstract specification of the preferences: pins that
change one at a time, together with the revision, and survive restarts.
`HalManager!PolicyImplemented` is the refinement: the abstract pins are the
store's, with a commit that is in progress not yet counted.

**MipcServer** models the reader thread, the semaphore and the pool. What a
handler does is open; `touched` records that it had an effect. `Respond` has
two outcomes: the reply is sent, or it is an error whose `details` go beyond the
limits of `encode_packet`, which raises inside the `except` block, so that only
the permit is given back. `unsendable` is history: the calls it happened to.

**ManagerProcess** puts the journal and the server side by side. The server
leaves open what a handler does and the journal is reached only through
`_condition`, so they share no variable and a behaviour follows one (`part`)
while the other rests. It says nothing about watch calls that hold the workers
of the server (section 7).

**TouchCalibration** models the calibration transactions. Handlers run under
one lock, so `job` is the one in progress; `_apply_affine` is split into the
write of the effective document and the wait for the receipt. `phase` is the
provider process, `LatePreview` the preview call that was waiting for the lock
when `close()` had it. `Rotate` is the rest of `set_state`: the new basis, and
the restart of the output where the code makes one. The display-output process
is external: it reloads the effective document and writes a receipt, its runtime
files go with it when it stops, and it starts from the saved matrix.
`leftBehind` is history: documents that a failed rollback, cancel, undo or
recovery left in effect.

**Storage** models the native process's poll loop. `job` is what it works off;
each `storage_scan` and each mount or umount command is a step, and media and
foreign mounts change in between. `present` holds the volumes that pass the
scan's filters, so the filters themselves (names, removable flag, critical
mounts) are not checked. A command may fail, or be killed after 15 seconds with
or without its effect. `uevents` is the netlink queue; it does not overflow.
A medium's mounts are assumed to go with it. `announced` is what the last event
carried, and which process sent it (`by`): a restart sends nothing, and the new
process sends its first event only when a scan differs from its empty cache.
`awaiting` is history: media that were inserted with no unmount of their name on
record and not tried yet. `list_entries` reads at most 128 directory entries,
unsorted and before it filters them (`native_hal.c:1777`); the model takes them
to be all there are.

**WifiControl** models `NetworkBackend.set_state`: `wcall[c]` is the call of a
worker and the command it sends next. A command is answered OK, refused, or not
answered, and then carried out or not. What wpa_supplicant does with it
(`CarriedOut`, `SupplicantRestart`, the choice of an id in `AddNetwork`) is
external, written from how the code uses it. `maker`, `strays` and `mixed` are
history: which call assembles an entry, which entries were left because an
answer was lost, which ids changed their meaning while a call held them. Keys are
values, so the quoting of a passphrase is not looked at, and a restarted
supplicant keeps the ids of its saved networks; where it would number them anew,
a held id changes its meaning, which is what `mixed` excepts.

**VerifiedWrite** models the three read-back writes as one protocol, since they
have one shape: find the slot of the named device, check it, write, read back,
answer. `kind` says which backend the process runs; it decides what is checked
and whether a name may occur twice. A write may fail, before or after it took
effect (an xinput that is killed by its timeout or exits non-zero), and the
read-back may fail itself with the value in place; `doubtful` is history: the
values such calls leave behind. A set-prop that takes effect only after its
killed call was answered counts as an outside write. `FromPercent` and
`ToPercent` are the two conversions of the backlight.

**DisplaySession** models the lookup of the session: the layout's copy
(display only), the window manager's own, then the files one by one. A document
is its `observed_at` time; invalid ones are `BadDoc`.

**Ch347Config** models `Ch347ControlBackend.set_state`, one call at a time
because of `_lock`. `WriteConfig` writes one file per step, `Written` decides by
the state that was looked up at the beginning (`set.ready`), `Signal` and
`AwaitReceipts` are `_reload_runtime`, `StopOutput`, `StartOutput` and
`StartAnswered` are `_restart`. `Provisioned` asks for one file of the package at least and
for each optional one that is to be changed. The output is external: it reads its files when
it starts and on SIGUSR1, and applying and writing each receipt are steps of
their own. `unapplied` is history: a call failed, was killed or found the
output not running after it had written.

**BluetoothPower** models `request_bluetooth_power`. A step is one probe, one
Management command or one rfkill write; `bterr` is the error string the code
decides by, and a failing probe may leave it as it was.

**Providers** composes the last five. A manifest component runs one domain in a
process of its own (`provider.py`, `build_parser`) and no state is shared, so a
behaviour follows one process (`proc`) while the others rest: the states are
the sum of the five, not their product, and nothing is lost by it.

The proofs are in modules of their own: **EventJournalProofs**,
**HalManagerProofs** (with the refinement of ProviderPolicy),
**MipcServerProofs**, **TouchCalibrationProofs**, **StorageProofs**,
**RadioProofs** (WifiControl and BluetoothPower), **LinuxProofs**
(VerifiedWrite and DisplaySession) and **ProvidersProofs** (Ch347Config and the
composition).

Definitions marked *Slip* are wrong versions of the one below them; the
mutants of `PROJECT.json` put them in its place to show that a property can
fail.

## 3. Bounds

Each counter that would grow for ever has a named bound (`MaxRevision`,
`MaxRestarts`, `MaxCalls`, `MaxChanges`, `MaxStarts`), in the guard of the
actions that count it. Capacities are shrunk instead of filled: a deque of 2
and pages of 1 with 3 events overflow and truncate; one storage slot and two
volumes crowd the tables; one worker and two permits with three calls reach
HAL_BUSY. Two clients, two providers and one device suffice for the races of
the manager, each of which needs two threads and one commit. `manager_select`
and the two violation runs of the manager use symmetry in the workers, which
the specification does not tell apart; no run with a liveness property does.
`providers_serve` uses symmetry in workers, names and slots, which are only
compared for equality, and has no liveness property either. Its bounds: two
workers and three calls (two that race and one that comes after), one lost
answer and one supplicant restart, three network ids with a list cut at two
rows; two slots and two devices with two hotplug or outside events, panels of 7,
127 and 255 levels; two session files, a clock of five ticks with a maximal age
of two; one cold and two hot files, one of which the package may lack, two calls
and two changes of the output; two re-probes per loop, two requests with two
faults and two moves of the controller. Every slip of these modules violates its
property within these bounds.
Deadlock is not checked: every model may come to rest when its bounds are used
up, and a server that waits for calls is no error.

## 4. Runs

| run | shows |
|---|---|
| `manager_process` | Journal: `JournalIsSuffix`: the deque is the contiguous end of the history. `NoSilentGap`: a client that resumes at the last entry it was given never passes an event of its domains in silence, with eviction, truncation, filters and restart. `WatchersAreWoken`: a waiting call with something to say returns because it is notified, not by its deadline. Server: `SlotsBalanced`, `AtMostOneReply`, `SilentMeansUntouched` (an unanswered call had no effect), `EveryCallAnswered`; the last two except calls in `unsendable`. |
| `manager_select` | `SelectionDurable`: memory and file agree outside a commit. `CasKeepsOthers`: a commit with `expected_revision` never overwrites a commit made since that revision was read. `PolicyImplemented`: refinement of ProviderPolicy, crashes included. `OwnerLostByProbeOnly`: a new route has the active provider as its owner, and no step parts the two but `list_providers(probe)`, which the run makes. |
| `manager_routing` | `PinnedFailsVisibly`, `CallsReturn` (no lock is left held), `StaleRoutesHeal` (routes that contradict a pin are replaced by a later poll). |
| `touch_cycle` | `RuntimeMatchesSaved`, `PreviousIsPrior`, `SavedRevisionGrows`, `PreviewExpires`. |
| `storage_media` | `SubscribersInStep`: every path publishes what it changed; a process that has sent no event still has the empty list. `ManualUnmountRespected`. `NoMediumMissed`: with nothing queued the list is that of the volumes there are, and with auto-mount on every medium was tried that was inserted with no unmount of its name on record. |
| `providers_serve` | `PartialCreationRemoved`: an entry connect did not finish is being worked on or gone, unless an answer was lost. `ConnectReachesItsNetwork`: a connect that is answered has selected its own SSID with its own credentials. `RemovalSparesOthers`: nothing disappears but what forget named or connect itself made. `AcknowledgedValueStands`: after racing calls the attribute has the value acknowledged last, or one that a call has written and reported as failed since. `PercentKept`. `SteadySessionServed`: a session file that is fresh throughout a call is never overlooked. `SavedReachesOutput`, `SuccessMeansApplied`: what set_state reports as applied the running output has. `PowerReportedTruly`, `PulseRestores`: power reported as set was so, and the rfkill pulse is always completed. |

Every module also has its `TypeOK`; those of MipcServer, TouchCalibration and
Storage include the limits of the pool, of the revision and of the tables.

Fairness. EventJournal: a notified thread gets the lock; no deadline is assumed
to pass. HalManager: every provider call has a deadline and every critical
section ends, so a thread keeps running, and a thread that finds a lock free
again and again gets it (strong fairness, as the locks are contended); the
polling thread polls for ever. `StaleRoutesHeal` assumes further that the polls'
inventories complete infinitely often. MipcServer: the reader reads, the pool
takes work, handlers end. TouchCalibration: waits end after their timeout, the
clock runs, the watcher gets the lock; nothing is assumed of the output
process.

## 5. Where the code and its documents differ

| run | difference |
|---|---|
| `journal_page` | A `watch` reply cut at 128 entries returns the current revision and no resync: a client that continues from that revision loses the rest. |
| `manager_seen` | A listing reads its rows before its revision; a commit in between makes the compare-and-set accept a preference the client never saw. |
| `manager_stale` | An inventory overtaken by a commit reinstalls the old routes; a write whose own inventory saw the new pin goes through the old provider. |
| `touch_ttl` | The watcher of a preview gives up after one failed rollback; the TTL does not end the preview then. |
| `storage_restart` | A manual unmount is forgotten when the process restarts. |
| `providers_device` | An xinput id that goes to another device between lookup and write is written all the same, read back there and acknowledged, although the manual says that HAL never applies a matrix to a different device. |

`PROJECT.json` quotes the documents. More observations from the models, which
the properties except by name and no run of its own shows:

* After a cancel that timed out, `confirm` checks only the receipt and can save
  the preview while the effective document is already the old one.
* With more than 32 volumes the storage scan prunes suppressions of volumes that
  are still there.
* `list_providers(probe)` recomputes the active provider without the routes
  (`manager.py:958-1000`), so that the provider reported active need not be the
  one that "owns the device routes" (`docs/hal-contract-v1.md:215-219`). It is
  the exception `OwnerLostByProbeOnly` names; drop it and TLC finds the listing.
* Events leave after the lock, so subscribers may see them out of order.
* An error whose `details` are too deep, too long or too large for
  `encode_packet` leaves its call unanswered, with the hardware perhaps changed
  (`mipc.py:214-223`); the caller sees its own timeout (`unsendable`).
* A medium removed around a crash of the native HAL is never announced: the new
  process compares its first scan with an empty list (`native_hal.c:2618`,
  5215), so a subscriber that misses the restart keeps the volume.
* A volume that is unmounted, removed and inserted again before the next scan
  stays suppressed: the uevent clears only the attempted list (5263) and the
  scan prunes only names it finds absent (2592). It is not mounted, although
  `docs/storage-hal.md:42-43` ends a manual unmount with the re-insertion.
* A set_state that is reported as failed may have left its value: the write took
  effect before it failed, or the read-back failed (`doubtful`).
* With more than 128 entries in a directory the storage scan may not see a
  volume at all (`native_hal.c:1777`).
* When the answer to ADD_NETWORK is lost, or the removal is refused, an entry
  without SSID or key stays (`strays`). A network id that is removed and handed
  out again while another call holds it mixes two profiles (`mixed`).
* connect to a configured network reports `configuration_persisted` true without
  a look at whether its profile was ever saved (`radios.py:467`).
* If the output is still starting, the CH347 set_state answers without waiting
  for a receipt; after a call that timed out, an old receipt can satisfy a later
  call that goes back to the old value. With an older display package that lacks
  one of the hot files the receipts never match, and every change of a running
  output ends in the timeout.
* A Bluetooth probe that fails silently leaves `index-list:0` of an earlier
  request in place, and a power-off then reports success (`bt.blind`).
* `docs/native-hal.md` 70-76 speaks of 20 attempts and of HCIDEVUP; the code
  probes 50 times and uses HCIDEVUP for USB controllers only.

## 6. Proofs

Each theorem is about the specification its run checks and holds for every value
of the constants that the module's `ASSUME` admits; TLC evaluates these
assumptions on every run. The pattern is the same everywhere: an inductive
invariant `XInv`, a lemma per action (`...Keeps`, `...Step`) that the action
preserves it, and short theorems that read the properties off the invariant.
Every invariant was first checked by TLC on the instance of its run.

### Journal and server

`EventJournalProofs` proves, for every number of clients, all filters and every
capacity:

* `JournalTyped`: `Spec => []TypeOK`;
* `JournalSuffix`: `Spec => []JournalIsSuffix`;
* `NoGap`: if `Resume = "lastEvent"`, `Spec => []NoSilentGap`.

The only assumption is `JournalAssumption` on the constants. The inductive
invariant is `JournalInv`: the type, the suffix property and `CursorsBehind`
(a cursor issued by the running process is not ahead of its revision). The
three need each other: the cursor a reply hands out is typed only because what
`watch` selects lies in the history, which is the suffix property. For `NoGap`
the argument is: if a reply does not ask for a resync, the suffix property puts
every event after the cursor in the deque (`MatchingComplete`); a page is a
prefix of the selection (`PageIsPrefix`) and not empty unless the selection is
(`PageNotEmpty`); so the events up to the last entry of the page are all
covered (`ReplyIsComplete`). With `Resume = "revision"` the step fails exactly
where `journal_page` finds its counterexample.

`MipcServerProofs` proves, for every finite set of calls and every pool size
(`MipcAssumption`):

* `MipcTyped`: `MipcSpec => []MipcTypeOK`;
* `PermitsNeverLeak`: `MipcSpec => []SlotsBalanced`;
* `OneReply`: `MipcSpec => []AtMostOneReply`;
* `SilentCallsUntouched`: `MipcSpec => []SilentMeansUntouched`: a call of a running
  server that got no reply had no effect, unless its error could not be encoded.

The inductive invariant `MipcInv` adds three facts to these. `OnePlace`: a call
is on the socket, in the executor's queue, running or leaving, and in only one
of them. `Unanswered`: a call in one of these places, or not sent yet, has no
reply. `SlotsBounded`: permits, queue and held calls never exceed the capacity.
`AtMostOneReply` alone says nothing about whether a call about to be answered
was answered before, which is what the first two supply. `SlotsBalanced` speaks
only of a running reader, so it cannot bound the permits workers give back
after `shutdown`; `SlotsBounded` does. `JoinQueue` and `LeaveQueue` say what
happens to the calls in a queue when one is appended or taken, so that the proof
of the steps argues about sets of calls.

### HAL manager (`HalManagerProofs`)

* `ManagerTyped`: `TypeOK`; `SelectionsAreDurable`: `SelectionDurable`;
  `CheckedCommitKeepsOthers`: `CasKeepsOthers`; `PinsFailVisibly`:
  `PinnedFailsVisibly`;
* `ManagerImplementsPolicy`: `Spec => PolicyImplemented`, the refinement;
* `RoutesHaveActiveOwner`: `OwnerLostByProbeOnly`, with every kind of request
  admitted. The invariant supplies the types of the locals that `Publish` turns
  into routes and active provider in one critical section.

`ManagerInv` has, besides the types, three parts. `Threads` says of every
thread, from its label, its request and its locals alone, what the labels
promise each other: which locals are set, that an inventory which found a pin
has looked at that provider only. `CommitConsistent` ties the split commit to
`lock`: outside it memory and file agree, inside it they differ exactly by the
domain and the value the holder is about to save, so that a rollback and a
restart both lead back. `BasisCounted` says that a preference replaced since
a client was given its revision shows in the revision, as long as the process
lives; `CasKeepsOthers` follows because the commit compares the revision under
the lock in which it writes. For the refinement,
`Install` is the abstract change of a pin, `Restart` the abstract restart (with
a saved but not installed commit counted as made), an event on its own the
abstract `Record`, and every other step stutters.
Assumed of requests is `WellFormed`, what `handle` checks before it calls the
method.

### Touch calibration (`TouchCalibrationProofs`)

`CalibrationTyped` (`TypeOK`), `RuntimeFollowsSaved` (`RuntimeMatchesSaved`),
`UndoReturnsToPrior` (`PreviousIsPrior`), `RevisionsGrow`
(`SavedRevisionGrows`). `TouchInv` adds what a handler in progress knows
(`JobShape`: its target and the document it returns to on failure are those the
operation is about), what an open preview goes back to (`PreviewShape`), and
`Told`: between handlers, a preview open or not, the effective document is
absent, the saved one, the open preview's, or one that a failure left behind.
`Gone` says that a provider that has exited has neither job nor preview.

### Storage (`StorageProofs`)

`StorageTyped` (`TypeOK` with the table limits), `SubscribersKeptInStep`
(`SubscribersInStep`), `ManualUnmountsRespected` (`ManualUnmountRespected`),
`NoMediaMissed` (`NoMediumMissed`), for any finite set of volumes and any table
size. Of `StorageInv` four parts carry the argument. `Announced`: unless a
change is pending (`dirty`), which it never is between jobs, the last event is
what the process holds, or the process has sent none and still has its empty
list (`Told`). `SuppressedShown`: a
suppressed name is in the cache, so a client's unmount finds room in the list;
that is a count, and uses the theorems on finite sets. `HonouredKept`: a
standing unmount has its volume present and suppressed and not mounted by the
process. `Seen` speaks of every step of a refresh: a medium not tried yet is in
the work list, suppressed, or has an uevent queued; a name on the attempted list
whose medium was inserted again has its uevent still to come, and no awaited
medium is suppressed.

### Providers (`RadioProofs`, `LinuxProofs`, `ProvidersProofs`)

* Bluetooth power: `PowerRequestsTyped`, `PowerIsReportedTruly`
  (`PowerReportedTruly`), `PulsesRestore` (`PulseRestores`). `PowerInv` adds
  that only powering on goes beyond Set Powered, that the error string is fresh
  when power off is confirmed by it, and that only the step between the halves of
  the pulse finds the radio blocked.
* Wi-Fi: `PartialCreationsRemoved`, `ConnectsReachTheirNetwork`,
  `RemovalsSpareOthers`. `WifiInv` relates the entry a call works on to how far
  the call has come: its maker is still at work on it and has set what its step says
  (`MakerAtWork`, `EntriesInOrder`), any other holder found it under the SSID it
  asked for (`HoldersKnown`), and what is on disk is complete (`DiskComplete`).
* Verified writes: `AcknowledgedValuesStand`, `PercentIsKept`. `WriteInv` has
  `LastWriterVerifies`: while a device shows neither the acknowledged value nor
  a doubtful one, the call that wrote last has not read back yet.
  `PercentIsKept` is arithmetic about two roundings and holds for every panel
  with 100 levels or more (`QuotientUnique`).
* Display session: `SteadySessionsServed`, for any number of files. `SessionInv`
  follows the files already read: a steady fresh one is in what was collected.
* CH347 configuration: `ConfigurationTyped`, `SavedSettingsReachOutput`
  (`SavedReachesOutput`), `SuccessIsApplied` (`SuccessMeansApplied`).
  `Ch347Inv` has `Following`: a running output has every hot setting of the
  files except those the present call has written and not had confirmed;
  `Catching` and `ReceiptsPast` say that along the way from file to reload to
  output to receipt nothing is newer than what comes before it.
* Composition: `ProvidersImplementEach` (each provider's specification is
  implemented by `ProvidersSpec`), from which `ProvidersTyped` and
  `ProvidersKeepTheirPromises` carry all the above to the specification the run
  checks.

### What the proofs changed in the models

* WifiControl: an entry saved to disk without its key while its id was mixed
  came back after a supplicant restart and was excused no longer;
  `PartialCreationRemoved` was false with more restarts than the run has.
  `mixed` now keeps such an id as long as the disk has it.
* `AcknowledgedValueStands` speaks of all slots of unambiguous devices and
  `SavedReachesOutput` also of an output that is reloading: both are stronger
  than before and were found to hold.
* Sentinels (`None`, `NoNet`, `NoDev`, `NoValue`) are assumed to differ from the
  values they stand beside. `DisplaySession` assumes a clock of one tick or more.
* Storage takes a mount off a list with `Without`, a choice among the few lists
  there are, since the provers know nothing of `SelectSeq`.

### Only model-checked

Liveness (`WatchersAreWoken`, `CallsReturn`, `StaleRoutesHeal`,
`EveryCallAnswered`, `PreviewExpires`): the prover handles neither fairness nor
ENABLED. The six differences of section 5 are counterexamples of TLC.

## 7. Not modelled, and the plan

Stateless code is left out: the power and thermal reads, the native device
builders, JSON and mIPC framing, and the validation of requests hold nothing
between calls, and a request they refuse changes nothing. The display layout
write is one call to the window manager. Bluetooth discovery fills a table that
only the next reply reads. The native Wi-Fi commands are those of the Python
backend, sent by one thread (`PROJECT.json` lists the two differences), so
WifiControl with one worker is their model up to these. Two hazards have no
property: a provider whose reply is lost has changed the hardware and the
manager cannot know, and an overflowing netlink buffer loses uevents, which the
model's queue does not.

Still open:

1. A product of MipcServer and EventJournal, where ManagerProcess is their sum:
   watch calls that hold the workers of the server they are served by.
2. A more abstract statement of what Storage and TouchCalibration promise their
   clients, and its refinement.
