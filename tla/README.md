# PeerCarry: models and proofs

TLA+ modules beside the code of PeerCarry, a desktop service (Rust), its pages,
its tray, a mobile app and a browser extension that share clipboard, files, notes,
logins and AI task notices between the devices of one person over a tailnet.

## Inventory

| Component | State | Operations and partners | What is hard |
|---|---|---|---|
| Notebook tables (`store.rs`) | note rows with a revision; per note the causal heads; sync settings with a generation; per peer a feed cursor and retry time | one redb transaction per operation, under one mutex | a second copy of the primary head in the row; limits; what a dropped transaction leaves |
| Notebook versions (`notebook_sync.rs` 279-582) | none (pure) | compare and increment clocks, merge a version into heads, resolve, choose the primary | concurrent edits against superseded ones |
| Notebook sync worker and feed (`notebook_sync.rs`) | the round in progress | reads its settings, asks Tailscale, pulls pages from each selected peer, applies them; serves its own feed behind a gate | everything between two awaits: settings, cursors, edits, failures, restarts |
| Notebook API and page (`notebook.rs`, `notebook.js`) | the open note, its revision, its unsaved text | create, autosave, trash, restore, list and resolve conflicts | stale readings, the reply to a save |
| Transfer queue (`transfer_jobs.rs`) | jobs on disk, cancellation tokens | submit, run, cancel, pause, retry, delete, recover | late results of old attempts, writes that fail, restarts |
| Mobile uploads (`uploads.rs`) | sessions in memory; on disk a directory each, with data, part, payload and manifest | load, create, append, complete, cancel, expire; behind the gateway, or on the configured port | crashes between file, store and manifest; a request that outlives its gateway |
| Mobile pairing (`mobile_connect.rs`) | one pending code, device credentials, a gateway while there is something to serve | show a code, pair, revoke, expire, stop | a lost answer and its retry |
| Maintenance gate (`maintenance.rs`) | activity count, closed flag | enter, leave, quiesce | activity against an update |
| AI receiver, task feed (`ai_monitor.rs`, `ai_tasks.rs`, hook of `ai.rs`) | the declared receiver, baselines, seen ids, alerts; the spool and the event table | declare, merge declarations, align with the token, poll, drain, prune, take an alert | declarations and feeds out of order, writes that fail, events drained twice |
| Desktop settings (`desktop_settings.rs`) | the configuration file | read, revision-checked write, restart | other writers, two of which also give the engine its folder |
| Updater (`peercarry-updater`, `update_install.rs`) | staged download, installed program, backup | verify, quiesce, swap, roll back | a stop between two renames |
| Login assist (`peercarry-login-assist`, extension) | sessions: phase, epoch, scope, commands used; the host's snapshot, the browser's target | request, pause, pair, approve, fill, click, show, hand back, expire | late and repeated commands, a page that changes meanwhile |
| Vault (`peercarry-vault`) | encrypted records with parents | edit, merge, list heads | concurrent histories |
| Automation (`peercarry-automation`) | lease, pause, operations in progress | pause, resume, reconcile, run, stop | pause against operation |
| Clipboard history (`store.rs`, `engine.rs`, `server.rs`) | entries with a pinned flag | capture, push, fetch, publish, pin, prune, dedupe, delete, clear | one request is several transactions, others come between |
| Payloads (`store.rs`, `engine.rs`, `server.rs`, `client.rs`) | files named by the hash of what is in them, one directory per computer | capture, resolve, serve, fetch, write by a temporary file and a rename | stops in between, two writers of one name, entries that travel without their payload |
| Downloads (`client.rs`, `server.rs`) | a partial file with the ETag it is of | ask for all or the rest, check, publish by a hard link | a source that changes, a stop between link and removal |
| HTTP server and client otherwise, clipboard access | streams | stream, paste | mostly I/O |
| Tray, CLI, mobile app, extension, pages | user interface | call the API | rendering |

What makes each correct, in a line: the **notebook** loses no edit, revives no old
one, replaces only what a user has read, converges, and obeys its settings; the
**queue** reports each job's fate truthfully and never runs one twice at once; an
**upload** is published once or not at all; a **pairing** code makes one device; the
**gate** lets no activity overlap an update; the **history** keeps what is pinned and no
more than its limit of the rest; exactly one desktop is the **AI receiver**
in the end; an **update** leaves a program that starts; a **login** command is carried
out at most once and only on the page as it was approved; a **vault** merge revives no superseded
record; a **pause** means that nothing acts; a **setting** that was accepted stays; a published
**download** is one version of the file, and stays so; a **payload** is whole, and there where its entry is from.

## Modules

| Module | Contents |
|---|---|
| `NotebookVersions` | versions, clocks, heads, merge, primary and feed order as operators |
| `NotebookSync` | devices with store, page, settings, worker and feed; properties |
| `CausalNotebook` | what the notebook promises, without any of that machinery |
| `TransferQueue` | the persistent queue with its worker, and the maintenance gate |
| `ClipboardHistory` | the entries of one desktop and the requests on them |
| `MobilePairing` | codes, devices and phones, with one action per request |
| `MobileGateway` | extends it by the uploads of the paired (or configured) devices |
| `AiReceiver` | the desktops of a group: spool, table, poll loop, declarations, alerts |
| `LoginSession` | what each operation of the Coordinator does to one session, as operators |
| `LoginPolicy` | the Coordinator with any number of sessions and devices, any caller, any epoch |
| `LoginHost` | one manual session end to end: phone, Service, native host, extension, page |
| `PauseBarrier` | the pause controller between the runner and those who need it to rest |
| `Updater` | the program that replaces itself, and its helper |
| `DesktopSettings` | the settings endpoint, its file, and other writers of it |
| `VaultHistory` | the revisions of an entry in copies of a vault |
| `FileDownload` | the resumed download of one file |
| `BlobCache` | the payload of entries on several computers |
| `NotebookSync_proofs`, `NotebookPromises_proofs`, `TransferQueue_proofs`, `ClipboardHistory_proofs`, `MobileGateway_proofs`, `Login_proofs`, `AiReceiver_proofs`, `Parts_proofs` | theorems, checked by TLAPS; the last is about `PauseBarrier`, `Updater`, `DesktopSettings`, `FileDownload`, `BlobCache` and `VaultHistory` |
| `MCNotebookSync`, `MCTransferQueue`, `MCClipboardHistory`, `MCMobileGateway`, `MCAiReceiver`, `MCFileDownload`, `MCBlobCache` | constant values for TLC |
| `MCParts` | the parts of one computer that do not interact, in one run |

What interacts is composed: the notebook's store, page, worker and peers; the queue with the
gate; the gateway with the uploads behind it; hooks, feeds and declarations; the phone, the
Service and the browser over the session policy (`LoginHost` and `LoginPolicy` use the same
operators of `LoginSession`). The others share no state but the database file, in which their
tables are disjoint: publishing a note or an upload inserts an entry, and the queue works on the copy of
an entry that it took when the job was created.

### How `NotebookSync` corresponds to the code

* `heads` are the `NOTEBOOK_SYNC` rows of all notes of a device, `shown` and
  `revision` its `NOTEBOOKS` rows, `settings` and `progress` the parts of
  `PersistedSyncState`. `worker` is the local state of `run_worker` and the functions
  it calls; it is lost in `Restart`, everything else survives. `editor` is what the
  desktop page holds: revision, and as `read` the versions its user has been shown.
* `seen`, `past`, `revoked` and `sweep` are history variables: no guard of an action
  reads them except to say which versions a new one was written in knowledge of and
  which ids are used up.
* A store operation is one transaction under the store's mutex, hence one action.
  `apply_sync_page` alone is several: `BeginApply` (the checks), one `MergeNext` per
  version, `AbortApply` or `CommitApply`. The mutex is held throughout
  (`StoreUnlocked`), and nothing shows before the commit.
* A visit is cut at every await: `SendRequest` (settings and cursor are read),
  `Admit` (the peer's gate), `ServePage` (the peer's feed), then `BeginApply` on the
  result. At each of these the request may fail (`RequestFails`: lost, timed out,
  refused, too large, malformed), the service may stop (`Restart`), the settings or
  the notes on either side may change.
* `UpdateSettings` counts a generation only for real changes, keeps the progress of a
  peer that stays selected, and forgets that of one that does not.
* The handlers of `notebook.rs` check the revision, then the store checks it again in
  the transaction; a revision identifies the heads, so the second check decides and
  the model has only it. `Create` stands for the first version of an older database's
  notes as well (`initialize_notebook_sync`).
* `SaveReply` is a step of its own since `save_updated_item` answers with a second
  read. The other operations' answers replace everything the page shows, as closing
  and opening the note would.

Abstractions: a version id is a number, unique and in arbitrary order (SHA-256 without
collisions; its text order decides the primary and the order of the feed, and says
nothing about causality); a clock is total with 0 for an absent replica; content is
the trash flag; the limit of a page in bytes is a free choice of a shorter page; the
number of failures and the delay they lead to are one flag, `backoff`, and a visit is
possible in spite of it, since `request_sync_run` forces one; the order in which a round visits peers is free;
the authentication of peers always succeeds between own devices. Replica ids are
assumed unique: a copied database would break this, and with it the clocks.

### What the properties say

* `HeadsAreMaxima`: heads are exactly the maximal versions among those the device wrote
  or acknowledged. `FrontierInvariant` is its inductive form.
* `ClocksAreCausal`: clock order is knowledge order, so nothing is taken for a successor
  that was written in ignorance, and no two versions have one clock.
* `RowsMatchHeads`, `RevisionFollowsHeads`: the two copies of a note agree, and a revision
  identifies the heads, which is what the compare-and-swap relies on.
* `WritesReplaceWhatWasRead`: a local write only replaces versions its user had read.
* `RevocationIsFinal`, `RoundInvariant`: no merge under changed settings, changed back or not.
* `SweepMissesNothing`: the cursor passes nothing that was there all the time.
* `Convergence`, `ImplementsCausalNotebook` (refinement), and `LimitsHold`, which is proved and in no run.

### How `TransferQueue` corresponds to the code

* `jobs` and `disk` are `DiskState` in memory and in `jobs.json`; a job is its status,
  its generation and the set of files recorded as completed. `WaitingForPeer` is
  "waiting". The number of a job is its place in the list. `failed` is `storage_error`
  or `recovery_error`. Entries, progress, names and error texts are left out.
* `worker` is the local state of the one `worker` task: the copy of the job it claimed, the
  token in `cancels` (there from "registered" to "ended", which is what `HasToken` says), and
  how far the attempt is. `Scan` is one pass over the list under the lock; what follows
  is cut at the lock and at every await, so cancels, retries and removals can come between
  the claim, the token, the check for staleness, the push or each file, the end of the
  attempt, the removal of the token and the final state.
* `create` checks the storage, then discovers the peer and finds the entry, then
  takes the lock: `AskCreate` and `Create`. `cancel` cancels the token after it has
  released the lock: `Cancel` and `CancelToken`. The other requests are one step; what
  they refuse changes nothing.
* A failed write undoes a request's change in memory and a claim, not a result; either way the
  queue is disabled until a restart. A restart may read the file and write it back,
  read it and fail to write, or fail to read it.
* `wire` holds the push requests under way. A push that timed out or was cancelled may
  still arrive. (A send is thus at least once, which the code intends: the receiver writes
  over the record of the same id.)
* The clock is two flags per job: `late` (past `expires_at`) and `due` (past
  `retry_at`). The count of `maintenance.rs` is computed from the requests and
  the worker; the other holders of it (uploads, other routes) are not modelled.
* Downloaded files are assumed to stay where they were put: the code fetches one again that
  the user has moved.

What the properties say: `CancelHolds` (an answered cancel begins nothing any more),
`AttemptHasItsJob` (an attempt never acts for a job that was queued again or removed),
`RunningIsWorkedOn` (no job is left "running" for nobody), `FateIsFinal`,
`CompletedIsTrue` (also after lost answers and failed writes), `FilesAreKept`,
`UpdateIsAlone`, `JobsEnd`. They cover what `docs/multicomputer-workflow.md` (32-34) says of
restarts, cancelling and failed writes.

### How `ClipboardHistory` corresponds to the code

* `held` and `pinned` are the entries table; an entry is its id, and all that is asked of it
  is its fingerprint, its origin and its place in the order of `created_at`.
* Each call of `store.rs` is one transaction and one action. `doing` is how far each of
  the concurrent requests is: look for a copy, delete it (`Replace`), `Insert`,
  `Prune` (the transaction that lists) and `Sweep` (the one that removes); `DeleteEach` for
  `dedupe` and for the command line's `clear`, which both list first and delete one by one;
  `Insert` and `Mark` for a pin that first copies the entry from a peer.
* `Abandon` is a failed transaction or a stop of the process at any point.
* `known` and `loose` are history variables, for `PinsOutliveWork` and `HistoryIsBounded`.
  The limit holds for what was stored with pruning: the code lets unpinned, copied and
  fetched entries exceed it until the next capture or push.

### How `MobilePairing` and `MobileGateway` correspond to the code

* `pair`, `devices`, `lapsed` are the state behind the one lock of `mobile_connect.rs`, so a
  request to pair is one action. It is nowhere on disk: `Forget` is the stop of the gateway and that of the
  process. `sent` keeps every request a phone has made, and any of it may be handled again, or late,
  or its answer lost (`Answer`): the app repeats the same bytes on its second route.
* An upload is a request in `working`, with the lock of the router it came by. It is cut at each
  effect on the disk: `MakeDir`, `MakePart`, `Created` (the manifest); `AppendChunk`; `Link`, `StoreEntry`,
  `Completed`; `Examine` and `Expire` for a session of `cleanup`; `Remove`. At each of
  these it may fail (`Fail`), the process may stop (`Crash`, with what `Residue` leaves of the step
  under way), or the phone may send other bytes than it announced (`ReadOther`).
* `StopRouter` does not end what is at work, because only the listener is aborted. With
  `Overlap` a new gateway, with a router and lock of its own, may start next to it.
* `surface` says which of the two uses of the same code is looked at: behind the gateway, or on the
  configured port, where devices are not paired and the router starts with the process.
* A unit is its position in the file, so that a byte in the wrong place, or twice, shows. Names, limits on
  single values and symbolic links are refused before anything happens and left out. A directory that
  cannot be read makes a start fail, and `torn` tells whether its making was broken off; the model
  shows that nothing else does.

Properties: `PairingIsExclusive`, `RevokedStaysOut`; `UploadsAreWhole` (bytes in place, no entry without
its file, one publication per request), `ToldIsTrue` (what a phone was told survives restarts),
`QuotaIsExact`, `OnlyTornIsUnreadable`.

### How `AiReceiver` corresponds to the code

* `monitor` is the `Monitor` in memory, `stored` what `ai-monitor.json` has of it; `SaveMonitor` is
  `save`, with its choice of what to fall back to. A declaration is a set of at most one record.
* `poll` is the loop of `run` with the drain of the spool: `WakeUp` lists the files, `Ingest`, `PruneTable` and
  `RemoveFile` are the two transactions and the removal, `ReadLocal` and `ReadPeer` the reads of feed and
  declaration, `Apply` the end of the round under the lock. Requests, switches, hooks and restarts come
  between any of these.
* `Receiver`, `Overview` and `ReadLocal` each align the stored state with the configured token, in
  three ways that differ, as they do in the code.
* Left out: what the page shows of devices (and with it the keys of known devices whose feed was never
  recorded; the first feed of any key is suppressed anyway), tool discovery and binding, validation of events.
  Peers answer by the network's token, which all have; the AI token makes groups. The
  device id is on disk before the first declaration.

* `ToldAll`, `MergedAll` and `RecordedAll` are the loops over sessions, declarations and feeds. The order of sessions (of
  the `BTreeMap` in `record`) is that of their numbers.

Properties: `KnownReceiverIsAlone`, `ReceiversSettle` (liveness), `NothingIsReplayed`.

### How `LoginSession`, `LoginPolicy` and `LoginHost` correspond to the code

* `LoginSession` has one operator per method of `Coordinator` (`lib.rs`): the session after it and
  whether it was allowed. Every one looks first whether the session is past its deadline (`Live`).
* In `LoginPolicy` executor, phone and browser call any of them in any order with any epoch they may
  have known; `stopped` records which executors have acknowledged to have paused.
* `LoginHost` is a manual session: `phone` the client, `policy` and `host` the Service (`host.rs`), `handler` the one command
  that holds `serial` while it waits, with its answer when that has come, `calls` and `replies` the two queues of the Native Messaging program,
  `worker` and `tab` the extension. A call is answered, fails, times out and is answered later, or finds no room;
  the page changes its layout or its document at any step. A frame takes three (validate, take the picture, validate again), and may be refused
  at each, as when another tab is in front by then. That another tab is shown just while the picture is taken, and not
  at the checks before and after it, is left out: a change of tabs is announced (`Notice`), and the session ends with it. `effects` and `frames` record what the page was made
  to do and what the phone saw, next to what had been approved.
* Left out: identities, field ids, coordinates and pixels (an approval is of a snapshot as a whole), TLS, framing.

Properties: `DeviceIsHandedOn`, `ExecutorStaysOut`; `UseIsApproved`, `HandBackIsFinal`.

### The smaller parts

* `PauseBarrier`: a step is a critical section of the controller's mutex. `RecoversEarly` says whether
  `reconcile` may be called while a pause is waiting. The controller does not prevent that, and `LeaseIsQuiet` would not
  hold; only tests call `reconcile` so far, and never then.
* `Updater`: every step of `apply_plan` and what it calls, each of which may fail; the helper may be
  stopped at any. `target` may hold half a copy, and a download whose helper could not be started is "left" where it is.
  `WaitFails` says whether the system may fail to tell if the new process runs (`try_wait`). The code then rolls back and
  starts the old version without having ended the new one: with `WaitFails` TLC finds `ProgramIsKept` violated, so it is checked
  and proved without.
* `DesktopSettings`: a save of a page is `Enter` (lock and revision), `Compare` (the temporary file is written and the
  original read again), `Rename`, `Answer` (the folder goes to the engine). Others write the file without that lock: `OtherWrites` is
  the command line or an editor, `PutConfig` the old settings page, with any configuration as it may have been loaded long
  before, `SetDownloadDir` the tray, with the configuration of the start. The last two then give the engine the folder, in a
  step of its own (`ApplyFolder`), and `applying` is what they have yet to give it. `FolderFollowsFile` therefore speaks of saves at whose
  answer nothing else under way has another folder for the engine (`Settled`). Where saves of two folders cross, the file may name one
  and the engine use the other until the next save or restart: the old page saves A; a page reads A, saves B and is answered; the old page's
  request goes on and gives the engine A. Nor is there a claim when the old page clears the folder, as the engine then goes back to the
  one of its start, though the file names none. `docs/local-settings-plan-2026-10-28.md` (65) has only the new endpoint take
  the lock. A write between a page's last comparison and its rename is lost; the same document (65, 120) accepts it, and the model
  leaves that write out, as it does a file that is cut short by a failed write.
* `VaultHistory`: snapshots may lack any of their revisions; `Merge` takes one as a whole or not at all.
* `FileDownload`: a piece carries the version of the source it was read from, so that a mixture shows. `Lose` is a
  stop at any step but the one between `Link` and `RemovePartial`, which is there when `RemovalFails`: of the two removals each may
  fail. Those before a second attempt from nothing are taken to succeed.

* `BlobCache`: there is one content, in pieces that are their position in it; an entry is the computer it is from.
  Files are `inode`s, so that two writers of one temporary name write into one file, as they do. `CaptureBlob` and
  `Resolve` begin a request, `FetchBlob` is `fetch_blob` from where the entry is from or from another that has it,
  `LookForBlob`, `CreateTemp`, `WriteTemp` and `RenameTemp` are `write_blob`. `Together` says whether two requests of one
  computer may be in it at once. No lock keeps them apart, so `PayloadsAreKept` is about what happens while they are not.

## Runs

| Run | Instance | Why this is enough to see the case |
|---|---|---|
| `SyncEdits` | 2 devices, 1 note, 4 versions, both pull, pages of one | two concurrent edits and two more: a conflict, its resolution, an edit against it, in every order of pages and stale editors |
| `SyncVisits` | 2 notes, 4 versions, pages of one or two, 1 head per note, two changes of settings, faults | up to three pages per traversal, edited, refused, also in the middle with a version staged, and interrupted in between; a change that is undone during a visit |
| `SyncConverge` | conflict over two pages, faults, then quiet | liveness, under `FairSpec` |
| `SyncStaleReply` | one note, pages of one, both pull | expected to violate `NoSilentOverwrite`: see below |
| `Queue` | a send and a download of two files, one after the other, 2 generations, 1 restart, failing writes, updates | a claim, a cancel or failure, a retry and another claim fit in the generations; two files make a download that stops between them; liveness under `FairSpec` |
| `Gateway` | 2 phones, 2 codes, 1 device at a time, 2 sessions of which one fits the storage; files of 3 units in chunks of 2; 2 faults | one phone takes the place of the other; a chunk boundary inside the file; a fault and another one during what follows |
| `GatewayOverlap` | as `Gateway`, without faults, gateways overlap | expected to violate `PublishedIsKept`: see below |
| `Receivers` | 2 desktops, 2 declarations or one and an event, tokens that change, 1 fault, 1 restart | two declarations are one of each desktop, or one and its release; an event comes before or after its desktop's peer is selected, and a fault and a restart during what follows; liveness under `FairSpec` |
| `HistoryPin` | 3 entries of one content, limit 1, one request at a time, nothing pinned at peers | expected to violate `PinnedStaysPinned`: see below |
| `DownloadTwice` | one file of two versions, removal may fail | expected to violate `PublishedStays`: see below |
| `BlobWriters` | 1 computer, 2 requests that write at once, a content of one piece | expected to violate `NothingPartialIsLeft`: see below |
| `Parts` | the clipboard history (3 entries, limit 2, 2 requests); a login session (2 calls, an epoch that changes, a change of the page); the policy (1 device, 2 sessions); the pause barrier (3 owners); 2 updates; the settings (2 pages, 2 values, a write without the lock, a restart); the vault (2 copies, 3 revisions); a download (2 versions, 3 changes); payloads (2 computers, 2 requests, a content of two pieces, 4 files) | each is the smallest in which two actors, or an actor and a fault, meet twice |

`MCParts` extends the nine parts, and so has their variables. Their specifications are `HistorySpec`,
`LoginSpec`, `PolicySpec`, `BarrierSpec`, `UpdateSpec`, `SettingsSpec`, `VaultSpec`, `DownloadSpec` and `BlobSpec`. A
behaviour of `MCParts` is one of one part, the `subject`, while the others rest in their initial state: they
share nothing, so that no interleaving of two of them could show more. Its properties are those of the parts. Two writes
without the lock were checked with the settings alone (4.1 million states); any number of them is in the proof.

Bounds are constants (`MaxGeneration`, `MaxRestarts`, `DiskFails`, `Updates` for the queue, where
`MaxJobs` is the code's own limit; `PeerFlags` for the history; for the notebook `Ids`, `Pulling`, `MaxGeneration`,
`Faulty`, `Settling`, `Observed`; `MaxTickets`, `MaxIds`, `MaxFaults`, `Surfaces`, `Overlap` for the gateway; `MaxFaults`,
`MaxStarts`, `NextTokens` for the receiver; `MaxCalls`, `MaxHostEpoch`, `MaxPageChanges`, and for the policy `MaxEpoch`,
`MaxSessions`, for a login; `MaxInodes`, `Together` for payloads; `MaxUpdates`, `WaitFails`, `MaxWrites`, `MaxRestarts`, `MaxFiles` elsewhere; and the sets themselves); they say how often, and who may act, never what an
action does. Two devices do not show a version that overtakes its predecessor by way of a third: that case
is in the proof of `HeadsAreAlwaysMaxima`, which is for any number. One job at a time (`MaxJobs`) does not show a job that waits while
another has its turn: the safety of that is in the proofs, and all properties of `Queue` were checked with two jobs at once, without
restarts and updates (2.1 million states). The runs without a check for deadlock are
those whose bounds end a behaviour (codes, sessions, faults, changes), and `SyncVisits`, where a device
whose synchronization is off rests; workers otherwise run for ever.

**Fairness of the notebook** (`SyncConverge`): a worker goes on (strong fairness of its steps, because
a request has to wait for a store that others take again and again, though briefly), and
a retry time passes (weak). Users, faults and settings are not fair. `Settle` ends
edits and faults: without an end of them there is nothing to converge to.

**Fairness of the queue** (`Queue`): the worker goes on, since it looks at the queue every
half second and all its awaits have timeouts; an update that cannot be
launched resumes; time passes. All weak. Requests, restarts, failures and the arrival of
pushes are not fair.

**Fairness of the receiver** (`Receivers`): the poll loop of each desktop goes on, all of whose awaits have timeouts.
A step of it is possible in every state, so that weak fairness is `[]<><<Polls(d)>>_receiverVars`, the
form TLC checks fastest. Switches, hooks, restarts and failures are not fair, and bounded.

### Findings

**`SyncStaleReply`**: the reply to an autosave is read after its commit. Should a
remote successor be merged in between, the page adopts its revision without its
content, and the next autosave replaces it, unread and without a conflict, on every
device. `docs/notebook-plan.md` (47, 157) excludes silent overwriting. The window is
narrow: the peer must pull the save, edit it and be pulled again between the commit
and the read that follows it. `WritesReplaceWhatWasRead` is the same property without this case.

**`HistoryPin`**: an entry that is pinned here and pushed again under its id loses
its pin, since `push_entry` looks for pinned copies among other ids only and overwrites
the record of the same id (`server.rs` 625, 648). The next clear or prune then removes
it. `README.md` (32, 263) of the repository says that neither touches a pinned entry, and
`server.rs` (1225) that pinning is not something a peer should decide.
A second, narrow way is in the same property: an entry pinned between the
two transactions of `prune` is removed (`store.rs` 243-262). `PinsOutliveWork` is what does hold: a
pin made before a request began is respected by it.

**`GatewayOverlap`**: `uploads.rs` (173) says that a published file is never expired. A completion under way when
its gateway is stopped goes on; the next gateway's load may find no payload in the expired session, the old request
link it, and the load remove the directory. Within one gateway `UploadsAreWhole` holds.

**`DownloadTwice`**: the published file and the `.part` file are one until the latter is removed. A client that stops
in between, and downloads the entry again when its source has changed, writes over what it published,
which `client.rs` (306) excludes. With removals that succeed `PublishedStays` holds, and is proved.

**`BlobWriters`**: the temporary file of a payload is named by its hash alone, and nothing keeps two writers of one hash
apart. When one renames what the other has just cut and goes on to fill, a stop leaves a partial payload under
the hash, which `store.rs` (981) excludes; nothing looks at its content again.

Met on the way, and of less weight: saves of two folders that cross, a folder cleared by the old page, and a `try_wait` that
fails (all three under *The smaller parts*); and `docs/ai-receiver-switch.md` (7) calls a device `synced` once it echoes the
current declaration; between a new declaration and the end of the next poll the status shown is that of the one before.

## Proofs

All theorems are for every value of the constants that satisfy the named assumptions.

**The notebook.** Both modules assume of the limits only that they are numbers and that a note may have a
head (the code's is 16), of notes and ids that they are positive numbers.

`NotebookSync_proofs`:

* `TypeCorrect`: `Spec => []TypeOK`.
* `FrontierKept`, `HeadsAreAlwaysMaxima`: `Spec => []HeadsAreMaxima`. The property itself
  is not inductive: in the middle of a merge it says nothing of what is staged, and
  as a set of maxima it hides what a step needs, that no head succeeds another and
  that everything seen is a head or succeeded by one. `FrontierInvariant` says these for
  the heads and for the staged heads together with the part of the page merged so far. The
  argument is then one lemma: merging a version keeps a frontier, because
  the order on clocks is transitive and irreflexive; local writes need that the new clock is above
  all heads, which for a resolution is the lemma on `Joins`.
* `RoundKept`, `RevocationIsAlwaysFinal`: `RoundInvariant` (the generation a round
  remembers is at most the stored one, below it once the settings have changed, and equal during
  a merge) is inductive and gives the action property.

`NotebookPromises_proofs` builds on it. `InvariantKept` is `IInv /\ CausalInvariant`: rows show the primary
versions (`ShownInvariant`), a worker carries only versions that some device has or had (`LearntInvariant`), and the three
facts below.

* `ClocksAreAlwaysCausal`. `UniqueIds`: an id is one version. `AuthorsKeep`: a device has seen all it wrote.
  `PastIsCovered`: if the author's own entry of a version is reached by another clock, that version knew it.
  A new version raises its author's entry above all it has seen, so that nothing else reaches it; covering
  another clock means covering the entry of its author, hence knowing it, and what is known is covered.
* `DevicesImplementCausalNotebook`: a write is a `Write` of the causal notebook (its version succeeds everything the device has seen of the note,
  `WrittenSucceedsAll`), a committed page is a `Learn` or changes nothing, all other steps stutter.
* `RevisionsFollowHeads`, `RowsAlwaysMatchHeads`: `StepNote` says for each step what it does to one note.
  That a note with heads has exactly one primary takes a smallest id in a set of any size: well-founded induction, cited from the library.
* `EditsReplaceWhatWasRead`: `EditorInvariant`, by which a page that holds the present revision has read the
  present heads, or is in the state "ahead" of the finding.
* `SweepAlwaysMissesNothing`: `SweepInvariant` adds to the property what it means for each phase of a visit:
  a page in hand and its cursor cover together what the traversal had left. Steps that take no page are `Calm`; one lemma serves them all.
* `LimitsAlwaysHold`: `LimitsInvariant`, also for what a merge has staged.

`TransferQueue_proofs` assumes nothing but that the constants are sets of numbers, numbers and Booleans. Its invariant
`IInv` has a part for each pair of things that must not part:

* `Synced`: memory and file, while the file can be written. After a failure the file is left behind, and `DiskFollows`
  (it is as it was, or the list of now) is all that is needed.
* `AtWork` and `Attempted`: the list and the attempt. A running job is the worker's, of the same generation; an attempt
  that may still begin something has its job, or a cancel on the way to its token. Between registering the token and
  looking for staleness the latter does not hold; that look restores it.
* `Halting`: a cancel in memory is one in the file, and an answered one is at the token. It gives `CancelsAlwaysHold`.
* `Listed`: a number is not used twice. `Kept`: records are known to memory, file and worker (`FilesAreAlwaysKept`). `Earned`:
  what ended well was done (`CompletedIsAlwaysTrue`). `Alone`: the gate (`UpdateIsAlwaysAlone`); the count is that of a finite set.

`Fates` says once what can become of a job in a step; `FatesAreAlwaysFinal` and the steps of most parts follow from it.

`ClipboardHistory_proofs` assumes that entries are finitely many positive numbers and the limit is a number. `PinsAlwaysOutliveWork`
needs `Undoomed`: what a request has chosen to remove was not pinned then. `HistoryStaysBounded` is a statement about rest, and
`Bounded` its form at work: between the two transactions of a prune an entry inserted meanwhile may stand for one
that is listed, and no request knows which of the others will fail. It says of *every* set of the sweeps under way that,
if just these took place, what was left would be within the limit, not counting what the others have yet to prune.

`MobileGateway_proofs`: `PairingStaysExclusive` and `RevokedAlwaysStaysOut` with `PairingInv`, whose part
`CodeIsUsedOnce` relates the pending code to the devices it has made. The theorems on uploads, `UploadsAreAlwaysWhole`, `ToldStaysTrue`,
`QuotaStaysExact`, `OnlyTornStaysUnreadable` and `PublishedStays`, assume `~Overlap`, without which the finding shows them false.
They share one invariant, `UploadInv`:

* `Agrees`: directories, entries and what phones know. A phone keeps to the session it knows; so a published one is the
  only one of its device.
* `Broken`: a directory that cannot be read was broken off, or is being made.
* `Remembers`: what is reserved is what the sessions in memory need; all that can be read is among them; and both they
  and it fit the quotas, so that a restart never finds more than it may hold.
* `OneAtWork`: one request at a time, of the present router, which is `Sound` at its step: it has checked what it relies on.

`Login_proofs`, from no assumption.

* `DevicesAreHandedOn` and `ExecutorsStayOut` of the policy. `PolicyInv` says of every session that it is
  `Lawful` (what its phase implies of scope, completion and the executor's pause) and of every device who
  holds it. The lemmas take the operations of `LoginSession` one at a time and show that each keeps a session lawful, whatever
  the epoch; the actions then only differ in what they do to devices.
* `UseIsAlwaysApproved` and `HandBacksAreFinal` of the session from phone to page. `HostInv` follows a command through the
  queues: what is queued (`Queued`), being carried out (`Working`), answered (`Replied`) or done (`Past`) names the page of its own approval,
  numbers only grow on the way, and an answer counts only for the call that waits for it, for which what it says is
  so. That the worker has stopped when a session is completed is a case of the last: the answer to a hand-back is
  given after the target is revoked. A picture taken between the two checks of a capture is of the approved page if the second finds
  document and revision as they were, since neither ever goes back (`LookingKeeps`, `LookingGoesOn`). `LooksKeep`, `ServiceKeeps`, `CallKeeps`, `SendingKeeps` and `DoneKeeps` take the
  kinds of steps; the actions are instances of them.

`AiReceiver_proofs` assumes nothing but the form of the constants (`ReceiverAssumption`).

* `KnownReceiversAreAlone`. That a desktop has heeded what it heard is not inductive: what it holds may be on disk only, in
  a declaration on its way, or taken back. `ReceiverInv` says that an operation id stands for one declaration wherever
  it is (`OperationsAreUnique`, over memory, file, history and answers of a poll), that no declaration of its group
  that a desktop heard precedes what it has selected (`IsHeedful`), and that memory and file agree unless
  the monitor is dirty (`IsWritten`). Two receivers that had heeded each other would then have the same declaration, of
  one desktop. Every step is sorted by what it does to the monitor: it gives something up (`Relents`, `Yields`), declares
  (`Switched`), or chooses among what was heard (`Chooses`); saving comes once, in `SaveKeeps`.
* `NothingIsRepeated`: `IsUnrepeated` says of memory and file alike that all ids shown or recorded in silence are among the seen
  ones, that no waiting alert is of one, and that alerts are only of feeds that are told of; a restart may bring back
  either. `IsPolled` says that a poll reads each feed once. `ToldAllKeeps`, `RememberedKeeps` and `RecordedAllKeeps` are about the loops.
  `CourseExists` and its companions take the place of induction over data: they are about functions on `0 .. n` with values in a given
  set, and the least number at which something would fail comes from the library's theorem on well-founded relations.
  The theorem assumes `Room`, that the ids of all events fit into the list of seen ones, and no
  other bound: alert queue, spool, table and sessions may be of any size.

  Without `Room` it is false (TLC finds that at once, with two events and room for one): `record` forgets the oldest of 8192 ids
  (`ai_monitor.rs:563`), though their events may still be in the feed of a desktop that has had no newer ones. They are new once
  more at the next poll, and its last ones are announced again. `docs/ai-task-notifications.md:23` says that
  events are told apart by their id. It takes 8192 newer events.

`Parts_proofs`:

* `LeaseIsAlwaysQuiet` (pause barrier), assuming `~RecoversEarly`. `Turn` strengthens it: one owner at a time is anything but
  away, and `paused`, `active` and `lease` say what it does.
* `ProgramIsAlwaysKept` (updater), assuming `~WaitFails`. `Stages` says for each step of the helper which files, processes and
  gate there are; `Told` relates the status to them.
* `SettingsAreKept` and `FolderIsFollowed` (settings), assuming that "no file" is no configuration and "nobody" no
  page. `SavesAlone` is one strengthening: who is past `Enter` has the lock, and once it has compared, the file
  is what it compared with, until it renames. `Awaited` is the other: after an answer, what a writer without the lock
  has yet to give to the engine is the folder of the file.
* `PublishedFilesStay` (downloads), assuming sizes are numbers and removals do not fail: while no publication is being
  finished, the partial file is none of the published ones (`PartIsOwn`). `CalmAttemptsSucceed` needs only the sizes: `CalmIsTrue` says what
  an undisturbed attempt has written so far, and that a second copy, made from nothing, passes the check.
* `EntriesAlwaysHavePayloads` (payloads), from no assumption: whoever records an entry has seen the blob there, and blobs are never
  removed. `BlobsAreAlwaysWhole` and `PayloadsAreAlwaysKept` assume `~Together`: then the temporary file of a computer is no blob and no
  other's (`TempsAreOwn`), and what its one writer has written so far is a beginning of the content (`WrittenIsContent`).
* `HeadsAreAlwaysLatest` (vault), from no assumption. `VaultOK`: revisions name older ones, and a copy holds all that its
  revisions name. `Supersedes` is defined recursively; that there is such a function is shown without induction, from the smallest
  relation that holds every parent and what comes before it (`SupersedesIs`). What a head is then follows from the first, or the last, revision of a
  copy with the property in question (`SupersededIsNamed`, `HeadSupersedes`).

Only model-checked: `Convergence`, `JobsEnd` and `ReceiversSettle`, which are liveness under fairness and out of the prover's
reach. All invariants, action properties and the refinement are proved; the runs remain, since they are what finds a mistake in a
formula before a proof is tried. `LimitsHold`, and `PublishedIsKept` without overlap, are proved and in no passing run.

## Not modelled

* Platform I/O: clipboard access, input injection, windows, tray menus, discovery by Tailscale. It has no state beyond
  the calls that the models have as inputs.
* Cryptography, TLS, certificates, the framing of messages: an unauthentic message is a refused one.
* Rendering: the pages and the mobile app are in the models as far as they hold a reading on which a later
  request depends (notebook page, settings page, phones).
* HTTP routes that read only, streaming of payloads, downloads of directories (never resumed), parsing and validation.
* The history and texts of the mobile gateway; a text is a push of `ClipboardHistory`.
* The timer of the automatic update and its dialogs; the plans of the automation, of which only entering and leaving an
  operation matter here.

## Plan

To model next: the directory download, and the gateway's uploads composed with `ClipboardHistory`'s insertion.
