# A TLA+ model of raria

`raria` is a download program compatible with aria2: a JSON-RPC server (or a
one-shot command) that fetches files over HTTP, FTP, SFTP and BitTorrent.  The
modules here describe its core: the table of tasks and the methods that change
it, the download pass, the server in which handlers and a background worker
share them behind a lock, the notifications sent to WebSocket clients, what a download
does to the files on disk, what is made of an uploaded Metalink or torrent, and the
foreground command with its input file and session.

- [The system](#the-system)
- [The modules](#the-modules)
- [What is checked](#what-is-checked)
- [What is proved](#what-is-proved)
- [Where code and documentation disagree](#where-code-and-documentation-disagree)
- [Plan](#plan)
- [Not modelled](#not-modelled)

Paths are relative to `crates/raria-core/src/` unless they begin with `crates/`
or `docs/`.

## The system

| Component | State it keeps | Operations | Correct when |
|---|---|---|---|
| RPC engine, `RpcEngine` in `rpc.rs` | `next_gid`, `tasks` (gid to task), `events`, the sender of a broadcast channel | `addUri`, `addTorrent`, `addMetalink`, `pause`, `unpause`, `remove`, queries, `system.multicall`; `complete_task`, `fail_task`, `pending_*`, `drain_events`, `subscribe_events` | gids are unique, no task is lost, notifications tell what becomes of each task |
| Download pass, `DownloadEngine::run_once` in `http_engine.rs` | a snapshot of the waiting tasks, per protocol | four stages: HTTP, FTP, SFTP, BitTorrent; each task ends completed, failed on its checksum, or with an error that ends the pass | every waiting task is run exactly once, no other task is |
| Server, `RpcServer` in `runtime.rs`, `handle_jsonrpc` in `rpc.rs`, RPC mode of `crates/raria-cli/src/main.rs` | the listener's task, the worker's task, the Mutex around the engine | start, requests, the worker's loop (lock, pass, unlock, sleep 100 ms), shutdown, Ctrl-C | calls and passes never overlap, requests are answered, tasks are taken up, shutdown ends |
| WebSocket stream, `handle_websocket` and `stream_events` in `rpc.rs` | one receiver of the broadcast channel and one socket per client | subscribe, upgrade, receive, send, end | a client gets an unbroken run of the events since its handshake |
| Transfers, `run_*_task`, `download_*`, `finish_task` in `http_engine.rs` | output file, control file | resume from the control file's length, append or write, checksum | the file has the remote file's content |
| Control file, `persistence.rs` | one JSON file beside the output | read, write through a temporary file and a rename | a reader sees an old or a new version, whole |
| Metalink, torrent and magnet parsers, `metalink.rs`, `bittorrent.rs` | none | bytes to a description of files | the checksum and the info hash are those of the file |
| Command line, input file, saved session, `cli.rs`, `crates/raria-cli/src/main.rs` | none | parse, save, run one pass | a saved session reads back as it was |
| `RariaRuntime`, `config.rs`, `lib.rs` | a shutdown signal; constants | start, shutdown | - |

How they interact.  A request is handled by its own asynchronous task
(`handle_jsonrpc`), which waits for the Mutex, makes one call on the engine and
answers.  The worker waits for the same Mutex and holds it through a whole pass,
network transfers included; the pass calls back into the engine
(`complete_task`, `fail_task`).  The engine pushes each notification into a Vec
and into a broadcast channel; each WebSocket client has a task of its own that
drains its receiver, outside the lock.  Shutdown signals the HTTP server, waits
for it to drain, then aborts the worker without waiting for it.

What is hard about it:

- *Interleaving.* Handlers, the worker and WebSocket tasks run concurrently;
  clients come and go at any moment.
- *Stale state.* A stage snapshots the waiting tasks and never looks at a status
  again; only the lock held across `await`s makes that right.
- *Failure.* One error ends a pass and the loop around it; a multicall stops at
  its first error; a transfer stalls for ever; the worker is dropped at an
  arbitrary `await`.
- *Liveness.* Whether a request, a task, an event, a shutdown gets through at
  all depends on the order in which the lock is granted and on transfers without
  timeouts.
- *Bounded queues.* The broadcast channel keeps 256 events; slow clients lag.

The hazards are listed one by one, with their lines, in `PROJECT.json`.

## The modules

    RpcEngine  <-  DownloadEngine  <-  RpcServer          (EXTENDS)
    NotificationFeed  <=  EventStream                     (implements)
    RpcServer  =>  DownloadEngine!EngineSpec              (implements)
    SplitDownload, ResumeTransfer                         (inside one transfer)
    AtomicFile  <=  ControlFile                           (implements)
    Metalink, Torrent                                     (inside addMetalink, addTorrent)
    InputSession                                          (main, without the RPC mode)

Each has an `MC...` module with the calls and bounds of its TLC runs, and the
theorems are in `...Proofs` modules: those of `RpcEngine` and `DownloadEngine` in
`DownloadEngineProofs`, those of `Metalink` and `Torrent` in `UploadProofs`.  An action has the name of the function it
models where there is one.  Operators described as *mutants* are deliberate
bugs: no specification uses them; exchanged for the definition below them they
show that a property notices that bug.

### RpcEngine

`RpcEngine` models the struct of that name.  `tasks` maps the gids given out so
far to tasks; `log` is the sequence of all notifications ever emitted and
`drained` says how much of it `drain_events` has taken, so that the Vec `events`
is the part of `log` behind `drained` and the broadcast channel carries `log`.

- A URI is its *kind*: the schemes the engine distinguishes, a `magnet:` URI
  that parses, one that does not, and `ed2k` for every scheme nobody serves.
- A gid is the number behind its 16 hexadecimal digits; both sort alike, which
  matters because a `BTreeMap` hands tasks out in the order of its keys.
- `call` is one JSON-RPC call: it takes effect (`Effect`), is rejected without
  changing anything (`Rejected`), or is a multicall, which puts its calls into
  `batch`; `multicall` then makes them one by one, so that the state between two
  calls of a multicall is a state of the model.  While `batch` is not empty the
  engine is borrowed and `Call` is not possible.
- Options only the transfer looks at (headers, cookies, limits, ...) are left
  out; methods that only read are one action, `query`; calls refused before they
  touch the table (unknown method, wrong parameters, undecodable torrents) are
  one kind, `invalid`.

### DownloadEngine

Extends `RpcEngine` with `run_once`.  `stage` is the protocol being served,
`todo` what is left of its snapshot.  `Finish`, `Mismatch` and `AbortPass` are
the three ways a transfer ends: `complete_task`; `fail_task` after a checksum
that does not match (not for torrents, which have none); an error, after which
the pass is over and the task still waiting.  `EngineSpec` lets calls and passes
alternate as the borrow checker does (`rpc: &mut RpcEngine`): it is the abstract
specification of the server.

### RpcServer

`RpcServer` takes the actions of the two modules *without* the guards that keep
calls and passes apart and puts the Mutex in their place.  `queue` is the Mutex:
its holder, then those that wait, served in order, as `tokio::sync::Mutex`
documents.  A handler's `Handle` and `HandleBatch` are possible at the head of
the queue only; the worker goes `asleep`, `locking`, `running`.  `Disconnect`
drops a client's handler where it waits for the lock (a handler that has it runs
to its end, there is no `await` in a call).  `link` is the client's connection: a
request arrives in two steps (`Send`, `Request`) and an answer is taken in a step
of its own (`Read`), since axum's graceful shutdown waits for connections in the
middle of either; nothing makes a client go on.  `WorkerFail` is `?` in the loop,
`Stall` a transfer that will not end, `Shutdown`, `Drained` and `Cancel` the
three steps of `RpcServer::shutdown`, `CtrlC` the end of the RPC mode of the
binary, which does not call it.

### NotificationFeed, EventStream

`NotificationFeed` says what a WebSocket client is promised: its feed opens at
some moment, hands on each event after that moment in order, and may end; never
does it skip one.  `EventStream` models how this comes about: the receiver is
created (`handle_websocket`), the 101 is sent (`on_upgrade`), the client sees it
(`SeeHandshake`) and `stream_events` starts, the latter two in either order and with
any number of events before, between and after them; the channel keeps `Capacity` events, `recv` takes one, `send` writes it, and any
error of either, a lag included, ends the stream.  Events are numbered in the
order of sending.  The channel's behaviour (`Empty`, `Lagged`) is tokio's.

### ResumeTransfer

`ResumeTransfer` opens up what is one step in `DownloadEngine`: a transfer, from
reading the control file to `complete_task` or `fail_task`.  Its outcomes are those
of that module: `Report` is `Finish` or `Mismatch`, `Abort` is `AbortPass` or the
`Cancel` of `RpcServer`, `Crash` the process gone, `Again` a task that is unpaused
or another one, of the same remote file or of a different one, with the same output path.

- A byte is the remote file it comes from and its position there, so that bytes that
  are missing, twice there or foreign can be told from right ones.  Remote files are equally
  long and stay as they are; `origin` is the one an earlier session left a part and a control file of.
- The control file is the length it tells.  The program reads and removes control
  files and never writes one, so there is one at the beginning or never.  One that
  cannot be parsed ends the pass before anything happens and is left out.
- `Yields` is what a server answers: from the length asked for, or, if it ignores
  ranges, from the beginning.  Bodies cut short without an error are left out.
- `fs::write` truncates and writes before it returns; an append is `pending` until
  tokio's blocking thread lands it byte by byte (`Land`) or fails (`WriteLost`), at any
  time, also after the task has ended.  Bodies longer than tokio's buffer of 2 MiB
  are on disk up to the last part of that size when `write_all` returns; the model
  lets them be late as a whole.

### SplitDownload

`SplitDownload` is the loop of `download_split`, with bytes as positions again.
Between two requests the file may be added to, cut or rewritten, any number of times
and in any order (`Change`; `changed` remembers the worst of it), and a part may be
answered with a 206, with the whole file, which nobody notices, or not at all
(`download_range`; `ranges` remembers whether each part was a part).
`ResumeTransfer` takes from it that a split download of a file that stays as it is
yields the file.

### AtomicFile, ControlFile

`AtomicFile` is a register with crashes: a write takes effect at one moment or not at
all, a read returns what was there when the file was opened.  Of writes that overlap
(`mixed`) it promises nothing until the last of them is over; the first write after
that is as good as any.

`ControlFile` is the file system under it.  `path` and `temp` say which inode the two
names mean, `data` what is in each inode, `call` what each caller is in the middle of,
so that a file stays open under whatever name.  `BeginWrite` to `Rename` are
`write_control_file_atomic` from one `await` to the next; `OpenRead` and `ReadReturns`
are `read_control_file`; `Remove` is that of `finish_task`; `Crash` ends all calls and
leaves the disk.  A version reaches the disk in parts, two versions may differ in
length, and what is not a whole version does not parse (`Garbage`).

### Metalink

`Metalink` is the event loop of `parse_metalink_bytes`, one action per kind of event,
with `current_file`, `current_text` and `files` as in the code.  Next to it the actions
keep the document as a tree (`inside`, `leaf`, `text`) and what it thereby says of each
file (`said`, `told`): that is the specification the parser is held against.  `odd`
remembers what the parser does not reckon with: a hash or URL inside an element that
is not the file itself (*foreign*: `pieces`, `license`, `publisher`), and text that a comment
divides or that is CDATA.  `addMetalink` itself is a call of `RpcEngine`.

### Torrent

`Torrent` follows one uploaded torrent: `raw_info_dict` and `bencode_value_end` (the
recursion is the counter `depth`), the decoding by bendy, `addTorrent` with
`select-file`, `getFiles` (`Shown`) and the list that `run_bittorrent_task` hands to
librqbit (`FileId`, with the underflow of `file - 1`).  The bytes are symbols, each of
which stands for all bytes that are treated alike; the upload may be cut off anywhere.

What a torrent *is* does not come from the search: `tree` gives for each place of the info
dictionary where a value starts the place behind it, the list or dictionary it is in and
how deep that is, and `WellFormed` says that this is bencode (in a list or dictionary a
value is followed by another one or by the `e`).  A torrent's tree says nothing of the
bytes in front of the dictionary, which may be anything the key can come after.

### InputSession

`InputSession` is `main` without `--enable-rpc`, one command after another on the same
files: `Load`, `OpenSession`, `WriteLine` and `SessionSaved` (the `fs::write` of the
session), `AddUri` for each task, `RunOnce`; `SaveFails` and `Stop` are errors and the
end of the process.  A text is a sequence of lines, `ParseInput` and `SessionText` are
the two functions of `cli.rs`, and a command may read the session that an earlier one
wrote, or died writing.  `ReadsAs` says what a URI becomes as a line of text.  Lines are
made of any URIs (`Uris`) and any options (`Keys`, `Values`); the file and the command line
are any of `InputFiles` and `Arguments`.

## What is checked

| Run | Module, configuration | Properties |
|---|---|---|
| `rpc_engine` | `MCRpcEngine`, `MCRpcEngine.cfg` | `RpcTypeOK`, `AnnouncedOnce`, `OutcomeAnnounced`, `HistoryKept` |
| `download_engine` | `MCDownloadEngine`, `MCDownloadEngine.cfg` | `EngineTypeOK`, `SnapshotExact`, `NothingRunnableLeft`, `OutcomeOnlyFromWaiting` |
| `rpc_server` | `MCRpcServer`, `MCRpcServer.cfg` | `ServerTypeOK`, `EngineHeldByOne`, `EngineSpec` (refinement), `RequestAnswered`, `WaitingTaskTaken`, `ShutdownCompletes` |
| `event_stream` | `MCEventStream`, `MCEventStream.cfg` | `TypeOK`, `NothingMissedAfterHandshake`, `FeedContract` (refinement), `EveryEventDelivered`, `StreamsEnd` |
| `resume_transfer` | `MCResumeTransfer`, `MCResumeTransfer.cfg` | `TransferTypeOK`, `ControlBacked`, `CompleteHolds`, `FirstAttemptExact` |
| `split_download` | `MCSplitDownload`, `MCSplitDownload.cfg` | `SplitTypeOK`, `PartsJoin`, `NothingMissing` |
| `control_file` | `MCControlFile`, `MCControlFile.cfg` | `ControlTypeOK`, `TempUnseen`, `FileContract` (refinement) |
| `uploads` | `MCUploads`, `MCUploads.cfg` | `MetalinkTypeOK`, `ReadAsWritten`, `TorrentTypeOK`, `InfoHashOfInfo`, `DownloadsWhatItShows` |
| `input_session` | `MCInputSession`, `MCInputSession.cfg` | `SessionTypeOK`, `SavedReadsBack`, `CutReadsAsFront`, `AllOrNothing` |
| `rpc_notified`, `rpc_server_loop`, `metalink_pieces` | see [below](#where-code-and-documentation-disagree) | expected to fail |

What they show:

- `rpc_engine`: whatever clients call and however downloads end, each task is
  announced once and before anything else about it; a finished task's last
  notification is its outcome, also after it was unpaused and run again;
  removing a task does not take it off the table.
- `download_engine`: the snapshot a stage works from never goes stale; a task
  two stages could serve is run by one; a pass that reaches its end leaves
  nothing runnable behind although each stage looked once.
- `rpc_server`: the lock is in the hands of whoever is in the middle of
  something, through disconnects, errors and cancellation; so nothing overlaps,
  and the server is an implementation of `EngineSpec`.
  A request is answered unless a transfer stalls for good or the process exits.  A runnable task is taken up unless the worker is dead, a
  transfer stalls, or the server is being stopped.  Shutdown completes, unless a
  client is waiting for the lock behind a transfer that never ends, or stops in the
  middle of its request or of the answer.
- `event_stream`: a client misses nothing sent after it saw the handshake, even what
  is sent before `stream_events` runs, and its stream is cut rather than continued when it falls behind.
  No event stays in the server; streams end with the engine.
- `resume_transfer`: what a control file vouches for is never destroyed.  A task
  that completes after a download from the beginning, or with a verified checksum,
  has the whole remote file at the front of its own; late appends of earlier
  attempts, and of downloads of other files to the same path, can only follow it.  A first attempt leaves exactly the remote file.
  Neither holds without its conditions: `run_http_task` (`http_engine.rs:77`) appends the
  whole file a server without ranges sends; an attempt that ends between the append
  (`http_engine.rs:184`) and the removal of the control file is resumed from the old
  length, and its bytes are appended twice; a download of another file to the same path
  (`output_path`, `http_engine.rs:54`) takes that control file for its own; and the append is not flushed
  (`http_engine.rs:190`) before its checksum is read, so a file that will be right can
  be reported as a mismatch.
- `split_download`: more parts than bytes, a part that begins at the end, a file
  that is added to or cut between requests: parts answered with their ranges make up the
  file's beginning without gap or overlap, and nothing is missing of one that is only
  added to.  If the file is rewritten meanwhile, be it only cut and then added to
  again, no byte comes twice but the result may have a gap, which
  the code does not notice (`http_engine.rs:227`); nor does it notice a part that is answered
  with a 200 and the whole file (`http_engine.rs:259`).
- `control_file`: with errors and crashes between all steps a control file is a register,
  as long as writes do not overlap.  Even if they do, nobody ever reads a file that is
  still to be emptied, and the next write puts everything right.
- `uploads`: no text of a Metalink document ends up in another file or in another field,
  whichever elements have no text, blank text, or stand outside a file.  The bytes that
  are hashed for a torrent are exactly those of its info dictionary, and a torrent that
  was cut off is refused rather than sliced past its end, provided that no string in front of
  the dictionary spells `4:info`; with one, other bytes are hashed, or a slice of a torrent cut
  inside it panics.  What `getFiles` shows as selected is what is downloaded, or the task
  does not run: 0 in `select-file` never selects another file, it fails or panics.
- `input_session`: tasks whose URIs are a line each are read back as they were saved, but for
  white space at the end of a URI, also after several
  rounds of saving and adding; of a session a crash has cut off all tasks but the last are
  intact; and a pass is run with all tasks or with none.  A URI of the command line that is an
  option, or several lines, when it is written comes back as something else
  (`cli.rs:123`); nothing is claimed of tasks with such a URI.

**Bounds.**  `MaxGid` and `MaxLog` stop new calls (a multicall that has begun is
made to its end) once that many tasks exist or notifications were sent.  Two
tasks are enough for what the properties tell apart: a first and a later one, one
being run and one waiting, one whose gid a call names and another; the calls let
a task fail or complete, be unpaused and end again differently.  The multicalls
of `MCRpcEngine` cover success, an error in the middle and nesting.  In
`MCRpcServer` two clients and the worker make queues of three, the longest there
can be: the worker waiting behind a client, a client behind the worker, and a
client that leaves between them.  Clients may send queries without limit, so that
fairness is not helped by the bound.  `MCEventStream` has a channel of two and
more events than it keeps, so receivers lag; the code's capacity of 256 only
moves the moment.  `MCResumeTransfer` has two files of three bytes, so that a resume
starts at its beginning, inside or at its end, and two attempts (`MaxAttempts`), the
second of which finds what the first left, on disk and on its way; crashes, errors and late
writes are unlimited.  `MCSplitDownload` has lengths up to seven and two to five parts: more parts than
bytes and fewer, and lengths that divide evenly and do not; the file changes without
limit.  `MCControlFile` has two callers, which is what
it takes to overlap, a short and a long version, so that what is left of one can show
behind the other, and an inode more than can be in use, so that none is ever missing.
`MCUploads` checks one upload per behaviour: Metalink documents of up to two files
(`MaxFiles`) that say two things (`MaxFacts`), so that a text can end up in the wrong field and in
the wrong file, and that end, or are refused, before the last file is closed; torrents whose dictionary has a value of each kind, a list or
dictionary in a list, strings that hold every special symbol, something before and after
it, cut off at every place.  `MCInputSession` has two tasks (`MaxTasks`), all input files of two
lines and some of four, URIs of a command line that do and do not survive being a line,
and magnet links of which the first or a later one does not parse.
Deadlock checking is
off where the system may come to rest: after Ctrl-C or shutdown, when the
engine is gone and all streams have ended, or when a split download or an upload has
ended.

**Fairness.**  `RpcServer`: weak fairness for each client's handler, for the
worker's own steps, for `Drained` and for `Cancel`: tokio polls every ready task,
and the HTTP server drains when no request and no answer is left.  `WorkerStep` as part of the
worker's steps says a transfer that has not stalled ends somehow; a stall makes
it impossible, and nothing makes a stall happen or go away.  Requests and the rest of them, the taking of answers,
disconnects, errors, shutdown and Ctrl-C have none.  Weak fairness of the
handlers and the worker is enough because the queue is first-in-first-out; a worker
that did not wait in line would starve, as the mutant `WorkerLock_tries` shows.  `EventStream`: weak
fairness for the points where a stream's task is woken up (the upgrade and its start, the
receiver, the socket), each of which ends in success or in an error: a client that
neither reads nor breaks its connection is not assumed away by the code, and this
is the one thing the liveness properties take for granted.

## What is proved

The theorems hold for every set of calls, every set of lengths, any number of
clients, attempts, writers and files; TLC's bounds play no part in them.

| Theorem | Says |
|---|---|
| `DownloadEngineProofs`: `RpcTypeCorrect`, `AnnouncedOnceAlways`, `OutcomeAlwaysAnnounced`, `HistoryAlwaysKept` | `RpcSpec` implies each property of the run `rpc_engine` |
| `DownloadEngineProofs`: `EngineTypeCorrect`, `SnapshotAlwaysExact`, `PassIsComplete`, `OutcomeAlwaysFromWaiting` | `EngineSpec` implies each property of the run `download_engine` |
| `DownloadEngineProofs`: `EngineKeepsRpcProperties` | the invariants of the engine alone hold under the pass |
| `RpcServerProofs`: `ServerTypeCorrect`, `EngineAlwaysHeldByOne` | `ServerSpec` implies the invariants of the run `rpc_server` |
| `RpcServerProofs`: `ServerImplementsEngine` | `ServerSpec => EngineSpec` |
| `RpcServerProofs`: `ServerKeepsEngineProperties` | so the invariants of engine and pass hold in the running server |
| `EventStreamProofs`: `TypeCorrect`, `NothingEverMissed`, `StreamsAreFeeds` | `Spec` implies the safety properties of the run `event_stream`, the refinement of `NotificationFeed` among them |
| `ResumeTransferProofs`: `TransferTypeCorrect`, `ControlAlwaysBacked`, `CompleteAlwaysHolds`, `FirstAttemptIsExact` | `TransferSpec` implies each property of the run `resume_transfer` |
| `SplitDownloadProofs`: `SplitTypeCorrect`, `PartsAlwaysJoin`, `NothingIsMissing` | `SplitSpec` implies each property of the run `split_download` |
| `ControlFileProofs`: `ControlTypeCorrect`, `TempNeverSeen`, `ControlFileIsARegister` | `ControlSpec` implies each property of the run `control_file`, the refinement of `AtomicFile` among them |
| `UploadProofs`: `MetalinkTypeCorrect`, `FilesAreReadAsWritten` | `MetalinkSpec` implies the properties of Metalink in the run `uploads` |
| `UploadProofs`: `TorrentTypeCorrect`, `InfoHashIsOfInfo`, `DownloadsWhatIsShown` | `TorrentSpec` implies the properties of torrents in the run `uploads` |
| `InputSessionProofs`: `SessionTypesHold`, `SessionReadsBack`, `CutSessionReads`, `PassHasAllTasks` | `SessionSpec` implies each property of the run `input_session` |

*RpcEngine* (in `DownloadEngineProofs`).  The three invariants together are inductive (`RpcInv`): gids
1 to `next_gid` without gaps from the type invariant make a new gid different
from all in `log`, so that announcing a task leaves every statement about older
ones alone.  The lemma `EnqueueKeeps` is about adding any number of tasks at
once, `StatusKeeps` about pause, unpause and remove, `OutcomeKeeps` about the two
outcomes; every action is one of the three.

*DownloadEngine.*  `NothingRunnableLeft` is not inductive.  `EngineInv` says
more: what is left of the snapshot equals what waits for the current stage
(`SnapshotExact`), and nothing waits for the stages before it
(`EarlierStagesEmpty`).  An outcome takes its task out of all of them at once
(`PendingAfterOutcome`).

*RpcServer.*  `ServerInv` is `EngineHeldByOne` with the types it needs.
The first part is about queues without repetitions: what appending, taking the
head and removing an entry in the middle do to their elements.  `HolderAlone` then
gives each action what it needs: a client at the head of the queue means no pass
is under way, the worker there means no multicall is.

*EventStream.*  `StreamInv` says of every client that `next` is one more
than what it was subscribed with, received and has in hand (`Position`); from this, each event
written is the one the abstract feed has to deliver next.  That the subscription is no
later than the client's sight of the 101 (`Subscribed`) gives `NothingEverMissed`.

*ResumeTransfer.*  `TransferInv` follows an attempt: it resumes from what the
control file tells until that is removed (`Resuming`), so that the file is only
written anew when nothing is vouched for; what it receives continues that
(`Received`); what it stored or verified begins as the remote file does (`Stored`,
`Verified`), which appends do not change (`AppendBegins`).  For the first attempt,
file and pending append make up the remote file (`FirstStores`), and a byte that lands
moves from one to the other (`MoveByte`).

*SplitDownload.*  Parts that were answered with their ranges rise, and the next one
starts behind them, whatever the file has become (`Ordered`).  Unless it was rewritten,
they end where the next part starts, or at the length of the probe; or the file was cut
and the next part will be refused (`Progress`).  Nothing has to be known about the size of the parts except that it is
a natural number: the last part is open and the loop breaks at the end.

*ControlFile.*  As long as writes have not overlapped there is one writer
(`Alone`), and the temporary file is its own and holds what it has written so far
(`Begun`); this is what makes a rename put a whole version in place (`WholeParses`,
`PutNext`).  It is not needed for `TempUnseen`, which holds through overlaps because a
rename takes the temporary name away with the file.  For the refinement, each step that
writes is invisible (`Unnoticed`), each `Rename` is `Replace`, and any step of overlapping
writers is one of `Mixed` (`MixedStep`).

*Metalink* (in `UploadProofs`).  `ReadAsWritten` speaks of closed files only.  `MetalinkInv` adds that the
parser is in a file when the document is (`SameFile`), awaits a text exactly until the
first one of the open element has come (`Awaits`), and that the file it is building is what the
document has said so far, unless something in it is odd (`AsSaid`).

*Torrent* (in `UploadProofs`).  The code knows no tree: it counts its way through the bytes.  If the first
`4:info` is the key (`key_start = torrent.key`), the search is always at a place `At` which the
tree knows, where another value starts or the `e` of the list or dictionary around it stands, and `depth`,
the calls that are under way, is the depth of that place in the tree (`InInfo`).  From there each
kind of value leads to the next such place (`ScanInside`): an integer because the first `e` from where it
starts is its own (`IntegerEnds`), a string because its length says so, an `e` because what
it closes is a value of the list or dictionary one level up (`AtCases`).  So the search leaves depth 0
only behind `last`; and if it cannot go on, bytes of the dictionary are missing
(`FailsOutside`).  All of this is said of a front of the torrent (`Arrived`), as far as
it goes.  For the files, `selected_files` is
the union of the ranges of the option (`Selected`), and `FileId` gives different numbers to different
files and turns 0 into one no torrent has (`HandedOn`).

*InputSession.*  That a session reads back is a fact about two recursive functions.  The
library's induction theorems cannot be used here; instead `SetInduction` shows that a set with 0 and
the successors of its members has all natural numbers, from the library's
`NatLessThanWellFounded`, `RecursionExists` that the function `Parser` is made of exists, and the lemmas are
inductions over sets of lengths: what a text reads as is what its first lines read as and then the last
line (`ParserAppend`); what was read stays (`ParserOn`); a session reads as its tasks but for the
last, which is the current one (`ReadSession`), hence as its tasks (`SessionReads`); a front of it
as its first tasks, also with half a line after it (`CutReads`, `CutFront`).  Tasks whose URIs
have white space at the end are written as these URIs without it are, which do read back
(`AsReadKept`).  `SessionInv`
ties the file to this: `stored` is a front of the session of `saved` (`Prefix`), or one with the beginning of
the next line at its end (`Cut`), and all of it if `whole`.  The tasks of the engine are those of the input
so far, each with the options it was given (`SessionHanded`); that the command line's split comes first
and so decides only for tasks without one is `ChosenBehind`.

Assumptions: the named `ASSUME`s on the constants (calls are of the methods'
shapes, lengths are natural numbers, the worker is not a client, the channel keeps
at least one event, the remote file has at least one byte, a split is into two parts
or more, names and texts differ from the values that stand for none, torrents are
well-formed and have no more files than a `usize` can count, `select-file` holds numbers of that type,
input files are sequences of lines, what a line reads as is a URI that reads as itself), which TLC evaluates in the runs of the module they are in.
That a bencoded torrent has such a tree is bencode's grammar; uploads that are not the front of a
bencoded torrent are outside the model.

*Only model-checked*: the five liveness properties, `RequestAnswered`, `WaitingTaskTaken`,
`ShutdownCompletes`, `EveryEventDelivered` and `StreamsEnd`; their proofs need fairness and
ENABLED, which are out of the prover's reach.  Every other property of a passing run is a theorem.

## Where code and documentation disagree

- `rpc_notified` (`MCRpcEngineNotified.cfg`, `StatusChangesAreNotified`): the
  README promises `onDownloadPause` and `onDownloadStop`; `set_status`
  (`rpc.rs:653`) changes the status to `paused` or `removed` and emits nothing.  In the trace a
  torrent is added and removed.
- `rpc_server_loop` (`MCRpcServerLoop.cfg`, `BackgroundLoopGoesOn`):
  `docs/raria-goal/progress.md` line 85 has the binary drive "a background
  download loop for RPC-created tasks"; the `?` in that loop (`runtime.rs:76`) ends
  it at the first transfer that fails, while the server goes on taking tasks.
- `metalink_pieces` (`MCMetalinkPieces.cfg`, `ChecksumIsTheFiles`):
  `docs/raria-goal/progress.md` line 69 has the parser extract "SHA-256 whole-file hashes";
  `metalink.rs:82` takes every hash in a file element for one, the hashes of its pieces too, which
  have no type of their own and so count as SHA-256 (`metalink.rs:45`).

## Plan

Done: RpcEngine, DownloadEngine, RpcServer, NotificationFeed, EventStream,
ResumeTransfer, SplitDownload, AtomicFile, ControlFile, Metalink, Torrent and
InputSession, with their runs, and proofs of all their safety properties and refinements.  Left:

1. *ResumeTransfer* inside *DownloadEngine*: the refinement of `Finish`, `Mismatch` and
   `AbortPass`, with the output paths of all tasks.
2. Magnet URIs: which of their parts become a task's name and info hash.

## Not modelled

- *Protocol clients* (connections, authentication, headers, cookies, netrc, proxies,
  throttling) are I/O through libraries; what they return is an answer or an error in
  `ResumeTransfer`, an outcome in `DownloadEngine`.
- *RPC*: JSON shapes, the token parameter, and what queries answer beyond the status, the
  error and the length are not part of any property.  A URI no stage serves (`ed2k:`,
  which `docs/raria-goal/goal.md` line 14 wants refused) is taken by `add_uri`
  (`rpc.rs:514`) and waits for ever; the model says so by the definition of `Pending`.
- *Control files*: power loss (nothing is synced to disk, so a rename may survive the
  content it names); two control files whose temporary names coincide (`x` and
  `x.raria`); a cancelled caller whose blocking operation goes on in tokio's pool.  The
  program itself only reads and removes control files; the writers are other users of the library.
- *Metalink*: empty-element tags, which the parser has no case for; which resource
  `add_metalink` takes (the first) and the size, which it ignores.
- *Torrents*: magnet URIs are split by the url crate; the fields bendy decodes are
  present or absent.
- *Foreground command*: clap's parsing and the configuration text, which becomes its
  arguments; with `--enable-rpc` input file and session are ignored.  A session does not hold
  the command line's options, and it is saved before anything is downloaded, so it holds the tasks
  that complete, too; `dir` in an input file is read and not used.
- `RariaRuntime` keeps no state and nothing uses it; configuration and error types have
  no behaviour.
