# Mangayomi: a verification of its downloads, extension engine and sync client

Mangayomi is a Flutter application that reads manga, novels and anime from
third-party sources. Most of it is user interface and adapters for sources.
This directory models in TLA+ the parts whose correctness is hard to see from
the code:

- the **downloads**, which queue, run in isolates, fail, are cancelled, are killed
  with the app and are started again;
- the **extension engine** in Rust, which runs sources that are WebAssembly
  modules: the objects it keeps for them, the documents they query and change,
  the format values cross in, their threads and their settings;
- the **sync client**, which exchanges the library with a server while the user
  and other devices change it.

TLC checks each on small instances; TLAPS proves the safety properties of the
downloads, of the engine's objects, threads and settings, and of the sync client
for every value of the constants.

Line numbers refer to files under `src/`. Paths below leave out `src/lib/`, and
for the engine `src/rust/src/aidoku_wasm/`.

## 1. Inventory

### What runs where

Everything that decides about downloads and syncs runs on the main isolate: one
event loop, where a piece of code runs to its next `await` without interruption,
the continuations of finished futures run as microtasks before the next event,
and events are taps, timers, port messages and the ends of I/O. Six worker
isolates fetch and write files. They share nothing with the main isolate; they
exchange messages over ports, which keep the order per port. The database (Isar)
is read synchronously by anyone and written through one queue (`dbWriteQueue`),
which an asynchronous transaction may hold across events. Slots, claims and tasks
live in memory only; queue records and files survive a kill of the app.

Each extension has a thread of its own in Rust, which takes the app's calls from a
channel one after the other. During a call the extension calls imports of the
host; those of the `js` namespace go back to the Dart side, which keeps JavaScript
runtimes and web views. The settings of all extensions are one map behind a lock.

### Components

| component | code | state | operations | how it meets the others |
|---|---|---|---|---|
| Download gate | `services/download_manager/download_gate.dart`, `download_queue_order.dart` | waiters, active count, busy sources, limit, saved order, start delays | acquire, release, dispatch, reorder | called by every attempt before and after its work |
| Worker pool | `download_isolate_pool.dart`, `m_downloader.dart`, `download_retry.dart` | task queue, free workers, running tasks, cancellation flags, six isolates, ports | start, submit, cancel, forward a message, hear of an exit, respawn | gets tasks from the downloaders, answers each once |
| Chapter download | `modules/manga/download/providers/download_provider.dart`, `repositories/download_repository.dart`, `repositories/db_write_queue.dart`, `utils/extensions/chapter_extensions.dart` | queue records, claimed ids, the progress chain of each attempt | request, process the queue, cancel, each stage of an attempt, progress, failure, clean-up | drives the gate and the pool, writes the records the queue screen shows |
| Files of a chapter | the listing and conversion in `download_provider.dart`, `convert_to_cbz.dart`, `utils/downloaded_page_file.dart`, `_downloadFile` of the pool | page files, the `.mp4`, the `.cbz` | list what is missing, fetch a batch, pack, delete | what an attempt leaves is what the next one starts from |
| HLS download | `m3u8/m3u8_downloader.dart`, `processM3u8Download` of the pool | segments, `.part` files, the merged file | fetch, verify, decrypt, rename, retry, merge, clean up | runs inside one pool task, merges in an isolate of its own |
| Extension host objects | `store.rs`, `host_std.rs`, `host_net.rs`, `host_canvas.rs`, `host_js.rs`, `interpreter.rs`, `eval/aidoku/src/interpreter/js_manager.dart`, `rust_runner.dart` | stored values by descriptor, the next descriptor, runtimes and web views by descriptor | every import that makes, uses or destroys an object; begin and end of each export; dispose | extensions hold the numbers; results carry them to the app |
| HTML and selectors | `host_html.rs`, `selector.rs` | a tree of nodes, handles to them | parse, select, navigate, read, change | imports of an extension during a call |
| Wire format | `postcard.rs`, `models.rs` | none | read and write each value | arguments and replies of every call |
| Extension threads and settings | `src/rust/src/api/aidoku_wasm.rs`, `host_defaults.rs`, `memory.rs`, `eval/aidoku/src/store/settings_store.dart`, `eval/aidoku/service.dart`, `services/extension_preferences_service.dart` | a channel, a running call and a thread per extension; the shared map of settings | create, call, reply, panic, release; get, set, restore, save | between the app and everything above |
| Sync client | `services/sync_server.dart`, `services/sync/*`, `repositories/changed_part_repository.dart`, `providers/sync_*`, the guard and upload of `restore.dart` | rows with their times, outbox of deletions, `since`, the running syncs, the restore guard | edit, delete, start, collect, post, apply a page, clear, restore | writes the library while the user does |
| Download ahead, delete after reading | `next_downloads.dart`, `delete_after_reading.dart` | none (pure selections) | select chapters | adds to the queue |
| Library update | `services/library_updater.dart`, `services/fetch_gate.dart` | a running update, its cancel, time stamps | start, step, cancel | fetches chapters, may start downloads |
| Chapter consolidation | `repositories/chapter_consolidation.dart` | chapters that became duplicates | plan, merge | must not touch what is in use |
| Isolate service | `services/isolate_service.dart` | one worker for source calls, pending calls | start, call with time-out, stop | used by every source call |
| Caches, backup, trackers, network, other runtimes, generated bridge, widgets | see `PROJECT.json` | | | not modelled, section 8 |

### What is hard in it, and what must hold

- **Slots.** Five ways out of an attempt release a slot, and the limit, the
  saved order and the source of a chapter change while attempts wait. No slot
  may leak or be forged, a source must stay serial (it bans clients that are
  not), a free slot must not be left to idle, and the order must be the user's.
- **Answers.** A cancel, an answer, an exit and a respawn of one worker can
  come in any order. Each submission must be answered once, with the truth, and
  even when no worker is left. A panic takes an extension's thread with all calls
  that wait in its channel, and each must still be answered.
- **Records.** Progress is written behind a queue, from a copy read earlier,
  while the user cancels and requests again. What was cancelled must not come
  back, what is complete must stay so.
- **Files.** A kill can hit between opening a file and closing it, between
  archive and deletion, between decryption and rename. What looks complete must
  be complete.
- **Numbers.** Descriptors start again at 1 when the store is empty, the host
  frees its own behind the extension's back, and a Dart runtime is known by the
  number alone. A number in use must not come to name something else.
- **Documents.** Positions among siblings are counted in four ways and chains of
  selectors are evaluated over overlapping sets; reads go by other names than
  writes.
- **Replies.** Values cross untagged. A reply cut short at any byte must be told
  from a whole one, and two different arguments must not look alike.
- **Sync.** Rows and deletions are collected once, sent in several requests, and
  pages come back to a library that was edited in between. Nothing may be passed
  over by `since`, and no old version may win.
- **Endings.** Retries, time-outs and failures of one part must not keep an
  attempt, and with it its source, from ending.

`PROJECT.json` lists every such hazard at its line with the properties that
cover it, or the reason why none does.

## 2. Modules

| module | role |
|---|---|
| `DownloadSlots` | abstract: who wants a slot, who has one, at most `limit` new ones, one per source |
| `DownloadGate` | the gate of the code; implements `DownloadSlots` |
| `DownloadGateProofs` | the proofs about the gate |
| `DownloadTasks` | abstract: a submission is answered once, an error if cancelled in time |
| `DownloadPool`, `DownloadPoolProofs` | the pool of the code; implements `DownloadTasks`; the proofs about it |
| `ChapterDownload`, `ChapterDownloadProofs` | attempts and records; EXTENDS `DownloadGate`, INSTANCEs `DownloadTasks`; the proofs, on top of those about the gate |
| `ChapterFiles`, `ChapterFilesProofs` | files of one chapter over many attempts, and the proofs about them |
| `SegmentDownload`, `SegmentDownloadProofs` | HLS episodes over many attempts, and the proofs about them |
| `HostImports`, `HostImportsProofs` | the objects of one extension under every import and export, and the proofs about them |
| `HtmlNodes`, `Selector`, `HtmlTree` | trees of nodes; the selector engine over them; the imports of the `html` namespace |
| `ExtensionThreads`, `ExtensionThreadsProofs` | threads, calls and settings of the extensions, for any format; the proofs about them |
| `Wire`, `WireModels`, `Engine` | the binary format; the values that cross in it; `ExtensionThreads` with that format |
| `SyncClient`, `SyncClientProofs` | one device, its server, its user, another device, and restores; the proofs about them |
| `MC*` | instances for TLC (`HostImports` needs none beyond its cfg) |

`ChapterDownload` composes the detailed gate with the *promise* of the pool, not
with the pool: `DownloadPool` is shown to keep that promise, so the attempts can
rely on it and the product of the two state spaces is never built. `ChapterFiles`
and `SegmentDownload` look at one chapter at a time, which is sound because
`ChapterDownload!HeldByAttempts` shows that a chapter never has two attempts.
`ExtensionThreads` takes from its constants what a call is passed, how a reply is
answered and what a setting decodes to, so that it can be proved about; `Engine`
gives them the format of `WireModels`, and its run checks both. What an extension
does with objects and documents during a call is the matter of `HostImports` and
`HtmlTree`, which share no state with it nor with each other: a thread runs one
call at a time, and the store is its own.

A definition commented as a mutant of X is X with a plausible bug. Mutants are in
no next-state relation; each shows that one property notices that bug.

### DownloadGate and the code

`place` is the list `_waiters` as a bijection from the waiting ids to 0..n-1, so
that an insertion and a stable sort are arithmetic on a function rather than
recursion on a list. `source`, `active`, `activeSources` and `maxConcurrent` are
the fields of the class; `starting` holds the ids whose start delay runs,
`holding` those whose `acquire` has returned. `Acquire`, `Release` and the
`_dispatch` both end with are synchronous in Dart, hence one action each;
`StartTimer` is the delay; `SetOrder` is a drag in the queue screen. `Dispatch`
is a closed form of the scan loop. `MCDownloadGate` also defines the loop as the
code writes it (`Scan`, recursive, which is why it is in the MC module), and
`DispatchIsTheLoop` checks that the two agree in every step.

### DownloadPool and the code

`current[w]` stands for both `_cancelCurrent` of a worker and its entry in
`_runningTasks`; `replies` and `inbox` are the ports (isolate to task port, task
port to caller); `obituary` is the exit listener; `strays` are files of a failed
batch still being written, because `_processFileDownload` waits with
`eagerError: true`. `CancelTask` is the whole of `cancelTask` and is also called
by the `finally` of the downloaders (`CallerReturns`). `ProcessQueue` picks the
free workers arbitrarily where the code takes the first of a list: the pool
does not depend on which. Progress messages are kept to one in flight.

### ChapterDownload and the code

`phase` is where the attempt stands between two awaits; each action is one
stretch of `downloadChapter` from an await to the next. `Drained` makes events
wait until no microtask is ready, which is the run-to-completion rule of the
event loop and what rules out interleavings Dart cannot produce. `dbQueue` is
`dbWriteQueue`; `writes` is the chain `progressWrites`, where "broken" is a
chain that has thrown. `others` are asynchronous transactions of other parts of
the app that hold the write queue. `Restart` forgets all but the records.
An attempt whose chain is through is "scanning" until `ScanEnds`: the cover, the empty
directory and the scan of the library are awaited there, so other events come in between.
Fetched contents, file names, languages and toasts are left out; a source that
resolves, fails or times out is a nondeterministic choice.

### ChapterFiles and the code

A file is absent, torn (opened, which truncates it, and not closed) or whole.
`List` deletes the leftover of an episode (download_provider.dart:405-423; the
deletion may fail quietly) and keeps page files. The text of a novel is fetched
and written by the main isolate itself, so a cancel does not stop it
(`NovelFetched`, `NovelWritten`, `NovelFails`). `packs` counts the runs of
`processConvert` still due in the attempt: two when nothing was left to fetch
(line 503, then `setProgress`), one otherwise. `saveAsCBZ` is the setting, which
the user may switch at any time and which is read at lines 202 and 429.
`repacked` is history: the whole archive of the chapter was written over by a later one,
which the code does both after a request for a packed chapter and in the second of two runs.
`DeletePage` and `DeleteEnds` are one recursive `deleteSync`, which a kill or a
file in use can stop between two files.

### SegmentDownload and the code

`final`, `part` and `output` are the contents on disk: absent, torn, cipher, clear, or
part of a body whose stream ended early, with its length announced ("cut") or not
("short"). `_downloadSegment` compares the length only where it was announced, so a cut
body throws and a short one passes; that it fails to decrypt is likely, not certain. Each
worker of `processM3u8Download` goes through request, stream, verify, decrypt and rename;
the steps between two awaits are one action. `Throws` is the catch of `_downloadSegment`
with what `_withRetry` does next. `GetKey` includes an answer other than 200 to the
request for the key, which the code passes over. `Kill` is a cancel (the pool kills the
isolate), `Crash` a kill of the app. Playlists are abstracted to their number of segments
and one key.

### HostImports and the code

`store` is `GlobalStore` (store.rs): a map from descriptors to values, of which the
kind is kept and what later imports ask of it (whether bytes are an image, whether
a request has a url and a response). `Stored`, `Replaced` and `Removed` are its
three operations, the last with the restart of the numbers. `held` are the
descriptors the extension was given and has not destroyed, `args` those the host
made for the call that runs, `given` those that went to the app in a result (the
image requests and page images of interpreter.rs). Each import of `host_std.rs`,
`host_net.rs`, `host_canvas.rs` and `host_js.rs` is one action with its refusals in
the order of the code, and its error codes are in `ret`; imports that touch no
object (`StdQuiet`, `EnvQuiet`, `CanvasStub`) are one action each. An export is two
actions: `Begin` stores its arguments; `EndCall`, `EndPageList` and `EndImageRequest`
are every way it may end (a trap, a missing export, an error code, a result), with
the arguments freed by hand as `interpreter.rs` does. `contexts` and `webviews` are
the maps of js_manager.dart, keyed by the number. `Dispose` is the Dart side of a
disposal, which does not wait for a call in progress, `HostDispose` that of the host.

An extension passes only numbers it was given. Of the `html` namespace only the
document that `net.html` makes is here; its node handles are stored and destroyed like
other objects and own nothing of the Dart side. Pixels, headers and bodies are abstracted.

### HtmlNodes, Selector, HtmlTree and the code

The arena of `scraper` is three sequences: value, parent, children. `HtmlTree` has
one handle in hand, as each import works on one and gives at most one; `Go` is the
set of handles navigation can give, one import per operator (`Children`, `Parent`,
`SiblingsOf`, `Next1`, `Previous`, `SelectAll`, `Get`, ...), and `Change` has one
action per import that changes the tree. Reads (`Attr`, `Text`, `Html`, `ClassName`,
...) are operators, evaluated by the properties. Attribute names carry their
namespace, because `set_attr` writes another one than the parser does
(`Qualname`); text is words and white space. `scraper` looks up the id and the classes of
an element once and answers the same ever after, whatever is written to the attributes: `once`
keeps what was found, `ReadId`, `ReadClasses` and the queries (`Selecting`) are the reads that
fill it, and changes leave it alone as the host does. A query fills it for the
elements its evaluation looks at by id or class. `Selector` starts from tokens: it has
the grouping, compounds, pseudo-classes, the four ways to count siblings and the
evaluation of chains as the code orders them; the scanning of characters is out.

### ExtensionThreads, Wire, WireModels, Engine and the code

`Read(shape, data, at)` gives a value and the next place, an error, or a panic, as
`postcard.rs` does for each type, on bytes scaled down: `DataBits` bits of a number
to a byte, `IntBits` and `WordBits` for the widths. The overflow of
`pos + len` in the string reader (postcard.rs:41) is kept. `WireModels` has each
`decode` and `encode` of models.rs, reader and writer apart, each from its own
function, in its own order of fields, and the copies of `api/aidoku_wasm.rs`.

In `ExtensionThreads`, `jobs` is the channel of an extension, `current` the call its thread
runs, `thread` the stage of the thread: a panic in an import or a reader starts the
unwinding (`ImportPanics`, `Deliver`), which drops the channel and with it the waiting calls
(`Unwound`), after which calls are answered at once. `heard` is the last answer.
`SetOwn` and `SetPlain` are the two locked writes of `defaults.set`; `Restore`,
`SavePreference` and `Land` are the writes of the app, which nobody awaits. `Engine`
has what the constants of `ExtensionThreads` stand for: the arguments of each call
(`Arguments`), what it may end with (`RepliesOf`), what the host makes of it
(`Answer`), and the values settings decode to (`FromData`, `FromText`, `Encoded`).

### SyncClient and the code

A row is a row of an entity under its clientId, with a version and `updatedAt`;
`Entity` gives its kind, `Parent` the manga a chapter, track or update belongs to.
`Collect` is the version check with ChangedRows.collect or collectAll (`AllRows`, which
stamps every row but the categories), `Handle` the server,
`Receive` one answer with SyncEntityApplier.apply and the end of the loop, `Clear`
is clearUploaded, `Fails` is any exception, refusal or lost answer, at any point.
The library is written in two ways that sync sees and in two that it does not. `Edit` stamps
the time, `EditUnstamped` (mergeGroup, `CategoryRepository.remove` and `setHidden`) leaves it.
`Delete` is `wipeManga` and the deletion of a row, which record what goes but for the
tracks of the manga; `DeleteSilently` is deleteLibrarySourceGroup and mergeGroup with the
duplicates it folds away, which record nothing. A row left behind without its manga
counts as gone: it is never sent, and its manga cannot come back under the local id.
The server is outside the repository. It is modelled as the client uses it: newest
write wins, a deleted row stays deleted, the deletion of an unknown row is ignored,
pages come in any order that has a manga before what belongs to it, and `syncedAt`
is the time of the first request.

`missed` names the changes no sync is bound to send: edits made between the collection and
the server's first answer (`since` moves past them), edits a download passes over, edits
that leave the time, deletions made with sync off or not recorded, deletions cleared
unsent. `latest`, `deleted` and `restored` are history. The backup is made at the start; a
full restore clears the outbox
(`modules/more/data_and_storage/providers/restore_invalidation.dart:18`). The clocks of
the devices and the server agree. Left out: login, natural keys and the remaps of ids, the
blob of settings, merging restores; histories, which hang on a chapter and its manga; and
that mergeGroup gives chapters and tracks another manga (`Parent` is constant).

## 3. Runs

| run | instance | distinct states | question |
|---|---|---|---|
| `gate` | 4 chapters, 2 sources (one chapter may change source), 4 saved orders, limits 0, 1, 2, with fairness | 2 thousand | order, no lost wake-up, service, refinement of `DownloadSlots` |
| `pool` | 1 file and 1 HLS task, 2 workers, 2 failed spawns, 1 exit, with fairness | 144 thousand | workers and submissions accounted for, no stale answer, cancels settle, all are answered, refinement of `DownloadTasks` |
| `chapter` | 2 chapters of one source, pages, HLS or novel, limit 2, 1 foreign transaction, 1 restart, with fairness | 250 thousand | slots, claims and tasks against attempts and records; complete stays complete; endings |
| `files` | 3 pages in batches of 2, an episode or a novel, 1 crash, setting switched at will | 1.3 million | complete means all there; pages go only once archived |
| `segments` | 2 encrypted segments, bodies that end early, 2 workers, 2 tries (3 if told to slow down), 1 kill of the app, 1 refused key, with fairness | 115 thousand | what is reused or merged is decrypted and whole, but for a refused key and lengths not announced; nothing fetched is lost, every attempt ends |
| `segments_key` | 2 segments, 1 refused key | violation | the finding of section 7 |
| `host` | every import and export, 3 descriptors before the store is empty again | 69 thousand | handles stay live and keep their kind, arguments are freed, Dart runtimes have an owner |
| `html` | one page with text, white space and a comment between elements, 2 steps that change it or are the first to read ids or classes, 5 queries | 58 thousand | changes read back, neighbours agree, queries select what they mean |
| `engine` | 2 extensions, every call with whole and cut replies, 2 calls, 2 writes of settings, with fairness | 119 thousand | no call lost, all answered and in order, replies decode to what was sent, arguments differ, settings read back |
| `sync` | 1 manga and its chapter, 2 changes, all three modes one at a time, sync switched at will | 5.3 million | `since` stands for what was pulled, the newest version survives |
| `sync_chunks` | 2 manga and 1 row of an entity to a request, 2 changes, ordinary syncs and uploads one at a time | 6.0 million | `since` stands for what was sent |
| `sync_restore` | 1 manga, 2 syncs that may overlap, 2 changes, symmetric | 2.5 million | an uploaded restore is on the server |

Why these bounds. In the gate, four chapters give two waiters of a busy source
with a third of an idle one behind them, which is the least that tells skipping
from stopping; limit 0 is a stored value the code clamps, 2 lets two sources
run; the saved orders include unranked ids and reversed pairs. In the pool a
cancelled worker may be handed to the other task, each kind of task meets its own
way of failing, and two failed spawns lose both workers. Two chapters of one source
meet each way of waiting; the number of unwritten database operations the user may
run ahead of is bounded by `MaxPending`, attempts themselves are not bounded. Three
pages in batches of two give a failure with a stray and a file not yet taken; more
attempts than one crash allows come from failures and cancels, which are
unbounded. Two segments make two workers overlap; the proofs hold for any number of segments.

Three descriptors are an object the extension keeps, an argument and one more: the least
for a number to be reused beside a live one; calls are unbounded. The page has each kind
of node beside each other, and two steps are two changes of which one may undo or build on
the other, or a change with a first read before or after it, by an import or by a query;
what is read back after a change is evaluated in the property. In the engine a byte
carries 2 bits, an i32 has 5 and a word 7, so a number takes one to four bytes and
overflow, sign and truncation occur with texts of two letters; two calls put one behind
another in the channel; calls with many replies are made alone (`Alone`). In `sync` a page
may hold one of the two rows, so that manga and chapter come together or apart; the
chapter may lack its manga. Only rows of one kind share the limit of a request, so two
chunks take two rows of one kind: `sync_chunks` has two manga, and a sync that sends both
makes two requests, with edits, deletions and failures at and between them. In both, two
changes are an edit or deletion on each side, before, during or after a sync; a changed
row that crosses takes a tick as well. Overlap needs two slots, and is left to
`sync_restore`, where the guard is what must prevent it.

Bounds: `MaxFaults`, `MaxDeaths` (pool), `MaxPending`, `MaxOthers`, `MaxRestarts`
(chapter), `MaxCrashes` (files, segments), `MaxTries`, `LimitedTries`,
`MaxRefusals` (segments), `MaxDesc` (host), `MaxSteps` (html), `MaxCalls`, `MaxWrites`,
`MaxActs` (engine), `MaxClock`, `Slots` (sync). All but the tries, which are
constants of the code, bound what the environment does and appear only in guards.
`CHECK_DEADLOCK FALSE` is set where the system may stop: a disposed source (`host`),
the calls used up (`engine`), the changes used up with sync off (`sync*`).

## 4. Properties worth a second look

- `WorkConserving`: while a slot is free, whoever waits waits for its own source. Nothing
  but acquire and release ever dispatches, so one path without a dispatch would strand the
  queue until the next tap.
- `GrantsInQueueOrder`: a grant overtakes nobody who could have been granted, by the order
  in force at that moment, saved or arrival.
- `AnsweredOnce`: each listening submission is queued, held by one worker or answered, and
  exactly one of these, and no isolate writes segments of an episode that is not with it;
  it relates queue, workers and ports.
- `DoneMeansDone`: "complete" is never the late answer to an earlier submission under the
  same id. It holds because the task port closes on termination.
- `HeldByAttempts`: slots, claims and pool tasks belong to live attempts, over every early
  return, failure, cancel and restart.
- `CancelledWaiterStops`, `LateWriteRecreatesNothing`: a cancel stops an attempt that
  waits, and no late write re-creates a record. Both are claimed as long as no foreign
  transaction has held the write queue; see the observations in section 7.
- `CompleteHasAllPages`: with the setting switched at will, each page is in the directory
  or in the whole archive, as long as no whole archive was written over by a later one
  (`repacked`); that loses pages, see the observations.
- `DeletedOnceArchived`: a page file goes only when it is in the archive and the archive
  is whole, with the same exception, or by the user's delete.
- `ReusedAreWhole`, `OutputIsWhole`: decrypted as long as the key was never refused, and
  whole unless the body ended early and its length was not announced. Both exceptions are
  real: for the first see the finding, for the second the observations. That an episode
  that is there has all its segments holds with no exception.
- `HeldAreLive`, `KeepsItsKind`: no descriptor in use is taken over by another object,
  although numbers start again and three parties free them.
- `ContextsAreOwned`: relates the maps of the Dart side to the store of the host, over
  every destroy, reuse and end of a call.
- `NeighboursAgree`: next, previous, `siblings`, `:first-child`, `:nth-child` and `:eq`
  count the same neighbours, past text and comments.
- `SelectFindsAll`: what the evaluation of a chain from the left gives is what the chain
  means read from the right, each node once. Queries with `+` are left out, see section 7.
- `ChangesReadBack`: what each import of a change promises of the reads after it; for
  classes and ids as long as nobody read them of this element before.
- `ReplyIsWhatWasSent`: the samples are written down apart from the encoders, whole and
  cut at each byte: a cut reply is an error, never a shorter value.
- `CallsInTurn`: relates the calls of the app, the channel and the thread. A call is in
  one place until it is answered, whatever panics, and nowhere after (`CallsAccounted`),
  and those of one extension are answered in order, also when a panic drops the calls that
  wait while later ones are answered at once because the thread is gone
  (`AnswersInOrder`).
- `SettingsReadBack`: an extension reads what was last set for it, while the writes of
  others and of the app land in between.
- `PulledUpToSince`, `SentUpToSince`: the two halves of what the stamp `since` promises,
  across failures at each request, chunks, pages and retries. They name their exceptions,
  and `missed` names those the code makes: what is not in it must be on the server, and
  with the value it has here.
- `NewestSurvives`: no order of edits, uploads and pulls loses the newest version.
- `RestoreReachesServer`: relates guard, timer and upload; without the guard a timer sync
  brings the old rows back between the restore and its upload. Categories are left out,
  because the upload does not stamp them, and so the server's may win.

## 5. Fairness

- *Gate*: start timers fire; a holder releases. The second is what
  `ChapterDownload!AttemptEnds` establishes. Nothing makes the user request a
  download or drag it. `EveryWaiterServed` supposes that from some time on there
  is no saved order: a user who keeps moving chapters up starves others.
- *Pool*: port messages are delivered, spawns end (they time out after 30 s), a
  worker ends what it took up, because each request has a time-out and each file
  and segment a bounded number of tries. Cancels, progress, exits and failed
  spawns are not fair. `EverySubmissionAnswered` supposes that no isolate exits
  by itself (an idle one that does stays in the pool, and the task it is given
  hangs until it is cancelled) and that a worker is left; `CancelSettles`
  supposes neither.
- *Chapter*: microtasks and queued writes run (weak fairness). Events are
  strongly fair, since a burst of microtasks may disable an event again and
  again and the event loop still serves each in its turn. That an event comes at
  all rests on the time-outs of the code (45 s to resolve a source, 30 s for a
  request or a stream of the pool); the plain `http.get` of a novel and the calls
  into the platform have none and are assumed to return.
- *Segments*: a worker's step, the answer and the merge are weakly fair: streams
  and requests time out after 30 seconds.
- *Engine*: a thread takes up the calls sent to it and unwinds to its end,
  `defaults.set` makes both its writes, and a call ends one way or the other. The
  last is what the extension owes: nothing in the code bounds its running time, and
  an extension that loops blocks its own calls for ever. Writes of the app are not
  fair, and need not be.

The other modules state no fairness and no liveness. That the device and the server
agree in the end is not stated for the sync client (section 9).

## 6. Proofs

TLAPS checks the following for every value of the constants.

`DownloadGateProofs`, from `GateAssumption` (finitely many ids, limits are
natural numbers, orders are sequences of ids, one of them empty):

| theorem | property |
|---|---|
| `TypeCorrect` | `GateTypeOK` |
| `SlotCounting` | `SlotsMatchHolders`: `active` is the number of ids granted |
| `SerialPerSource` | `SourceSerial` |
| `NoLostWakeUp` | `WorkConserving` |
| `LimitRespected` | `GrantsUnderLimit` |
| `GrantsFollowTheOrder` | `GrantsInQueueOrder` |
| `GateImplementsSlots` | `ImplementsSlots`: refinement of `DownloadSlots` |

The invariant is `GateInv`, the conjunction of the type invariant and four state
properties, of which the run checks `WorkConserving`; a counter that is wrong also shows there as
`ImplementsSlots` broken. None is inductive alone. `SourceSerial` needs `QueueAndSlotsApart` to
know that a waiter holds nothing yet; `WorkConserving` after a release needs
`SourceSerial` to know that freeing the source freed it, and `SlotsMatchHolders`
to know that the freed slot is one the dispatch sees. The argument goes through
`Dispatch`, once for both callers: the eligible waiters are one per idle source;
numbering them by the line, the dispatch grants the first `max - act`, so either
all were granted or all slots are taken. That "the first n of a finite set of
distinct numbers" has n elements is what the lemmas at the top of the module
establish, by finite-set facts and without induction over data. For the order of the
grants, no two waiters have the same sort key (`SortKeysDiffer`), those granted
stand first in the line among the eligible (`GrantedStandsBefore`), and what
stands before in the reordered line precedes in the order in force
(`ReorderedPrecedes`).

`SegmentDownloadProofs`, from `SegmentAssumption` (positive length, finitely many
workers, positive tries):

| theorem | property |
|---|---|
| `TypeCorrect` | `TypeOK`, which bounds the tries |
| `AnswerAfterWriters` | `SettledBeforeAnswer` |
| `PartsNotShared` | `OneWriterPerPart` |
| `WholeSegments` | `ReusedAreWhole` |
| `WholeEpisode` | `OutputIsWhole` |
| `FetchedStays` | `SegmentsAreKept` |

The invariant `SegmentInv` adds to the checked properties that what a worker
holds was taken off the queue and is not on disk (`OnlyMissingFetched`; without
it a rename could overwrite a whole segment and two workers could meet in a
`.part`), that a `.part` contains what the step after it takes it for
(`PartsAsExpected`: a cut body never gets past the comparison of lengths), that the
attempt has the key if there is one, and that the
merged prefix is in the clear or short. The last three are claimed only while
`refusals = 0`.

`HostImportsProofs`, with no assumption on the constants:

| theorem | property |
|---|---|
| `HandlesStayLive` | `HeldAreLive` |
| `NoArgumentLeft` | `ArgumentsFreed` |
| `OwnersStayLive` | `ContextsAreOwned` |
| `KindIsKept` | `KeepsItsKind` |

The invariant is `HostInv`: every object has one owner, the extension, the call or
the app (`ObjectsOwned`); numbers in use are below the next one (`Numbered`);
runtimes belong to live descriptors (`ContextsAreOwned`). `HeldAreLive` alone is not
inductive: without `Numbered` the next number could be in use, without disjoint
owners the end of a call could free what the extension holds. The proof does not go
through the imports one by one against the invariant: `KeepsObjects` says that a step
leaves the objects, replaces one within its kind or adds one under the next number;
each import is shown to be such a step, `KeepsAllPreserves` shows once that such steps
preserve `HostInv`. The ends of calls and the destroy are treated apart, as they free: that
arguments own nothing of the Dart side follows because only bytes and images are
passed as arguments, a fact `ObjectsOwned` carries.

`DownloadPoolProofs`, from `PoolAssumption` (finitely many tasks and workers, at
least one worker, "no task" is not a task):

| theorem | property |
|---|---|
| `PoolTypeCorrect` | `PoolTypeOK` |
| `WorkersAreAccountedFor` | `WorkersAccounted` |
| `EachIsAnsweredOnce` | `AnsweredOnce` |
| `DoneOnlyWhenDone` | `DoneMeansDone` |
| `PoolKeepsPromise` | `KeepsPromise`: refinement of `DownloadTasks` |

The invariant `PoolInv` says where everything is. A worker is in one place
(`WorkerPlaces`). Of the task it holds, either the task is still on its way to the
isolate or the isolate has it with its port open, and replies are on their way
only for a task that is held (`WorkerPorts`): without this a late reply could be
forwarded for the next task of the same worker. A task is queued once or held once
(`OnePlace`), a caller that listens has its task queued, held or answered
(`Settled`), and "complete" is under way only for what was finished (`Truthful`).
The counts of `AnsweredOnce` and `WorkersAccounted` follow from these by facts of
finite sets. `_processQueue`, which hands tasks to free workers, is treated once
(`ProcessQueueHandsOut`, `HandOutKeeps`, by ranks of workers, no induction) for the
four actions that end in it. The refinement maps what callers and flags say; every action but
five is a stutter there.

`ChapterFilesProofs`, from `FilesAssumption` (finitely many pages, at least one,
batches of at least one):

| theorem | property |
|---|---|
| `TypeCorrect` | `TypeOK` |
| `CompleteChaptersHaveAllPages` | `CompleteHasAllPages` |
| `PagesDeletedOnceArchived` | `DeletedOnceArchived` |

`FilesInv` adds where each file is before the record can say that the chapter is complete:
still to be taken, with the worker, or on disk, and once all were fetched all on disk or all
in the archive, unless a whole archive is written over (`NothingForgotten`; for an episode,
on disk whole, `EpisodeFetched`), that only a manga is packed and has strays
(`OnlyMangaPacked`), that an attempt is over when the record says done (`DoneOnceIdle`), and
that pages are deleted next to a whole archive only (`DeletingHasArchive`). That a page that
goes is in that archive follows from the two.

`ChapterDownloadProofs`, from `GateAssumption` and `ChapterAssumption` (the bounds
are natural numbers, "no record" is not a record):

| theorem | property |
|---|---|
| `NothingOutlivesAnAttempt` | `HeldByAttempts` |
| `PoolWorksInTheGate` | `PoolSerialPerSource` |
| `CompletionIsFinal` | `CompleteStaysComplete`, an action property |
| `CancelStopsAWaiter` | `CancelledWaiterStops` |
| `NoLateWriteRecreates` | `LateWriteRecreatesNothing`, an action property |
| `GateHoldsForAttempts` | `SlotsMatchHolders`, `SourceSerial`, `WorkConserving` of the gate |
| `AttemptsGetSlotsInOrder` | `GrantsInQueueOrder`, `GrantsUnderLimit` of the gate |
| `AttemptsKeepTheSlots` | `SlotsKept`: between restarts, a step of `DownloadSlots` or a stutter |

The last three carry what is proved about the gate alone over to the gate as the
attempts drive it: every step but a restart is a step of the gate or leaves it alone
(`GateSteps`), and a restart leaves an empty gate. The gate's own run lets any holder
release at any time; here the holders are the attempts of the code.

The invariant comes in three layers, each inductive on top of those below. `AttemptInv`
takes `GateInv` from the gate's proofs (every step of an attempt is a step or a stutter of
the gate inside it) and adds who waits for a save in the write queue: the first step of
the progress chain or the attempt that failed, one save per chapter. `HeldByAttempts`
needs it, since a write that completes moves whoever waits for it. `CompletionInv` orders
the chain: what completes the chapter comes after all other progress
(`ChainFollowsAttempt`), the record is incomplete until then (`IncompleteUntilLast`), and
a queued save either comes last or finds an incomplete record (`SavedLast`); "a save does
not unset the flag" is not inductive without it, because the record a save writes was read
before it was queued. `CancelInv` holds as long as no other part of the app has held the
write queue, which is the condition of the two properties: then a delete is alone in the
queue, with no microtask ready that could queue behind it, and a save finds its record
(`DeletesAlone`); a download cancelled in the gate has no record, no write and no
continuation that could bring it back (`RevokedStaysAway`). `AttemptMoves` and
`RequestsSpare` say once what a handler of an attempt and a request change; each handler
is shown to be such a step. The bounds on restarts, writes and other transactions are
arbitrary, so nothing depends on the run's.

`ExtensionThreadsProofs`, from `ThreadsAssumption` ("nothing" is no extension, call or
setting, the app is no extension, the bound on calls is a natural number), for any
extensions and keys and whatever arguments, replies and settings decode to:

| theorem | property |
|---|---|
| `ThreadsTyping` | `ThreadsTypeOK` |
| `CallsAreHeardInTurn` | `CallsInTurn`: `CallsAccounted` and `AnswersInOrder` |
| `ExtensionsReadWhatTheySet` | `SettingsReadBack` |

`AnswersInOrder` is not inductive alone: the next answer goes to the call that runs,
which must be older than all that wait (`RunsFirst`), those must wait in the order made
(`QueueInOrder`), and no unanswered call may be anywhere else, or a call that finds the
thread gone would be answered before it (`NoneForgotten`, `ThreadsServe`).
`CallsFacts` is their conjunction, and `CallsAccounted` follows from it by counting the
places of a call. `SettingsReadBack` looks at the answer of one step; what makes it true is
`SettingsFacts`: what was last set for an extension is under its own name
(`OwnIsThere`), what was removed is not, and under the plain name stands nothing the
extension wrote but what it is about to remove (`RemovedIsGone`). The removal of a
setting is two writes under separate locks, so between them the plain name still has the
old value; that the second write to come is a removal too (`PendingRemovesToo`) closes
the induction, and reads are excluded in between because the extension itself is busy writing.

`SyncClientProofs`, from `SyncAssumption` (finitely many rows, numbered; chapters, tracks
and updates belong to a manga, manga and categories to none; a request has room for at
least one row):

| theorem | property | hypotheses |
|---|---|---|
| `SyncTypeCorrect` | `SyncTypeOK` | none |
| `NewestIsNotLost` | `NewestSurvives` | no restore so far |
| `SentBeforeSince` | `SentUpToSince` | one sync at a time, no restore so far |
| `PulledBeforeSince` | `PulledUpToSince` | one sync at a time, no restore so far |
| `RestoreIsUploaded` | `RestoreReachesServer`, which excepts categories | no forced upload but the restore's |

The invariant has five layers. `VersionInv` bounds every time by the clock, says that what
is under way was written in the past and that the newest version of a row is held by the
device or the server, which an answer that is lost or comes late cannot change. `SentInv`
follows what is to be sent through the requests: every row that `since` will pass is on
the server or in a request to come (`Carried`), every row that was collected is in one of
them (`ChunksCover`, by the ranks of rows, no induction), no request has two versions of a
row, and no later request brings a row back whose deletion went out with the first
(`DeletionsHold`, `NeverSent`). A row may lack its manga only if the server deleted that
for good (`OrphansFinal`): without it, rows that were not sendable when `since` passed
them could become so. That sends times; that it sends the values that go with them takes
another layer, `AgreeInv`: a row here, a row of the server, a row in a request and a row
in a page that have the same time have the same value, but for the rows `missed` names,
since a write that leaves the time breaks just this (`RowAgrees`, `WireAgrees`,
`PageAgrees`). `PulledInv` follows the pages: what the server changed between `from` and
`session` was in a page or is still to come (`PagesCover`), and a row comes with its manga
or after it is known what became of that (`MangaFirst`). `RestoreInv` says that the guard
keeps all others out from the restore to the end of its upload (`GuardHolds`), that from
then on whatever is newer than the restore was restored or written after it (`RowsFresh`,
`SlotFresh`), and that each restored row is on the server or in a request to come
(`UploadCarries`).

The hypotheses are needed; TLC shows each. A restore brings old rows back on purpose.
Two syncs that overlap can bring back what one of them has seen deleted, and pass
`since` over what the other still has to pull (section 7). The answer to the first request of a
restore's upload can bring an old row of the server over a restored one not yet sent; the
server gets that right with the next request, but a forced upload started before the next
sync sends the old row again, as new.

Only model-checked: liveness under fairness (`EveryWaiterServed`,
`EverySubmissionAnswered`, `CancelSettles`, `AttemptEnds`, `EveryCallAnswered`), which is
out of the prover's reach; the agreement of `Dispatch` with the loop, which is
recursive; and the properties of documents and of the format (`NeighboursAgree`, `SelectFindsAll`,
`ChangesReadBack`, `ReplyIsWhatWasSent`, `ArgumentsTellApart`): `HtmlTree`, `Selector`,
`Wire`, `WireModels` and `Engine` define or reach recursive operators over data of
any length. Syncs that overlap are neither checked nor proved in general, but for a restore.
What is proved of `ExtensionThreads` holds of `Engine` because `Engine` only gives its
constants values.

## 7. What the code does against its word

`segments_key`: "Only complete, decrypted segments may be reused after a retry"
(download_isolate_pool.dart:790). A key request answered with an error status
is taken for an unencrypted playlist, and undecrypted segments get their final
names.

Observed while modelling, and not kept as a run:

*Segments.* The comment at download_isolate_pool.dart:790 says "complete" as well, but the
length of a body is compared only where it was announced (line 774): what arrived of a
body of unknown length whose stream ended early gets the final name and goes into the
episode. In an encrypted playlist decryption mostly catches it, in a plain one nothing
does.

*Downloads.* A file task that has failed is answered while other files of its batch
are still written; a cancel then finds no running task and stops nothing, although
download_isolate_pool.dart:412 says that it must stop disk writes. With the write queue held by
an asynchronous transaction, a delete and then a progress write are queued, and the
write re-creates the record (download_provider.dart:261 and its comment). When nothing
is left to fetch the conversion runs twice: if the first packs all pages but cannot
delete the directory to the end, the second packs what is left over the complete
archive (download_provider.dart:503, 244). A page image cut off by a kill is kept by the
next attempt, because a page file that exists is never looked into, although
`download_gate.dart:53` speaks of a clean-up of "any partial file"; the same goes for
the text of a novel, since the clean-up of download_provider.dart:413-416 runs only when
there are page addresses, which a novel has not, and names a file of the manga's
directory where line 521 writes into the chapter's. A record queued while the previous
attempt unwinds waits until the queue is processed again. An idle worker isolate that
exits is never replaced.

*Host objects and threads.* Descriptors of page images are never freed. The bytes a canvas
decodes can no longer be read as bytes. A dispose during a call lets that call make
runtimes nobody disposes of. A negative pointer given to `read_u32` or `read_i32`, and a
string length near the largest (postcard.rs:41), panic and take the extension's thread.

*Documents.* `scraper` keeps the id and the classes of an element from the first time they
are asked for (host_html.rs:423, 462, 487, selector.rs:499, 608, 613), and `add_class`,
`remove_class` and `set_attr` change the attributes beneath (host_html.rs:511-569): after
a read or a query by class or id, what they write there is not read back. `set_attr` and
`remove_class` write under the xhtml namespace, which `attr` does not read. `a + b` finds
nothing when white space stands between the elements (selector.rs:660-662). `:not(a b)`
and `:is(a b)` match nothing; a leading combinator is ignored; select on nested roots
gives a node twice. `set_html` and `append` insert the `html` element the fragment parser
makes. The text of a document without an `html` element panics.

*Format and settings.* A filter of an unknown type consumes no payload, so what follows
is read from the wrong place. Data that `defaults.set` cannot decode, and a number of
the app beyond an i32, remove the setting. A preference the user changes is written
under the plain name only (extension_preferences_service.dart:47), while the engine
looks under the extension's own name first. Writes of the app that are not awaited land in
any order; list values with commas or quotes are split; keys with dots can collide; the removal of
a setting is two separately locked writes (host_defaults.rs:149-150).

*Sync.* clearUploaded clears every deletion recorded so far, and with those it sent the
ones recorded while the sync ran (sync_change_collector.dart:214-217), which are then
never sent, although changed_part_repository.dart:15 speaks of "one row per pending change
to push on the next sync". A forced upload sends "every local row, every entity, with
`updatedAt` forced so it wins regardless of what the server holds"
(sync_change_collector.dart:126), but categories with the time they have (line 135): a
restored one that is older than the server's loses and is then overwritten here. Deletions
the code does not record, so that the rows stay on the server and come back with the next
change there: deleteLibrarySourceGroup (manga_repository.dart:461-496), mergeGroup
(503-599), the duplicates chapter consolidation drops
(chapter_consolidation.dart:345-377), and the tracks of a manga that is wiped, which also
stay here without it (manga_repository.dart:408-455). Writes that leave `updatedAt`, and
so are not sent: mergeGroup (546), removing a category from its manga and hiding one
(category_repository.dart:58-93). An edit made between the collection and the server's
first answer is never sent, since `since` moves past it; "Download only" passes over
pending edits in the same way. startSync (sync_server.dart:181) looks at the restore guard
only, so an upload or a download confirmed in its dialog can overlap a timer sync, and a
late page of one brings back a row that the other has seen deleted. A sync already waiting
when a restore begins is not stopped by the guard (restore.dart:57-60). When the upload
after a restore fails the restored rows keep their old times, and the next sync brings the
server's rows over them, although the message at restore.dart:179 promises the opposite;
that upload is silent, so the failure the comment at restore.dart:167-169 speaks of is not
shown by it. A clock behind the server's loses edits.

## 8. Not modelled, and why

- Parsing of characters (playlists, file names, selectors, archives), image contents
  and formatting: data, not control.
- `dispose` and `configure` of the pool: used by tests only.
- `frb_generated.rs` is generated; `crash.rs` writes a report in a process that ends;
  `api/rhttp`, `rar.rs` and `epub.rs` map settings onto third-party clients and readers.
- The other extension runtimes (Dart, JavaScript, Mihon): third-party interpreters.
- Backup and merging restores: sequential import and export; the full restore as sync
  sees it is in `SyncClient`.
- Trackers, HTTP client, proxies, web view: adapters around outside services.
- Records of chapters that leave the library, a restore that replaces all
  records, and ids that chapter consolidation turns into aliases: they would
  need the library in the model of the queue.
- Overlapping syncs outside a restore, login, identities of rows, clock skew, histories,
  the rows mergeGroup gives to another manga.
- Widgets: the calls they make into downloads are actions of `ChapterDownload`.

## 9. Plan

Done in this order: `DownloadGate` and `DownloadSlots`; the proofs about the gate;
`DownloadPool` and `DownloadTasks`; `ChapterDownload` composing gate and tasks;
`ChapterFiles`; the proofs about those three; `SegmentDownload` and its proofs;
`HostImports` and its proofs; `HtmlTree` on `Selector` and `HtmlNodes`; `Engine` on
`WireModels` and `Wire`; `SyncClient` and its proofs; the order of grants, the gate as the
attempts drive it; `ExtensionThreads` taken out of `Engine`, and its proofs.

Next, by weight:

1. A proof that an attempt with `CompleteStaysComplete` and the files of
   `ChapterFiles` agree on what a complete record stands for.
2. Convergence of the sync client under a timer that goes on and requests that stop
   failing, on an instance small enough for its fairness.
3. `IsolateService`: concurrent starts, a stop during a start, a time-out and
   the late answer (isolate_service.dart:73-310).
4. `LibraryUpdate` with `FetchGate`: a manual and an automatic update racing, the
   cap on concurrent fetches (library_updater.dart:174, fetch_gate.dart:10-31).
5. `ChapterConsolidation`: the plan made before an await against activity in
   between (chapter_consolidation.dart:81).
6. Pure algorithms: `selectNextDownloads`, the budget of decoded images, against
   reference definitions.
