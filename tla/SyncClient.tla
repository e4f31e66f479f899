----------------------------- MODULE SyncClient -----------------------------
(***************************************************************************)
(* One device and its sync server (sync_server.dart, services/sync/,       *)
(* changed_part_repository.dart), with a user who edits, another device    *)
(* that does too, and restores of a backup (restore.dart).  A row stands   *)
(* for a row of any entity under its clientId; of its fields the model     *)
(* keeps a version and updatedAt, the time the newest-wins rule compares.  *)
(* The server is outside the repository and is modelled as the client uses *)
(* it.  The clocks of the two devices and of the server agree.             *)
(***************************************************************************)
EXTENDS Integers, Sequences, FiniteSets

CONSTANTS
  Rows,
  Entity,     \* the kind of each row; a history, which needs two others, is left out
  Parent,     \* the manga a chapter, track or update belongs to; other rows have none
  MaxRows,    \* _maxRowsPerEntity
  Slots,      \* bound: the syncs that can run at a time
  Modes,      \* the kinds of sync that are used
  Switches,   \* whether the user turns sync off and on
  Restores,   \* whether a backup is restored
  MaxClock    \* bound: the changes made

ASSUME SyncAssumption ==
  /\ Rows \subseteq Nat /\ IsFiniteSet(Rows)
  /\ DOMAIN Parent \subseteq Rows
  /\ \A r \in DOMAIN Parent : Parent[r] \in Rows \ DOMAIN Parent /\ Entity[Parent[r]] = "manga"
  /\ \A r \in Rows : Entity[r] \in IF r \in DOMAIN Parent THEN {"chapter", "track", "update"}
                                   ELSE {"manga", "category"}
  /\ MaxRows \in Nat \ {0} /\ MaxClock \in Nat
  /\ Switches \in BOOLEAN /\ Restores \in BOOLEAN

VARIABLES
  clock,
  local,      \* the device's rows, or Absent
  outbox,     \* ChangedPart: the deletions to push
  since,      \* SyncPreference.since
  syncOn,     \* SyncPreference.syncOn
  active,     \* SyncProgressState.active
  server,     \* the server's rows, deleted ones kept, with the time of their last change
  sync,       \* the startSync that runs in each slot
  restoring,  \* restoreSyncGuard: "no", "busy", or "uploading" after the restore itself
  backup,     \* the rows of the backup file, made at the start
  latest,     \* history: the newest version of each row anyone wrote
  deleted,    \* history: the rows the user deleted here, since the restore if there was one
  missed,     \* history: the rows whose change here no sync is bound to send
  restored    \* history: when a backup was restored, whether no sync ran as that began, and
              \* whether its upload was made

deviceVars == <<local, outbox, since, syncOn>>
historyVars == <<latest, deleted, missed, restored>>
vars == <<clock, deviceVars, active, server, sync, restoring, backup, historyVars>>

Absent == [at |-> 0, val |-> 0]
Unknown == [at |-> 0, val |-> 0, stamp |-> 0, gone |-> FALSE]
Present(r) == local[r] # Absent
Off == [phase |-> "off"]
NotRestored == [at |-> 0, alone |-> FALSE, pushed |-> FALSE]

OfEntity(e) == {r \in Rows : Entity[r] = e}

HasManga(rows, r) == r \in DOMAIN Parent => Parent[r] \in rows

\* A row and what belongs to it.
Family(r) == {r} \cup {q \in DOMAIN Parent : Parent[q] = r}

Tick == clock < MaxClock /\ clock' = clock + 1

(* The user, the other device and the library ------------------------------ *)

\* A row is edited or added; a sync that has collected its rows, and whose first
\* request the server has not seen, passes it over.
Edit(r) ==
  /\ Tick
  /\ \/ Present(r)
     \/ r \notin deleted /\ server[r] = Unknown /\ (r \in DOMAIN Parent => Present(Parent[r]))
  /\ local' = [local EXCEPT ![r] = [at |-> clock', val |-> clock']]
  /\ latest' = [latest EXCEPT ![r] = local'[r]]
  /\ missed' = IF \E s \in Slots : sync[s].phase = "posted" /\ sync[s].session = 0
               THEN missed \cup {r} ELSE missed \ {r}
  /\ UNCHANGED <<outbox, since, syncOn, active, server, sync, restoring, backup, deleted, restored>>

\* mergeGroup, CategoryRepository.remove and setHidden write a row and leave its time:
\* no sync is bound to send it.
EditUnstamped(r) ==
  /\ Tick
  /\ Present(r)
  /\ local' = [local EXCEPT ![r].val = clock']
  /\ latest' = [latest EXCEPT ![r] = IF @.at = local[r].at THEN local'[r] ELSE @]
  /\ missed' = missed \cup {r}
  /\ UNCHANGED <<outbox, since, syncOn, active, server, sync, restoring, backup, deleted, restored>>

\* recordIfSyncOn: what to push of the deletion of `rs`.
Recorded(rs) == IF syncOn THEN outbox \cup rs ELSE outbox

\* A row that goes, and what goes with it; a row left without its manga, which never
\* comes back under its local id, is counted as gone.
Going(r) == {q \in Family(r) : Present(q)}

\* The rows `rs` go in one transaction, and `noted` of them are to be pushed.
Dropped(rs, noted) ==
  /\ local' = [q \in Rows |-> IF q \in rs THEN Absent ELSE local[q]]
  /\ outbox' = Recorded(noted)
  /\ deleted' = deleted \cup rs
  /\ missed' = IF syncOn THEN (missed \ noted) \cup (rs \ noted) ELSE missed \cup rs
  /\ UNCHANGED <<clock, since, syncOn, active, server, sync, restoring, backup, latest, restored>>

\* wipeManga, and the deletion of a row by itself: all of it is recorded, but for the
\* tracks of the manga.
Delete(r) == Present(r) /\ Dropped(Going(r), Going(r) \ (OfEntity("track") \ {r}))

\* deleteLibrarySourceGroup, and mergeGroup with the duplicates it folds away: nothing
\* is recorded.
DeleteSilently(r) == Present(r) /\ Dropped(Going(r), {})

OtherWrites(r) ==
  /\ Tick
  /\ ~server[r].gone
  /\ server[r] = Unknown => ~Present(r) /\ r \notin deleted
  /\ r \in DOMAIN Parent => server[Parent[r]] # Unknown /\ ~server[Parent[r]].gone
  /\ server' = [server EXCEPT ![r] = [at |-> clock', val |-> clock', stamp |-> clock', gone |-> FALSE]]
  /\ latest' = [latest EXCEPT ![r] = [at |-> clock', val |-> clock']]
  /\ UNCHANGED <<deviceVars, active, sync, restoring, backup, deleted, missed, restored>>

\* The server's rows after the deletion of `rs` at time t.
WithoutRows(sv, rs, t) ==
  [r \in Rows |-> IF r \in rs /\ sv[r] # Unknown /\ ~sv[r].gone
                  THEN [sv[r] EXCEPT !.gone = TRUE, !.stamp = t] ELSE sv[r]]

OtherDeletes(r) ==
  /\ Tick
  /\ server[r] # Unknown /\ ~server[r].gone
  /\ server' = WithoutRows(server, Family(r), clock')
  /\ UNCHANGED <<deviceVars, active, sync, restoring, backup, historyVars>>

SetSyncOn ==
  /\ Switches
  /\ syncOn' = ~syncOn
  /\ UNCHANGED <<clock, local, outbox, since, active, server, sync, restoring, backup, historyVars>>

(* Starting a sync ----------------------------------------------------------- *)

Started(mode, bypass) ==
  [phase |-> "version", mode |-> mode, bypass |-> bypass]

\* Mutant: the guard against a running restore is forgotten.
StartSyncAnyway(s, mode) ==
  /\ sync[s] = Off
  /\ sync' = [sync EXCEPT ![s] = Started(mode, FALSE)]
  /\ active' = TRUE
  /\ UNCHANGED <<clock, deviceVars, server, restoring, backup, historyVars>>

\* startSync, with its guard against a running restore.
StartSync(s, mode) ==
  /\ sync[s] = Off
  /\ restoring = "no"
  /\ sync' = [sync EXCEPT ![s] = Started(mode, FALSE)]
  /\ active' = TRUE
  /\ UNCHANGED <<clock, deviceVars, server, restoring, backup, historyVars>>

\* The timer, and the button, which is enabled while no sync is active.
AutoSync(s) == "sync" \in Modes /\ syncOn /\ ~active /\ StartSync(s, "sync")

\* The confirmation of an upload or a download may come at any time later.
OneWay(s) == \E mode \in Modes \ {"sync"} : StartSync(s, mode)

(* Collecting ------------------------------------------------------------------ *)

\* What is sent of a row.
WireRow(r, at) == [row |-> r, at |-> at, val |-> local[r].val]

\* chunked: at most MaxRows of an entity in a request, in the order of the rows.
Chunks(wires) ==
  LET SameEntity(v, w) == Entity[v.row] = Entity[w.row]
      index(w) == (Cardinality({v \in wires : SameEntity(v, w) /\ v.row <= w.row}) - 1) \div MaxRows
  IN  [i \in 1 .. Cardinality({index(w) : w \in wires}) |-> {w \in wires : index(w) = i - 1}]

\* Rows whose manga is not here are not sent.
Sendable == {r \in Rows : Present(r) /\ HasManga({q \in Rows : Present(q)}, r)}

\* ChangedRows.collect
ChangedRows == {WireRow(r, local[r].at) : r \in {q \in Sendable : local[q].at >= since}}

\* ChangedRows.collectAll: a forced upload makes every row newer than the server's, but
\* for the categories, which go with the time they have.
AllRows(now) ==
  {WireRow(r, IF Entity[r] = "category" THEN local[r].at ELSE now) : r \in Sendable}

\* _syncLoop, before its first request.
Loop(s, wires, deletions, from) ==
  [sync EXCEPT ![s] =
    [phase |-> "posted", mode |-> sync[s].mode, bypass |-> sync[s].bypass,
     chunks |-> Chunks(wires), deletions |-> deletions, from |-> from,
     session |-> 0, seen |-> {}, page |-> <<>>, more |-> FALSE]]

\* The version was accepted and the rows have their clientIds; what is collected
\* goes out with the first request.  An upload carries no deletions, a download
\* nothing at all.
Collect(s) ==
  /\ sync[s].phase = "version"
  /\ \/ /\ sync[s].mode = "sync"
        /\ sync' = Loop(s, ChangedRows, outbox, since)
        /\ active' = TRUE
        /\ UNCHANGED clock
     \/ /\ sync[s].mode = "upload"
        /\ Tick
        /\ sync' = Loop(s, AllRows(clock'), {}, since)
        /\ active' = TRUE
     \/ /\ sync[s].mode = "download"
        /\ sync' = Loop(s, {}, {}, 0)
        /\ UNCHANGED <<clock, active>>
  /\ UNCHANGED <<deviceVars, server, restoring, backup, historyVars>>

\* The sync is over, however it went; a restore's upload clears the guard.
Ends(s) ==
  /\ sync' = [sync EXCEPT ![s] = Off]
  /\ active' = FALSE
  /\ restoring' = IF sync[s].bypass THEN "no" ELSE restoring

\* The version is not supported, a request or its answer is lost or refused, or
\* the app is left.
Fails(s) ==
  /\ sync[s] # Off
  /\ Ends(s)
  /\ UNCHANGED <<clock, deviceVars, server, backup, historyVars>>

(* The server, external -------------------------------------------------------- *)

\* Newest write wins; what was deleted stays so.
Upserted(sv, wires, t) ==
  [r \in Rows |->
     LET ws == {w \in wires : w.row = r /\ w.at > sv[r].at /\ ~sv[r].gone}
     IN  IF ws = {} THEN sv[r]
         ELSE LET w == CHOOSE w \in ws : TRUE
              IN  [at |-> w.at, val |-> w.val, stamp |-> t, gone |-> FALSE]]

\* One request: rows and deletions in, a page of what changed out, each manga
\* before what belongs to it.  syncedAt is the time of the first request.
Handle(s) ==
  /\ sync[s].phase = "posted"
  /\ LET k == sync[s]
         wires == IF k.chunks = <<>> THEN {} ELSE Head(k.chunks)
         sv == WithoutRows(Upserted(server, wires, clock + 1),
                           IF k.session = 0 THEN k.deletions ELSE {}, clock + 1)
         changed == {r \in Rows : sv[r].stamp > k.from} \ k.seen
     IN  /\ clock' = IF sv = server THEN clock ELSE clock + 1
         /\ server' = sv
         /\ latest' = [r \in Rows |-> IF sv[r].at > latest[r].at
                                      THEN [at |-> sv[r].at, val |-> sv[r].val] ELSE latest[r]]
         /\ \E page \in SUBSET changed :
              /\ page = {} => changed = {}
              /\ \A r \in page : HasManga((Rows \ changed) \cup page, r)
              /\ sync' = [sync EXCEPT ![s] =
                   [k EXCEPT !.phase = "answered",
                             !.session = IF @ = 0 THEN clock' ELSE @,
                             !.seen = @ \cup page,
                             !.page = [r \in page |-> sv[r]],
                             !.more = changed # page]]
  /\ UNCHANGED <<deviceVars, active, restoring, backup, deleted, missed, restored>>

(* What comes back ---------------------------------------------------------------- *)

\* Mutant: what came last wins, whatever its time.
AppliedLastWins(page) ==
  [r \in Rows |-> IF r \notin DOMAIN page THEN local[r]
                  ELSE IF page[r].gone THEN Absent ELSE [at |-> page[r].at, val |-> page[r].val]]

\* SyncEntityApplier.apply: newest wins, a row without its manga is dropped, and
\* the tombstones come last.
Applied(page) ==
  LET rows == {r \in DOMAIN page : ~page[r].gone}
      here == {r \in Rows : Present(r)} \cup rows
  IN  [r \in Rows |->
         IF r \in rows /\ HasManga(here, r) /\ page[r].at > local[r].at
         THEN [at |-> page[r].at, val |-> page[r].val]
         ELSE IF r \in DOMAIN page \ rows THEN Absent ELSE local[r]]

\* Mutant: since is saved when the last chunk is sent, pages to come or not.
ReceiveStopsEarly(s) ==
  /\ sync[s].phase = "answered"
  /\ Len(sync[s].chunks) <= 1
  /\ local' = Applied(sync[s].page)
  /\ since' = sync[s].session
  /\ Ends(s)
  /\ UNCHANGED <<clock, outbox, syncOn, server, backup, historyVars>>

\* Mutant: since is saved with the first chunk, others to come or not.
ReceiveFirstOnly(s) ==
  /\ sync[s].phase = "answered"
  /\ ~sync[s].more
  /\ local' = Applied(sync[s].page)
  /\ since' = sync[s].session
  /\ Ends(s)
  /\ UNCHANGED <<clock, outbox, syncOn, server, backup, historyVars>>

\* The edits a download leaves unsent: it moves since past them.
PassedOver(k) ==
  IF k.mode # "download" THEN {}
  ELSE {r \in Rows : since <= local'[r].at /\ local'[r].at < k.session /\ server[r].at < local'[r].at}

\* One answer: its page is applied in a transaction; then the next request leaves,
\* or since is saved, before the deletions are cleared.
Receive(s) ==
  /\ sync[s].phase = "answered"
  /\ LET k == sync[s]
         chunks == IF k.chunks = <<>> THEN <<>> ELSE Tail(k.chunks)
         last == chunks = <<>> /\ ~k.more
     IN  /\ local' = Applied(k.page)
         /\ IF last THEN /\ since' = k.session
                         /\ missed' = missed \cup PassedOver(k)
            ELSE UNCHANGED <<since, missed>>
         /\ restored' = [restored EXCEPT !.pushed = @ \/ (last /\ k.bypass)]
         /\ IF last /\ k.mode # "sync" THEN Ends(s)
            ELSE /\ sync' = [sync EXCEPT ![s] =
                      [k EXCEPT !.phase = IF last THEN "clearing" ELSE "posted",
                                !.chunks = chunks, !.page = <<>>]]
                 /\ active' = (active \/ k.chunks # <<>> \/ k.page # <<>>)
                 /\ UNCHANGED restoring
  /\ UNCHANGED <<clock, outbox, syncOn, server, backup, latest, deleted>>

\* clearUploaded: every deletion recorded so far, sent or not.
Clear(s) ==
  /\ sync[s].phase = "clearing"
  /\ outbox' = {}
  /\ missed' = missed \cup (outbox \ sync[s].deletions)
  /\ Ends(s)
  /\ UNCHANGED <<clock, local, since, syncOn, server, backup, latest, deleted, restored>>

(* Restore of a backup ---------------------------------------------------------------- *)

RestoreBegins ==
  /\ Restores /\ restoring = "no" /\ restored.at = 0
  /\ restoring' = "busy"
  /\ restored' = [restored EXCEPT !.alone = \A s \in Slots : sync[s] = Off]
  /\ UNCHANGED <<clock, deviceVars, active, server, sync, backup, latest, deleted, missed>>

\* The rows are replaced in one transaction and the outbox is emptied; then the
\* upload starts, or sync is turned off, or there is no server to tell.
RestoreDone ==
  /\ restoring = "busy"
  /\ local' = backup
  /\ outbox' = {}
  /\ restored' = [restored EXCEPT !.at = clock]
  /\ \/ /\ \E s \in Slots : /\ sync[s] = Off
                            /\ sync' = [sync EXCEPT ![s] = Started("upload", TRUE)]
        /\ restoring' = "uploading"
        /\ active' = TRUE
        /\ syncOn' = TRUE
     \/ /\ restoring' = "no"
        /\ syncOn' \in {FALSE, syncOn}
        /\ UNCHANGED <<sync, active>>
  /\ deleted' = {}
  /\ missed' = {}
  /\ UNCHANGED <<clock, since, server, backup, latest>>

\* The file is of no known type, or cannot be read.
RestoreFails ==
  /\ restoring = "busy"
  /\ restoring' = "no"
  /\ UNCHANGED <<clock, deviceVars, active, server, sync, backup, historyVars>>

Init ==
  /\ clock = 1
  /\ local \in [Rows -> {Absent, [at |-> 1, val |-> 1]}]
  /\ server \in [Rows -> {Unknown, [at |-> 1, val |-> 1, stamp |-> 1, gone |-> FALSE]}]
  /\ \A r \in DOMAIN Parent :
       /\ Present(r) => Present(Parent[r])
       /\ server[r] # Unknown => server[Parent[r]] # Unknown
  /\ outbox = {}
  /\ since = 0
  /\ syncOn = TRUE
  /\ active = FALSE
  /\ sync = [s \in Slots |-> Off]
  /\ restoring = "no"
  /\ backup = local
  /\ latest = [r \in Rows |-> IF Present(r) THEN local[r]
                              ELSE [at |-> server[r].at, val |-> server[r].val]]
  /\ deleted = {}
  /\ missed = {}
  /\ restored = NotRestored

User == SetSyncOn \/ \E r \in Rows : \/ Edit(r) \/ EditUnstamped(r) \/ Delete(r) \/ DeleteSilently(r)
                                     \/ OtherWrites(r) \/ OtherDeletes(r)

Sync(s) ==
  \/ AutoSync(s) \/ OneWay(s)
  \/ Collect(s) \/ Fails(s) \/ Handle(s) \/ Receive(s) \/ Clear(s)

Next == User \/ (\E s \in Slots : Sync(s)) \/ RestoreBegins \/ RestoreDone \/ RestoreFails

Spec == Init /\ [][Next]_vars

(* Properties -------------------------------------------------------------------------- *)

\* Everything the server changed up to since is here: the newest-wins rule lets the
\* device differ only by a newer edit, by its own deletion, or by a row whose manga is
\* gone (_syncLoop saves since after the last page only).
PulledUpToSince ==
  \A r \in Rows :
    0 < server[r].stamp /\ server[r].stamp <= since
      => IF server[r].gone THEN ~Present(r)
         ELSE \/ local[r].at >= server[r].at
              \/ ~HasManga({q \in Rows : Present(q)}, r)
              \/ \E q \in deleted : r \in Family(q)

\* What changed here before since is on the server, through retries, chunks and lost
\* answers, and a deletion made here waits in the outbox until it is; the exceptions
\* are the changes `missed` names: made while sync was off, passed over by a sync or a
\* download that ran, cleared unsent, deleted with no record or edited with no new time.
SentUpToSince ==
  \A r \in Rows \ missed :
    /\ r \in Sendable /\ local[r].at < since
         => server[r].at > local[r].at \/ server[r].val = local[r].val \/ server[r].gone
    /\ r \in deleted /\ ~Present(r) => r \in outbox \/ server[r] = Unknown \/ server[r].gone

\* Whatever the order of edits, uploads and pulls, the newest version of a row that
\* nobody deleted is on the device or on the server.
NewestSurvives ==
  \A r \in Rows :
    r \notin deleted /\ ~server[r].gone
      => latest[r].val \in {local[r].val, server[r].val}

\* Once the upload of a restore has succeeded, the server has the restored rows, unless
\* someone changed them since: no other sync came in between (restoreSyncGuard), nor a
\* deletion recorded before the restore.  A sync that runs as the restore begins may.
\* Categories are not stamped by the upload, and may lose.
RestoreReachesServer ==
  restored.pushed /\ restored.alone =>
    \A r \in Rows \ OfEntity("category") :
      backup[r] # Absent /\ r \notin deleted /\ ~server[r].gone
        => server[r].val = backup[r].val \/ server[r].val > restored.at
=============================================================================
