---------------------------- MODULE ChapterFiles ----------------------------
(***************************************************************************)
(* What one chapter leaves on disk when it is downloaded as plain files:   *)
(* the pages of a manga, written one file each and then perhaps packed     *)
(* into a .cbz archive, the single .mp4 of an episode that is not an HLS   *)
(* stream, or the single .html of a novel.                                 *)
(*   lib/modules/manga/download/providers/download_provider.dart           *)
(*   lib/modules/manga/download/providers/convert_to_cbz.dart              *)
(*   lib/services/download_manager/download_isolate_pool.dart              *)
(*   lib/utils/downloaded_page_file.dart                                   *)
(*                                                                         *)
(* A file is opened, which truncates it, and is whole once it is written   *)
(* and closed.  The worker can be killed in between, by a cancel or with   *)
(* the app, and a file that failed leaves the others of its batch running  *)
(* as strays that no later attempt knows of.  The user may switch the       *)
(* "save as CBZ archive" setting at any time: an attempt reads it when it  *)
(* lists the files and again whenever it is about to pack them.            *)
(***************************************************************************)
EXTENDS Integers, FiniteSets

CONSTANTS
    Pages,         \* the files of the chapter
    Kinds,         \* "manga", "episode" or "novel": the last two are one file
    Settings,      \* values of the "save as CBZ archive" setting
    BatchSize,     \* concurrentDownloads
    MaxCrashes

ASSUME FilesAssumption ==
    /\ IsFiniteSet(Pages) /\ Pages # {}
    /\ Kinds \subseteq {"manga", "episode", "novel"}
    /\ Settings \subseteq BOOLEAN
    /\ BatchSize \in Nat \ {0} /\ MaxCrashes \in Nat

VARIABLES
    kind,      \* what is downloaded
    saveAsCBZ, \* the setting
    disk,      \* each file in the chapter's directory
    cbz,       \* the archive, and the pages that went into it ("removed": it
               \* could not be written and was deleted, "none": never there)
    record,    \* the Download record of the chapter
    phase,     \* where the attempt stands
    todo,      \* files the worker has not taken yet
    file,      \* the files of the worker's current batch
    stray,     \* files of a failed task that are still being fetched
    packs,     \* how often processConvert is still to run in this attempt
    stuck,     \* history: a leftover could not be deleted
    repacked,  \* history: the whole archive of the chapter was written over
    crashes

given == <<kind, saveAsCBZ>>
vars == <<given, disk, cbz, record, phase, todo, file, stray, packs, stuck, repacked, crashes>>

Files == IF kind = "manga" THEN Pages ELSE {CHOOSE p \in Pages : TRUE}
NoFiles == [p \in Pages |-> "none"]
NoArchive == [state |-> "none", pages |-> {}]
Present == {p \in Pages : disk[p] # "absent"}
Busy == {p \in Pages : file[p] \in {"fetching", "writing"}}

Init ==
    /\ kind \in Kinds /\ saveAsCBZ \in Settings
    /\ disk = [p \in Pages |-> "absent"]
    /\ cbz = NoArchive
    /\ record = "none"
    /\ phase = "idle"
    /\ todo = {} /\ file = NoFiles /\ stray = NoFiles
    /\ packs = 0 /\ stuck = FALSE /\ repacked = FALSE /\ crashes = 0

-----------------------------------------------------------------------------
\* A request, or a queued record taken up again after a restart.
Start ==
    /\ phase = "idle" /\ record # "done"
    /\ record' = "queued"
    /\ phase' = "listing"
    /\ UNCHANGED <<given, disk, cbz, todo, file, stray, packs, stuck, repacked, crashes>>

\* The attempt marks its record failed, if it is still there.
AttemptFails ==
    /\ phase' = "idle" /\ packs' = 0
    /\ record' = IF record = "none" THEN "none" ELSE "failed"

\* What is left to fetch: all that is not there.  An archive stands for all pages.
Listed(kept) ==
    LET archived == kind = "manga" /\ saveAsCBZ /\ cbz.state \in {"torn", "whole"}
        missing  == IF archived THEN {} ELSE {p \in Files : kept[p] = "absent"}
    IN  /\ kind = "novel" => missing = {}
        /\ disk' = kept
        /\ todo' = missing
        /\ phase' = IF missing = {} THEN "converting" ELSE "fetching"
        \* with nothing to fetch it runs once before the last setProgress, too
        /\ packs' = IF missing = {} THEN 2 ELSE 1

\* The leftover of an episode is deleted first; if it cannot be, it counts as
\* downloaded.  Pages are kept as they are, and so is the text of a novel.
List ==
    /\ phase = "listing"
    /\ \/ kind # "episode" /\ Listed(disk) /\ UNCHANGED stuck
       \/ kind = "episode" /\ Listed([p \in Pages |-> "absent"]) /\ UNCHANGED stuck
       \/ kind = "episode" /\ Present # {} /\ Listed(disk) /\ stuck' = TRUE
    /\ UNCHANGED <<given, cbz, record, file, stray, repacked, crashes>>

-----------------------------------------------------------------------------
(* The text of a novel, which the main isolate fetches and writes itself.  *)

\* It is fetched; an empty one leaves the record queued.
NovelFetched(p) ==
    /\ kind = "novel" /\ phase = "listing" /\ p \in Files \ Present
    /\ \/ phase' = "writing" /\ disk' = [disk EXCEPT ![p] = "torn"]
       \/ phase' = "idle" /\ UNCHANGED disk
    /\ UNCHANGED <<given, cbz, record, todo, file, stray, packs, stuck, repacked, crashes>>

NovelWritten(p) ==
    /\ phase = "writing" /\ p \in Files
    /\ disk' = [disk EXCEPT ![p] = "whole"]
    /\ phase' = "idle"
    /\ record' = IF record = "none" THEN "none" ELSE "done"
    /\ UNCHANGED <<given, cbz, todo, file, stray, packs, stuck, repacked, crashes>>

\* The source does not answer, or the disk is full.
NovelFails ==
    /\ kind = "novel" /\ phase \in {"listing", "writing"}
    /\ AttemptFails
    /\ UNCHANGED <<given, disk, cbz, todo, file, stray, stuck, repacked, crashes>>

-----------------------------------------------------------------------------
(* The worker.                                                             *)

TakeBatch(B) ==
    /\ phase = "fetching" /\ todo # {} /\ Busy = {}
    /\ B \subseteq todo
    /\ Cardinality(B) = IF Cardinality(todo) < BatchSize THEN Cardinality(todo) ELSE BatchSize
    /\ todo' = todo \ B
    /\ file' = [p \in Pages |-> IF p \in B THEN "fetching" ELSE file[p]]
    /\ UNCHANGED <<given, disk, cbz, record, phase, stray, packs, stuck, repacked, crashes>>

WriteBegins(p) ==
    /\ file[p] = "fetching"
    /\ file' = [file EXCEPT ![p] = "writing"]
    /\ disk' = [disk EXCEPT ![p] = "torn"]
    /\ UNCHANGED <<given, cbz, record, phase, todo, stray, packs, stuck, repacked, crashes>>

WriteEnds(p) ==
    /\ file[p] = "writing"
    /\ file' = [file EXCEPT ![p] = "fetched"]
    /\ disk' = [disk EXCEPT ![p] = "whole"]
    /\ UNCHANGED <<given, cbz, record, phase, todo, stray, packs, stuck, repacked, crashes>>

\* A stream broke: the next try opens the file again.
Retry(p) ==
    /\ kind = "episode" /\ file[p] = "writing"
    /\ file' = [file EXCEPT ![p] = "fetching"]
    /\ UNCHANGED <<given, disk, cbz, record, phase, todo, stray, packs, stuck, repacked, crashes>>

\* Mutant of FileFails: the error is not rethrown.
FileFailsQuietly(p) ==
    /\ p \in Busy
    /\ file' = [file EXCEPT ![p] = "fetched"]
    /\ UNCHANGED <<given, disk, cbz, record, phase, todo, stray, packs, stuck, repacked, crashes>>

\* A file failed for good: the task fails at once, the rest of the batch is not
\* waited for.
FileFails(p) ==
    /\ p \in Busy
    /\ stray' = [q \in Pages |-> IF q \in Busy \ {p} THEN file[q] ELSE stray[q]]
    /\ file' = NoFiles /\ todo' = {}
    /\ AttemptFails
    /\ UNCHANGED <<given, disk, cbz, stuck, repacked, crashes>>

TaskCompletes ==
    /\ phase = "fetching" /\ todo = {} /\ Busy = {}
    /\ file' = NoFiles
    /\ phase' = "converting"
    /\ UNCHANGED <<given, disk, cbz, record, todo, stray, packs, stuck, repacked, crashes>>

\* A stray begins to write its file, is done with it, or gives up.
StrayGoesOn(p) ==
    /\ stray[p] # "none"
    /\ \/ /\ stray[p] = "fetching"
          /\ stray' = [stray EXCEPT ![p] = "writing"]
          /\ disk' = [disk EXCEPT ![p] = "torn"]
       \/ /\ stray[p] = "writing"
          /\ stray' = [stray EXCEPT ![p] = "none"]
          /\ disk' = [disk EXCEPT ![p] = "whole"]
       \/ /\ stray' = [stray EXCEPT ![p] = "none"]
          /\ UNCHANGED disk
    /\ UNCHANGED <<given, cbz, record, phase, todo, file, packs, stuck, repacked, crashes>>

-----------------------------------------------------------------------------
(* The end of an attempt.                                                  *)

Packing == kind = "manga" /\ saveAsCBZ

\* processConvert is over.  After the last time, setProgress makes the record
\* complete, unless a cancel deleted it.
Packed ==
    /\ packs' = packs - 1
    /\ IF packs > 1
       THEN phase' = "converting" /\ UNCHANGED record
       ELSE phase' = "idle" /\ record' = IF record = "none" THEN "none" ELSE "done"

\* The cover, which is exported first, cannot be written.
CoverFails ==
    /\ phase = "converting" /\ kind = "manga" /\ Present # {}
    /\ AttemptFails
    /\ UNCHANGED <<given, disk, cbz, todo, file, stray, stuck, repacked, crashes>>

\* No archive is wanted, or there is nothing to pack.
Finish ==
    /\ phase = "converting" /\ (~Packing \/ Present = {})
    /\ Packed
    /\ UNCHANGED <<given, disk, cbz, todo, file, stray, stuck, repacked, crashes>>

\* The archive is written over whatever there was, with the pages there are.
ArchiveBegins ==
    /\ phase = "converting" /\ Packing /\ Present # {}
    /\ phase' = "archiving"
    /\ cbz' = [state |-> "torn", pages |-> Present]
    /\ repacked' = (repacked \/ cbz.state = "whole")
    /\ UNCHANGED <<given, disk, record, todo, file, stray, packs, stuck, crashes>>

ArchiveEnds ==
    /\ phase = "archiving"
    /\ phase' = "deleting"
    /\ cbz' = [cbz EXCEPT !.state = "whole"]
    /\ UNCHANGED <<given, disk, record, todo, file, stray, packs, stuck, repacked, crashes>>

\* Mutant of ArchiveFails: the pages are deleted all the same.
ArchiveFailsOn ==
    /\ phase = "archiving"
    /\ phase' = "deleting"
    /\ cbz' = [NoArchive EXCEPT !.state = "removed"]
    /\ UNCHANGED <<given, disk, record, todo, file, stray, packs, stuck, repacked, crashes>>

\* It cannot be written: it is deleted, and the pages stay.
ArchiveFails ==
    /\ phase = "archiving"
    /\ Packed
    /\ cbz' = [NoArchive EXCEPT !.state = "removed"]
    /\ UNCHANGED <<given, disk, todo, file, stray, stuck, repacked, crashes>>

\* The directory of the pages is deleted, file by file ...
DeletePage(p) ==
    /\ phase = "deleting" /\ p \in Present
    /\ disk' = [disk EXCEPT ![p] = "absent"]
    /\ UNCHANGED <<given, cbz, record, phase, todo, file, stray, packs, stuck, repacked, crashes>>

\* ... until all are gone or one cannot be deleted, which is only reported.
DeleteEnds ==
    /\ phase = "deleting"
    /\ Packed
    /\ UNCHANGED <<given, disk, cbz, todo, file, stray, stuck, repacked, crashes>>

-----------------------------------------------------------------------------
\* cancelDownloads deletes the record and kills the worker that has the task,
\* and with it the strays that happen to run in the same isolate.
Cancel ==
    /\ record # "done"
    /\ record' = "none"
    /\ IF phase = "fetching"
       THEN phase' = "idle" /\ todo' = {} /\ file' = NoFiles /\ packs' = 0
       ELSE UNCHANGED <<phase, todo, file, packs>>
    /\ \/ UNCHANGED stray
       \/ phase = "fetching" /\ stray' = NoFiles
    /\ UNCHANGED <<given, disk, cbz, stuck, repacked, crashes>>

\* The user deletes a complete chapter: files, archive and record.  A stray that
\* has its file open writes to a file that has no name any more.
DeleteDownloadedFiles ==
    /\ record = "done" /\ phase = "idle"
    /\ disk' = [p \in Pages |-> "absent"]
    /\ cbz' = NoArchive /\ repacked' = FALSE
    /\ record' = "none"
    /\ stray' = [p \in Pages |-> IF stray[p] = "writing" THEN "none" ELSE stray[p]]
    /\ UNCHANGED <<given, phase, todo, file, packs, stuck, crashes>>

\* The user switches the setting.
SetSaveAsCBZ(v) ==
    /\ saveAsCBZ' = v
    /\ UNCHANGED <<kind, disk, cbz, record, phase, todo, file, stray, packs, stuck, repacked, crashes>>

\* The app is killed.
Crash ==
    /\ crashes < MaxCrashes
    /\ crashes' = crashes + 1
    /\ phase' = "idle" /\ todo' = {} /\ file' = NoFiles /\ stray' = NoFiles
    /\ packs' = 0
    /\ UNCHANGED <<given, disk, cbz, record, stuck, repacked>>

Next ==
    \/ Start \/ List \/ NovelFails \/ TaskCompletes \/ CoverFails \/ Finish
    \/ \E B \in SUBSET Pages : TakeBatch(B)
    \/ \E p \in Pages : \/ NovelFetched(p) \/ NovelWritten(p)
                        \/ WriteBegins(p) \/ WriteEnds(p) \/ Retry(p) \/ FileFails(p)
                        \/ StrayGoesOn(p) \/ DeletePage(p)
    \/ ArchiveBegins \/ ArchiveEnds \/ ArchiveFails \/ DeleteEnds
    \/ Cancel \/ DeleteDownloadedFiles \/ Crash
    \/ \E v \in Settings : SetSaveAsCBZ(v)

Spec == Init /\ [][Next]_vars

-----------------------------------------------------------------------------
\* What is where, and the worker has files only while an attempt fetches them.
TypeOK ==
    /\ kind \in Kinds /\ saveAsCBZ \in Settings
    /\ disk \in [Pages -> {"absent", "torn", "whole"}]
    /\ cbz \in [state : {"none", "torn", "whole", "removed"}, pages : SUBSET Pages]
    /\ record \in {"none", "queued", "failed", "done"}
    /\ phase \in {"idle", "listing", "writing", "fetching", "converting", "archiving", "deleting"}
    /\ todo \subseteq Files
    /\ file \in [Pages -> {"none", "fetching", "writing", "fetched"}]
    /\ stray \in [Pages -> {"none", "fetching", "writing"}]
    /\ packs \in 0 .. 2 /\ (phase \in {"idle", "listing", "writing"} <=> packs = 0)
    /\ stuck \in BOOLEAN /\ repacked \in BOOLEAN /\ crashes \in 0 .. MaxCrashes
    /\ phase # "fetching" => todo = {} /\ file = NoFiles

\* "the archive needs all pages": a complete chapter has all its pages, as files
\* or in its archive.
NoPageLost ==
    record = "done" =>
        \A p \in Files : disk[p] # "absent" \/ (cbz.state = "whole" /\ p \in cbz.pages)

\* It has them as long as no archive that was whole is written over, however often
\* the user switches the setting: no failure, cancel, stray, crash or archive that
\* cannot be written makes an incomplete chapter look complete, loses a page
\* between the directory and the archive, or leaves files with a worker that no
\* attempt waits for.  And an episode that is complete is not a file that was cut
\* off, if it could be cleaned up ("Any partial file is cleaned up on the next
\* attempt").  A page of a manga or the text of a novel can be: a file of theirs
\* that exists is never looked into, and the clean-up looks for the text in
\* another directory.
CompleteHasAllPages ==
    /\ TypeOK
    /\ ~repacked => NoPageLost
    /\ kind = "episode" /\ ~stuck /\ record = "done" => \A p \in Files : disk[p] = "whole"

\* A page is deleted only while a whole archive stands for the chapter, and only
\* when it is in that archive or the archive replaced an earlier one; unless the
\* user deletes the chapter.
DeletedOnceArchived ==
    [][kind = "manga" =>
          \A p \in Pages : disk[p] # "absent" /\ disk'[p] = "absent" =>
              \/ cbz.state = "whole" /\ (p \in cbz.pages \/ repacked)
              \/ record = "done" /\ record' = "none"]_vars
=============================================================================
