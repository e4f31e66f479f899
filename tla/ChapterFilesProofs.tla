------------------------- MODULE ChapterFilesProofs -------------------------
(***************************************************************************)
(* Proofs about the files of a chapter, for every set of pages, batch size *)
(* and number of crashes: a chapter recorded as complete has its pages,    *)
(* and a page is deleted only once a whole archive has it.                 *)
(***************************************************************************)
EXTENDS ChapterFiles, TLAPS

-----------------------------------------------------------------------------
(* The inductive invariant, in named parts.                                *)

\* An attempt ends before the record says that it is done, and a new one is
\* only started for a record that is not.
DoneOnceIdle == record = "done" => phase = "idle"

\* Only pages are packed, deleted and left to strays: an episode or a novel is
\* one file, and no other file of its batch goes on when it fails.  Only the text
\* of a novel is written by the main isolate.
OnlyMangaPacked ==
    /\ phase = "writing" => kind = "novel"
    /\ phase \in {"archiving", "deleting"} => kind = "manga"
    /\ kind # "manga" => cbz.state = "none" /\ stray = NoFiles
    /\ \A p \in Pages : file[p] # "none" => p \in Files

\* Pages are deleted after the archive was closed.
DeletingHasArchive ==
    /\ phase = "archiving" => cbz.state = "torn"
    /\ phase = "deleting" => cbz.state = "whole"

\* Where each file of a chapter is: still to be taken, in the worker's hands, or
\* on disk; and once all were fetched, all on disk or all in the archive.  An
\* archive is begun with all of them, and as long as it is torn none is deleted,
\* unless it replaces one that was whole.
AllOnDisk == \A p \in Files : disk[p] # "absent"

NothingForgotten ==
    /\ phase = "fetching" =>
          \A p \in Files : p \in todo \/ file[p] = "fetching" \/ disk[p] # "absent"
    /\ ~repacked =>
          /\ cbz.state = "torn" \/ phase = "archiving" => AllOnDisk
          /\ cbz.state \in {"torn", "whole"} => Files \subseteq cbz.pages
          /\ phase = "converting" \/ record = "done" => AllOnDisk \/ cbz.state = "whole"

\* The same for the file of an episode, which has to be whole.
EpisodeFetched ==
    kind = "episode" /\ ~stuck =>
        /\ phase = "fetching" =>
              \A p \in Files : p \in todo \/ p \in Busy \/ disk[p] = "whole"
        /\ phase = "converting" \/ record = "done" => \A p \in Files : disk[p] = "whole"

FilesInv ==
    /\ TypeOK
    /\ DoneOnceIdle
    /\ OnlyMangaPacked
    /\ DeletingHasArchive
    /\ NothingForgotten
    /\ EpisodeFetched

-----------------------------------------------------------------------------
\* A chapter has a file, and one that is not a manga has no other.
LEMMA FilesOfAChapter ==
    /\ Files \subseteq Pages /\ Files # {}
    /\ kind # "manga" => \A p, q \in Files : p = q
  BY FilesAssumption DEF Files

\* The first state.
LEMMA TypeAtInit == Init => TypeOK
  <1>0. SUFFICES ASSUME Init PROVE TypeOK
    OBVIOUS
  <1>1. NoArchive \in [state : {"none", "torn", "whole", "removed"}, pages : SUBSET Pages]
    BY DEF NoArchive
  <1>2. MaxCrashes \in Nat
    BY FilesAssumption
  <1>3. kind \in Kinds /\ saveAsCBZ \in Settings /\ cbz = NoArchive
    BY <1>0 DEF Init
  <1>4. /\ disk = [p \in Pages |-> "absent"] /\ file = [p \in Pages |-> "none"]
        /\ stray = file /\ file = NoFiles
        /\ record = "none" /\ phase = "idle" /\ todo = {} /\ packs = 0
        /\ stuck = FALSE /\ repacked = FALSE /\ crashes = 0
    BY <1>0 DEF Init, NoFiles
  <1>5. /\ disk \in [Pages -> {"absent", "torn", "whole"}]
        /\ file \in [Pages -> {"none", "fetching", "writing", "fetched"}]
        /\ stray \in [Pages -> {"none", "fetching", "writing"}]
    BY <1>4
  <1>6. packs \in 0 .. 2 /\ crashes \in 0 .. MaxCrashes
    BY <1>2, <1>4
  <1>7. stuck \in BOOLEAN /\ repacked \in BOOLEAN /\ todo \subseteq Files
    BY <1>4
  <1>8. record \in {"none", "queued", "failed", "done"} /\ phase = "idle"
    BY <1>4
  <1> QED
    BY <1>1, <1>3, <1>4, <1>5, <1>6, <1>7, <1>8 DEF TypeOK

\* Every variable holds a value of its type, and the worker has files only while
\* an attempt fetches them.
THEOREM TypeCorrect == Spec => []TypeOK
  <1>1. Init => TypeOK
    BY TypeAtInit
  <1>2. ASSUME TypeOK, [Next]_vars PROVE TypeOK'
    <2> USE <1>2 DEF TypeOK
    <2>0. Files' = Files \/ kind' # kind
      BY DEF Files
    <2>1. CASE Start
      BY <2>0, <2>1 DEF Start, given
    <2>2. CASE List
      <3>1. PICK kept \in [Pages -> {"absent", "torn", "whole"}] : Listed(kept)
        BY <2>2 DEF List
      <3>2. /\ todo' \subseteq Files /\ phase' \in {"converting", "fetching"}
            /\ packs' \in 1 .. 2 /\ (phase' = "converting" => todo' = {})
            /\ disk' = kept
        BY <3>1 DEF Listed
      <3>3. file = NoFiles /\ stuck' \in BOOLEAN /\ UNCHANGED <<given, cbz, record, file, stray, repacked, crashes>>
        BY <2>2 DEF List
      <3> QED
        BY <2>0, <3>2, <3>3 DEF given
    <2>3. CASE NovelFails
      BY <2>0, <2>3 DEF NovelFails, AttemptFails, given
    <2>4. CASE TaskCompletes
      BY <2>0, <2>4 DEF TaskCompletes, NoFiles, given
    <2>5. CASE CoverFails
      BY <2>0, <2>5 DEF CoverFails, AttemptFails, given
    <2>6. CASE Finish
      BY <2>0, <2>6 DEF Finish, Packed, given
    <2>7. ASSUME NEW B \in SUBSET Pages, TakeBatch(B) PROVE TypeOK'
      BY <2>0, <2>7 DEF TakeBatch, given
    <2>8. ASSUME NEW p \in Pages,
                 NovelFetched(p) \/ NovelWritten(p) \/ StrayGoesOn(p) \/ DeletePage(p)
          PROVE  TypeOK'
      <3>1. CASE NovelFetched(p)
        BY <2>0, <3>1 DEF NovelFetched, given
      <3>2. CASE NovelWritten(p)
        BY <2>0, <3>2 DEF NovelWritten, given
      <3>3. CASE StrayGoesOn(p)
        BY <2>0, <3>3 DEF StrayGoesOn, given
      <3>4. CASE DeletePage(p)
        BY <2>0, <3>4 DEF DeletePage, given
      <3> QED
        BY <2>8, <3>1, <3>2, <3>3, <3>4
    <2>9. ASSUME NEW p \in Pages,
                 WriteBegins(p) \/ WriteEnds(p) \/ Retry(p) \/ FileFails(p)
          PROVE  TypeOK'
      <3>0. phase = "fetching"
        BY <2>9 DEF WriteBegins, WriteEnds, Retry, FileFails, Busy, NoFiles
      <3>1. CASE WriteBegins(p)
        BY <2>0, <3>0, <3>1 DEF WriteBegins, given
      <3>2. CASE WriteEnds(p)
        BY <2>0, <3>0, <3>2 DEF WriteEnds, given
      <3>3. CASE Retry(p)
        BY <2>0, <3>0, <3>3 DEF Retry, given
      <3>4. CASE FileFails(p)
        BY <2>0, <3>0, <3>4 DEF FileFails, AttemptFails, Busy, NoFiles, given
      <3> QED
        BY <2>9, <3>1, <3>2, <3>3, <3>4
    <2>10. CASE ArchiveBegins
      BY <2>0, <2>10 DEF ArchiveBegins, Present, given
    <2>11. CASE ArchiveEnds
      BY <2>0, <2>11 DEF ArchiveEnds, given
    <2>12. CASE ArchiveFails
      BY <2>0, <2>12 DEF ArchiveFails, Packed, NoArchive, given
    <2>13. CASE DeleteEnds
      BY <2>0, <2>13 DEF DeleteEnds, Packed, given
    <2>14. CASE Cancel
      BY <2>0, <2>14 DEF Cancel, NoFiles, given
    <2>15. CASE DeleteDownloadedFiles
      BY <2>0, <2>15 DEF DeleteDownloadedFiles, NoArchive, given
    <2>16. CASE Crash
      BY <2>0, <2>16, FilesAssumption DEF Crash, NoFiles, given
    <2>17. ASSUME NEW v \in Settings, SetSaveAsCBZ(v) PROVE TypeOK'
      BY <2>0, <2>17 DEF SetSaveAsCBZ
    <2>18. CASE UNCHANGED vars
      BY <2>0, <2>18 DEF vars, given, NoFiles
    <2> QED
      BY <2>1, <2>2, <2>3, <2>4, <2>5, <2>6, <2>7, <2>8, <2>9, <2>10, <2>11, <2>12,
         <2>13, <2>14, <2>15, <2>16, <2>17, <2>18 DEF Next
  <1> QED
    BY <1>1, <1>2, PTL DEF Spec

-----------------------------------------------------------------------------
\* Every step keeps the invariant: a file leaves `todo', the worker or the disk
\* only for the next of these places, and the phase changes once all are there.
LEMMA FilesStep ==
    ASSUME FilesInv, TypeOK', [Next]_vars
    PROVE  FilesInv'
  <1> USE DEF FilesInv, TypeOK, DoneOnceIdle, OnlyMangaPacked, DeletingHasArchive,
        AllOnDisk, NothingForgotten, EpisodeFetched, given, NoFiles, Busy, Files
  <1>1. CASE Start
    BY <1>1 DEF Start
  <1>2. CASE List
    BY <1>2, FilesOfAChapter DEF List, Listed
  <1>3. CASE NovelFails
    BY <1>3 DEF NovelFails, AttemptFails
  <1>4. CASE TaskCompletes
    BY <1>4 DEF TaskCompletes
  <1>5. CASE CoverFails
    BY <1>5 DEF CoverFails, AttemptFails
  <1>6. CASE Finish
    BY <1>6, FilesOfAChapter DEF Finish, Packed, Packing
  <1>7. ASSUME NEW B \in SUBSET Pages, TakeBatch(B) PROVE FilesInv'
    BY <1>7, FilesOfAChapter DEF TakeBatch
  <1>8. ASSUME NEW p \in Pages, NovelFetched(p) PROVE FilesInv'
    BY <1>8, FilesOfAChapter DEF NovelFetched, Present
  <1>9. ASSUME NEW p \in Pages, NovelWritten(p) PROVE FilesInv'
    BY <1>9, FilesOfAChapter DEF NovelWritten
  <1>10. ASSUME NEW p \in Pages, WriteBegins(p) PROVE FilesInv'
    BY <1>10 DEF WriteBegins
  <1>11. ASSUME NEW p \in Pages, WriteEnds(p) PROVE FilesInv'
    BY <1>11, FilesOfAChapter DEF WriteEnds
  <1>12. ASSUME NEW p \in Pages, Retry(p) PROVE FilesInv'
    BY <1>12 DEF Retry
  <1>13. ASSUME NEW p \in Pages, FileFails(p) PROVE FilesInv'
    <2>1. phase = "fetching" /\ (kind # "manga" => Busy \ {p} = {})
      BY <1>13, FilesOfAChapter DEF FileFails
    <2>2. stray' = [q \in Pages |-> IF q \in Busy \ {p} THEN file[q] ELSE stray[q]]
      BY <1>13 DEF FileFails
    <2>3. kind # "manga" => stray' = NoFiles
      BY <2>1, <2>2
    <2> QED
      BY <1>13, <2>1, <2>3 DEF FileFails, AttemptFails
  <1>14. ASSUME NEW p \in Pages, StrayGoesOn(p) PROVE FilesInv'
    BY <1>14 DEF StrayGoesOn
  <1>15. ASSUME NEW p \in Pages, DeletePage(p) PROVE FilesInv'
    BY <1>15 DEF DeletePage, Present
  <1>16. CASE ArchiveBegins
    BY <1>16 DEF ArchiveBegins, Packing, Present
  <1>17. CASE ArchiveEnds
    BY <1>17 DEF ArchiveEnds
  <1>18. CASE ArchiveFails
    BY <1>18 DEF ArchiveFails, Packed, NoArchive
  <1>19. CASE DeleteEnds
    BY <1>19 DEF DeleteEnds, Packed
  <1>20. CASE Cancel
    BY <1>20 DEF Cancel
  <1>21. CASE DeleteDownloadedFiles
    BY <1>21, FilesOfAChapter DEF DeleteDownloadedFiles, NoArchive
  <1>22. CASE Crash
    BY <1>22 DEF Crash
  <1>23. ASSUME NEW v \in Settings, SetSaveAsCBZ(v) PROVE FilesInv'
    BY <1>23 DEF SetSaveAsCBZ
  <1>24. CASE UNCHANGED vars
    BY <1>24 DEF vars
  <1> QED
    BY <1>1, <1>2, <1>3, <1>4, <1>5, <1>6, <1>7, <1>8, <1>9, <1>10, <1>11, <1>12, <1>13,
       <1>14, <1>15, <1>16, <1>17, <1>18, <1>19, <1>20, <1>21, <1>22, <1>23, <1>24 DEF Next

\* FilesInv is inductive.
THEOREM FilesInvariant == Spec => []FilesInv
  <1>1. Init => FilesInv
    BY TypeAtInit DEF Init, FilesInv, DoneOnceIdle, OnlyMangaPacked, DeletingHasArchive,
        AllOnDisk, NothingForgotten, EpisodeFetched, NoFiles, NoArchive
  <1>2. FilesInv /\ TypeOK' /\ [Next]_vars => FilesInv'
    BY FilesStep
  <1> QED
    BY <1>1, <1>2, TypeCorrect, PTL DEF Spec

\* A chapter that is recorded as complete has all its pages, in the directory or
\* in the archive, whatever failed, was cancelled, strayed or crashed before, as
\* long as no whole archive was written over; and an episode whose leftovers
\* could be deleted is whole.
THEOREM CompleteChaptersHaveAllPages == Spec => []CompleteHasAllPages
  <1>1. FilesInv => CompleteHasAllPages
    BY DEF FilesInv, CompleteHasAllPages, AllOnDisk, NothingForgotten, EpisodeFetched, NoPageLost
  <1> QED
    BY <1>1, FilesInvariant, PTL

\* A page goes only once it is in an archive that is whole, or that archive has
\* replaced another one; or with the chapter.
THEOREM PagesDeletedOnceArchived == Spec => DeletedOnceArchived
  <1>1. ASSUME FilesInv, Next, kind = "manga", NEW p \in Pages, disk[p] # "absent", disk'[p] = "absent"
        PROVE  \/ cbz.state = "whole" /\ (p \in cbz.pages \/ repacked)
               \/ record = "done" /\ record' = "none"
    <2> USE <1>1 DEF FilesInv, TypeOK
    <2>1. CASE \E q \in Pages : DeletePage(q)
      BY <2>1 DEF DeletePage, DeletingHasArchive, NothingForgotten, OnlyMangaPacked, Files
    <2>2. CASE DeleteDownloadedFiles
      BY <2>2 DEF DeleteDownloadedFiles
    <2>3. CASE List
      BY <2>3 DEF List, Listed
    <2>4. CASE \E q \in Pages : \/ NovelFetched(q) \/ NovelWritten(q) \/ WriteBegins(q)
                                 \/ WriteEnds(q) \/ StrayGoesOn(q)
      BY <2>4 DEF NovelFetched, NovelWritten, WriteBegins, WriteEnds, StrayGoesOn
    <2>5. CASE UNCHANGED disk
      BY <2>5
    <2> QED
      BY <2>1, <2>2, <2>3, <2>4, <2>5 DEF Next, Start, NovelFails, TaskCompletes, CoverFails,
          Finish, TakeBatch, Retry, FileFails, ArchiveBegins, ArchiveEnds, ArchiveFails,
          DeleteEnds, Cancel, Crash, SetSaveAsCBZ
  <1>2. FilesInv /\ [Next]_vars =>
            [kind = "manga" =>
               \A p \in Pages : disk[p] # "absent" /\ disk'[p] = "absent" =>
                   \/ cbz.state = "whole" /\ (p \in cbz.pages \/ repacked)
                   \/ record = "done" /\ record' = "none"]_vars
    BY <1>1
  <1> QED
    BY <1>2, FilesInvariant, PTL DEF Spec, DeletedOnceArchived
=============================================================================
