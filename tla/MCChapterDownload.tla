------------------------- MODULE MCChapterDownload -------------------------
(* Instances of ChapterDownload for TLC. *)
EXTENDS ChapterDownload, TLC

CONSTANTS c1, c2, s1

\* Two chapters of one source: pages and segments, or pages and text.
MCIds == {c1, c2}
MCSourcesOf == c1 :> {s1} @@ c2 :> {s1}
MCKinds == {c1 :> "pages" @@ c2 :> "hls", c1 :> "pages" @@ c2 :> "novel"}

\* The first of these only.
MCOneKind == {c1 :> "pages" @@ c2 :> "hls"}

MCPlainQueue == {<<>>}
=============================================================================
