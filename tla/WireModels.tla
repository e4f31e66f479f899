----------------------------- MODULE WireModels -----------------------------
(***************************************************************************)
(* The values the app and an extension exchange (models.rs), the order in  *)
(* which each is read and written, and the plain copies of them the app    *)
(* sees (api/aidoku_wasm.rs).  Where the code has a reader and a writer of *)
(* the same value both are here, each from its own function.               *)
(***************************************************************************)
EXTENDS Wire

PublishingStatus == <<"Unknown", "Ongoing", "Completed", "Cancelled", "Hiatus">>
ContentRating == <<"Unknown", "Safe", "Suggestive", "Nsfw">>
Viewer == <<"Unknown", "LeftToRight", "RightToLeft", "Vertical", "Webtoon">>
UpdateStrategy == <<"Always", "Never">>
ListingKind == <<"Default", "List">>
Enum(names) == <<"enum", names>>

OrElse(option, default) == IF option = <<>> THEN default ELSE option[1]

(* Chapter, Manga ---------------------------------------------------------- *)

ChapterFrom == Struct(<<
  <<"key", Str>>, <<"title", Opt(Str)>>, <<"chapter_number", Opt(F32)>>,
  <<"volume_number", Opt(F32)>>, <<"date_uploaded", Opt(I64)>>,
  <<"scanlators", Opt(ListOf(Str))>>, <<"url", Opt(Str)>>, <<"language", Opt(Str)>>,
  <<"thumbnail", Opt(Str)>>, <<"locked", Bool>> >>)

ChapterTo == Struct(<<
  <<"key", Str>>, <<"title", Opt(Str)>>, <<"chapter_number", Opt(F32)>>,
  <<"volume_number", Opt(F32)>>, <<"date_uploaded", Opt(I64)>>,
  <<"scanlators", Opt(ListOf(Str))>>, <<"url", Opt(Str)>>, <<"language", Opt(Str)>>,
  <<"thumbnail", Opt(Str)>>, <<"locked", Bool>> >>)

\* The key of the source is not coded; the caller fills it in or leaves it.
MangaFields == Struct(<<
  <<"key", Str>>, <<"title", Str>>, <<"cover", Opt(Str)>>, <<"artists", Opt(ListOf(Str))>>,
  <<"authors", Opt(ListOf(Str))>>, <<"description", Opt(Str)>>, <<"url", Opt(Str)>>,
  <<"tags", Opt(ListOf(Str))>>, <<"status", Enum(PublishingStatus)>>,
  <<"content_rating", Enum(ContentRating)>>, <<"viewer", Enum(Viewer)>>,
  <<"update_strategy", Enum(UpdateStrategy)>>, <<"next_update_time", Opt(I64)>>,
  <<"chapters", Opt(ListOf(ChapterFrom))>> >>)

MangaFrom(data, at) ==
  LET Whole(m, end) == Ok(m @@ ("source_key" :> <<>>), end)
  IN  Then(Read(MangaFields, data, at), Whole)

MangaTo(m) ==
  Write(Struct(<<
    <<"key", Str>>, <<"title", Str>>, <<"cover", Opt(Str)>>, <<"artists", Opt(ListOf(Str))>>,
    <<"authors", Opt(ListOf(Str))>>, <<"description", Opt(Str)>>, <<"url", Opt(Str)>>,
    <<"tags", Opt(ListOf(Str))>>, <<"status", Enum(PublishingStatus)>>,
    <<"content_rating", Enum(ContentRating)>>, <<"viewer", Enum(Viewer)>>,
    <<"update_strategy", Enum(UpdateStrategy)>>, <<"next_update_time", Opt(I64)>>,
    <<"chapters", Opt(ListOf(ChapterTo))>> >>), m)

MangaPageFrom(data, at) ==
  LET Page(entries, next) ==
        LET Whole(more, end) == Ok([entries |-> entries, has_next_page |-> more], end)
        IN  Then(ReadBool(data, next), Whole)
      Entry(m) == m @@ ("source_key" :> <<>>)
      Entries(list, end) == Page([i \in DOMAIN list |-> Entry(list[i])], end)
  IN  Then(Read(ListOf(MangaFields), data, at), Entries)

\* A chapter is copied field by field, the same ones in both directions.
CopiedChapter(c) ==
  [field \in {"key", "title", "chapter_number", "volume_number", "date_uploaded",
              "scanlators", "url", "language", "thumbnail", "locked"} |-> c[field]]

CopiedChapters(option) ==
  [i \in DOMAIN option |-> [j \in DOMAIN option[i] |-> CopiedChapter(option[i][j])]]

AsAidokuManga(m) ==
  [m EXCEPT !.status = AsU8(PublishingStatus, @), !.content_rating = AsU8(ContentRating, @),
            !.viewer = AsU8(Viewer, @), !.update_strategy = AsU8(UpdateStrategy, @),
            !.chapters = CopiedChapters(@)]

FromAidokuManga(m) ==
  [m EXCEPT !.status = FromValue(PublishingStatus, @),
            !.content_rating = FromValue(ContentRating, @),
            !.viewer = FromValue(Viewer, @), !.update_strategy = FromValue(UpdateStrategy, @),
            !.chapters = CopiedChapters(@)]

AsAidokuMangaPage(p) == [p EXCEPT !.entries = [i \in DOMAIN @ |-> AsAidokuManga(@[i])]]

(* Page -------------------------------------------------------------------- *)

\* bytes says what a descriptor of the extension's store gives: at most one value.
PageContentFrom(data, at, bytes) ==
  LET Linked(url, next) ==
        LET None(end) == Ok([kind |-> "Url", url |-> url, context |-> <<>>], end)
            Some(pairs, end) == Ok([kind |-> "Url", url |-> url, context |-> <<pairs>>], end)
            Context(tag, start) == IF tag = 1 THEN Then(Read(Pairs, data, start), Some)
                                   ELSE None(start)
        IN  Then(ReadU8(data, next), Context)
      Text(text, end) == Ok([kind |-> "Text", text |-> text], end)
      Image(ref, end) ==
        Ok([kind |-> "Image", image_data |-> IF ref \in DOMAIN bytes THEN <<bytes[ref]>> ELSE <<>>],
           end)
      Archive(v, end) == Ok([kind |-> "ZipFile", url |-> v.url, file_path |-> v.file_path], end)
      Content(ty, next) ==
        CASE ty = 0 -> Then(ReadString(data, next), Linked)
          [] ty = 1 -> Then(ReadString(data, next), Text)
          [] ty = 2 -> Then(ReadI32(data, next), Image)
          [] ty = 3 -> Then(Read(Struct(<< <<"url", Str>>, <<"file_path", Str>> >>), data, next), Archive)
          [] OTHER -> Bad
  IN  Then(ReadU8(data, at), Content)

PageFrom(data, at, bytes) ==
  LET Rest(content, next) ==
        LET Whole(v, end) == Ok(v @@ ("content" :> content), end)
        IN  Then(Read(Struct(<< <<"thumbnail", Opt(Str)>>, <<"has_description", Bool>>,
                                <<"description", Opt(Str)>> >>), data, next), Whole)
  IN  Then(PageContentFrom(data, at, bytes), Rest)

\* The host's writer of a page's content; the bytes of an image are stored first.
PageContentTo(c, ref) ==
  CASE c.kind = "Url" -> <<0>> \o WriteString(c.url) \o WriteOption(Pairs, c.context)
    [] c.kind = "Text" -> <<1>> \o WriteString(c.text)
    [] c.kind = "Image" -> <<2>> \o Write(I32, ref)
    [] c.kind = "ZipFile" -> <<3>> \o WriteString(c.url) \o WriteString(c.file_path)

\* The app sees the content of a page and nothing else of it.
AsAidokuPage(p) ==
  IF p.content.kind = "Url" THEN [p.content EXCEPT !.context = OrElse(@, <<>>)] ELSE p.content

(* Filters ----------------------------------------------------------------- *)

SortDefault == Struct(<< <<"index", I64>>, <<"ascending", Opt(Bool)>> >>)

SelectFilterCfg == Struct(<<
  <<"is_genre", Opt(Bool)>>, <<"uses_tag_style", Opt(Bool)>>, <<"options", ListOf(Str)>>,
  <<"ids", Opt(ListOf(Str))>>, <<"default_value", Opt(Str)>> >>)

MultiSelectFilterCfg == Struct(<<
  <<"is_genre", Opt(Bool)>>, <<"can_exclude", Opt(Bool)>>, <<"uses_tag_style", Opt(Bool)>>,
  <<"options", ListOf(Str)>>, <<"ids", Opt(ListOf(Str))>>,
  <<"default_included", Opt(ListOf(Str))>>, <<"default_excluded", Opt(ListOf(Str))>> >>)

\* The kinds of filter by the string that names them on the wire.
ConfigShape(ty) ==
  CASE ty = "text" -> Struct(<< <<"placeholder", Opt(Str)>> >>)
    [] ty = "sort" -> Struct(<< <<"can_ascend", Opt(Bool)>>, <<"options", ListOf(Str)>>,
                                <<"default_value", Opt(SortDefault)>> >>)
    [] ty = "check" -> Struct(<< <<"name", Opt(Str)>>, <<"can_exclude", Opt(Bool)>>,
                                 <<"default_value", Opt(Bool)>> >>)
    [] ty = "select" -> SelectFilterCfg
    [] ty = "multi-select" -> MultiSelectFilterCfg
    [] ty = "note" -> Struct(<< <<"text", Str>> >>)
    [] ty = "range" -> Struct(<< <<"min", Opt(F32)>>, <<"max", Opt(F32)>>,
                                 <<"decimal", Opt(Bool)>> >>)

\* The seven names, shortened; any other names no kind.
KindNames == [text |-> <<0>>, sort |-> <<1>>, check |-> <<2>>, select |-> <<3>>,
              note |-> <<0, 1>>, range |-> <<0, 2>>] @@ ("multi-select" :> <<0, 0>>)
KindsNamed(name) == {ty \in DOMAIN KindNames : KindNames[ty] = name}

\* A filter of an unknown kind is a text filter, and none of its payload is read.
FilterFrom(data, at) ==
  LET Header == Struct(<< <<"id", Opt(Str)>>, <<"title", Opt(Str)>>,
                          <<"hide_from_header", Opt(Bool)>>, <<"ty", Str>> >>)
      Config(head, next) ==
        LET id == OrElse(head.id, OrElse(head.title, head.ty))
            Filter(ty, cfg) == [id |-> id, title |-> head.title, kind |-> ty, config |-> cfg]
            Known(cfg, end) == Ok(Filter(CHOOSE ty \in KindsNamed(head.ty) : TRUE, cfg), end)
        IN  IF KindsNamed(head.ty) = {} THEN Ok(Filter("text", [placeholder |-> <<>>]), next)
            ELSE Then(Read(ConfigShape(CHOOSE ty \in KindsNamed(head.ty) : TRUE), data, next), Known)
  IN  Then(Read(Header, data, at), Config)

\* The writer the host has of the same filter; its id is always there.
FilterTo(f) ==
  WriteOption(Str, <<f.id>>) \o WriteOption(Str, f.title) \o WriteOption(Bool, f.hide_from_header)
  \o WriteString(KindNames[f.kind]) \o Write(ConfigShape(f.kind), f.config)

\* Of the configuration the app sees the options and one default.
AsAidokuFilter(f) ==
  [id |-> f.id, title |-> f.title, kind |-> f.kind,
   options |-> IF f.kind \in {"sort", "select", "multi-select"} THEN f.config.options ELSE <<>>,
   default_value |-> CASE f.kind = "text" -> f.config.placeholder
                       [] f.kind = "check" -> f.config.name
                       [] f.kind = "select" -> f.config.default_value
                       [] f.kind = "note" -> <<f.config.text>>
                       [] OTHER -> <<>>]

\* Mutant: a select is written as a text.
FilterValueToText(v) ==
  LET shape ==
        CASE v.kind \in {"Text", "Select"} -> << <<"value", Str>> >>
          [] v.kind = "Sort" -> << <<"index", I32>>, <<"ascending", Bool>> >>
          [] v.kind = "Check" -> << <<"checked", I64>> >>
          [] v.kind = "MultiSelect" -> << <<"included", ListOf(Str)>>, <<"excluded", ListOf(Str)>> >>
          [] v.kind = "Range" -> << <<"from", Opt(F32)>>, <<"to", Opt(F32)>> >>
  IN  <<AsU8(<<"Text", "Sort", "Check", "None", "MultiSelect", "Range">>,
             IF v.kind = "Select" THEN "Text" ELSE v.kind)>>
      \o Write(Struct(<< <<"id", Str>> >> \o shape), v)

\* What the user chose in one filter, for the extension.
FilterValueTo(v) ==
  LET shape ==
        CASE v.kind \in {"Text", "Select"} -> << <<"value", Str>> >>
          [] v.kind = "Sort" -> << <<"index", I32>>, <<"ascending", Bool>> >>
          [] v.kind = "Check" -> << <<"checked", I64>> >>
          [] v.kind = "MultiSelect" -> << <<"included", ListOf(Str)>>, <<"excluded", ListOf(Str)>> >>
          [] v.kind = "Range" -> << <<"from", Opt(F32)>>, <<"to", Opt(F32)>> >>
  IN  <<AsU8(<<"Text", "Sort", "Check", "Select", "MultiSelect", "Range">>, v.kind)>>
      \o Write(Struct(<< <<"id", Str>> >> \o shape), v)

FilterValuesTo(values) ==
  WriteVar(Len(values)) \o FlattenSeq([i \in DOMAIN values |-> FilterValueTo(values[i])])

(* Listing, deep link ------------------------------------------------------ *)

ListingFields == Struct(<< <<"id", Str>>, <<"name", Str>>, <<"kind", Enum(ListingKind)>> >>)

AsAidokuListing(l) == [id |-> l.id, name |-> l.name, is_list |-> l.kind = "List"]

DeepLinkFrom == Struct(<< <<"manga_key", Opt(Str)>>, <<"chapter_key", Opt(Str)>>,
                          <<"listing", Opt(ListingFields)>> >>)

AsAidokuDeepLink(d) == [d EXCEPT !.listing = [i \in DOMAIN @ |-> AsAidokuListing(@[i])]]

(* Errors ------------------------------------------------------------------ *)

FromCode(code) ==
  LET names == <<"Unimplemented", "Network", "Html", "Js", "Canvas", "Utf8", "JsonParse",
                 "Deserialize">>
  IN  IF code \in -9..-2 THEN names[-code - 1] ELSE "MissingResult"
=============================================================================
