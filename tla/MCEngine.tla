------------------------------ MODULE MCEngine ------------------------------
(***************************************************************************)
(* Two extensions: the app uses every call of the first, one of the        *)
(* second.  The samples name every field and every kind at least once.     *)
(***************************************************************************)
EXTENDS Engine

CONSTANTS s1, s2

MCSources == {s1, s2}

Ops == {"get_manga_list", "get_search_manga_list", "get_manga_update", "get_page_list",
        "get_filters", "get_listings", "get_base_url", "handle_deep_link",
        "handle_basic_login", "handle_web_login", "handle_key_migration", "get_image_request"}

\* The calls with many replies.
MCAlone == (Ops \ {"handle_basic_login"}) \cup {"dispose"}

MCUsed == s1 :> Ops \cup {"features", "dispose"} @@ s2 :> {"features", "handle_basic_login"}
MCExports == s1 :> Ops @@ s2 :> {}

A == <<1>>
B == <<2, 1>>

Ch == [key |-> A, title |-> <<B>>, chapter_number |-> << <<5>> >>, volume_number |-> <<>>,
       date_uploaded |-> <<-37>>, scanlators |-> << <<A, B>> >>, url |-> <<>>,
       language |-> << <<>> >>, thumbnail |-> <<A>>, locked |-> TRUE]

\* What the app has of a manga: the enumerations are numbers there.
Bare == [source_key |-> <<>>, key |-> A, title |-> B, cover |-> <<>>, artists |-> <<>>,
         authors |-> <<>>, description |-> <<>>, url |-> <<>>, tags |-> <<>>, status |-> 4,
         content_rating |-> 2, viewer |-> 3, update_strategy |-> 1, next_update_time |-> <<>>,
         chapters |-> <<>>]

Full == [Bare EXCEPT !.cover = <<B>>, !.artists = << <<>> >>, !.authors = << <<B, A>> >>,
                     !.tags = << <<A>> >>, !.next_update_time = <<63>>, !.chapters = << <<Ch>> >>]

FilterValues ==
  { <<[kind |-> "Text", id |-> A, value |-> B]>>, <<[kind |-> "Select", id |-> A, value |-> B]>>,
    <<[kind |-> "Sort", id |-> A, index |-> -16, ascending |-> FALSE]>>,
    <<[kind |-> "Check", id |-> A, checked |-> 1]>>,
    <<[kind |-> "MultiSelect", id |-> A, included |-> <<A>>, excluded |-> <<>>]>>,
    <<[kind |-> "MultiSelect", id |-> A, included |-> <<>>, excluded |-> <<A>>]>>,
    <<[kind |-> "Range", id |-> A, from |-> << <<1>> >>, to |-> <<>>]>>,
    <<[kind |-> "Range", id |-> A, from |-> <<>>, to |-> << <<1>> >>]>>,
    <<>> }

MCArgs ==
  [op \in {"get_filters", "get_listings", "get_base_url", "handle_deep_link",
           "handle_basic_login", "handle_key_migration"} |-> {Nothing}]
  @@ "get_manga_list" :> {[id |-> A, name |-> B], [id |-> B, name |-> A]}
  @@ "get_search_manga_list" :> FilterValues
  @@ "get_manga_update" :> {Bare, Full}
  @@ "get_page_list" :> {[manga |-> Bare, chapter |-> Ch],
                         [manga |-> Bare, chapter |-> [Ch EXCEPT !.locked = FALSE]]}
  @@ "handle_web_login" :> {<<>>, <<[key |-> A, value |-> B]>>}
  @@ "get_image_request" :> {[url |-> A, context |-> <<>>], [url |-> A, context |-> << <<>> >>]}

MCStored == 3 :> <<6, 0>>
MCRequests == 4 :> << <<2>> >> @@ 5 :> <<>>

Whole(bytes, sent) == [kind |-> "data", is |-> "whole", bytes |-> bytes, sent |-> sent]
Wild(bytes) == [kind |-> "data", is |-> "wild", bytes |-> bytes, sent |-> Nothing]
WithCuts(r) ==
  {r} \cup {[kind |-> "data", is |-> "cut", bytes |-> SubSeq(r.bytes, 1, n), sent |-> Nothing] :
              n \in 0..(Len(r.bytes) - 1)}

MangaBytes(m) == MangaTo(FromAidokuManga(m))

Filter(kind, config) ==
  [id |-> A, title |-> <<B>>, hide_from_header |-> <<>>, kind |-> kind, config |-> config]
Configs ==
  { Filter("text", [placeholder |-> <<B>>]),
    Filter("sort", [can_ascend |-> <<TRUE>>, options |-> <<A, B>>,
                    default_value |-> << [index |-> -3, ascending |-> <<FALSE>>] >>]),
    Filter("check", [name |-> <<B>>, can_exclude |-> <<FALSE>>, default_value |-> <<>>]),
    Filter("select", [is_genre |-> <<TRUE>>, uses_tag_style |-> <<FALSE>>, options |-> <<A, B>>,
                      ids |-> << <<>> >>, default_value |-> <<A>>]),
    Filter("multi-select", [is_genre |-> <<FALSE>>, can_exclude |-> <<TRUE>>,
                            uses_tag_style |-> <<>>, options |-> <<B>>, ids |-> <<>>,
                            default_included |-> << <<A>> >>, default_excluded |-> <<>>]),
    Filter("note", [text |-> B]),
    Filter("range", [min |-> << <<0>> >>, max |-> << <<4>> >>, decimal |-> <<TRUE>>]) }

\* What the app is to see of a filter, said once more, kind by kind.
Shown(f) ==
  [id |-> A, title |-> <<B>>, kind |-> f.kind,
   options |-> CASE f.kind \in {"sort", "select"} -> <<A, B>>
                 [] f.kind = "multi-select" -> <<B>> [] OTHER -> <<>>,
   default_value |-> CASE f.kind = "select" -> <<A>>
                       [] f.kind \in {"text", "check", "note"} -> <<B>> [] OTHER -> <<>>]

TwoFilters(f) == Whole(<<2>> \o FilterTo(f) \o FilterTo(f), <<Shown(f), Shown(f)>>)

\* A page as the extension sends it: its content, no thumbnail, no description.
PageBytes(c, ref) == PageContentTo(c, ref) \o <<0, 0, 0>>
Contents ==
  { [kind |-> "Url", url |-> A, context |-> <<>>],
    [kind |-> "Url", url |-> B, context |-> << <<[key |-> A, value |-> B]>> >>],
    [kind |-> "Text", text |-> B], [kind |-> "Image", image_data |-> << <<6, 0>> >>],
    [kind |-> "ZipFile", url |-> A, file_path |-> B] }
TwoPages(c) ==
  LET seen == IF c.kind = "Url" THEN [c EXCEPT !.context = OrElse(@, <<>>)] ELSE c
  IN  Whole(<<2>> \o PageBytes(c, 3) \o PageBytes(c, 3), <<seen, seen>>)

Link == [manga_key |-> <<A>>, chapter_key |-> <<>>,
         listing |-> << [id |-> B, name |-> A, kind |-> "List"] >>]

\* A length that is too large for the word with the place it is read at.
Huge == <<7, 7, 7, 1>>

Data(op) ==
  CASE op \in {"get_manga_list", "get_search_manga_list"} ->
         {Whole(<<2>> \o MangaBytes(Bare) \o MangaBytes(Full) \o <<1>>,
                [entries |-> <<Bare, Full>>, has_next_page |-> TRUE])}
    [] op = "get_manga_update" -> WithCuts(Whole(MangaBytes(Full), Full)) \cup {Wild(Huge)}
    [] op = "get_page_list" -> UNION {WithCuts(TwoPages(c)) : c \in Contents}
    [] op = "get_filters" ->
         UNION {WithCuts(TwoFilters(f)) : f \in Configs}
         \cup {Whole(<<1, 0, 0, 0, 2, 1, 2>>,
                     <<[id |-> <<1, 2>>, title |-> <<>>, kind |-> "text", options |-> <<>>,
                        default_value |-> <<>>]>>)}
    [] op = "get_listings" ->
         WithCuts(Whole(<<1>> \o Write(ListingFields, [id |-> A, name |-> B, kind |-> "List"]),
                        <<[id |-> A, name |-> B, is_list |-> TRUE]>>))
    [] op = "get_base_url" -> WithCuts(Whole(<<1, 2, 2, 1>>, <<B>>))
         \cup {Whole(<<0>>, <<>>), Wild(<<1>> \o Huge), Wild(<<3>>), Wild(<<1, 1, 5>>),
               Wild(<<1, 7, 7, 7, 7>>)}
    [] op = "handle_deep_link" ->
         WithCuts(Whole(Write(DeepLinkFrom, Link),
                        <<[Link EXCEPT !.listing = <<[id |-> B, name |-> A, is_list |-> TRUE]>>]>>))
    [] op = "handle_key_migration" -> WithCuts(Whole(WriteString(B), B))
    [] op = "get_image_request" ->
         {Whole(Write(I32, 4), << <<2>> >>), Whole(Write(I32, 5), <<A>>),
          Whole(Write(I32, -1), <<>>)}
    [] OTHER -> {}

Failures == {[kind |-> "trap"], [kind |-> "unreadable"], [kind |-> "message"]}
Codes(codes) == {[kind |-> "code", code |-> n] : n \in codes}

MCReplies ==
  [op \in Logins |-> Failures \cup Codes({0, 1, -3})]
  @@ [op \in Ops \ Logins |-> Failures \cup Codes({-1, -3}) \cup Data(op)]

MCSettingData ==
  {[kind |-> 2, data |-> WriteVar(ZigzagEncode(-16))], [kind |-> 5, data |-> <<2, 1, 1, 1, 2>>],
   [kind |-> 1, data |-> <<>>]}
MCAppValues == {[type |-> 5, text |-> <<1, 3, 2>>], [type |-> 2, text |-> B]}
=============================================================================
