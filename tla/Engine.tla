------------------------------- MODULE Engine -------------------------------
(***************************************************************************)
(* The threads of the extensions with the format their values cross in:    *)
(* the arguments the host writes for each call, what it makes of each      *)
(* reply (api/aidoku_wasm.rs, interpreter.rs), and of the bytes and texts  *)
(* settings are set with (host_defaults.rs).                               *)
(***************************************************************************)
EXTENDS WireModels, ExtensionThreads

CONSTANTS
  Exports,      \* per extension, the exports its module has
  Args,         \* per call, the arguments the app passes
  Replies,      \* per call, what the extension may reply with
  Stored,       \* the bytes kept under descriptors a page may name
  Requests      \* the requests kept under descriptors a reply may name

(* Settings ---------------------------------------------------------------- *)

SettingShape(type) ==
  CASE type = "Bool" -> Bool
    [] type = "Int" -> I32
    [] type = "Float" -> F32
    [] type = "Str" -> Str
    [] type = "StrList" -> ListOf(Str)

\* A value is kept with its type.
TypeOf(v) == CHOOSE type \in DOMAIN v : TRUE

\* What defaults.get stores for the extension; bytes as they are.
Encoded(v) == IF TypeOf(v) = "Bytes" THEN v.Bytes ELSE Write(SettingShape(TypeOf(v)), v[TypeOf(v)])

\* What defaults.set makes of the bytes: a value, or none when they do not decode.
FromData(kind, data) ==
  LET types == <<"Bool", "Int", "Float", "Str", "StrList">>
      Typed(r) == IF r.is = "ok" THEN << types[kind] :> r.value >> ELSE <<>>
  IN  CASE kind = 0 -> << [Bytes |-> data] >>
        [] kind \in 1..5 -> Typed(CHOOSE r \in Read(SettingShape(types[kind]), data, 1) : TRUE)
        [] OTHER -> <<>>

\* The app passes a setting as a type and a text: here a number is its decimal
\* digit, a list is a text between brackets cut at its commas.
True == <<1>>
Comma == 3
Items(text) ==
  LET cuts == {i \in DOMAIN text : text[i] = Comma} \cup {Len(text) + 1}
      Starts == {0} \cup cuts
      Item(i) == SubSeq(text, i + 1, (CHOOSE j \in cuts : j > i /\ \A k \in cuts : k > i => j <= k) - 1)
      starts == SetToSortSeq(Starts \ {Len(text) + 1}, <)
  IN  SelectSeq([i \in DOMAIN starts |-> Item(starts[i])], LAMBDA item : item # <<>>)

FromText(type, text) ==
  CASE type = 1 -> << [Bool |-> text = True] >>
    [] type = 2 /\ Len(text) = 1 -> << [Int |-> text[1]] >>
    [] type = 3 -> << [Float |-> text] >>
    [] type = 4 -> << [Str |-> text] >>
    [] type = 5 -> << [StrList |-> Items(text)] >>
    [] OTHER -> <<>>

(* What the app hears ------------------------------------------------------ *)

\* What a reader gave, as the app sees it: a panic stays one.
Answered(result, View(_)) ==
  CHOOSE answer \in
    {CASE r.is = "ok" -> Value(View(r.value))
       [] r.is = "error" -> Error("Deserialize")
       [] r.is = "panic" -> Panic : r \in result} : TRUE

Same(v) == v
Each(View(_), list) == [i \in DOMAIN list |-> View(list[i])]

AsMangaPage(data) == Answered(MangaPageFrom(data, 1), AsAidokuMangaPage)
AsManga(data) == Answered(MangaFrom(data, 1), AsAidokuManga)

AsPages(data) ==
  LET RECURSIVE Pages(_, _, _)
      Pages(n, at, got) ==
        IF n = 0 THEN Ok(got, at)
        ELSE LET Rest(page, next) == Pages(n - 1, next, Append(got, AsAidokuPage(page)))
             IN  Then(PageFrom(data, at, Stored), Rest)
      Counted(n, at) == Pages(n, at, <<>>)
  IN  Answered(Then(ReadU64(data, 1), Counted), Same)

AsFilters(data) ==
  LET RECURSIVE Filters(_, _, _)
      Filters(n, at, got) ==
        IF n = 0 THEN Ok(got, at)
        ELSE LET Rest(filter, next) == Filters(n - 1, next, Append(got, AsAidokuFilter(filter)))
             IN  Then(FilterFrom(data, at), Rest)
      Counted(n, at) == Filters(n, at, <<>>)
  IN  Answered(Then(ReadU64(data, 1), Counted), Same)

AsListings(data) ==
  LET View(list) == Each(AsAidokuListing, list)
  IN  Answered(Read(ListOf(ListingFields), data, 1), View)

AsBaseUrl(data) == Answered(Read(Opt(Str), data, 1), Same)

AsDeepLink(data) ==
  LET View(d) == <<AsAidokuDeepLink(d)>>
  IN  Answered(Read(DeepLinkFrom, data, 1), View)

AsMigrated(data) == Answered(ReadString(data, 1), Same)

\* A request the extension made has its own address, or the image's.
AsImageRequest(data, arg) ==
  LET View(rid) ==
        IF rid \in DOMAIN Requests THEN <<OrElse(Requests[rid], arg.url)>> ELSE <<>>
  IN  Answered(ReadI32(data, 1), View)

Decoded(op, arg, data) ==
  CASE op \in {"get_manga_list", "get_search_manga_list"} -> AsMangaPage(data)
    [] op = "get_manga_update" -> AsManga(data)
    [] op = "get_page_list" -> AsPages(data)
    [] op = "get_filters" -> AsFilters(data)
    [] op = "get_listings" -> AsListings(data)
    [] op = "get_base_url" -> AsBaseUrl(data)
    [] op = "handle_deep_link" -> AsDeepLink(data)
    [] op = "handle_key_migration" -> AsMigrated(data)
    [] op = "get_image_request" -> AsImageRequest(data, arg)

Logins == {"handle_basic_login", "handle_web_login"}
Quiet == {"handle_deep_link", "get_image_request"}

\* A negative result is an error, but for two calls it is no answer.
Negative(op, code) == IF op \in Quiet THEN Value(<<>>) ELSE Error(FromCode(code))

Answer(op, arg, reply) ==
  CASE reply.kind = "features" -> Value(reply.exports)
    [] reply.kind = "disposed" -> Value(TRUE)
    [] reply.kind = "missing" ->
         IF op = "get_image_request" THEN Value(<<>>) ELSE Error("Unimplemented")
    [] reply.kind = "trap" -> Error("trap")
    [] reply.kind = "code" ->
         IF op \in Logins THEN Value(reply.code = 1) ELSE Negative(op, reply.code)
    [] reply.kind = "message" -> Error("message")
    [] reply.kind = "unreadable" -> Error("Deserialize")
    [] reply.kind = "data" -> Decoded(op, arg, reply.bytes)

\* The calls with their arguments and what may come of them: two of the calls
\* are the host's own.
Arguments(op) == (Args @@ [o \in {"features", "dispose"} |-> {Nothing}])[op]
Outcomes == Replies @@ [op \in {"dispose"} |-> {[kind |-> "disposed"]}]

\* A module without the export does nothing.
RepliesOf(s, op) ==
  CASE op = "features" -> {[kind |-> "features", exports |-> Exports[s]]}
    [] op \in Exports[s] \cup {"dispose"} -> Outcomes[op]
    [] OTHER -> {[kind |-> "missing"]}

\* The buffers the host writes for the arguments of a call.
Passed(op, arg) ==
  CASE op = "get_search_manga_list" -> <<FilterValuesTo(arg)>>
    [] op = "get_manga_update" -> <<MangaTo(FromAidokuManga(arg))>>
    [] op = "get_page_list" ->
         <<MangaTo(FromAidokuManga(arg.manga)), Write(ChapterTo, CopiedChapter(arg.chapter))>>
    [] op = "get_manga_list" -> <<Write(ListingFields, arg @@ ("kind" :> "Default"))>>
    [] op = "handle_web_login" -> <<Write(Pairs, arg)>>
    [] op = "get_image_request" ->
         <<WriteString(arg.url)>> \o [i \in DOMAIN arg.context |-> Write(Pairs, arg.context[i])]
    [] OTHER -> <<>>

(* Properties -------------------------------------------------------------- *)

\* A reply reaches the app as the value the extension sent, each field in its
\* place, and one that was cut short as an error, never as another value
\* (postcard.rs, models.rs and the conversions of the api).
ReplyIsWhatWasSent ==
  (heard # Nothing /\ "reply" \in DOMAIN heard /\ heard.reply.kind = "data") =>
    /\ heard.reply.is = "whole" => heard.answer = Value(heard.reply.sent)
    /\ heard.reply.is = "cut" => heard.answer = Error("Deserialize")

\* The buffers of two different arguments of a call differ before either ends:
\* an extension that reads them cannot take one argument for the other.
ArgumentsTellApart ==
  \A s \in Sources : current[s] # Nothing =>
    LET sent == Passed(current[s].op, current[s].arg)
    IN  \A other \in Arguments(current[s].op) \ {current[s].arg} :
          LET instead == Passed(current[s].op, other)
          IN  sent # <<>> =>
                \/ Len(sent) # Len(instead)
                \/ \E i \in DOMAIN sent :
                     ~IsPrefix(sent[i], instead[i]) /\ ~IsPrefix(instead[i], sent[i])
=============================================================================
