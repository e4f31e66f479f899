---------------------------- MODULE HostImports ----------------------------
(***************************************************************************)
(* The objects one extension keeps on the host (store.rs) and the calls    *)
(* that make, use and destroy them: the app's calls of the extension's     *)
(* exports (interpreter.rs) and, while one runs, the extension's calls of  *)
(* the std, net, js and canvas imports (host_*.rs).  A descriptor names an *)
(* object; the extension destroys what an import gave it, the host what it *)
(* stored as an argument, and a result may carry a descriptor to the app.  *)
(* JavaScript contexts and web views live on the Dart side under the same  *)
(* numbers (js_manager.dart).                                              *)
(***************************************************************************)
EXTENDS Integers, Sequences, FiniteSets, Functions

CONSTANTS
  MaxDesc,    \* bound: descriptors issued before the store is empty again
  Imports     \* the import namespaces the extension uses

VARIABLES
  store,     \* GlobalStore: the stored values and the next descriptor
  call,      \* the export that runs if its result may carry descriptors, Plainly
             \* for any other and for the start of the module, or Idle
  args,      \* descriptors the host stored for it
  held,      \* descriptors the imports gave the extension, not destroyed
  given,     \* descriptors handed to the app in a result
  contexts,  \* JavaScript runtimes of the Dart side, by descriptor
  webviews,  \* web views of the Dart side, by descriptor
  disposal,  \* "none", "busy" or "quiet" (asked for, in or out of a call), "done"
  ret        \* what the last import or export returned

vars == <<store, call, args, held, given, contexts, webviews, disposal, ret>>

Idle == "idle"
Plainly == "plainly"

(* GlobalStore ---------------------------------------------------------- *)

\* A map with v for the descriptors ds.
With(map, ds, v) == [d \in DOMAIN map \cup ds |-> IF d \in ds THEN v ELSE map[d]]

\* Mutant: the counter stays where it is.
StoredKeepsNext(s, v) == [storage |-> With(s.storage, {s.next}, v), next |-> s.next]

Stored(s, v) == [storage |-> With(s.storage, {s.next}, v), next |-> s.next + 1]

Replaced(s, d, v) == [storage |-> With(s.storage, {d}, v), next |-> s.next]

\* Mutant: the numbers start again while one object is left.
RemovedRestartsEarly(s, d) ==
  LET rest == Restrict(s.storage, DOMAIN s.storage \ {d})
  IN  [storage |-> rest, next |-> IF Cardinality(DOMAIN rest) <= 1 THEN 1 ELSE s.next]

Removed(s, d) ==
  LET rest == Restrict(s.storage, DOMAIN s.storage \ {d})
  IN  [storage |-> rest, next |-> IF DOMAIN rest = {} THEN 1 ELSE s.next]

Cleared == [storage |-> <<>>, next |-> 1]

Kind(d) == IF d \in DOMAIN store.storage THEN store.storage[d].kind ELSE "none"

AsBytes(d) == IF Kind(d) = "Bytes" THEN {store.storage[d].image} ELSE {}

Bytes(image) == [kind |-> "Bytes", image |-> image]
NetRequest(url, response) == [kind |-> "NetRequest", url |-> url, response |-> response]
Plain(kind) == [kind |-> kind]
Responses == {"none", "ok", "error"}

(* What the extension does inside a call --------------------------------- *)

Using(import) == call # Idle /\ import \in Imports

\* A descriptor the extension may pass to an import.
InHand == held \cup args

Return(code) == ret' = code

Fail(code) ==
  /\ Return(code)
  /\ UNCHANGED <<store, held>>

\* An import that stores a value and returns its descriptor.
Issue(v) ==
  /\ store.next <= MaxDesc
  /\ store' = Stored(store, v)
  /\ held' = held \cup {store.next}
  /\ Return(store.next)

Keep == UNCHANGED <<call, args, given, disposal>>
KeepDart == Keep /\ UNCHANGED <<contexts, webviews>>

Init ==
  /\ store = Cleared
  /\ call = Plainly
  /\ args = {}
  /\ held = {}
  /\ given = {}
  /\ contexts = {}
  /\ webviews = {}
  /\ disposal = "none"
  /\ ret = 0

(* std ------------------------------------------------------------------- *)

\* Mutant: the Dart side is not told of a runtime.
DestroyKeepsRuntime(d) ==
  /\ webviews' = IF Kind(d) = "WebviewContext" THEN webviews \ {d} ELSE webviews
  /\ store' = Removed(store, d)
  /\ Return(0)
  /\ UNCHANGED contexts

\* The Dart side forgets the runtime or the web view before the store does.
Destroy(d) ==
  /\ contexts' = IF Kind(d) = "JsContext" THEN contexts \ {d} ELSE contexts
  /\ webviews' = IF Kind(d) = "WebviewContext" THEN webviews \ {d} ELSE webviews
  /\ store' = Removed(store, d)
  /\ Return(0)

DestroyHeld(d) ==
  /\ call # Idle
  /\ d \in held
  /\ Destroy(d)
  /\ held' = held \ {d}
  /\ Keep

BufferLen(d) ==
  /\ Using("std")
  /\ Return(IF AsBytes(d) = {} THEN -1 ELSE 0)
  /\ UNCHANGED <<store, held>>
  /\ KeepDart

\* The destination may be out of the extension's memory, or too much asked for.
ReadBuffer(d) ==
  /\ Using("std")
  /\ \E code \in {0, -2, -3} : Return(IF AsBytes(d) = {} THEN -1 ELSE code)
  /\ UNCHANGED <<store, held>>
  /\ KeepDart

\* The date, the log, a sleep and a partial result, for which there is no handler:
\* nothing of the host's objects changes.  A date that does not parse is -5.
StdQuiet ==
  /\ Using("std")
  /\ \E code \in {0, -5} : Fail(code)
  /\ KeepDart

EnvQuiet ==
  /\ Using("env")
  /\ Fail(0)
  /\ KeepDart

(* net ------------------------------------------------------------------- *)

NetInit ==
  /\ Using("net")
  /\ Issue(NetRequest(FALSE, "none"))
  /\ KeepDart

Request(d) == store.storage[d]

\* A setter: its argument may lie out of the extension's memory.
Setter(d, bad, v) ==
  /\ Using("net")
  /\ \/ \E code \in bad : Fail(code)
     \/ Kind(d) # "NetRequest" /\ Fail(-1)
     \/ /\ Kind(d) = "NetRequest"
        /\ store' = Replaced(store, d, v)
        /\ Return(0)
        /\ UNCHANGED held
  /\ KeepDart

NetSetUrl(d) == Setter(d, {-4}, NetRequest(TRUE, IF Kind(d) = "NetRequest" THEN Request(d).response ELSE "none"))

\* The headers, the body and the timeout only travel with the request.
NetSetHeader(d) == Setter(d, {-2}, store.storage[d])

NetSetBody(d) == Setter(d, {-2}, store.storage[d])

NetSetTimeout(d) == Setter(d, {}, store.storage[d])

\* One request: [store, code] for the answer `r` of the Dart handler.
SendOne(s, d, r) ==
  IF d \notin DOMAIN s.storage \/ s.storage[d].kind # "NetRequest" THEN [store |-> s, code |-> -1]
  ELSE IF ~s.storage[d].url THEN [store |-> s, code |-> -9]
  ELSE [store |-> Replaced(s, d, NetRequest(TRUE, r)), code |-> IF r = "error" THEN -3 ELSE 0]

NetSend(d) ==
  /\ Using("net")
  /\ \E r \in {"ok", "error"} :
       LET sent == SendOne(store, d, r) IN store' = sent.store /\ Return(sent.code)
  /\ UNCHANGED held
  /\ KeepDart

\* The requests in turn, up to the first that fails; an answer is kept for all
\* that were sent, the failed one included if it had a URL.  The list itself may
\* lie out of memory.
NetSendAll(ds) ==
  /\ Using("net")
  /\ \/ Fail(-1)
     \/ \E rs \in [DOMAIN ds -> {"ok", "error"}] :
          LET code(i) == SendOne(store, ds[i], rs[i]).code
              tried == {i \in DOMAIN ds : \A j \in 1 .. i - 1 : code(j) = 0}
              sent(d) == {i \in tried : ds[i] = d /\ code(i) \in {0, -3}}
              last(d) == CHOOSE i \in sent(d) : \A j \in sent(d) : j <= i
          IN  /\ store' =
                    [storage |-> [d \in DOMAIN store.storage |->
                                    IF sent(d) = {} THEN store.storage[d] ELSE NetRequest(TRUE, rs[last(d)])],
                     next |-> store.next]
              /\ Return(code(CHOOSE i \in tried : \A j \in tried : j <= i))
              /\ UNCHANGED held
  /\ KeepDart

Responded(d) == Kind(d) = "NetRequest" /\ Request(d).response # "none"

NetDataLen(d) ==
  /\ Using("net")
  /\ Fail(IF Responded(d) THEN 0 ELSE -1)
  /\ KeepDart

NetReadData(d) ==
  /\ Using("net")
  /\ \E code \in {0, -3} : Fail(IF Responded(d) THEN code ELSE -1)
  /\ KeepDart

NetGetStatusCode(d) ==
  /\ Using("net")
  /\ Fail(IF Responded(d) THEN 0 ELSE -1)
  /\ KeepDart

\* The body as bytes, which may or may not be an image; empty after an error.
NetGetImage(d) ==
  /\ Using("net")
  /\ IF Responded(d)
     THEN \E image \in BOOLEAN : (image => Request(d).response = "ok") /\ Issue(Bytes(image))
     ELSE Fail(-5)
  /\ KeepDart

NetGetUrl(d) ==
  /\ Using("net")
  /\ IF Kind(d) = "NetRequest" /\ Request(d).url THEN Issue(Bytes(FALSE)) ELSE Fail(-5)
  /\ KeepDart

NetGetHeader(d) ==
  /\ Using("net")
  /\ \/ Fail(-5)
     \/ Responded(d) /\ Issue(Bytes(FALSE))
  /\ KeepDart

NetHtml(d) ==
  /\ Using("net")
  /\ IF Responded(d) THEN Issue(Plain("HtmlDocRoot")) ELSE Fail(-5)
  /\ KeepDart

(* canvas ---------------------------------------------------------------- *)

CanvasNewContext ==
  /\ Using("canvas")
  /\ Issue(Plain("CanvasContext")) \/ Fail(-6)
  /\ KeepDart

\* The image of a descriptor: bytes are decoded in place, for good.
ResolveImage(d) ==
  IF Kind(d) = "Image" \/ AsBytes(d) = {TRUE}
  THEN [found |-> TRUE, store |-> Replaced(store, d, Plain("Image"))]
  ELSE [found |-> FALSE, store |-> store]

DrawOrCopy(ctx, d) ==
  /\ Using("canvas")
  /\ LET src == ResolveImage(d)
     IN  /\ store' = src.store
         /\ Return(IF ~src.found THEN -3 ELSE IF Kind(ctx) = "CanvasContext" THEN 0 ELSE -1)
  /\ UNCHANGED held
  /\ KeepDart

DrawImage(ctx, d) == DrawOrCopy(ctx, d)
CopyImage(ctx, d) == DrawOrCopy(ctx, d)

CanvasNewImage ==
  /\ Using("canvas")
  /\ Issue(Plain("Image")) \/ Fail(-3)
  /\ KeepDart

CanvasGetImage(ctx) ==
  /\ Using("canvas")
  /\ (Kind(ctx) = "CanvasContext" /\ Issue(Bytes(TRUE))) \/ Fail(-1)
  /\ KeepDart

CanvasGetImageData(d) ==
  /\ Using("canvas")
  /\ LET src == ResolveImage(d)
     IN  IF src.found
         THEN /\ src.store.next <= MaxDesc
              /\ store' = Stored(src.store, Bytes(TRUE))
              /\ held' = held \cup {src.store.next}
              /\ Return(src.store.next)
         ELSE Fail(-3)
  /\ KeepDart

CanvasGetImageWidth(d) ==
  /\ Using("canvas")
  /\ LET src == ResolveImage(d)
     IN  store' = src.store /\ Return(IF src.found THEN 0 ELSE -3)
  /\ UNCHANGED held
  /\ KeepDart

CanvasGetImageHeight(d) == CanvasGetImageWidth(d)

\* fill, stroke and draw_text do nothing and return 0; new_font, system_font and
\* load_font store nothing either and return the descriptor 1.
CanvasStub ==
  /\ Using("canvas")
  /\ \E code \in {0, 1} : Fail(code)
  /\ KeepDart

(* js -------------------------------------------------------------------- *)

KeepJs == Keep /\ UNCHANGED webviews
KeepWeb == Keep /\ UNCHANGED contexts

\* _getOrCreateContext: the runtime under this number, if it could be made.
RuntimeOf(d, works) ==
  /\ contexts' = IF works THEN contexts \cup {d} ELSE contexts
  /\ d \in contexts => works

\* The descriptor is returned whether or not the Dart side made the context.
ContextCreate ==
  /\ Using("js")
  /\ Issue(Plain("JsContext"))
  /\ \E works \in BOOLEAN : RuntimeOf(store.next, works)
  /\ KeepJs

\* A script out of memory gives -3; one that fails, or no runtime, -1.
JsEvaluate(d) ==
  /\ Using("js")
  /\ d \in held /\ Kind(d) = "JsContext"
  /\ \/ Fail(-3) /\ UNCHANGED contexts
     \/ \E works \in BOOLEAN :
          RuntimeOf(d, works) /\ (Fail(-1) \/ (works /\ Issue(Bytes(FALSE))))
  /\ KeepJs

ContextEval(d) == JsEvaluate(d)
ContextEvalAsync(d) == JsEvaluate(d)
ContextGet(d) == JsEvaluate(d)

WebviewCreate ==
  /\ Using("webview")
  /\ Issue(Plain("WebviewContext"))
  /\ webviews' = webviews \cup {store.next}
  /\ KeepWeb

OnWebview(d) == Using("webview") /\ d \in held /\ Kind(d) = "WebviewContext"

\* Requests that find or make the view; whether loading fails is its affair.
WebviewReach(d, codes) ==
  /\ OnWebview(d)
  /\ \/ Fail(-3) /\ UNCHANGED webviews
     \/ (\E code \in codes : Fail(code)) /\ webviews' = webviews \cup {d}
  /\ KeepWeb

WebviewLoad(d) == WebviewReach(d, {0, -1})
WebviewLoadHtml(d) == WebviewReach(d, {0, -1})
WebviewAddUserScript(d) == WebviewReach(d, {0})

\* Requests that answer 0 whatever the Dart side says and make no view.
WebviewQuiet(d, codes) ==
  /\ OnWebview(d)
  /\ \E code \in codes : Fail(code)
  /\ UNCHANGED webviews
  /\ KeepWeb

WebviewSetRuleList(d) == WebviewQuiet(d, {0, -3})
WebviewWaitForLoad(d) == WebviewQuiet(d, {0})
WebviewDeleteCookie(d) == WebviewQuiet(d, {0, -3})

WebviewRun(d) ==
  /\ OnWebview(d)
  /\ \/ \E code \in {-3, -1} : Fail(code)
     \/ d \in webviews /\ Issue(Bytes(FALSE))
  /\ UNCHANGED webviews
  /\ KeepWeb

WebviewEval(d) == WebviewRun(d)
WebviewEvalAsync(d) == WebviewRun(d)

\* The cookies of the view, or an empty list when there are none.
WebviewGetCookies(d) ==
  /\ OnWebview(d)
  /\ Issue(Bytes(FALSE))
  /\ UNCHANGED webviews
  /\ KeepWeb

(* The exports ------------------------------------------------------------ *)

\* The host stores n arguments one after the other and starts the export.
Begin(export, n) ==
  LET new == store.next .. store.next + n - 1
  IN  /\ call = Idle
      /\ disposal \in {"none", "busy"}
      /\ store.next + n - 1 <= MaxDesc
      /\ store' = [storage |-> With(store.storage, new, Bytes(FALSE)), next |-> store.next + n]
      /\ args' = new
      /\ call' = export
      /\ Return(0)
      /\ UNCHANGED <<held, given, contexts, webviews, disposal>>

GetMangaList == Begin(Plainly, 1)
GetSearchMangaList == Begin(Plainly, 2)
GetMangaUpdate == Begin(Plainly, 1)
GetPageList == Begin("get_page_list", 2)
GetFilters == Begin(Plainly, 0)
GetListings == Begin(Plainly, 0)
GetBaseUrl == Begin(Plainly, 0)
HandleDeepLink == Begin(Plainly, 1)
HandleBasicLogin == Begin(Plainly, 3)
HandleWebLogin == Begin(Plainly, 2)
HandleMigration == Begin(Plainly, 2)
GetImageRequest == \E n \in {1, 2} : Begin("get_image_request", n)

\* The store without the arguments of the call, which were removed one by one.
Freed ==
  LET rest == Restrict(store.storage, DOMAIN store.storage \ args)
  IN  [storage |-> rest, next |-> IF args # {} /\ DOMAIN rest = {} THEN 1 ELSE store.next]

Finish(code) ==
  /\ call # Idle
  /\ call' = Idle
  /\ args' = {}
  /\ Return(code)
  /\ UNCHANGED <<contexts, webviews, disposal>>

\* Mutant: the arguments stay when the export traps.
EndCallKeepsOnTrap ==
  /\ \E code \in {0, -1} : Finish(code) /\ store' = IF code = 0 THEN Freed ELSE store
  /\ UNCHANGED <<held, given>>

\* A trap, an export that is not there, an error code or plain data.
EndCall ==
  /\ store' = Freed
  /\ \E code \in {0, -1} : Finish(code)
  /\ UNCHANGED <<held, given>>

\* The image descriptors of a page list pass to the app, which reads the bytes.
EndPageList ==
  /\ call = "get_page_list"
  /\ \E pages \in SUBSET {d \in held : Kind(d) \in {"Bytes", "Image"}} :
       /\ pages # {}
       /\ held' = held \ pages
       /\ given' = given \cup pages
  /\ store' = Freed
  /\ Finish(0)

\* The request passes to the app, which takes it out of the store if it is one
\* and the result can be read.
EndImageRequest ==
  /\ call = "get_image_request"
  /\ \E d \in held :
       /\ held' = held \ {d}
       /\ \/ /\ Kind(d) = "NetRequest"
             /\ store' = Removed(Freed, d)
             /\ UNCHANGED given
          \/ /\ store' = Freed
             /\ given' = given \cup {d}
  /\ Finish(0)

\* The app disposes of the source: the Dart side forgets its runtimes and views
\* at once, the host its store after the calls already made.
Dispose ==
  /\ disposal = "none"
  /\ disposal' = IF call = Idle THEN "quiet" ELSE "busy"
  /\ contexts' = {}
  /\ webviews' = {}
  /\ UNCHANGED <<store, call, args, held, given, ret>>

HostDispose ==
  /\ disposal \in {"quiet", "busy"}
  /\ call = Idle
  /\ store' = Cleared
  /\ held' = {}
  /\ given' = {}
  /\ disposal' = "done"
  /\ UNCHANGED <<call, args, contexts, webviews, ret>>

Import ==
  \/ \E d \in InHand :
       \/ DestroyHeld(d) \/ BufferLen(d) \/ ReadBuffer(d)
       \/ NetSetUrl(d) \/ NetSetHeader(d) \/ NetSetBody(d) \/ NetSetTimeout(d)
       \/ NetSend(d) \/ NetDataLen(d) \/ NetReadData(d) \/ NetGetStatusCode(d)
       \/ NetGetImage(d) \/ NetGetUrl(d) \/ NetGetHeader(d) \/ NetHtml(d)
       \/ CanvasGetImage(d) \/ CanvasGetImageData(d)
       \/ CanvasGetImageWidth(d) \/ CanvasGetImageHeight(d)
       \/ ContextEval(d) \/ ContextEvalAsync(d) \/ ContextGet(d)
       \/ WebviewLoad(d) \/ WebviewLoadHtml(d) \/ WebviewAddUserScript(d)
       \/ WebviewSetRuleList(d) \/ WebviewWaitForLoad(d) \/ WebviewDeleteCookie(d)
       \/ WebviewEval(d) \/ WebviewEvalAsync(d) \/ WebviewGetCookies(d)
       \/ \E e \in InHand : DrawImage(d, e) \/ CopyImage(d, e) \/ NetSendAll(<<d, e>>)
  \/ StdQuiet \/ EnvQuiet \/ NetInit \/ CanvasNewContext \/ CanvasNewImage \/ CanvasStub
  \/ ContextCreate \/ WebviewCreate

Export ==
  \/ GetMangaList \/ GetSearchMangaList \/ GetMangaUpdate \/ GetPageList
  \/ GetFilters \/ GetListings \/ GetBaseUrl \/ HandleDeepLink
  \/ HandleBasicLogin \/ HandleWebLogin \/ HandleMigration \/ GetImageRequest
  \/ EndCall \/ EndPageList \/ EndImageRequest

Next == Import \/ Export \/ Dispose \/ HostDispose

Spec == Init /\ [][Next]_vars

(* Properties -------------------------------------------------------------- *)

\* Every descriptor the extension was given and has not destroyed still names
\* an object, and the next one given names none: numbers start again at 1 when
\* the store is empty, arguments are freed behind the extension's back, and no
\* handle is ever taken over by another object (store.rs).
HeldAreLive ==
  /\ held \cup args \subseteq DOMAIN store.storage
  /\ \A d \in DOMAIN store.storage : d < store.next

\* Two objects never meet under one number: as long as the extension holds a
\* descriptor it names the same kind of object, but for bytes a canvas decoded
\* in place (store.rs, host_canvas.rs).
KeepsItsKind ==
  [][\A d \in InHand \cap (held' \cup args') :
       Kind(d)' = Kind(d) \/ (Kind(d) = "Bytes" /\ Kind(d)' = "Image")]_vars

\* Between two calls the store holds what the extension keeps and what it handed
\* to the app, never an argument, however the calls ended (interpreter.rs).
ArgumentsFreed == call = Idle => DOMAIN store.storage = held \cup given

\* A runtime or a web view of the Dart side always belongs to a live descriptor
\* of its kind, so that a new context never meets the runtime of an old one
\* (host_js.rs, js_manager.dart); unless the source was disposed of in a call.
ContextsAreOwned ==
  disposal # "busy" /\ disposal # "done"
    => /\ \A d \in contexts : Kind(d) = "JsContext"
       /\ \A d \in webviews : Kind(d) = "WebviewContext"

(* The inductive invariant of the proofs ------------------------------------ *)

\* Every object has one owner: the extension, the call that runs, or the app.
ObjectsOwned ==
  /\ DOMAIN store.storage = held \cup args \cup given
  /\ held \cap args = {}
  /\ given \cap (held \cup args) = {}
  /\ call = Idle => args = {}
  /\ \A d \in args : Kind(d) \in {"Bytes", "Image"}

\* The numbers in use are below the next one.
Numbered ==
  /\ store.next \in Nat \ {0}
  /\ DOMAIN store.storage \subseteq 1 .. store.next - 1

HostInv == ObjectsOwned /\ Numbered /\ ContextsAreOwned
=============================================================================
