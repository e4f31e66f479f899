------------------------- MODULE HostImportsProofs -------------------------
(***************************************************************************)
(* What is proved of HostImports for any number of descriptors and any     *)
(* imports an extension uses: its four properties.  An import does one of  *)
(* three things to the objects: it leaves them, it turns one into another  *)
(* of the kind it may become, or it makes one under the next number.  That *)
(* is KeepsObjects, and it keeps the invariant HostInv; so do the exports. *)
(***************************************************************************)
EXTENDS HostImports, TLAPS

(* The store ---------------------------------------------------------------- *)

\* store adds the next number to those in use (GlobalStore::store).
LEMMA StoredObjects ==
  ASSUME NEW s, NEW v
  PROVE  /\ DOMAIN Stored(s, v).storage = DOMAIN s.storage \cup {s.next}
         /\ Stored(s, v).next = s.next + 1
         /\ Stored(s, v).storage[s.next] = v
         /\ \A d \in DOMAIN s.storage \ {s.next} : Stored(s, v).storage[d] = s.storage[d]
  BY DEF Stored, With

\* set changes the object of one number in use (GlobalStore::set).
LEMMA ReplacedObjects ==
  ASSUME NEW s, NEW v, NEW d \in DOMAIN s.storage
  PROVE  /\ DOMAIN Replaced(s, d, v).storage = DOMAIN s.storage
         /\ Replaced(s, d, v).next = s.next
         /\ Replaced(s, d, v).storage[d] = v
         /\ \A e \in DOMAIN s.storage \ {d} : Replaced(s, d, v).storage[e] = s.storage[e]
  BY DEF Replaced, With

\* remove frees one number, and all of them when it was the last
\* (GlobalStore::remove).
LEMMA RemovedObjects ==
  ASSUME NEW s, NEW d
  PROVE  /\ DOMAIN Removed(s, d).storage = DOMAIN s.storage \ {d}
         /\ Removed(s, d).next \in {s.next, 1}
         /\ Removed(s, d).next # s.next => DOMAIN s.storage \ {d} = {}
         /\ \A e \in DOMAIN s.storage \ {d} : Removed(s, d).storage[e] = s.storage[e]
  BY DEF Removed, Restrict

\* The arguments of a call are freed the same way (AidokuInterpreter::destroy).
LEMMA FreedObjects ==
  /\ DOMAIN Freed.storage = DOMAIN store.storage \ args
  /\ Freed.next \in {store.next, 1}
  /\ Freed.next # store.next => DOMAIN Freed.storage = {}
  /\ \A d \in DOMAIN store.storage \ args : Freed.storage[d] = store.storage[d]
  BY DEF Freed, Restrict

(* What an import does ------------------------------------------------------- *)

Becomes(d) == Kind(d)' = Kind(d) \/ (Kind(d) = "Bytes" /\ Kind(d)' = "Image")

KeepsObjects ==
  /\ UNCHANGED <<call, args, given, disposal>>
  /\ \/ /\ DOMAIN store'.storage = DOMAIN store.storage
        /\ store'.next = store.next
        /\ held' = held
     \/ /\ DOMAIN store'.storage = DOMAIN store.storage \cup {store.next}
        /\ store'.next = store.next + 1
        /\ held' = held \cup {store.next}
  /\ \A d \in DOMAIN store.storage : Becomes(d)

\* A new runtime or web view belongs to an object of its kind.
KeepsOwners ==
  /\ \A d \in contexts' : d \in contexts \/ Kind(d)' = "JsContext"
  /\ \A d \in webviews' : d \in webviews \/ Kind(d)' = "WebviewContext"

KeepsAll == KeepsObjects /\ KeepsOwners

LEMMA DartKeepsOwners == KeepDart => KeepsOwners
  BY DEF KeepDart, KeepsOwners

LEMMA UnchangedKeeps == UNCHANGED <<store, held>> /\ Keep => KeepsObjects
  BY DEF Keep, KeepsObjects, Becomes, Kind

LEMMA FailKeeps ==
  ASSUME NEW code, Fail(code), Keep
  PROVE  KeepsObjects /\ store' = store
  BY UnchangedKeeps DEF Fail

\* An object made under the next number, which is free.
LEMMA IssueKeeps ==
  ASSUME Numbered, NEW v, Issue(v), Keep
  PROVE  KeepsObjects /\ \A n : n = store.next => Kind(n)' = v.kind
  <1>1. store.next \notin DOMAIN store.storage
    BY DEF Numbered
  <1>2. /\ DOMAIN store'.storage = DOMAIN store.storage \cup {store.next}
        /\ store'.next = store.next + 1
        /\ store'.storage[store.next] = v
        /\ \A d \in DOMAIN store.storage : store'.storage[d] = store.storage[d]
    BY <1>1, StoredObjects DEF Issue
  <1>3. \A d \in DOMAIN store.storage : Becomes(d)
    BY <1>2 DEF Becomes, Kind
  <1>4. \A n : n = store.next => Kind(n)' = v.kind
    BY <1>2 DEF Kind
  <1> QED
    BY <1>2, <1>3, <1>4 DEF KeepsObjects, Keep, Issue

\* An object that keeps its kind, or becomes an image.
LEMMA ReplacedKeeps ==
  ASSUME NEW d \in DOMAIN store.storage, NEW v, store' = Replaced(store, d, v),
         v.kind = Kind(d) \/ (Kind(d) = "Bytes" /\ v.kind = "Image"),
         UNCHANGED held, Keep
  PROVE  KeepsObjects
  <1>1. ASSUME NEW e \in DOMAIN store.storage PROVE Becomes(e)
    <2>1. CASE e = d
      BY <2>1, ReplacedObjects DEF Becomes, Kind
    <2>2. CASE e # d
      BY <2>2, ReplacedObjects DEF Becomes, Kind
    <2> QED
      BY <2>1, <2>2
  <1> QED
    BY <1>1, ReplacedObjects DEF KeepsObjects, Keep

LEMMA KnownKind == ASSUME NEW d, Kind(d) # "none" PROVE d \in DOMAIN store.storage
  BY DEF Kind

(* The imports ---------------------------------------------------------------- *)

LEMMA StdKeeps ==
  ASSUME Numbered, NEW d, BufferLen(d) \/ ReadBuffer(d) \/ StdQuiet \/ EnvQuiet
  PROVE  KeepsAll
  BY FailKeeps, UnchangedKeeps, DartKeepsOwners
     DEF BufferLen, ReadBuffer, StdQuiet, EnvQuiet, KeepsAll, KeepDart

LEMMA SetterKeeps ==
  ASSUME NEW d, NEW bad, NEW v, Kind(d) = "NetRequest" => v.kind = "NetRequest", Setter(d, bad, v)
  PROVE  KeepsAll
  <1>1. KeepDart /\ Keep
    BY DEF Setter, KeepDart
  <1>2. CASE \E code : Fail(code)
    BY <1>1, <1>2, FailKeeps, DartKeepsOwners DEF KeepsAll
  <1>3. CASE Kind(d) = "NetRequest" /\ store' = Replaced(store, d, v) /\ UNCHANGED held
    BY <1>1, <1>3, KnownKind, ReplacedKeeps, DartKeepsOwners DEF KeepsAll
  <1> QED
    BY <1>2, <1>3 DEF Setter

LEMMA NetSettersKeep ==
  ASSUME NEW d, NetSetUrl(d) \/ NetSetHeader(d) \/ NetSetBody(d) \/ NetSetTimeout(d)
  PROVE  KeepsAll
  <1>1. ASSUME NEW r PROVE NetRequest(TRUE, r).kind = "NetRequest"
    BY DEF NetRequest
  <1>2. Kind(d) = "NetRequest" => store.storage[d].kind = "NetRequest"
    BY DEF Kind
  <1> QED
    BY <1>1, <1>2, SetterKeeps DEF NetSetUrl, NetSetHeader, NetSetBody, NetSetTimeout

\* What send_one does to one request.
LEMMA SentOne ==
  ASSUME NEW d, NEW r
  PROVE  LET sent == SendOne(store, d, r)
         IN  \/ sent.store = store
             \/ Kind(d) = "NetRequest" /\ sent.store = Replaced(store, d, NetRequest(TRUE, r))
  BY DEF SendOne, Kind

LEMMA SendKeeps == ASSUME NEW d, NetSend(d) PROVE KeepsAll
  <1>1. KeepDart /\ Keep /\ UNCHANGED held
    BY DEF NetSend, KeepDart
  <1>2. PICK r : store' = SendOne(store, d, r).store
    BY DEF NetSend
  <1>3. CASE store' = store
    BY <1>1, <1>3, UnchangedKeeps, DartKeepsOwners DEF KeepsAll
  <1>4. CASE Kind(d) = "NetRequest" /\ store' = Replaced(store, d, NetRequest(TRUE, r))
    <2>1. NetRequest(TRUE, r).kind = "NetRequest"
      BY DEF NetRequest
    <2> QED
      BY <1>1, <1>4, <2>1, KnownKind, ReplacedKeeps, DartKeepsOwners DEF KeepsAll
  <1> QED
    BY <1>2, <1>3, <1>4, SentOne

\* Of a list of requests those that were sent keep their kind, the others are
\* left alone.
LEMMA SendAllKeeps == ASSUME NEW ds, NetSendAll(ds) PROVE KeepsAll
  <1>1. KeepDart /\ Keep
    BY DEF NetSendAll, KeepDart
  <1>2. CASE Fail(-1)
    BY <1>1, <1>2, FailKeeps, DartKeepsOwners DEF KeepsAll
  <1>3. ASSUME NEW rs \in [DOMAIN ds -> {"ok", "error"}],
               LET code(i) == SendOne(store, ds[i], rs[i]).code
                   tried == {i \in DOMAIN ds : \A j \in 1 .. i - 1 : code(j) = 0}
                   sent(d) == {i \in tried : ds[i] = d /\ code(i) \in {0, -3}}
                   last(d) == CHOOSE i \in sent(d) : \A j \in sent(d) : j <= i
               IN  /\ store' =
                         [storage |-> [d \in DOMAIN store.storage |->
                                         IF sent(d) = {} THEN store.storage[d] ELSE NetRequest(TRUE, rs[last(d)])],
                          next |-> store.next]
                   /\ UNCHANGED held
        PROVE  KeepsAll
    <2> DEFINE code(i) == SendOne(store, ds[i], rs[i]).code
               tried == {i \in DOMAIN ds : \A j \in 1 .. i - 1 : code(j) = 0}
               sent(d) == {i \in tried : ds[i] = d /\ code(i) \in {0, -3}}
               last(d) == CHOOSE i \in sent(d) : \A j \in sent(d) : j <= i
               after == [d \in DOMAIN store.storage |->
                           IF sent(d) = {} THEN store.storage[d] ELSE NetRequest(TRUE, rs[last(d)])]
    <2>1. store' = [storage |-> after, next |-> store.next] /\ UNCHANGED held
      BY <1>3
    <2> HIDE DEF after
    <2>2. DOMAIN store'.storage = DOMAIN store.storage /\ store'.next = store.next
      BY <2>1 DEF after
    <2>3. ASSUME NEW d \in DOMAIN store.storage PROVE Kind(d)' = Kind(d)
      <3>1. CASE sent(d) = {}
        BY <2>1, <2>2, <3>1 DEF Kind, after
      <3>2. CASE sent(d) # {}
        <4>1. PICK i \in DOMAIN ds : ds[i] = d /\ code(i) \in {0, -3}
          BY <3>2
        <4>2. Kind(d) = "NetRequest"
          BY <4>1 DEF SendOne, Kind
        <4>3. store'.storage[d] = NetRequest(TRUE, rs[last(d)])
          BY <2>1, <3>2 DEF after
        <4> QED
          BY <2>2, <4>2, <4>3 DEF Kind, NetRequest
      <3> QED
        BY <3>1, <3>2
    <2> QED
      BY <1>1, <2>1, <2>2, <2>3, DartKeepsOwners DEF KeepsAll, KeepsObjects, Becomes, Keep
  <1> QED
    BY <1>2, <1>3 DEF NetSendAll

LEMMA NetKeeps ==
  ASSUME Numbered, NEW d,
         \/ NetInit \/ NetDataLen(d) \/ NetReadData(d) \/ NetGetStatusCode(d)
         \/ NetGetImage(d) \/ NetGetUrl(d) \/ NetGetHeader(d) \/ NetHtml(d)
  PROVE  KeepsAll
  <1>1. KeepDart /\ Keep
    BY DEF NetInit, NetDataLen, NetReadData, NetGetStatusCode, NetGetImage, NetGetUrl,
           NetGetHeader, NetHtml, KeepDart
  <1>2. (\E code : Fail(code)) \/ (\E v : Issue(v))
    BY DEF NetInit, NetDataLen, NetReadData, NetGetStatusCode, NetGetImage, NetGetUrl,
           NetGetHeader, NetHtml
  <1> QED
    BY <1>1, <1>2, FailKeeps, IssueKeeps, DartKeepsOwners DEF KeepsAll

\* An image that was found is left, or decoded in place.
LEMMA ResolvedKeeps ==
  ASSUME NEW d
  PROVE  \/ ~ResolveImage(d).found /\ ResolveImage(d).store = store
         \/ /\ d \in DOMAIN store.storage
            /\ Kind(d) \in {"Bytes", "Image"}
            /\ ResolveImage(d).store = Replaced(store, d, Plain("Image"))
  BY DEF ResolveImage, AsBytes, Kind

LEMMA ResolveStepKeeps ==
  ASSUME NEW d, store' = ResolveImage(d).store, UNCHANGED held, Keep
  PROVE  KeepsObjects
  <1>1. Plain("Image").kind = "Image"
    BY DEF Plain
  <1> QED
    BY <1>1, ResolvedKeeps, ReplacedKeeps, UnchangedKeeps

LEMMA CanvasKeeps ==
  ASSUME Numbered, NEW d, NEW e,
         \/ CanvasNewContext \/ CanvasNewImage \/ CanvasStub \/ CanvasGetImage(d)
         \/ CanvasGetImageWidth(d) \/ CanvasGetImageHeight(d) \/ DrawImage(d, e) \/ CopyImage(d, e)
  PROVE  KeepsAll
  <1> USE DEF CanvasNewContext, CanvasNewImage, CanvasStub, CanvasGetImage, CanvasGetImageWidth,
              CanvasGetImageHeight, DrawImage, CopyImage, DrawOrCopy
  <1>1. KeepDart /\ Keep
    BY DEF KeepDart
  <1>2. \/ (\E code : Fail(code)) \/ (\E v : Issue(v))
        \/ \E i : store' = ResolveImage(i).store /\ UNCHANGED held
    OBVIOUS
  <1> QED
    BY <1>1, <1>2, FailKeeps, IssueKeeps, ResolveStepKeeps, DartKeepsOwners DEF KeepsAll

\* get_image_data may decode the image in place and stores a copy of it.
LEMMA ImageDataKeeps ==
  ASSUME Numbered, NEW d, CanvasGetImageData(d)
  PROVE  KeepsAll
  <1>1. KeepDart /\ Keep
    BY DEF CanvasGetImageData, KeepDart
  <1>2. CASE \E code : Fail(code)
    BY <1>1, <1>2, FailKeeps, DartKeepsOwners DEF KeepsAll
  <1>3. CASE /\ ResolveImage(d).found
             /\ store' = Stored(ResolveImage(d).store, Bytes(TRUE))
             /\ held' = held \cup {ResolveImage(d).store.next}
    <2> DEFINE src == ResolveImage(d).store
    <2>1. /\ d \in DOMAIN store.storage
          /\ Kind(d) \in {"Bytes", "Image"}
          /\ src = Replaced(store, d, Plain("Image"))
      BY <1>3, ResolvedKeeps
    <2>2. /\ DOMAIN src.storage = DOMAIN store.storage
          /\ src.next = store.next
          /\ src.storage[d].kind = "Image"
          /\ \A e \in DOMAIN store.storage \ {d} : src.storage[e] = store.storage[e]
      BY <2>1, ReplacedObjects DEF Plain
    <2>3. store' = Stored(src, Bytes(TRUE)) /\ held' = held \cup {src.next}
      BY <1>3
    <2> HIDE DEF src
    <2>4. /\ DOMAIN Stored(src, Bytes(TRUE)).storage = DOMAIN src.storage \cup {src.next}
          /\ Stored(src, Bytes(TRUE)).next = src.next + 1
          /\ \A e \in DOMAIN src.storage \ {src.next} :
               Stored(src, Bytes(TRUE)).storage[e] = src.storage[e]
      BY DEF Stored, With
    <2>5. store.next \notin DOMAIN store.storage
      BY DEF Numbered
    <2>6. /\ DOMAIN store'.storage = DOMAIN store.storage \cup {store.next}
          /\ store'.next = store.next + 1
          /\ \A e \in DOMAIN store.storage : store'.storage[e] = src.storage[e]
      BY <2>4, <2>2, <2>3, <2>5
    <2>7. \A e \in DOMAIN store.storage : Becomes(e)
      BY <2>1, <2>2, <2>6 DEF Becomes, Kind
    <2> QED
      BY <1>1, <2>2, <2>3, <2>6, <2>7, DartKeepsOwners DEF KeepsAll, KeepsObjects, Keep
  <1> QED
    BY <1>2, <1>3 DEF CanvasGetImageData

\* A runtime is asked for on behalf of a context, which stays one.
LEMMA RuntimeKeepsOwners ==
  ASSUME KeepsObjects, KeepJs, NEW d, NEW works, RuntimeOf(d, works), Kind(d)' = "JsContext"
  PROVE  KeepsOwners
  BY DEF KeepJs, RuntimeOf, KeepsOwners

LEMMA JsKeeps == ASSUME Numbered, NEW d, JsEvaluate(d) PROVE KeepsAll
  <1>1. KeepJs /\ Keep /\ Kind(d) = "JsContext" /\ d \in DOMAIN store.storage
    BY KnownKind DEF JsEvaluate, KeepJs
  <1>2. KeepsObjects
    BY <1>1, FailKeeps, IssueKeeps DEF JsEvaluate
  <1>3. Kind(d)' = "JsContext"
    BY <1>1, <1>2 DEF KeepsObjects, Becomes
  <1>4. CASE UNCHANGED contexts
    BY <1>1, <1>2, <1>4 DEF KeepJs, KeepsOwners, KeepsAll
  <1>5. CASE \E works : RuntimeOf(d, works)
    BY <1>1, <1>2, <1>3, <1>5, RuntimeKeepsOwners DEF KeepsAll
  <1> QED
    BY <1>2, <1>4, <1>5 DEF JsEvaluate, KeepsAll

LEMMA ContextCreateKeeps == ASSUME Numbered, ContextCreate PROVE KeepsAll
  <1>1. KeepJs /\ Keep
    BY DEF ContextCreate, KeepJs
  <1>2. KeepsObjects /\ \A n : n = store.next => Kind(n)' = "JsContext"
    BY <1>1, IssueKeeps DEF ContextCreate, Plain
  <1>3. PICK works \in BOOLEAN : RuntimeOf(store.next, works)
    BY DEF ContextCreate
  <1>4. KeepsOwners
    BY <1>1, <1>2, <1>3 DEF KeepJs, RuntimeOf, KeepsOwners
  <1> QED
    BY <1>2, <1>4 DEF KeepsAll

LEMMA WebviewCreateKeeps == ASSUME Numbered, WebviewCreate PROVE KeepsAll
  <1>1. KeepWeb /\ Keep
    BY DEF WebviewCreate, KeepWeb
  <1>2. KeepsObjects /\ \A n : n = store.next => Kind(n)' = "WebviewContext"
    BY <1>1, IssueKeeps DEF WebviewCreate, Plain
  <1>3. KeepsOwners
    BY <1>1, <1>2 DEF WebviewCreate, KeepWeb, KeepsOwners
  <1> QED
    BY <1>2, <1>3 DEF KeepsAll

LEMMA WebviewKeeps ==
  ASSUME Numbered, NEW d, OnWebview(d), KeepWeb, webviews' \subseteq webviews \cup {d},
         (\E code : Fail(code)) \/ (\E v : Issue(v))
  PROVE  KeepsAll
  <1>1. Keep /\ Kind(d) = "WebviewContext" /\ d \in DOMAIN store.storage
    BY KnownKind DEF KeepWeb, OnWebview
  <1>2. KeepsObjects
    BY <1>1, FailKeeps, IssueKeeps
  <1>3. Kind(d)' = "WebviewContext"
    BY <1>1, <1>2 DEF KeepsObjects, Becomes
  <1> QED
    BY <1>2, <1>3 DEF KeepsAll, KeepsOwners, KeepWeb

LEMMA WebviewImportsKeep ==
  ASSUME Numbered, NEW d,
         \/ WebviewLoad(d) \/ WebviewLoadHtml(d) \/ WebviewAddUserScript(d) \/ WebviewSetRuleList(d)
         \/ WebviewWaitForLoad(d) \/ WebviewDeleteCookie(d) \/ WebviewEval(d) \/ WebviewEvalAsync(d)
         \/ WebviewGetCookies(d)
  PROVE  KeepsAll
  <1> USE DEF WebviewLoad, WebviewLoadHtml, WebviewAddUserScript, WebviewSetRuleList,
              WebviewWaitForLoad, WebviewDeleteCookie, WebviewEval, WebviewEvalAsync,
              WebviewGetCookies, WebviewReach, WebviewQuiet, WebviewRun
  <1>1. OnWebview(d) /\ KeepWeb
    OBVIOUS
  <1>2. webviews' \subseteq webviews \cup {d}
    OBVIOUS
  <1>3. (\E code : Fail(code)) \/ (\E v : Issue(v))
    OBVIOUS
  <1> QED
    BY <1>1, <1>2, <1>3, WebviewKeeps

\* Every import but destroy leaves the objects that are there.
LEMMA ImportKeeps ==
  ASSUME Numbered, Import, ~\E d \in held : DestroyHeld(d)
  PROVE  KeepsAll
  <1>1. CASE NetInit \/ CanvasNewContext \/ CanvasNewImage \/ CanvasStub \/ StdQuiet \/ EnvQuiet
    BY <1>1, NetKeeps, CanvasKeeps, StdKeeps
  <1>2. CASE ContextCreate \/ WebviewCreate
    BY <1>2, ContextCreateKeeps, WebviewCreateKeeps
  <1>3. ASSUME NEW d, NEW e, DrawImage(d, e) \/ CopyImage(d, e) \/ NetSendAll(<<d, e>>)
        PROVE  KeepsAll
    BY <1>3, CanvasKeeps, SendAllKeeps
  <1>4. ASSUME NEW d, BufferLen(d) \/ ReadBuffer(d) PROVE KeepsAll
    BY <1>4, StdKeeps
  <1>5. ASSUME NEW d,
               \/ NetSetUrl(d) \/ NetSetHeader(d) \/ NetSetBody(d) \/ NetSetTimeout(d) \/ NetSend(d)
               \/ NetDataLen(d) \/ NetReadData(d) \/ NetGetStatusCode(d)
               \/ NetGetImage(d) \/ NetGetUrl(d) \/ NetGetHeader(d) \/ NetHtml(d)
        PROVE  KeepsAll
    BY <1>5, NetSettersKeep, SendKeeps, NetKeeps
  <1>6. ASSUME NEW d,
               \/ CanvasGetImage(d) \/ CanvasGetImageData(d)
               \/ CanvasGetImageWidth(d) \/ CanvasGetImageHeight(d)
        PROVE  KeepsAll
    BY <1>6, CanvasKeeps, ImageDataKeeps
  <1>7. ASSUME NEW d, ContextEval(d) \/ ContextEvalAsync(d) \/ ContextGet(d) PROVE KeepsAll
    BY <1>7, JsKeeps DEF ContextEval, ContextEvalAsync, ContextGet
  <1>8. ASSUME NEW d,
               \/ WebviewLoad(d) \/ WebviewLoadHtml(d) \/ WebviewAddUserScript(d)
               \/ WebviewSetRuleList(d) \/ WebviewWaitForLoad(d) \/ WebviewDeleteCookie(d)
               \/ WebviewEval(d) \/ WebviewEvalAsync(d) \/ WebviewGetCookies(d)
        PROVE  KeepsAll
    BY <1>8, WebviewImportsKeep
  <1>9. ASSUME NEW d, DestroyHeld(d) PROVE d \in held
    BY <1>9 DEF DestroyHeld
  <1> QED
    BY <1>1, <1>2, <1>3, <1>4, <1>5, <1>6, <1>7, <1>8, <1>9 DEF Import

(* The invariant ---------------------------------------------------------------- *)

\* What a step does to the objects the extension holds on both sides of it.
KeepsHeld == \A d \in InHand \cap (held' \cup args') : Becomes(d)

Preserved == HostInv' /\ KeepsHeld

LEMMA InitInv == Init => HostInv
  BY DEF Init, Cleared, HostInv, ObjectsOwned, Numbered, ContextsAreOwned, Plainly, Idle, Kind

\* The objects a context or a web view belongs to are in the store.
LEMMA OwnersStored ==
  ASSUME ContextsAreOwned, disposal # "busy", disposal # "done"
  PROVE  /\ \A d \in contexts : d \in DOMAIN store.storage /\ Kind(d) = "JsContext"
         /\ \A d \in webviews : d \in DOMAIN store.storage /\ Kind(d) = "WebviewContext"
  BY KnownKind DEF ContextsAreOwned

LEMMA KeepsAllPreserves == ASSUME HostInv, KeepsAll PROVE Preserved
  <1> USE DEF HostInv, KeepsAll
  <1>1. ObjectsOwned'
    <2>1. store.next \notin DOMAIN store.storage
      BY DEF Numbered
    <2>2. DOMAIN store'.storage = held' \cup args' \cup given'
      BY DEF KeepsObjects, ObjectsOwned
    <2>3. held' \cap args' = {} /\ given' \cap (held' \cup args') = {} /\ (call' = Idle => args' = {})
      BY <2>1 DEF KeepsObjects, ObjectsOwned
    <2>4. \A d \in args' : Kind(d)' \in {"Bytes", "Image"}
      BY DEF KeepsObjects, ObjectsOwned, Becomes
    <2> QED
      BY <2>2, <2>3, <2>4 DEF ObjectsOwned
  <1>2. Numbered'
    BY DEF KeepsObjects, Numbered
  <1>3. ContextsAreOwned'
    <2> SUFFICES ASSUME disposal' # "busy", disposal' # "done"
                 PROVE  /\ \A d \in contexts' : Kind(d)' = "JsContext"
                        /\ \A d \in webviews' : Kind(d)' = "WebviewContext"
      BY DEF ContextsAreOwned
    <2>1. disposal # "busy" /\ disposal # "done"
      BY DEF KeepsObjects
    <2> QED
      BY <2>1, OwnersStored DEF KeepsObjects, KeepsOwners, Becomes
  <1>4. KeepsHeld
    BY DEF KeepsHeld, KeepsObjects, InHand, ObjectsOwned
  <1> QED
    BY <1>1, <1>2, <1>3, <1>4 DEF Preserved

\* A step that frees objects, none of them a runtime's or a web view's, and
\* leaves the other objects as they are.
LEMMA FreeingPreserves ==
  ASSUME HostInv, NEW freed,
         DOMAIN store'.storage = DOMAIN store.storage \ freed,
         \A d \in DOMAIN store.storage \ freed : store'.storage[d] = store.storage[d],
         store'.next \in {store.next, 1},
         store'.next # store.next => DOMAIN store'.storage = {},
         DOMAIN store'.storage = held' \cup args' \cup given',
         held' \subseteq held, args' \subseteq args, held' \cap given' = {}, args' \cap given' = {},
         call' = Idle => args' = {},
         disposal' = disposal,
         \A d \in contexts' : d \in contexts /\ (Kind(d) = "JsContext" => d \notin freed),
         \A d \in webviews' : d \in webviews /\ (Kind(d) = "WebviewContext" => d \notin freed)
  PROVE  Preserved
  <1> USE DEF HostInv
  <1>1. \A d \in DOMAIN store.storage \ freed : Kind(d)' = Kind(d)
    BY DEF Kind
  <1>2. ObjectsOwned'
    <2>1. \A d \in args' : Kind(d)' \in {"Bytes", "Image"}
      BY <1>1 DEF ObjectsOwned
    <2> QED
      BY <2>1 DEF ObjectsOwned
  <1>3. Numbered'
    BY DEF Numbered
  <1>4. ContextsAreOwned'
    BY <1>1, OwnersStored DEF ContextsAreOwned
  <1>5. KeepsHeld
    BY <1>1 DEF KeepsHeld, Becomes
  <1> QED
    BY <1>2, <1>3, <1>4, <1>5 DEF Preserved

LEMMA DestroyPreserves == ASSUME HostInv, NEW d, DestroyHeld(d) PROVE Preserved
  <1>1. /\ DOMAIN store'.storage = DOMAIN store.storage \ {d}
        /\ \A e \in DOMAIN store.storage \ {d} : store'.storage[e] = store.storage[e]
        /\ store'.next \in {store.next, 1}
        /\ store'.next # store.next => DOMAIN store'.storage = {}
    BY RemovedObjects DEF DestroyHeld, Destroy
  <1>2. /\ held' = held \ {d} /\ args' = args /\ given' = given
        /\ call' = call /\ disposal' = disposal
        /\ d \in held
    BY DEF DestroyHeld, Keep
  <1>3. /\ \A e \in contexts' : e \in contexts /\ (Kind(e) = "JsContext" => e \notin {d})
        /\ \A e \in webviews' : e \in webviews /\ (Kind(e) = "WebviewContext" => e \notin {d})
    BY DEF DestroyHeld, Destroy
  <1>4. /\ DOMAIN store'.storage = held' \cup args' \cup given'
        /\ held' \cap given' = {} /\ args' \cap given' = {}
        /\ call' = Idle => args' = {}
    BY <1>1, <1>2 DEF HostInv, ObjectsOwned
  <1> QED
    BY <1>1, <1>2, <1>3, <1>4, FreeingPreserves

\* The host stores the arguments under the next numbers, which are free.
LEMMA BeginPreserves ==
  ASSUME HostInv, NEW export, export # Idle, NEW n \in Nat, Begin(export, n)
  PROVE  Preserved
  <1> DEFINE new == store.next .. store.next + n - 1
  <1>1. /\ call = Idle /\ args = {}
        /\ store'.storage = With(store.storage, new, Bytes(FALSE))
        /\ store'.next = store.next + n
        /\ args' = new /\ call' = export
        /\ UNCHANGED <<held, given, contexts, webviews, disposal>>
    BY DEF Begin, HostInv, ObjectsOwned
  <1>2. store.next \in Nat \ {0} /\ new \cap DOMAIN store.storage = {}
    BY DEF HostInv, Numbered
  <1>3. new \subseteq 1 .. store.next + n - 1
    BY <1>2
  <1>4. /\ DOMAIN store'.storage = DOMAIN store.storage \cup new
        /\ \A d \in DOMAIN store.storage : store'.storage[d] = store.storage[d]
        /\ \A d \in new : store'.storage[d] = Bytes(FALSE)
    BY <1>1, <1>2 DEF With
  <1>5. \A d \in DOMAIN store.storage : Kind(d)' = Kind(d)
    BY <1>4 DEF Kind
  <1>6. ObjectsOwned'
    <2>1. \A d \in args' : Kind(d)' \in {"Bytes", "Image"}
      BY <1>1, <1>4 DEF Kind, Bytes
    <2> QED
      BY <1>1, <1>2, <1>4, <2>1 DEF HostInv, ObjectsOwned
  <1>7. Numbered'
    <2>1. store'.next \in Nat \ {0}
      BY <1>1, <1>2
    <2>2. DOMAIN store.storage \subseteq 1 .. store.next + n - 1
      BY <1>2 DEF HostInv, Numbered
    <2>3. store'.next - 1 = store.next + n - 1
      BY <1>1, <1>2
    <2> HIDE DEF new
    <2>4. DOMAIN store'.storage \subseteq 1 .. store.next + n - 1
      BY <1>3, <1>4, <2>2
    <2> QED
      BY <2>1, <2>3, <2>4 DEF Numbered
  <1>8. ContextsAreOwned'
    BY <1>1, <1>5, OwnersStored DEF HostInv, ContextsAreOwned
  <1>9. KeepsHeld
    BY <1>1, <1>5 DEF HostInv, KeepsHeld, InHand, ObjectsOwned, Becomes
  <1> QED
    BY <1>6, <1>7, <1>8, <1>9 DEF Preserved, HostInv

LEMMA ExportBegins ==
  ASSUME HostInv,
         \/ GetMangaList \/ GetSearchMangaList \/ GetMangaUpdate \/ GetPageList
         \/ GetFilters \/ GetListings \/ GetBaseUrl \/ HandleDeepLink
         \/ HandleBasicLogin \/ HandleWebLogin \/ HandleMigration \/ GetImageRequest
  PROVE  Preserved
  <1>1. \E export \in {Plainly, "get_page_list", "get_image_request"}, n \in 0 .. 3 : Begin(export, n)
    BY DEF GetMangaList, GetSearchMangaList, GetMangaUpdate, GetPageList, GetFilters, GetListings,
           GetBaseUrl, HandleDeepLink, HandleBasicLogin, HandleWebLogin, HandleMigration,
           GetImageRequest
  <1>2. PICK export \in {Plainly, "get_page_list", "get_image_request"}, n \in 0 .. 3 :
          Begin(export, n)
    BY <1>1
  <1>3. export # Idle /\ n \in Nat
    BY DEF Plainly, Idle
  <1> QED
    BY <1>2, <1>3, BeginPreserves

\* The arguments of a call are bytes or images, never what a runtime or a web
\* view belongs to.
LEMMA ArgumentsOwnNothing ==
  ASSUME HostInv, NEW d \in args
  PROVE  Kind(d) # "JsContext" /\ Kind(d) # "WebviewContext"
  BY DEF HostInv, ObjectsOwned

\* A call that ends frees its arguments; what it took from the extension it
\* handed to the app.
LEMMA EndPreserves ==
  ASSUME HostInv, NEW code, Finish(code), store' = Freed,
         held' \subseteq held, given' = given \cup (held \ held')
  PROVE  Preserved
  <1>1. args' = {} /\ UNCHANGED <<contexts, webviews, disposal>>
    BY DEF Finish
  <1>2. DOMAIN store'.storage = held' \cup args' \cup given' /\ held' \cap given' = {}
    BY <1>1, FreedObjects DEF HostInv, ObjectsOwned
  <1> QED
    BY <1>1, <1>2, FreedObjects, ArgumentsOwnNothing, FreeingPreserves

LEMMA EndCallPreserves == ASSUME HostInv, EndCall PROVE Preserved
  BY EndPreserves DEF EndCall

LEMMA EndPageListPreserves == ASSUME HostInv, EndPageList PROVE Preserved
  <1>1. PICK pages \in SUBSET held : held' = held \ pages /\ given' = given \cup pages
    BY DEF EndPageList
  <1>2. held' \subseteq held /\ given' = given \cup (held \ held')
    BY <1>1
  <1> QED
    BY <1>2, EndPreserves DEF EndPageList

LEMMA EndImageRequestPreserves == ASSUME HostInv, EndImageRequest PROVE Preserved
  <1>1. PICK d \in held :
          /\ held' = held \ {d}
          /\ \/ Kind(d) = "NetRequest" /\ store' = Removed(Freed, d) /\ given' = given
             \/ store' = Freed /\ given' = given \cup {d}
    BY DEF EndImageRequest
  <1>2. Finish(0)
    BY DEF EndImageRequest
  <1>3. CASE store' = Freed /\ given' = given \cup {d}
    <2>1. held' \subseteq held /\ given' = given \cup (held \ held')
      BY <1>1, <1>3
    <2> QED
      BY <1>2, <1>3, <2>1, EndPreserves
  <1>4. CASE Kind(d) = "NetRequest" /\ store' = Removed(Freed, d) /\ given' = given
    <2> DEFINE freed == args \cup {d}
    <2>1. /\ DOMAIN store'.storage = DOMAIN store.storage \ freed
          /\ \A e \in DOMAIN store.storage \ freed : store'.storage[e] = store.storage[e]
          /\ store'.next \in {store.next, 1}
          /\ store'.next # store.next => DOMAIN store'.storage = {}
      <3>1. /\ DOMAIN store'.storage = DOMAIN Freed.storage \ {d}
            /\ store'.next \in {Freed.next, 1}
            /\ store'.next # Freed.next => DOMAIN Freed.storage \ {d} = {}
            /\ \A e \in DOMAIN Freed.storage \ {d} : store'.storage[e] = Freed.storage[e]
        BY <1>4, RemovedObjects
      <3> QED
        BY <3>1, FreedObjects
    <2>2. args' = {} /\ UNCHANGED <<contexts, webviews, disposal>>
      BY <1>2 DEF Finish
    <2>3. DOMAIN store'.storage = held' \cup args' \cup given' /\ held' \cap given' = {}
      BY <1>1, <1>4, <2>1, <2>2 DEF HostInv, ObjectsOwned
    <2>4. \A e \in freed : Kind(e) # "JsContext" /\ Kind(e) # "WebviewContext"
      BY <1>4, ArgumentsOwnNothing
    <2>5. held' \subseteq held
      BY <1>1
    <2> HIDE DEF freed
    <2> QED
      BY <2>1, <2>2, <2>3, <2>4, <2>5, FreeingPreserves
  <1> QED
    BY <1>1, <1>3, <1>4

LEMMA DisposePreserves == ASSUME HostInv, Dispose PROVE Preserved
  BY DEF Dispose, HostInv, ObjectsOwned, Numbered, ContextsAreOwned, Kind, Preserved, KeepsHeld,
         Becomes

\* The store is emptied, so that nothing is held on both sides.
LEMMA HostDisposePreserves == ASSUME HostInv, HostDispose PROVE Preserved
  <1>1. /\ store' = Cleared /\ held' = {} /\ given' = {} /\ args' = {}
        /\ disposal' = "done"
    BY DEF HostDispose, HostInv, ObjectsOwned
  <1>2. ObjectsOwned' /\ Numbered' /\ ContextsAreOwned' /\ KeepsHeld
    BY <1>1 DEF Cleared, ObjectsOwned, Numbered, ContextsAreOwned, KeepsHeld
  <1> QED
    BY <1>2 DEF Preserved, HostInv

LEMMA StepPreserves == ASSUME HostInv, [Next]_vars PROVE Preserved
  <1>1. CASE \E d \in held : DestroyHeld(d)
    BY <1>1, DestroyPreserves
  <1>2. CASE Import /\ ~\E d \in held : DestroyHeld(d)
    BY <1>2, ImportKeeps, KeepsAllPreserves DEF HostInv
  <1>3. CASE Export
    BY <1>3, ExportBegins, EndCallPreserves, EndPageListPreserves, EndImageRequestPreserves
       DEF Export
  <1>4. CASE Dispose \/ HostDispose
    BY <1>4, DisposePreserves, HostDisposePreserves
  <1>5. CASE UNCHANGED vars
    BY <1>5 DEF vars, HostInv, ObjectsOwned, Numbered, ContextsAreOwned, Kind, Preserved, KeepsHeld,
                Becomes
  <1> QED
    BY <1>1, <1>2, <1>3, <1>4, <1>5 DEF Next

LEMMA InvHolds == Spec => []HostInv
  <1>1. HostInv /\ [Next]_vars => HostInv'
    BY StepPreserves DEF Preserved
  <1> QED
    BY InitInv, <1>1, PTL DEF Spec

(* The theorems -------------------------------------------------------------------- *)

\* Whatever imports the extension calls, in whatever order, every descriptor it
\* was given and has not destroyed, and every argument of the call that runs,
\* names an object, and the next number is free: the numbers, which start again
\* at 1 when the store is empty, never hand a live one out twice (store.rs).
THEOREM HandlesStayLive == Spec => []HeldAreLive
  <1>1. HostInv => HeldAreLive
    BY DEF HostInv, ObjectsOwned, Numbered, HeldAreLive
  <1> QED
    BY InvHolds, <1>1, PTL

\* However a call ends, its arguments are gone after it: the store then holds
\* what the extension keeps and what the app was handed (interpreter.rs).
THEOREM NoArgumentLeft == Spec => []ArgumentsFreed
  <1>1. HostInv => ArgumentsFreed
    BY DEF HostInv, ObjectsOwned, ArgumentsFreed
  <1> QED
    BY InvHolds, <1>1, PTL

\* The Dart side never keeps a runtime or a web view for a number the store has
\* freed, or has given to an object of another kind, unless the source was
\* disposed of during a call (js_manager.dart, host_js.rs).
THEOREM OwnersStayLive == Spec => []ContextsAreOwned
  <1>1. HostInv => ContextsAreOwned
    BY DEF HostInv
  <1> QED
    BY InvHolds, <1>1, PTL

\* A descriptor the extension holds before and after a step names an object of
\* the same kind, but for bytes that a canvas decoded (store.rs, host_canvas.rs).
THEOREM KindIsKept == Spec => KeepsItsKind
  <1>1. HostInv /\ [Next]_vars
          => [\A d \in InHand \cap (held' \cup args') :
                Kind(d)' = Kind(d) \/ (Kind(d) = "Bytes" /\ Kind(d)' = "Image")]_vars
    BY StepPreserves DEF Preserved, KeepsHeld, Becomes
  <1> QED
    BY InvHolds, <1>1, PTL DEF Spec, KeepsItsKind
=============================================================================
