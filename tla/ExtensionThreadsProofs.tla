------------------------ MODULE ExtensionThreadsProofs ------------------------
(***************************************************************************)
(* Proofs about the threads of the extensions and their settings, for any  *)
(* extensions, calls and keys, and whatever values decode to: no call is   *)
(* lost or answered out of turn, and an extension reads back what it set.  *)
(***************************************************************************)
EXTENDS ExtensionThreads, SequenceTheorems, FiniteSetTheorems, TLAPS

\* What waits in a channel or runs is a call of this extension that was not
\* answered; what runs was made before what waits, which is in the order made.
Held(s, i) == i \in DOMAIN calls /\ calls[i].source = s /\ ~calls[i].answered

QueueInOrder ==
  \A s \in Sources :
    /\ \A n \in DOMAIN jobs[s] : Held(s, jobs[s][n])
    /\ \A m, n \in DOMAIN jobs[s] : m < n => jobs[s][m] < jobs[s][n]

RunsFirst ==
  \A s \in Sources : current[s] # Nothing =>
    /\ Held(s, current[s].id)
    /\ \A n \in DOMAIN jobs[s] : current[s].id < jobs[s][n]

\* A thread that is not there holds no call.
ThreadsServe ==
  \A s \in Sources :
    /\ current[s] # Nothing => thread[s] = "running"
    /\ jobs[s] # <<>> => thread[s] \in {"running", "unwinding"}

\* A call that was not answered is held.
NoneForgotten ==
  \A i \in DOMAIN calls : ~calls[i].answered =>
    LET s == calls[i].source
    IN  \/ current[s] # Nothing /\ current[s].id = i
        \/ \E n \in DOMAIN jobs[s] : jobs[s][n] = i

\* The invariant of the calls, with the type.
CallsFacts == QueueInOrder /\ RunsFirst /\ ThreadsServe /\ NoneForgotten /\ AnswersInOrder

\* A setting last written under an extension's own name is there, or is gone with
\* nothing of its own under the plain name but what it is about to remove.
OwnIsThere ==
  \A s \in Sources, k \in Keys : mine[s][k].value # <<>> =>
    Own(s, k) \in DOMAIN settings /\ settings[Own(s, k)].value = mine[s][k].value[1]

Removed(s, k) == mine[s][k].set /\ mine[s][k].value = <<>>

RemovedIsGone ==
  \A s \in Sources, k \in Keys : Removed(s, k) =>
    /\ Own(s, k) \notin DOMAIN settings
    /\ PlainName(k) \in DOMAIN settings /\ settings[PlainName(k)].author = s =>
         setting[s] # Nothing /\ setting[s].key = k

\* An extension that removed a setting is not about to write it under the plain name.
PendingRemovesToo ==
  \A s \in Sources : setting[s] # Nothing =>
    (Removed(s, setting[s].key) => setting[s].value = <<>>)

\* The invariant of the settings, with the type.
SettingsFacts == OwnIsThere /\ RemovedIsGone /\ PendingRemovesToo

-----------------------------------------------------------------------------
(* The type.                                                               *)

ThreadsTyped ==
  /\ thread \in [Sources -> ThreadStates]
  /\ jobs \in [Sources -> Seq(1 .. MaxCalls)]
  /\ DOMAIN current = Sources /\ \A s \in Sources : current[s] \in RunsOf(s) \cup {Nothing}
  /\ calls \in Seq([source : Sources, answered : BOOLEAN]) /\ Len(calls) <= MaxCalls

SettingsTyped ==
  /\ DOMAIN settings \subseteq OwnNames \cup PlainNames
  /\ setting \in [Sources -> Sets \cup {Nothing}]
  /\ posted \subseteq [name : OwnNames \cup PlainNames, value : AppValues]
  /\ DOMAIN mine = Sources /\ \A s \in Sources : DOMAIN mine[s] = Keys
  /\ writes \in Nat

LEMMA TypeParts == ThreadsTypeOK <=> ThreadsTyped /\ SettingsTyped
  BY DEF ThreadsTypeOK, ThreadsTyped, SettingsTyped

LEMMA TypeInit == Init => ThreadsTypeOK
  <1> SUFFICES ASSUME Init PROVE ThreadsTypeOK
    OBVIOUS
  <1>1. ThreadsTyped
    BY ThreadsAssumption DEF ThreadsAssumption, Init, ThreadsTyped, ThreadStates
  <1>2. SettingsTyped
    BY DEF Init, SettingsTyped
  <1> QED
    BY <1>1, <1>2, TypeParts

\* A call in progress has a number, a call the app makes, and a reply when it ended.
LEMMA RunFields ==
    ASSUME NEW s \in Sources, NEW r
    PROVE  r \in RunsOf(s) <=>
             \E op \in Used[s] :
               r \in [id : 1 .. MaxCalls, op : {op}, arg : ArgumentsOf(op),
                      reply : MayReply(s, op) \cup {Nothing}]
  BY DEF RunsOf

\* Answering calls changes nothing else about them.
LEMMA FinishedCall ==
    ASSUME calls \in Seq([source : Sources, answered : BOOLEAN]), NEW ids, NEW i \in DOMAIN calls
    PROVE  /\ Finished(ids)[i] \in [source : Sources, answered : BOOLEAN]
           /\ Finished(ids)[i].source = calls[i].source
           /\ Finished(ids)[i].answered <=> i \in ids \/ calls[i].answered
  <1>1. calls[i] \in [source : Sources, answered : BOOLEAN]
    BY ElementOfSeq, LenProperties
  <1> QED
    BY <1>1 DEF Finished

LEMMA FinishedCalls ==
    ASSUME calls \in Seq([source : Sources, answered : BOOLEAN]), NEW ids
    PROVE  /\ Finished(ids) \in Seq([source : Sources, answered : BOOLEAN])
           /\ Len(Finished(ids)) = Len(calls) /\ DOMAIN Finished(ids) = DOMAIN calls
  <1> DEFINE C == [source : Sources, answered : BOOLEAN]
  <1>1. Len(calls) \in Nat /\ DOMAIN calls = 1 .. Len(calls)
    BY LenProperties
  <1>2. DOMAIN Finished(ids) = DOMAIN calls /\ \A i \in DOMAIN calls : Finished(ids)[i] \in C
    BY FinishedCall DEF Finished
  <1>3. Finished(ids) \in [1 .. Len(calls) -> C]
    BY <1>1, <1>2 DEF Finished
  <1> QED
    BY <1>1, <1>2, <1>3

\* A call that is taken up, or has ended, is still a call.
LEMMA BeginRuns ==
    ASSUME ThreadsTypeOK, NEW s \in Sources, Begin(s)
    PROVE  /\ current'[s] \in RunsOf(s) /\ current'[s] # Nothing /\ current'[s].id = Head(jobs[s])
           /\ \A t \in Sources : t # s => current'[t] = current[t]
           /\ \A t \in Sources : current'[t] \in RunsOf(t) \cup {Nothing}
  <1>1. PICK op \in Used[s] : \E arg \in ArgumentsOf(op) :
          current' = [current EXCEPT ![s] =
                        [id |-> Head(jobs[s]), op |-> op, arg |-> arg, reply |-> Nothing]]
    BY DEF Begin
  <1>2. PICK arg \in ArgumentsOf(op) :
          current' = [current EXCEPT ![s] =
                        [id |-> Head(jobs[s]), op |-> op, arg |-> arg, reply |-> Nothing]]
    BY <1>1
  <1> DEFINE run == [id |-> Head(jobs[s]), op |-> op, arg |-> arg, reply |-> Nothing]
  <1>3. Head(jobs[s]) \in 1 .. MaxCalls
    BY HeadTailProperties DEF Begin, ThreadsTypeOK
  <1>4. run \in RunsOf(s) /\ run.id = Head(jobs[s])
    BY <1>3, RunFields
  <1>5. current'[s] = run /\ \A t \in Sources : t # s => current'[t] = current[t]
    BY <1>2 DEF ThreadsTypeOK
  <1> HIDE DEF run
  <1> QED
    BY <1>4, <1>5, ThreadsAssumption DEF ThreadsAssumption, ThreadsTypeOK

LEMMA ReplyRuns ==
    ASSUME ThreadsTypeOK, NEW s \in Sources, Reply(s)
    PROVE  /\ current'[s] \in RunsOf(s) /\ current'[s] # Nothing /\ current'[s].id = current[s].id
           /\ \A t \in Sources : t # s => current'[t] = current[t]
           /\ \A t \in Sources : current'[t] \in RunsOf(t) \cup {Nothing}
  <1>1. PICK reply \in MayReply(s, current[s].op) : current' = [current EXCEPT ![s].reply = reply]
    BY DEF Reply
  <1>2. current[s] \in RunsOf(s)
    BY DEF Reply, ThreadsTypeOK
  <1>3. PICK op \in Used[s] :
          current[s] \in [id : 1 .. MaxCalls, op : {op}, arg : ArgumentsOf(op),
                          reply : MayReply(s, op) \cup {Nothing}]
    BY <1>2, RunFields
  <1> DEFINE run == [current[s] EXCEPT !.reply = reply]
  <1>4. run \in [id : 1 .. MaxCalls, op : {op}, arg : ArgumentsOf(op), reply : MayReply(s, op) \cup {Nothing}]
        /\ run.id = current[s].id
    BY <1>1, <1>3
  <1>5. run \in RunsOf(s)
    BY <1>4, RunFields
  <1>6. current'[s] = run /\ \A t \in Sources : t # s => current'[t] = current[t]
    BY <1>1 DEF ThreadsTypeOK
  <1>7. run.id = current[s].id
    BY <1>4
  <1> HIDE DEF run
  <1> QED
    BY <1>5, <1>6, <1>7, ThreadsAssumption DEF ThreadsAssumption, ThreadsTypeOK

\* What a step of the threads does to their type.
LEMMA ThreadsTypeStep ==
    ASSUME ThreadsTypeOK, NEW s \in Sources,
           Create(s) \/ Created(s) \/ Call(s) \/ Begin(s) \/ Reply(s) \/ Deliver(s)
             \/ ImportPanics(s) \/ Unwound(s) \/ Release(s)
    PROVE  ThreadsTyped'
  <1> USE DEF ThreadsTyped
  <1>0. ThreadsTyped
    BY TypeParts
  <1>1. CASE Create(s) \/ Created(s) \/ Release(s)
    BY <1>0, <1>1 DEF Create, Created, Release, ThreadStates
  <1>2. CASE Call(s)
    <2>1. Len(calls) + 1 \in 1 .. MaxCalls /\ Len(calls) \in Nat
      BY <1>0, <1>2, ThreadsAssumption DEF Call, ThreadsAssumption
    <2>2. CASE UNCHANGED jobs
      <3>1. PICK r \in [source : Sources, answered : BOOLEAN] : calls' = Append(calls, r)
        BY <1>2 DEF Call
      <3>2. calls' \in Seq([source : Sources, answered : BOOLEAN]) /\ Len(calls') = Len(calls) + 1
        BY <1>0, <3>1, AppendProperties
      <3> QED
        BY <1>0, <1>2, <2>1, <2>2, <3>2 DEF Call
    <2>3. CASE /\ calls' = Append(calls, [source |-> s, answered |-> FALSE])
               /\ jobs' = [jobs EXCEPT ![s] = Append(@, Len(calls) + 1)]
      BY <1>0, <1>2, <2>1, <2>3 DEF Call
    <2> QED
      BY <1>2, <2>2, <2>3 DEF Call
  <1>3. CASE Begin(s)
    <2>1. \A t \in Sources : current'[t] \in RunsOf(t) \cup {Nothing}
      BY <1>0, <1>3, BeginRuns
    <2>2. Tail(jobs[s]) \in Seq(1 .. MaxCalls)
      BY <1>0, <1>3, HeadTailProperties DEF Begin
    <2> QED
      BY <1>0, <1>3, <2>1, <2>2 DEF Begin
  <1>4. CASE Reply(s)
    <2>1. \A t \in Sources : current'[t] \in RunsOf(t) \cup {Nothing}
      BY <1>0, <1>4, ReplyRuns
    <2> QED
      BY <1>0, <1>4, <2>1 DEF Reply
  <1>5. CASE Deliver(s) \/ ImportPanics(s) \/ Unwound(s)
    <2>1. calls' \in Seq([source : Sources, answered : BOOLEAN]) /\ Len(calls') <= MaxCalls
      BY <1>0, <1>5, FinishedCalls DEF Deliver, ImportPanics, Unwound
    <2>2. thread' \in [Sources -> ThreadStates]
      BY <1>0, <1>5 DEF Deliver, ImportPanics, Unwound, ThreadStates
    <2>3. jobs' \in [Sources -> Seq(1 .. MaxCalls)]
      <3>1. CASE UNCHANGED jobs
        BY <1>0, <3>1
      <3>2. CASE Unwound(s)
        <4>1. <<>> \in Seq(1 .. MaxCalls)
          OBVIOUS
        <4> QED
          BY <1>0, <3>2, <4>1 DEF Unwound
      <3> QED
        BY <1>5, <3>1, <3>2 DEF Deliver, ImportPanics
    <2>4. DOMAIN current' = Sources /\ \A t \in Sources : current'[t] \in RunsOf(t) \cup {Nothing}
      BY <1>0, <1>5 DEF Deliver, ImportPanics, Unwound
    <2> QED
      BY <2>1, <2>2, <2>3, <2>4
  <1> QED
    BY <1>1, <1>2, <1>3, <1>4, <1>5

\* What a write of a setting does to the names there are.
LEMMA SetNames ==
    ASSUME NEW map, NEW name, NEW value, NEW author
    PROVE  /\ DOMAIN SetValue(map, name, value, author) \subseteq DOMAIN map \cup {name}
           /\ value = <<>> => name \notin DOMAIN SetValue(map, name, value, author)
           /\ value # <<>> => /\ name \in DOMAIN SetValue(map, name, value, author)
                              /\ SetValue(map, name, value, author)[name]
                                   = [author |-> author, value |-> value[1]]
  BY DEF SetValue, Restrict

LEMMA SetKeepsOthers ==
    ASSUME NEW map, NEW name, NEW value, NEW author, NEW n \in DOMAIN map \ {name}
    PROVE  /\ n \in DOMAIN SetValue(map, name, value, author)
           /\ SetValue(map, name, value, author)[n] = map[n]
  BY DEF SetValue, Restrict

LEMMA SetNamesTyped ==
    ASSUME NEW N, NEW map, DOMAIN map \subseteq N, NEW name \in N, NEW value, NEW author
    PROVE  DOMAIN SetValue(map, name, value, author) \subseteq N
  <1>1. DOMAIN SetValue(map, name, value, author) \subseteq DOMAIN map \cup {name}
    BY SetNames
  <1> QED
    BY <1>1

LEMMA SettingsTypeStep ==
    ASSUME ThreadsTypeOK,
           SavePreference \/ Land \/ \E s \in Sources : SetOwn(s) \/ SetPlain(s) \/ Restore(s)
    PROVE  SettingsTyped'
  <1> USE DEF SettingsTyped
  <1>0. SettingsTyped
    BY TypeParts
  <1>1. CASE SavePreference
    BY <1>0, <1>1 DEF SavePreference, PlainNames
  <1>2. CASE Land
    <2>1. PICK p \in posted :
            /\ posted' = posted \ {p}
            /\ settings' = SetValue(settings, p.name, ValueOfText(p.value.type, p.value.text), App)
      BY <1>2 DEF Land
    <2>2. p.name \in OwnNames \cup PlainNames
      BY <1>0, <2>1
    <2>3. DOMAIN settings' \subseteq OwnNames \cup PlainNames
      <3>1. DOMAIN settings \subseteq OwnNames \cup PlainNames
        BY <1>0
      <3>2. \A v : DOMAIN SetValue(settings, p.name, v, App) \subseteq OwnNames \cup PlainNames
        <4> TAKE v
        <4> QED
          BY <2>2, <3>1, SetNamesTyped
      <3> QED
        BY <2>1, <3>2
    <2> QED
      BY <1>0, <1>2, <2>1, <2>3 DEF Land
  <1>3. ASSUME NEW s \in Sources, SetOwn(s) PROVE SettingsTyped'
    <2>1. PICK k \in Keys, d \in SettingData :
            /\ settings' = SetValue(settings, Own(s, k), ValueOfData(d.kind, d.data), s)
            /\ mine' = [mine EXCEPT ![s][k] = [set |-> TRUE, value |-> ValueOfData(d.kind, d.data)]]
            /\ setting' = [setting EXCEPT ![s] = [key |-> k, value |-> ValueOfData(d.kind, d.data)]]
      BY <1>3 DEF SetOwn
    <2>2. Own(s, k) \in OwnNames \cup PlainNames /\ [key |-> k, value |-> ValueOfData(d.kind, d.data)] \in Sets
      BY DEF OwnNames, Sets
    <2>3. DOMAIN settings' \subseteq OwnNames \cup PlainNames
      BY <1>0, <2>1, <2>2, SetNamesTyped
    <2> QED
      BY <1>0, <1>3, <2>1, <2>2, <2>3 DEF SetOwn
  <1>4. ASSUME NEW s \in Sources, SetPlain(s) PROVE SettingsTyped'
    <2>1. setting[s] \in Sets
      BY <1>0, <1>4 DEF SetPlain
    <2>2. PlainName(setting[s].key) \in PlainNames
      BY <2>1 DEF Sets, PlainNames
    <2>3. DOMAIN settings' \subseteq OwnNames \cup PlainNames
      BY <1>0, <1>4, <2>2, SetNamesTyped DEF SetPlain
    <2> QED
      BY <1>0, <1>4, <2>3 DEF SetPlain
  <1>5. ASSUME NEW s \in Sources, Restore(s) PROVE SettingsTyped'
    BY <1>0, <1>5 DEF Restore, OwnNames, PlainNames
  <1> QED
    BY <1>1, <1>2, <1>3, <1>4, <1>5

LEMMA TypeStep == ThreadsTypeOK /\ [Next]_vars => ThreadsTypeOK'
  <1> SUFFICES ASSUME ThreadsTypeOK, [Next]_vars PROVE ThreadsTypeOK'
    OBVIOUS
  <1>0. ThreadsTyped /\ SettingsTyped
    BY TypeParts
  <1>1. UNCHANGED threadVars => ThreadsTyped'
    BY <1>0 DEF threadVars, ThreadsTyped
  <1>2. UNCHANGED settingVars => SettingsTyped'
    BY <1>0 DEF settingVars, SettingsTyped
  <1>3. ASSUME NEW s \in Sources, Step(s) PROVE ThreadsTypeOK'
    <2>1. CASE Create(s) \/ Created(s) \/ Call(s) \/ Begin(s) \/ Reply(s) \/ Deliver(s)
                 \/ ImportPanics(s) \/ Unwound(s) \/ Release(s)
      <3>1. ThreadsTyped'
        BY <2>1, ThreadsTypeStep
      <3>2. UNCHANGED settingVars
        BY <2>1 DEF Create, Created, Call, Begin, Reply, Deliver, ImportPanics, Unwound, Release
      <3> QED
        BY <1>2, <3>1, <3>2 DEF ThreadsTypeOK, ThreadsTyped, SettingsTyped
    <2>2. CASE Get(s)
      BY <1>1, <1>2, <2>2 DEF ThreadsTypeOK, ThreadsTyped, SettingsTyped, Get
    <2>3. CASE SetOwn(s) \/ SetPlain(s) \/ Restore(s)
      <3>1. SettingsTyped'
        BY <2>3, SettingsTypeStep
      <3>2. UNCHANGED threadVars
        BY <2>3 DEF SetOwn, SetPlain, Restore
      <3> QED
        BY <1>1, <3>1, <3>2 DEF ThreadsTypeOK, ThreadsTyped, SettingsTyped
    <2> QED
      BY <1>3, <2>1, <2>2, <2>3 DEF Step
  <1>4. CASE SavePreference \/ Land
    <2>1. SettingsTyped'
      BY <1>4, SettingsTypeStep
    <2>2. UNCHANGED threadVars
      BY <1>4 DEF SavePreference, Land
    <2> QED
      BY <1>1, <2>1, <2>2 DEF ThreadsTypeOK, ThreadsTyped, SettingsTyped
  <1>5. CASE UNCHANGED vars
    BY <1>1, <1>2, <1>5 DEF ThreadsTypeOK, ThreadsTyped, SettingsTyped, vars
  <1> QED
    BY <1>3, <1>4, <1>5 DEF Next

-----------------------------------------------------------------------------
(* The settings.                                                           *)

LEMMA NamesDiffer ==
    ASSUME NEW s, NEW k, NEW t, NEW l
    PROVE  /\ Own(s, k) = Own(t, l) <=> s = t /\ k = l
           /\ PlainName(k) = PlainName(l) <=> k = l
           /\ Own(s, k) # PlainName(l)
  BY DEF Own, PlainName

LEMMA SettingsInit == Init => SettingsFacts
  BY DEF Init, SettingsFacts, OwnIsThere, RemovedIsGone, PendingRemovesToo, Removed

\* What is left alone keeps the facts about the settings.
LEMMA SettingsIdle ==
    ASSUME SettingsFacts, UNCHANGED <<settings, setting, mine>>
    PROVE  SettingsFacts'
  BY DEF SettingsFacts, OwnIsThere, RemovedIsGone, PendingRemovesToo, Removed

LEMMA SetOwnKeeps ==
    ASSUME ThreadsTypeOK, SettingsFacts, NEW s \in Sources, SetOwn(s)
    PROVE  SettingsFacts'
  <1>1. PICK k \in Keys, d \in SettingData :
          /\ settings' = SetValue(settings, Own(s, k), ValueOfData(d.kind, d.data), s)
          /\ mine' = [mine EXCEPT ![s][k] = [set |-> TRUE, value |-> ValueOfData(d.kind, d.data)]]
          /\ setting' = [setting EXCEPT ![s] = [key |-> k, value |-> ValueOfData(d.kind, d.data)]]
    BY DEF SetOwn
  <1> DEFINE v == ValueOfData(d.kind, d.data)
  <1>2. /\ mine'[s][k] = [set |-> TRUE, value |-> v]
        /\ \A t \in Sources, l \in Keys : (t # s \/ l # k) => mine'[t][l] = mine[t][l]
    BY <1>1 DEF ThreadsTypeOK
  <1>3. /\ setting'[s] = [key |-> k, value |-> v] /\ setting'[s] # Nothing
        /\ \A t \in Sources : t # s => setting'[t] = setting[t]
    BY <1>1, ThreadsAssumption DEF ThreadsTypeOK, ThreadsAssumption, Sets
  <1>4. /\ \A n \in DOMAIN settings \ {Own(s, k)} : n \in DOMAIN settings' /\ settings'[n] = settings[n]
        /\ DOMAIN settings' \subseteq DOMAIN settings \cup {Own(s, k)}
        /\ v = <<>> => Own(s, k) \notin DOMAIN settings'
        /\ v # <<>> => Own(s, k) \in DOMAIN settings' /\ settings'[Own(s, k)].value = v[1]
    <2>1. settings' = SetValue(settings, Own(s, k), v, s)
      BY <1>1
    <2> DEFINE new == SetValue(settings, Own(s, k), v, s)
    <2> HIDE DEF v
    <2>2. \A n \in DOMAIN settings \ {Own(s, k)} : n \in DOMAIN new /\ new[n] = settings[n]
      BY SetKeepsOthers
    <2>3. DOMAIN new \subseteq DOMAIN settings \cup {Own(s, k)}
      BY SetNames
    <2>4. v = <<>> => Own(s, k) \notin DOMAIN new
      BY SetNames
    <2>5. v # <<>> => Own(s, k) \in DOMAIN new /\ new[Own(s, k)] = [author |-> s, value |-> v[1]]
      BY SetNames
    <2> QED
      BY <2>1, <2>2, <2>3, <2>4, <2>5
  <1>5. setting[s] = Nothing
    BY DEF SetOwn, Executing
  <1> HIDE DEF v
  <1>6. OwnIsThere'
    <2> SUFFICES ASSUME NEW t \in Sources, NEW l \in Keys, mine'[t][l].value # <<>>
                 PROVE  Own(t, l) \in DOMAIN settings' /\ settings'[Own(t, l)].value = mine'[t][l].value[1]
      BY DEF OwnIsThere
    <2>1. CASE t = s /\ l = k
      BY <1>2, <1>4, <2>1
    <2>2. CASE t # s \/ l # k
      BY <1>2, <1>4, <2>2, NamesDiffer DEF SettingsFacts, OwnIsThere
    <2> QED
      BY <2>1, <2>2
  <1>7. RemovedIsGone'
    <2> SUFFICES ASSUME NEW t \in Sources, NEW l \in Keys, Removed(t, l)'
                 PROVE  /\ Own(t, l) \notin DOMAIN settings'
                        /\ PlainName(l) \in DOMAIN settings' /\ settings'[PlainName(l)].author = t =>
                             setting'[t] # Nothing /\ setting'[t].key = l
      BY DEF RemovedIsGone
    <2>1. CASE t = s /\ l = k
      BY <1>2, <1>3, <1>4, <2>1 DEF Removed
    <2>2. CASE t # s \/ l # k
      <3>1. Removed(t, l)
        BY <1>2, <2>2 DEF Removed
      <3>2. Own(t, l) \notin DOMAIN settings'
        BY <1>4, <2>2, <3>1, NamesDiffer DEF SettingsFacts, RemovedIsGone
      <3>3. PlainName(l) \in DOMAIN settings' =>
              PlainName(l) \in DOMAIN settings /\ settings'[PlainName(l)] = settings[PlainName(l)]
        BY <1>4, NamesDiffer
      <3>4. PlainName(l) \in DOMAIN settings /\ settings[PlainName(l)].author = t =>
              setting[t] # Nothing /\ setting[t].key = l
        BY <3>1 DEF SettingsFacts, RemovedIsGone
      <3> QED
        BY <1>3, <1>5, <3>2, <3>3, <3>4
    <2> QED
      BY <2>1, <2>2
  <1>8. PendingRemovesToo'
    <2> SUFFICES ASSUME NEW t \in Sources, setting'[t] # Nothing, Removed(t, setting[t].key)'
                 PROVE  setting'[t].value = <<>>
      BY DEF PendingRemovesToo
    <2>1. CASE t = s
      BY <1>2, <1>3, <2>1 DEF Removed
    <2>2. CASE t # s
      <3>1. setting[t] \in Sets
        BY <1>3, <2>2 DEF ThreadsTypeOK
      <3>2. setting[t].key \in Keys
        BY <3>1 DEF Sets
      <3>3. Removed(t, setting[t].key)
        BY <1>2, <1>3, <2>2, <3>2 DEF Removed
      <3> QED
        BY <1>3, <2>2, <3>3 DEF SettingsFacts, PendingRemovesToo
    <2> QED
      BY <2>1, <2>2
  <1> QED
    BY <1>6, <1>7, <1>8 DEF SettingsFacts

LEMMA SetPlainKeeps ==
    ASSUME ThreadsTypeOK, SettingsFacts, NEW s \in Sources, SetPlain(s)
    PROVE  SettingsFacts'
  <1> DEFINE k == setting[s].key
             v == setting[s].value
  <1>1. /\ settings' = SetValue(settings, PlainName(k), v, s)
        /\ setting' = [setting EXCEPT ![s] = Nothing]
        /\ mine' = mine
        /\ setting[s] # Nothing
    BY DEF SetPlain
  <1>2. setting'[s] = Nothing /\ \A t \in Sources : t # s => setting'[t] = setting[t]
    BY <1>1 DEF ThreadsTypeOK
  <1>3. /\ \A n \in DOMAIN settings \ {PlainName(k)} : n \in DOMAIN settings' /\ settings'[n] = settings[n]
        /\ DOMAIN settings' \subseteq DOMAIN settings \cup {PlainName(k)}
        /\ v = <<>> => PlainName(k) \notin DOMAIN settings'
        /\ v # <<>> => PlainName(k) \in DOMAIN settings' /\ settings'[PlainName(k)].author = s
    <2>1. settings' = SetValue(settings, PlainName(k), v, s)
      BY <1>1
    <2> DEFINE new == SetValue(settings, PlainName(k), v, s)
    <2> HIDE DEF k, v
    <2>2. \A n \in DOMAIN settings \ {PlainName(k)} : n \in DOMAIN new /\ new[n] = settings[n]
      BY SetKeepsOthers
    <2>3. DOMAIN new \subseteq DOMAIN settings \cup {PlainName(k)}
      BY SetNames
    <2>4. v = <<>> => PlainName(k) \notin DOMAIN new
      BY SetNames
    <2>5. v # <<>> => PlainName(k) \in DOMAIN new /\ new[PlainName(k)] = [author |-> s, value |-> v[1]]
      BY SetNames
    <2> QED
      BY <2>1, <2>2, <2>3, <2>4, <2>5
  <1> HIDE DEF k, v
  <1>4. OwnIsThere'
    <2> SUFFICES ASSUME NEW t \in Sources, NEW l \in Keys, mine[t][l].value # <<>>
                 PROVE  Own(t, l) \in DOMAIN settings' /\ settings'[Own(t, l)].value = mine[t][l].value[1]
      BY <1>1 DEF OwnIsThere
    <2>1. Own(t, l) \in DOMAIN settings /\ settings[Own(t, l)].value = mine[t][l].value[1]
      BY DEF SettingsFacts, OwnIsThere
    <2> QED
      BY <1>3, <2>1, NamesDiffer
  <1>5. RemovedIsGone'
    <2> SUFFICES ASSUME NEW t \in Sources, NEW l \in Keys, Removed(t, l)'
                 PROVE  /\ Own(t, l) \notin DOMAIN settings'
                        /\ PlainName(l) \in DOMAIN settings' /\ settings'[PlainName(l)].author = t =>
                             setting'[t] # Nothing /\ setting'[t].key = l
      BY DEF RemovedIsGone
    <2>1. Removed(t, l)
      BY <1>1 DEF Removed
    <2>2. Own(t, l) \notin DOMAIN settings'
      BY <1>3, <2>1, NamesDiffer DEF SettingsFacts, RemovedIsGone
    <2>3. PlainName(l) \in DOMAIN settings /\ settings[PlainName(l)].author = t =>
            setting[t] # Nothing /\ setting[t].key = l
      BY <2>1 DEF SettingsFacts, RemovedIsGone
    <2>4. CASE l # k
      <3>1. PlainName(l) \in DOMAIN settings' =>
              PlainName(l) \in DOMAIN settings /\ settings'[PlainName(l)] = settings[PlainName(l)]
        BY <1>3, <2>4, NamesDiffer
      <3>2. t = s => ~(PlainName(l) \in DOMAIN settings /\ settings[PlainName(l)].author = t)
        BY <2>3, <2>4 DEF k
      <3> QED
        BY <1>2, <2>2, <2>3, <3>1, <3>2
    <2>5. CASE l = k
      <3>1. CASE t = s
        <4>1. v = <<>>
          BY <1>1, <2>1, <2>5, <3>1 DEF SettingsFacts, PendingRemovesToo, k, v
        <4> QED
          BY <1>3, <2>2, <2>5, <4>1
      <3>2. CASE t # s
        BY <1>3, <2>2, <2>5, <3>2
      <3> QED
        BY <3>1, <3>2
    <2> QED
      BY <2>4, <2>5
  <1>6. PendingRemovesToo'
    BY <1>1, <1>2 DEF SettingsFacts, PendingRemovesToo, Removed
  <1> QED
    BY <1>4, <1>5, <1>6 DEF SettingsFacts

LEMMA LandKeeps ==
    ASSUME ThreadsTypeOK, SettingsFacts, Land
    PROVE  SettingsFacts'
  <1>1. PICK p \in posted :
          /\ settings' = SetValue(settings, p.name, ValueOfText(p.value.type, p.value.text), App)
          /\ mine' = [t \in Sources |-> [l \in Keys |->
                        IF p.name = Own(t, l)
                        THEN [set |-> ValueOfText(p.value.type, p.value.text) # <<>>,
                              value |-> ValueOfText(p.value.type, p.value.text)]
                        ELSE mine[t][l]]]
          /\ setting' = setting
    BY DEF Land
  <1> DEFINE v == ValueOfText(p.value.type, p.value.text)
             name == p.name
             new == SetValue(settings, name, v, App)
  <1>2. /\ \A n \in DOMAIN settings \ {name} : n \in DOMAIN settings' /\ settings'[n] = settings[n]
        /\ DOMAIN settings' \subseteq DOMAIN settings \cup {name}
        /\ v = <<>> => name \notin DOMAIN settings'
        /\ v # <<>> => name \in DOMAIN settings' /\ settings'[name] = [author |-> App, value |-> v[1]]
    <2>1. settings' = new
      BY <1>1
    <2> HIDE DEF v, name
    <2>2. \A n \in DOMAIN settings \ {name} : n \in DOMAIN new /\ new[n] = settings[n]
      BY SetKeepsOthers
    <2>3. DOMAIN new \subseteq DOMAIN settings \cup {name}
      BY SetNames
    <2>4. v = <<>> => name \notin DOMAIN new
      BY SetNames
    <2>5. v # <<>> => name \in DOMAIN new /\ new[name] = [author |-> App, value |-> v[1]]
      BY SetNames
    <2> QED
      BY <2>1, <2>2, <2>3, <2>4, <2>5
  <1>3. \A t \in Sources, l \in Keys :
          mine'[t][l] = IF name = Own(t, l) THEN [set |-> v # <<>>, value |-> v] ELSE mine[t][l]
    BY <1>1
  <1> HIDE DEF v, name
  <1>4. ASSUME NEW t \in Sources, NEW l \in Keys, Removed(t, l)'
        PROVE  name # Own(t, l) /\ Removed(t, l)
    <2>1. mine'[t][l].set /\ mine'[t][l].value = <<>>
      BY <1>4 DEF Removed
    <2>2. CASE name = Own(t, l)
      <3>1. mine'[t][l] = [set |-> v # <<>>, value |-> v]
        BY <1>3, <2>2
      <3>2. v = <<>>
        BY <2>1, <3>1
      <3>3. (v # <<>>) = FALSE
        BY <3>2
      <3>4. mine'[t][l] = [set |-> FALSE, value |-> v]
        BY <3>1, <3>3
      <3> QED
        BY <2>1, <3>4
    <2>3. CASE name # Own(t, l)
      BY <1>3, <2>1, <2>3 DEF Removed
    <2> QED
      BY <2>2, <2>3
  <1>5. OwnIsThere'
    <2> SUFFICES ASSUME NEW t \in Sources, NEW l \in Keys, mine'[t][l].value # <<>>
                 PROVE  Own(t, l) \in DOMAIN settings' /\ settings'[Own(t, l)].value = mine'[t][l].value[1]
      BY DEF OwnIsThere
    <2>1. CASE name = Own(t, l)
      BY <1>2, <1>3, <2>1
    <2>2. CASE name # Own(t, l)
      BY <1>2, <1>3, <2>2 DEF SettingsFacts, OwnIsThere
    <2> QED
      BY <2>1, <2>2
  <1>6. RemovedIsGone'
    <2> SUFFICES ASSUME NEW t \in Sources, NEW l \in Keys, Removed(t, l)'
                 PROVE  /\ Own(t, l) \notin DOMAIN settings'
                        /\ PlainName(l) \in DOMAIN settings' /\ settings'[PlainName(l)].author = t =>
                             setting'[t] # Nothing /\ setting'[t].key = l
      BY DEF RemovedIsGone
    <2>1. name # Own(t, l) /\ Removed(t, l)
      BY <1>4
    <2>2. Own(t, l) \notin DOMAIN settings'
      BY <1>2, <2>1 DEF SettingsFacts, RemovedIsGone
    <2>3. PlainName(l) \in DOMAIN settings /\ settings[PlainName(l)].author = t =>
            setting[t] # Nothing /\ setting[t].key = l
      BY <2>1 DEF SettingsFacts, RemovedIsGone
    <2>4. CASE name = PlainName(l)
      BY <1>2, <2>2, <2>4, ThreadsAssumption DEF ThreadsAssumption
    <2>5. CASE name # PlainName(l)
      BY <1>1, <1>2, <2>2, <2>3, <2>5
    <2> QED
      BY <2>4, <2>5
  <1>7. PendingRemovesToo'
    <2> SUFFICES ASSUME NEW t \in Sources, setting[t] # Nothing, Removed(t, setting[t].key)'
                 PROVE  setting[t].value = <<>>
      BY <1>1 DEF PendingRemovesToo, Removed
    <2>1. setting[t] \in Sets
      BY DEF ThreadsTypeOK
    <2>2. setting[t].key \in Keys
      BY <2>1 DEF Sets
    <2>3. Removed(t, setting[t].key)
      BY <1>1, <1>3, <2>2 DEF Removed
    <2> QED
      BY <2>3 DEF SettingsFacts, PendingRemovesToo
  <1> QED
    BY <1>5, <1>6, <1>7 DEF SettingsFacts

LEMMA SettingsStep == ThreadsTypeOK /\ SettingsFacts /\ [Next]_vars => SettingsFacts'
  <1> SUFFICES ASSUME ThreadsTypeOK, SettingsFacts, [Next]_vars PROVE SettingsFacts'
    OBVIOUS
  <1>1. CASE UNCHANGED vars \/ SavePreference
    BY <1>1, SettingsIdle DEF vars, settingVars, SavePreference
  <1>2. CASE Land
    BY <1>2, LandKeeps
  <1>3. ASSUME NEW s \in Sources, Step(s) PROVE SettingsFacts'
    <2>1. CASE SetOwn(s)
      BY <2>1, SetOwnKeeps
    <2>2. CASE SetPlain(s)
      BY <2>2, SetPlainKeeps
    <2>3. CASE ~SetOwn(s) /\ ~SetPlain(s)
      <3>1. UNCHANGED <<settings, setting, mine>>
        BY <1>3, <2>3 DEF Step, Create, Created, Call, Begin, Reply, Deliver, ImportPanics, Unwound,
                         Release, Get, Restore, settingVars
      <3> QED
        BY <3>1, SettingsIdle
    <2> QED
      BY <2>1, <2>2, <2>3
  <1> QED
    BY <1>1, <1>2, <1>3 DEF Next

\* What defaults.get tells an extension is right at the step that tells it.
LEMMA ReadBackStep == ThreadsTypeOK /\ SettingsFacts /\ SettingsReadBack /\ [Next]_vars => SettingsReadBack'
  <1> SUFFICES ASSUME ThreadsTypeOK, SettingsFacts, SettingsReadBack, [Next]_vars PROVE SettingsReadBack'
    OBVIOUS
  <1>1. CASE UNCHANGED vars
    BY <1>1 DEF vars, settingVars, SettingsReadBack
  <1>2. ASSUME NEW s \in Sources, Get(s) PROVE SettingsReadBack'
    <2>1. PICK k \in Keys :
            heard' = [reader |-> s, key |-> k,
                      author |-> IF GetValue(s, k) = <<>> THEN Nothing ELSE GetValue(s, k)[1].author,
                      bytes |-> IF GetValue(s, k) = <<>> THEN <<>>
                                ELSE <<BytesOf(GetValue(s, k)[1].value)>>]
      BY <1>2 DEF Get
    <2> DEFINE own == mine[s][k]
    <2>2. heard'.reader = s /\ heard'.key = k /\ mine' = mine
      BY <1>2, <2>1 DEF Get, settingVars
    <2>3. own.value # <<>> => heard'.bytes = <<BytesOf(own.value[1])>>
      <3> SUFFICES ASSUME own.value # <<>> PROVE heard'.bytes = <<BytesOf(own.value[1])>>
        OBVIOUS
      <3>1. Own(s, k) \in DOMAIN settings /\ settings[Own(s, k)].value = own.value[1]
        BY DEF SettingsFacts, OwnIsThere
      <3>2. GetValue(s, k) = <<settings[Own(s, k)]>>
        BY <3>1 DEF GetValue
      <3>3. GetValue(s, k) # <<>> /\ GetValue(s, k)[1] = settings[Own(s, k)]
        BY <3>2
      <3> QED
        BY <2>1, <3>1, <3>3
    <2>4. own.set /\ own.value = <<>> => heard'.author # s
      <3> SUFFICES ASSUME Removed(s, k) PROVE heard'.author # s
        BY DEF Removed
      <3>1. /\ Own(s, k) \notin DOMAIN settings
            /\ PlainName(k) \in DOMAIN settings /\ settings[PlainName(k)].author = s =>
                 setting[s] # Nothing /\ setting[s].key = k
        BY DEF SettingsFacts, RemovedIsGone
      <3>2. setting[s] = Nothing
        BY <1>2 DEF Get, Executing
      <3>3. CASE PlainName(k) \in DOMAIN settings
        <4>1. GetValue(s, k) = <<settings[PlainName(k)]>>
          BY <3>1, <3>3 DEF GetValue
        <4>2. GetValue(s, k) # <<>> /\ GetValue(s, k)[1] = settings[PlainName(k)]
          BY <4>1
        <4> QED
          BY <2>1, <3>1, <3>2, <3>3, <4>2
      <3>4. CASE PlainName(k) \notin DOMAIN settings
        <4>1. GetValue(s, k) = <<>>
          BY <3>1, <3>4 DEF GetValue
        <4> QED
          BY <2>1, <4>1, ThreadsAssumption DEF ThreadsAssumption
      <3> QED
        BY <3>3, <3>4
    <2> QED
      BY <2>2, <2>3, <2>4 DEF SettingsReadBack
  <1>3. CASE heard' = Nothing
    BY <1>3 DEF SettingsReadBack
  <1>4. ASSUME NEW s \in Sources, Call(s) \/ Deliver(s) \/ ImportPanics(s) PROVE SettingsReadBack'
    <2>1. heard' = Nothing \/ "reader" \notin DOMAIN heard'
      BY <1>4 DEF Call, Deliver, ImportPanics
    <2> QED
      BY <2>1 DEF SettingsReadBack
  <1> QED
    BY <1>1, <1>2, <1>3, <1>4
       DEF Next, Step, SavePreference, Land, Create, Created, Begin, Reply, Unwound, Release, SetOwn,
           SetPlain, Restore

\* The type: what the threads hold, what is written, and by whom (run, create).
THEOREM ThreadsTyping == Spec => []ThreadsTypeOK
  <1>1. Init => ThreadsTypeOK
    BY TypeInit
  <1>2. ThreadsTypeOK /\ [Next]_vars => ThreadsTypeOK'
    BY TypeStep
  <1> QED
    BY <1>1, <1>2, PTL DEF Spec

\* An extension reads what was last set for it, by itself or for it by the app, and
\* never its own value back after it removed it, for any extensions, names and
\* values, and whoever writes the plain name in between (DefaultsGet, DefaultsSet).
THEOREM ExtensionsReadWhatTheySet == Spec => []SettingsReadBack
  <1>1. Init => ThreadsTypeOK /\ SettingsFacts /\ SettingsReadBack
    BY TypeInit, SettingsInit DEF Init, SettingsReadBack
  <1>2. ThreadsTypeOK /\ SettingsFacts /\ SettingsReadBack /\ [Next]_vars
          => (ThreadsTypeOK /\ SettingsFacts /\ SettingsReadBack)'
    BY TypeStep, SettingsStep, ReadBackStep
  <1> QED
    BY <1>1, <1>2, PTL DEF Spec

-----------------------------------------------------------------------------
(* The calls.                                                              *)

LEMMA CallsTyped ==
    ASSUME ThreadsTypeOK
    PROVE  /\ Len(calls) \in Nat /\ DOMAIN calls = 1 .. Len(calls)
           /\ \A i \in DOMAIN calls : calls[i].source \in Sources /\ calls[i].answered \in BOOLEAN
           /\ \A s \in Sources : /\ jobs[s] \in Seq(1 .. MaxCalls) /\ Len(jobs[s]) \in Nat
                                 /\ DOMAIN jobs[s] = 1 .. Len(jobs[s])
                                 /\ \A n \in DOMAIN jobs[s] : jobs[s][n] \in 1 .. MaxCalls
  <1>1. calls \in Seq([source : Sources, answered : BOOLEAN])
    BY DEF ThreadsTypeOK
  <1>2. Len(calls) \in Nat /\ DOMAIN calls = 1 .. Len(calls)
    BY <1>1, LenProperties
  <1>3. ASSUME NEW i \in DOMAIN calls PROVE calls[i] \in [source : Sources, answered : BOOLEAN]
    BY <1>1, <1>2, ElementOfSeq
  <1>4. ASSUME NEW s \in Sources
        PROVE  /\ jobs[s] \in Seq(1 .. MaxCalls) /\ Len(jobs[s]) \in Nat
               /\ DOMAIN jobs[s] = 1 .. Len(jobs[s])
               /\ \A n \in DOMAIN jobs[s] : jobs[s][n] \in 1 .. MaxCalls
    <2>1. jobs[s] \in Seq(1 .. MaxCalls)
      BY DEF ThreadsTypeOK
    <2>2. Len(jobs[s]) \in Nat /\ DOMAIN jobs[s] = 1 .. Len(jobs[s])
      BY <2>1, LenProperties
    <2> QED
      BY <2>1, <2>2, ElementOfSeq
  <1> QED
    BY <1>2, <1>3, <1>4

\* A call that is held after the step.
HeldAfter(s, i) == i \in DOMAIN calls' /\ calls'[i].source = s /\ ~calls'[i].answered

LEMMA CallsInit == Init => CallsFacts
  BY DEF Init, CallsFacts, QueueInOrder, RunsFirst, ThreadsServe, NoneForgotten, AnswersInOrder, Held

\* A step that moves no call keeps the facts about them, if the threads it brings
\* to an end hold none.
LEMMA QuietKeeps ==
    ASSUME ThreadsTypeOK, CallsFacts, UNCHANGED <<jobs, calls>>,
           \A t \in Sources : /\ (current'[t] = Nothing) <=> (current[t] = Nothing)
                              /\ current[t] # Nothing => current'[t].id = current[t].id
                              /\ thread'[t] = thread[t] \/ (current[t] = Nothing /\ jobs[t] = <<>>)
    PROVE  CallsFacts'
  <1>1. QueueInOrder'
    BY DEF CallsFacts, QueueInOrder, Held
  <1>2. RunsFirst'
    BY DEF CallsFacts, RunsFirst, Held
  <1>3. ThreadsServe'
    BY DEF CallsFacts, ThreadsServe
  <1>4. NoneForgotten'
    BY CallsTyped DEF CallsFacts, NoneForgotten
  <1>5. AnswersInOrder'
    BY DEF CallsFacts, AnswersInOrder
  <1> QED
    BY <1>1, <1>2, <1>3, <1>4, <1>5 DEF CallsFacts

\* All calls of a thread that holds none were answered.
LEMMA NoneHeld ==
    ASSUME ThreadsTypeOK, CallsFacts, NEW s \in Sources, current[s] = Nothing, jobs[s] = <<>>,
           NEW i \in DOMAIN calls, calls[i].source = s
    PROVE  calls[i].answered
  <1>1. \A n \in DOMAIN jobs[s] : FALSE
    OBVIOUS
  <1> QED
    BY <1>1 DEF CallsFacts, NoneForgotten

LEMMA CallKeeps ==
    ASSUME ThreadsTypeOK, CallsFacts, NEW s \in Sources, Call(s)
    PROVE  CallsFacts'
  <1> DEFINE new == Len(calls) + 1
  <1>1. PICK a \in BOOLEAN : calls' = Append(calls, [source |-> s, answered |-> a])
    BY DEF Call
  <1>2. /\ Len(calls) \in Nat /\ DOMAIN calls = 1 .. Len(calls)
        /\ DOMAIN calls' = 1 .. new
        /\ \A i \in DOMAIN calls : calls'[i] = calls[i]
        /\ calls'[new] = [source |-> s, answered |-> a]
    <2>1. calls \in Seq([source : Sources, answered : BOOLEAN])
      BY DEF ThreadsTypeOK
    <2>2. [source |-> s, answered |-> a] \in [source : Sources, answered : BOOLEAN]
      OBVIOUS
    <2> QED
      BY <1>1, <2>1, <2>2, AppendProperties, LenProperties
  <1>3. UNCHANGED <<thread, current>>
    BY DEF Call
  <1>4. \A t \in Sources : \A i : Held(t, i) => HeldAfter(t, i) /\ i < new
    BY <1>2 DEF Held, HeldAfter
  <1>5. RunsFirst /\ ThreadsServe /\ QueueInOrder /\ NoneForgotten /\ AnswersInOrder
    BY DEF CallsFacts
  <1>6. CASE /\ thread[s] \in {"running", "unwinding"} /\ ~a
             /\ jobs' = [jobs EXCEPT ![s] = Append(@, new)]
    <2>1. jobs[s] \in Seq(1 .. MaxCalls) /\ DOMAIN jobs[s] = 1 .. Len(jobs[s]) /\ Len(jobs[s]) \in Nat
      BY CallsTyped
    <2>2. new \in 1 .. MaxCalls
      BY <1>2, ThreadsAssumption DEF Call, ThreadsAssumption
    <2>3. /\ jobs'[s] = Append(jobs[s], new) /\ DOMAIN jobs'[s] = 1 .. Len(jobs[s]) + 1
          /\ \A n \in DOMAIN jobs[s] : jobs'[s][n] = jobs[s][n]
          /\ jobs'[s][Len(jobs[s]) + 1] = new
          /\ \A t \in Sources : t # s => jobs'[t] = jobs[t]
      BY <1>6, <2>1, <2>2, AppendProperties DEF ThreadsTypeOK
    <2>4. HeldAfter(s, new)
      BY <1>2, <1>6 DEF HeldAfter
    <2>5. QueueInOrder'
      <3> SUFFICES ASSUME NEW t \in Sources
                   PROVE  /\ \A n \in DOMAIN jobs'[t] : HeldAfter(t, jobs'[t][n])
                          /\ \A m, n \in DOMAIN jobs'[t] : m < n => jobs'[t][m] < jobs'[t][n]
        BY DEF QueueInOrder, Held, HeldAfter
      <3>1. /\ \A n \in DOMAIN jobs[t] : HeldAfter(t, jobs[t][n]) /\ jobs[t][n] < new
            /\ \A m, n \in DOMAIN jobs[t] : m < n => jobs[t][m] < jobs[t][n]
        BY <1>4, <1>5 DEF QueueInOrder
      <3>2. CASE t # s
        BY <2>3, <3>1, <3>2
      <3>3. CASE t = s
        <4>1. \A n \in DOMAIN jobs'[s] : n \in DOMAIN jobs[s] \/ n = Len(jobs[s]) + 1
          BY <2>1, <2>3
        <4>2. \A n \in DOMAIN jobs'[s] : HeldAfter(s, jobs'[s][n])
          BY <2>3, <2>4, <3>1, <3>3, <4>1
        <4>3. ASSUME NEW m \in DOMAIN jobs'[s], NEW n \in DOMAIN jobs'[s], m < n
              PROVE  jobs'[s][m] < jobs'[s][n]
          <5>1. m \in DOMAIN jobs[s]
            BY <2>1, <2>3, <4>3
          <5> QED
            BY <2>3, <3>1, <3>3, <4>1, <4>3, <5>1
        <4> QED
          BY <3>3, <4>2, <4>3
      <3> QED
        BY <3>2, <3>3
    <2>6. RunsFirst'
      <3> SUFFICES ASSUME NEW t \in Sources, current[t] # Nothing
                   PROVE  HeldAfter(t, current[t].id) /\ \A n \in DOMAIN jobs'[t] : current[t].id < jobs'[t][n]
        BY <1>3 DEF RunsFirst, Held, HeldAfter
      <3>1. HeldAfter(t, current[t].id) /\ current[t].id < new
        BY <1>4, <1>5 DEF RunsFirst
      <3>2. \A n \in DOMAIN jobs[t] : current[t].id < jobs[t][n]
        BY <1>5 DEF RunsFirst
      <3>3. CASE t # s
        BY <2>3, <3>1, <3>2, <3>3
      <3>4. CASE t = s
        <4>1. \A n \in DOMAIN jobs'[s] : n \in DOMAIN jobs[s] \/ n = Len(jobs[s]) + 1
          BY <2>1, <2>3
        <4> QED
          BY <2>3, <3>1, <3>2, <3>4, <4>1
      <3> QED
        BY <3>3, <3>4
    <2>7. ThreadsServe'
      BY <1>3, <1>5, <1>6, <2>3 DEF ThreadsServe
    <2>8. NoneForgotten'
      <3> SUFFICES ASSUME NEW i \in DOMAIN calls', ~calls'[i].answered
                   PROVE  LET t == calls'[i].source
                          IN  \/ current[t] # Nothing /\ current[t].id = i
                              \/ \E n \in DOMAIN jobs'[t] : jobs'[t][n] = i
        BY <1>3 DEF NoneForgotten
      <3>1. CASE i = new
        <4>1. calls'[i].source = s /\ Len(jobs[s]) + 1 \in DOMAIN jobs'[s]
          BY <1>2, <2>1, <2>3, <3>1
        <4> QED
          BY <2>3, <3>1, <4>1
      <3>2. CASE i \in DOMAIN calls
        <4>1. calls'[i] = calls[i] /\ calls[i].source \in Sources
          BY <1>2, <3>2, CallsTyped
        <4>2. \/ current[calls[i].source] # Nothing /\ current[calls[i].source].id = i
              \/ \E n \in DOMAIN jobs[calls[i].source] : jobs[calls[i].source][n] = i
          BY <1>5, <3>2, <4>1 DEF NoneForgotten
        <4>3. \A t \in Sources : \A n : n \in DOMAIN jobs[t] => n \in DOMAIN jobs'[t] /\ jobs'[t][n] = jobs[t][n]
          BY <2>1, <2>3
        <4> QED
          BY <4>1, <4>2, <4>3
      <3> QED
        BY <1>2, <3>1, <3>2
    <2>9. AnswersInOrder'
      <3> SUFFICES ASSUME NEW i \in DOMAIN calls', NEW j \in DOMAIN calls', i < j,
                          calls'[i].source = calls'[j].source, calls'[j].answered
                   PROVE  calls'[i].answered
        BY DEF AnswersInOrder
      <3>1. j # new
        BY <1>2, <1>6
      <3>2. i \in DOMAIN calls /\ j \in DOMAIN calls
        BY <1>2, <3>1
      <3> QED
        BY <1>2, <1>5, <3>2 DEF AnswersInOrder
    <2> QED
      BY <2>5, <2>6, <2>7, <2>8, <2>9 DEF CallsFacts
  <1>7. CASE thread[s] = "dead" /\ a /\ jobs' = jobs
    <2>1. current[s] = Nothing /\ jobs[s] = <<>>
      BY <1>5, <1>7 DEF ThreadsServe
    <2>2. QueueInOrder'
      BY <1>4, <1>5, <1>7 DEF QueueInOrder, Held, HeldAfter
    <2>3. RunsFirst'
      BY <1>3, <1>4, <1>5, <1>7 DEF RunsFirst, Held, HeldAfter
    <2>4. ThreadsServe'
      BY <1>3, <1>5, <1>7 DEF ThreadsServe
    <2>5. NoneForgotten'
      <3> SUFFICES ASSUME NEW i \in DOMAIN calls', ~calls'[i].answered
                   PROVE  LET t == calls'[i].source
                          IN  \/ current[t] # Nothing /\ current[t].id = i
                              \/ \E n \in DOMAIN jobs[t] : jobs[t][n] = i
        BY <1>3, <1>7 DEF NoneForgotten
      <3>1. i # new
        BY <1>2, <1>7
      <3>2. i \in DOMAIN calls /\ calls'[i] = calls[i]
        BY <1>2, <3>1
      <3> QED
        BY <1>5, <3>2 DEF NoneForgotten
    <2>6. AnswersInOrder'
      <3> SUFFICES ASSUME NEW i \in DOMAIN calls', NEW j \in DOMAIN calls', i < j,
                          calls'[i].source = calls'[j].source, calls'[j].answered
                   PROVE  calls'[i].answered
        BY DEF AnswersInOrder
      <3>1. i \in DOMAIN calls /\ calls'[i] = calls[i]
        BY <1>2
      <3>2. CASE j = new
        <4>1. calls[i].source = s
          BY <1>2, <3>1, <3>2
        <4> QED
          BY <2>1, <3>1, <4>1, NoneHeld
      <3>3. CASE j \in DOMAIN calls
        BY <1>2, <1>5, <3>1, <3>3 DEF AnswersInOrder
      <3> QED
        BY <1>2, <3>2, <3>3
    <2> QED
      BY <2>2, <2>3, <2>4, <2>5, <2>6 DEF CallsFacts
  <1>8. \/ thread[s] \in {"running", "unwinding"} /\ ~a /\ jobs' = [jobs EXCEPT ![s] = Append(@, new)]
        \/ thread[s] = "dead" /\ a /\ jobs' = jobs
    <2>1. CASE /\ thread[s] \in {"running", "unwinding"}
               /\ calls' = Append(calls, [source |-> s, answered |-> FALSE])
               /\ jobs' = [jobs EXCEPT ![s] = Append(@, new)]
      <3>1. calls'[new] = [source |-> s, answered |-> FALSE]
        BY <1>2, <2>1, AppendProperties DEF ThreadsTypeOK
      <3> QED
        BY <1>2, <2>1, <3>1
    <2>2. CASE /\ thread[s] = "dead" /\ jobs' = jobs
               /\ calls' = Append(calls, [source |-> s, answered |-> TRUE])
      <3>1. calls'[new] = [source |-> s, answered |-> TRUE]
        BY <1>2, <2>2, AppendProperties DEF ThreadsTypeOK
      <3> QED
        BY <1>2, <2>2, <3>1
    <2> QED
      BY <2>1, <2>2 DEF Call
  <1> QED
    BY <1>6, <1>7, <1>8

LEMMA BeginKeeps ==
    ASSUME ThreadsTypeOK, CallsFacts, NEW s \in Sources, Begin(s)
    PROVE  CallsFacts'
  <1>1. /\ thread[s] = "running" /\ current[s] = Nothing /\ jobs[s] # <<>>
        /\ jobs' = [jobs EXCEPT ![s] = Tail(@)] /\ UNCHANGED <<thread, calls>>
    BY DEF Begin
  <1>3. jobs[s] \in Seq(1 .. MaxCalls) /\ DOMAIN jobs[s] = 1 .. Len(jobs[s]) /\ Len(jobs[s]) \in Nat
    BY CallsTyped
  <1>4. /\ 1 \in DOMAIN jobs[s] /\ Head(jobs[s]) = jobs[s][1]
        /\ DOMAIN Tail(jobs[s]) = 1 .. Len(jobs[s]) - 1
        /\ \A n \in DOMAIN Tail(jobs[s]) : n + 1 \in DOMAIN jobs[s] /\ Tail(jobs[s])[n] = jobs[s][n + 1]
    BY <1>1, <1>3, HeadTailProperties
  <1>5. jobs'[s] = Tail(jobs[s]) /\ \A t \in Sources : t # s => jobs'[t] = jobs[t]
    BY <1>1 DEF ThreadsTypeOK
  <1>6. /\ current'[s] # Nothing /\ current'[s].id = jobs[s][1]
        /\ \A t \in Sources : t # s => current'[t] = current[t]
    BY <1>4, BeginRuns
  <1>8. \A t \in Sources : \A i : Held(t, i) => HeldAfter(t, i)
    BY <1>1 DEF Held, HeldAfter
  <1>9. RunsFirst /\ ThreadsServe /\ QueueInOrder /\ NoneForgotten /\ AnswersInOrder
    BY DEF CallsFacts
  <1>10. /\ \A n \in DOMAIN jobs[s] : Held(s, jobs[s][n])
         /\ \A m, n \in DOMAIN jobs[s] : m < n => jobs[s][m] < jobs[s][n]
    BY <1>9 DEF QueueInOrder
  <1>11. QueueInOrder'
    <2> SUFFICES ASSUME NEW t \in Sources
                 PROVE  /\ \A n \in DOMAIN jobs'[t] : HeldAfter(t, jobs'[t][n])
                        /\ \A m, n \in DOMAIN jobs'[t] : m < n => jobs'[t][m] < jobs'[t][n]
      BY DEF QueueInOrder, Held, HeldAfter
    <2>1. CASE t # s
      BY <1>5, <1>8, <1>9, <2>1 DEF QueueInOrder
    <2>2. CASE t = s
      <3>1. \A n \in DOMAIN jobs'[s] : HeldAfter(s, jobs'[s][n])
        BY <1>4, <1>5, <1>8, <1>10
      <3>2. ASSUME NEW m \in DOMAIN jobs'[s], NEW n \in DOMAIN jobs'[s], m < n
            PROVE  jobs'[s][m] < jobs'[s][n]
        <4>1. m + 1 < n + 1
          BY <1>3, <1>4, <1>5, <3>2
        <4> QED
          BY <1>4, <1>5, <1>10, <4>1
      <3> QED
        BY <2>2, <3>1, <3>2
    <2> QED
      BY <2>1, <2>2
  <1>12. RunsFirst'
    <2> SUFFICES ASSUME NEW t \in Sources, current'[t] # Nothing
                 PROVE  /\ HeldAfter(t, current'[t].id)
                        /\ \A n \in DOMAIN jobs'[t] : current'[t].id < jobs'[t][n]
      BY DEF RunsFirst, Held, HeldAfter
    <2>1. CASE t # s
      BY <1>5, <1>6, <1>8, <1>9, <2>1 DEF RunsFirst
    <2>2. CASE t = s
      <3>1. \A n \in DOMAIN jobs'[s] : 1 < n + 1
        BY <1>4, <1>5
      <3>2. ASSUME NEW n \in DOMAIN jobs'[s] PROVE current'[s].id < jobs'[s][n]
        BY <1>4, <1>5, <1>6, <1>10, <3>1
      <3>3. HeldAfter(s, current'[s].id)
        BY <1>4, <1>6, <1>8, <1>10
      <3> QED
        BY <2>2, <3>2, <3>3
    <2> QED
      BY <2>1, <2>2
  <1>13. ThreadsServe'
    BY <1>1, <1>5, <1>6, <1>9 DEF ThreadsServe
  <1>14. NoneForgotten'
    <2> SUFFICES ASSUME NEW i \in DOMAIN calls, ~calls[i].answered
                 PROVE  LET t == calls[i].source
                        IN  \/ current'[t] # Nothing /\ current'[t].id = i
                            \/ \E n \in DOMAIN jobs'[t] : jobs'[t][n] = i
      BY <1>1 DEF NoneForgotten
    <2> DEFINE t == calls[i].source
    <2>1. t \in Sources
      BY CallsTyped
    <2>2. (current[t] # Nothing /\ current[t].id = i) \/ \E n \in DOMAIN jobs[t] : jobs[t][n] = i
      BY <1>9 DEF NoneForgotten
    <2>3. CASE t # s
      BY <1>5, <1>6, <2>1, <2>2, <2>3
    <2>4. CASE t = s
      <3>1. PICK n \in DOMAIN jobs[s] : jobs[s][n] = i
        BY <1>1, <2>2, <2>4
      <3>2. CASE n = 1
        BY <1>6, <2>4, <3>1, <3>2
      <3>3. CASE n # 1
        <4>1. n - 1 \in DOMAIN jobs'[s] /\ (n - 1) + 1 = n
          BY <1>3, <1>4, <1>5, <3>1, <3>3
        <4>2. jobs'[s][n - 1] = i
          BY <1>4, <1>5, <3>1, <4>1
        <4> QED
          BY <2>4, <4>1, <4>2
      <3> QED
        BY <3>2, <3>3
    <2> QED
      BY <2>3, <2>4
  <1>15. AnswersInOrder'
    BY <1>1, <1>9 DEF AnswersInOrder
  <1> QED
    BY <1>11, <1>12, <1>13, <1>14, <1>15 DEF CallsFacts

\* The call that runs is answered, whatever becomes of the thread.
LEMMA AnswerKeeps ==
    ASSUME ThreadsTypeOK, CallsFacts, NEW s \in Sources, Deliver(s) \/ ImportPanics(s)
    PROVE  CallsFacts'
  <1> DEFINE id == current[s].id
  <1>1. /\ current[s] # Nothing /\ current' = [current EXCEPT ![s] = Nothing]
        /\ calls' = Finished({id}) /\ UNCHANGED jobs
        /\ thread' = [thread EXCEPT ![s] = thread'[s]] /\ thread'[s] \in {thread[s], "unwinding"}
    BY DEF Deliver, ImportPanics, ThreadsTypeOK
  <1>2. /\ current'[s] = Nothing
        /\ \A t \in Sources : t # s => current'[t] = current[t] /\ thread'[t] = thread[t]
    BY <1>1 DEF ThreadsTypeOK
  <1>3. /\ DOMAIN calls' = DOMAIN calls
        /\ \A i \in DOMAIN calls : /\ calls'[i].source = calls[i].source
                                   /\ calls'[i].answered <=> i = id \/ calls[i].answered
    <2>1. calls \in Seq([source : Sources, answered : BOOLEAN])
      BY DEF ThreadsTypeOK
    <2>2. \A i \in DOMAIN calls : /\ Finished({id})[i].source = calls[i].source
                                  /\ Finished({id})[i].answered <=> i \in {id} \/ calls[i].answered
      BY <2>1, FinishedCall
    <2> QED
      BY <1>1, <2>1, <2>2, FinishedCalls
  <1> HIDE DEF id
  <1>4. RunsFirst /\ ThreadsServe /\ QueueInOrder /\ NoneForgotten /\ AnswersInOrder
    BY DEF CallsFacts
  <1>5. thread[s] = "running" /\ Held(s, id) /\ \A n \in DOMAIN jobs[s] : id < jobs[s][n]
    BY <1>1, <1>4 DEF ThreadsServe, RunsFirst, id
  <1>6. \A t \in Sources : \A i : Held(t, i) /\ i # id => HeldAfter(t, i)
    BY <1>3 DEF Held, HeldAfter
  <1>7. id \in Nat /\ \A t \in Sources : \A n \in DOMAIN jobs[t] : jobs[t][n] # id
    <2>1. id \in Nat
      BY <1>5, CallsTyped DEF Held
    <2>2. ASSUME NEW t \in Sources, NEW n \in DOMAIN jobs[t] PROVE jobs[t][n] # id
      <3>1. Held(t, jobs[t][n])
        BY <1>4 DEF QueueInOrder
      <3>2. CASE t = s
        BY <1>5, <2>1, <3>2
      <3>3. CASE t # s
        BY <1>5, <3>1, <3>3 DEF Held
      <3> QED
        BY <3>2, <3>3
    <2> QED
      BY <2>1, <2>2
  <1>8. QueueInOrder'
    <2> SUFFICES ASSUME NEW t \in Sources
                 PROVE  /\ \A n \in DOMAIN jobs[t] : HeldAfter(t, jobs[t][n])
                        /\ \A m, n \in DOMAIN jobs[t] : m < n => jobs[t][m] < jobs[t][n]
      BY <1>1 DEF QueueInOrder, Held, HeldAfter
    <2> QED
      BY <1>4, <1>6, <1>7 DEF QueueInOrder
  <1>9. RunsFirst'
    <2> SUFFICES ASSUME NEW t \in Sources, current'[t] # Nothing
                 PROVE  /\ HeldAfter(t, current'[t].id)
                        /\ \A n \in DOMAIN jobs[t] : current'[t].id < jobs[t][n]
      BY <1>1 DEF RunsFirst, Held, HeldAfter
    <2>1. t # s /\ current'[t] = current[t]
      BY <1>2
    <2>2. Held(t, current[t].id) /\ \A n \in DOMAIN jobs[t] : current[t].id < jobs[t][n]
      BY <1>4, <2>1 DEF RunsFirst
    <2>3. current[t].id # id
      BY <1>5, <2>1, <2>2 DEF Held
    <2> QED
      BY <1>6, <2>1, <2>2, <2>3
  <1>10. ThreadsServe'
    BY <1>1, <1>2, <1>4, <1>5 DEF ThreadsServe
  <1>11. NoneForgotten'
    <2>1. ASSUME NEW i \in DOMAIN calls, NEW t \in Sources, t = calls[i].source, ~calls'[i].answered
          PROVE  (current'[t] # Nothing /\ current'[t].id = i) \/ \E n \in DOMAIN jobs[t] : jobs[t][n] = i
      <3>1. ~calls[i].answered /\ i # id
        BY <1>3, <2>1
      <3>2. (current[t] # Nothing /\ current[t].id = i) \/ \E n \in DOMAIN jobs[t] : jobs[t][n] = i
        BY <1>4, <2>1, <3>1 DEF NoneForgotten
      <3> QED
        BY <1>2, <3>1, <3>2 DEF id
    <2>2. \A i \in DOMAIN calls : calls'[i].source \in Sources /\ calls'[i].source = calls[i].source
      BY <1>3, CallsTyped
    <2>3. jobs' = jobs /\ DOMAIN calls' = DOMAIN calls
      BY <1>1, <1>3
    <2> QED
      BY <2>1, <2>2, <2>3 DEF NoneForgotten
  <1>12. AnswersInOrder'
    <2> SUFFICES ASSUME NEW i \in DOMAIN calls, NEW j \in DOMAIN calls, i < j,
                        calls[i].source = calls[j].source, calls'[j].answered, ~calls[i].answered
                 PROVE  i = id
      BY <1>3 DEF AnswersInOrder
    <2>1. ~calls[j].answered
      BY <1>4 DEF AnswersInOrder
    <2>2. j = id /\ calls[i].source = s
      BY <1>3, <1>5, <2>1 DEF Held
    <2>3. \/ current[s] # Nothing /\ current[s].id = i
          \/ \E n \in DOMAIN jobs[s] : jobs[s][n] = i
      BY <1>4, <2>2 DEF NoneForgotten
    <2>4. i \in Nat /\ j \in Nat
      BY CallsTyped
    <2> QED
      BY <1>5, <2>2, <2>3, <2>4 DEF id
  <1> QED
    BY <1>8, <1>9, <1>10, <1>11, <1>12 DEF CallsFacts

\* The calls that wait go with the thread, all of them answered.
LEMMA UnwoundKeeps ==
    ASSUME ThreadsTypeOK, CallsFacts, NEW s \in Sources, Unwound(s)
    PROVE  CallsFacts'
  <1> DEFINE ids == {jobs[s][i] : i \in DOMAIN jobs[s]}
  <1>1. /\ thread[s] = "unwinding" /\ thread' = [thread EXCEPT ![s] = "dead"]
        /\ calls' = Finished(ids) /\ jobs' = [jobs EXCEPT ![s] = <<>>] /\ UNCHANGED current
    BY DEF Unwound
  <1>2. /\ thread'[s] = "dead" /\ jobs'[s] = <<>>
        /\ \A t \in Sources : t # s => thread'[t] = thread[t] /\ jobs'[t] = jobs[t]
    BY <1>1 DEF ThreadsTypeOK
  <1>3. /\ DOMAIN calls' = DOMAIN calls
        /\ \A i \in DOMAIN calls : /\ calls'[i].source = calls[i].source
                                   /\ calls'[i].answered <=> i \in ids \/ calls[i].answered
    <2> HIDE DEF ids
    <2>1. calls \in Seq([source : Sources, answered : BOOLEAN])
      BY DEF ThreadsTypeOK
    <2>2. \A i \in DOMAIN calls : /\ Finished(ids)[i].source = calls[i].source
                                  /\ Finished(ids)[i].answered <=> i \in ids \/ calls[i].answered
      BY <2>1, FinishedCall
    <2> QED
      BY <1>1, <2>1, <2>2, FinishedCalls
  <1>4. RunsFirst /\ ThreadsServe /\ QueueInOrder /\ NoneForgotten /\ AnswersInOrder
    BY DEF CallsFacts
  <1>5. current[s] = Nothing
    BY <1>1, <1>4 DEF ThreadsServe
  <1>6. ASSUME NEW i \in DOMAIN calls
        PROVE  calls'[i].answered <=> calls[i].source = s \/ calls[i].answered
    <2>1. i \in ids => calls[i].source = s
      BY <1>4 DEF QueueInOrder, Held
    <2>2. calls[i].source = s /\ ~calls[i].answered => i \in ids
      BY <1>4, <1>5 DEF NoneForgotten
    <2>3. calls[i].answered \in BOOLEAN
      BY CallsTyped
    <2> HIDE DEF ids
    <2> QED
      BY <1>3, <2>1, <2>2, <2>3
  <1> HIDE DEF ids
  <1>7. \A t \in Sources : \A i : t # s /\ Held(t, i) => HeldAfter(t, i)
    BY <1>3, <1>6 DEF Held, HeldAfter
  <1>8. QueueInOrder'
    <2> SUFFICES ASSUME NEW t \in Sources
                 PROVE  /\ \A n \in DOMAIN jobs'[t] : HeldAfter(t, jobs'[t][n])
                        /\ \A m, n \in DOMAIN jobs'[t] : m < n => jobs'[t][m] < jobs'[t][n]
      BY DEF QueueInOrder, Held, HeldAfter
    <2>1. CASE t = s
      <3>1. \A n \in DOMAIN jobs'[t] : FALSE
        BY <1>2, <2>1
      <3> QED
        BY <3>1
    <2>2. CASE t # s
      BY <1>2, <1>4, <1>7, <2>2 DEF QueueInOrder
    <2> QED
      BY <2>1, <2>2
  <1>9. RunsFirst'
    <2> SUFFICES ASSUME NEW t \in Sources, current[t] # Nothing
                 PROVE  /\ HeldAfter(t, current[t].id)
                        /\ \A n \in DOMAIN jobs'[t] : current[t].id < jobs'[t][n]
      BY <1>1 DEF RunsFirst, Held, HeldAfter
    <2> QED
      BY <1>2, <1>4, <1>5, <1>7 DEF RunsFirst
  <1>10. ThreadsServe'
    BY <1>1, <1>2, <1>4, <1>5 DEF ThreadsServe
  <1>11. NoneForgotten'
    <2> SUFFICES ASSUME NEW i \in DOMAIN calls, ~calls'[i].answered
                 PROVE  LET t == calls[i].source
                        IN  \/ current[t] # Nothing /\ current[t].id = i
                            \/ \E n \in DOMAIN jobs'[t] : jobs'[t][n] = i
      BY <1>1, <1>3 DEF NoneForgotten
    <2>1. calls[i].source # s /\ ~calls[i].answered /\ calls[i].source \in Sources
      BY <1>6, CallsTyped
    <2> QED
      BY <1>2, <1>4, <2>1 DEF NoneForgotten
  <1>12. AnswersInOrder'
    BY <1>3, <1>4, <1>6 DEF AnswersInOrder
  <1> QED
    BY <1>8, <1>9, <1>10, <1>11, <1>12 DEF CallsFacts

LEMMA CallsStep == ThreadsTypeOK /\ CallsFacts /\ [Next]_vars => CallsFacts'
  <1> SUFFICES ASSUME ThreadsTypeOK, CallsFacts, [Next]_vars PROVE CallsFacts'
    OBVIOUS
  <1>1. CASE UNCHANGED threadVars
    BY <1>1, QuietKeeps DEF threadVars
  <1>2. ASSUME NEW s \in Sources, Create(s) \/ Created(s) PROVE CallsFacts'
    <2>1. current[s] = Nothing /\ jobs[s] = <<>>
      BY <1>2 DEF CallsFacts, ThreadsServe, Create, Created
    <2>2. UNCHANGED <<jobs, calls, current>> /\ \A t \in Sources : t # s => thread'[t] = thread[t]
      BY <1>2 DEF Create, Created, ThreadsTypeOK
    <2> QED
      BY <2>1, <2>2, QuietKeeps
  <1>3. ASSUME NEW s \in Sources, Release(s) PROVE CallsFacts'
    <2>1. \A i : ~Held(s, i)
      BY <1>3 DEF Release, Held
    <2>2. current[s] = Nothing
      BY <2>1 DEF CallsFacts, RunsFirst
    <2>3. jobs[s] = <<>>
      <3>1. DOMAIN jobs[s] = {}
        BY <2>1 DEF CallsFacts, QueueInOrder
      <3>2. jobs[s] \in Seq(1 .. MaxCalls) /\ Len(jobs[s]) = 0
        BY <3>1, CallsTyped
      <3> QED
        BY <3>2, EmptySeq
    <2>4. UNCHANGED <<jobs, calls, current>> /\ \A t \in Sources : t # s => thread'[t] = thread[t]
      BY <1>3 DEF Release, ThreadsTypeOK
    <2> QED
      BY <2>2, <2>3, <2>4, QuietKeeps
  <1>4. ASSUME NEW s \in Sources, Reply(s) PROVE CallsFacts'
    <2>1. current[s] # Nothing /\ UNCHANGED <<thread, jobs, calls>>
      BY <1>4 DEF Reply
    <2> QED
      BY <1>4, <2>1, ReplyRuns, QuietKeeps
  <1>5. ASSUME NEW s \in Sources, Step(s), ~(UNCHANGED threadVars) PROVE CallsFacts'
    BY <1>2, <1>3, <1>4, <1>5, CallKeeps, BeginKeeps, AnswerKeeps, UnwoundKeeps
       DEF Step, Get, SetOwn, SetPlain, Restore
  <1> QED
    BY <1>1, <1>5 DEF Next, SavePreference, Land, vars

\* A call that is not held by the thread in one place is answered: the invariant.
LEMMA CallsAreAccounted == ThreadsTypeOK /\ CallsFacts => CallsAccounted
  <1> SUFFICES ASSUME ThreadsTypeOK, CallsFacts, NEW i \in DOMAIN calls, NEW s \in Sources,
                      s = calls[i].source
               PROVE  LET queued == {n \in DOMAIN jobs[s] : jobs[s][n] = i}
                          runs == current[s] # Nothing /\ current[s].id = i
                      IN  /\ Cardinality(queued) = IF runs \/ calls[i].answered THEN 0 ELSE 1
                          /\ runs => ~calls[i].answered
                          /\ ~calls[i].answered => thread[s] \in {"running", "unwinding"}
    BY CallsTyped DEF CallsAccounted
  <1> DEFINE queued == {n \in DOMAIN jobs[s] : jobs[s][n] = i}
             runs == current[s] # Nothing /\ current[s].id = i
  <1>1. /\ \A n \in DOMAIN jobs[s] : Held(s, jobs[s][n]) /\ jobs[s][n] \in Nat
        /\ \A m, n \in DOMAIN jobs[s] : m < n => jobs[s][m] < jobs[s][n]
        /\ DOMAIN jobs[s] \subseteq Nat /\ i \in Nat
    BY CallsTyped DEF CallsFacts, QueueInOrder
  <1>2. runs => Held(s, i) /\ \A n \in DOMAIN jobs[s] : i < jobs[s][n]
    BY DEF CallsFacts, RunsFirst
  <1>3. ~calls[i].answered => runs \/ \E n \in DOMAIN jobs[s] : jobs[s][n] = i
    BY DEF CallsFacts, NoneForgotten
  <1>4. runs \/ calls[i].answered => queued = {}
    BY <1>1, <1>2 DEF Held
  <1>5. ~(runs \/ calls[i].answered) => \E n : queued = {n}
    <2> SUFFICES ASSUME ~runs, ~calls[i].answered PROVE \E n : queued = {n}
      OBVIOUS
    <2>1. PICK n \in DOMAIN jobs[s] : jobs[s][n] = i
      BY <1>3
    <2>2. ASSUME NEW m \in DOMAIN jobs[s], jobs[s][m] = i PROVE m = n
      BY <1>1, <2>1, <2>2
    <2>3. queued = {n}
      BY <2>1, <2>2
    <2> QED
      BY <2>3
  <1>6. Cardinality({}) = 0 /\ \A n : Cardinality({n}) = 1
    BY FS_EmptySet, FS_Singleton
  <1>7. Cardinality(queued) = IF runs \/ calls[i].answered THEN 0 ELSE 1
    <2> HIDE DEF queued, runs
    <2> QED
      BY <1>4, <1>5, <1>6
  <1>8. runs => ~calls[i].answered
    BY <1>2 DEF Held
  <1>9. ~calls[i].answered => thread[s] \in {"running", "unwinding"}
    BY <1>3 DEF CallsFacts, ThreadsServe
  <1> QED
    BY <1>7, <1>8, <1>9

\* No call is lost, whether it runs, waits or finds its thread unwinding or gone,
\* none is in two places, so that none is answered twice, and the calls of an
\* extension are answered in the order they were made (run, and the loop of create).
THEOREM CallsAreHeardInTurn == Spec => []CallsInTurn
  <1>1. Init => ThreadsTypeOK /\ CallsFacts
    BY TypeInit, CallsInit
  <1>2. ThreadsTypeOK /\ CallsFacts /\ [Next]_vars => (ThreadsTypeOK /\ CallsFacts)'
    BY TypeStep, CallsStep
  <1>3. ThreadsTypeOK /\ CallsFacts => CallsInTurn
    BY CallsAreAccounted DEF CallsFacts, CallsInTurn
  <1> QED
    BY <1>1, <1>2, <1>3, PTL DEF Spec
=============================================================================
