---------------------------- MODULE ExtensionThreads ----------------------------
(***************************************************************************)
(* The extensions of the app, each on a thread of its own that runs the    *)
(* app's calls one after the other (api/aidoku_wasm.rs), the answers that  *)
(* reach the app, and the settings all extensions and the app share        *)
(* (host_defaults.rs, settings_store.dart).  What a call does inside the   *)
(* extension is the matter of HostImports; here it sets and gets settings  *)
(* and ends with a reply, a trap or a panic of the host.  How replies and  *)
(* settings are decoded is left to the module that gives the constants     *)
(* below (Engine): threads and settings are right whatever it is.          *)
(***************************************************************************)
EXTENDS Integers, Sequences, FiniteSets, Functions

CONSTANTS
  Nothing,      \* model value: no call, no answer, no one
  Sources,      \* the extensions
  Used,         \* per extension, the calls the app makes of it
  Keys,         \* names of settings
  SettingData,  \* kinds and bytes an extension passes to defaults.set
  AppValues,    \* types and texts the app sets a setting to
  Alone,        \* bound: calls made while there is no other and no setting is written
  MaxCalls,     \* bound: calls the app makes
  MaxWrites,    \* bound: settings written, by the extensions and by the app
  MaxActs       \* bound: both together

CONSTANTS
  ArgumentsOf(_),      \* the arguments the app passes to a call
  MayReply(_, _),      \* what a call of an extension may end with
  AnswerTo(_, _, _),   \* what the app is answered, from the call, its argument and the reply
  ValueOfData(_, _),   \* the value an extension sets, from kind and bytes, if they make one
  ValueOfText(_, _),   \* the value the app sets, from type and text, if they make one
  BytesOf(_)           \* a value as an extension gets it

\* A call a thread runs, and the second write of a defaults.set.
RunsOf(s) ==
  UNION {[id : 1 .. MaxCalls, op : {op}, arg : ArgumentsOf(op), reply : MayReply(s, op) \cup {Nothing}] :
           op \in Used[s]}
Sets == {[key |-> k, value |-> ValueOfData(d.kind, d.data)] : k \in Keys, d \in SettingData}

App == "app"

ASSUME ThreadsAssumption ==
  /\ Nothing \notin Sources /\ App \notin Sources
  /\ Nothing \notin Sets
  /\ \A s \in Sources : Nothing \notin RunsOf(s)
  /\ MaxCalls \in Nat

VARIABLES
  thread,    \* "none", "starting", "running", "failed", "unwinding", "dead" or "ended"
  jobs,      \* per extension, the numbers of the calls its thread has not begun
  current,   \* per extension, the call it runs, or Nothing
  calls,     \* the calls made so far: of which extension, and if answered
  heard,     \* what the last step answered, to the app or to an extension
  settings,  \* the shared map of settings, each with the one who wrote it
  setting,   \* per extension, what defaults.set has still to write, or Nothing
  posted,    \* writes of the app that have not reached the map
  mine,      \* per extension and key, what it last set, or the app for it, and if any did
  writes     \* settings written

threadVars == <<thread, jobs, current, calls>>
settingVars == <<settings, setting, posted, mine, writes>>
vars == <<threadVars, heard, settingVars>>

(* Settings ---------------------------------------------------------------- *)

\* A setting is kept under the extension's name for it and under its plain name.
Own(s, k) == <<s, k>>
PlainName(k) == <<k>>

\* At most one value; none removes the setting.
SetValue(map, name, value, author) ==
  IF value = <<>> THEN Restrict(map, DOMAIN map \ {name})
  ELSE [n \in DOMAIN map \cup {name} |->
          IF n = name THEN [author |-> author, value |-> value[1]] ELSE map[n]]

\* Mutant: the plain name comes first.
GetValuePlain(s, k) ==
  IF PlainName(k) \in DOMAIN settings THEN <<settings[PlainName(k)]>>
  ELSE IF Own(s, k) \in DOMAIN settings THEN <<settings[Own(s, k)]>>
  ELSE <<>>

GetValue(s, k) ==
  IF Own(s, k) \in DOMAIN settings THEN <<settings[Own(s, k)]>>
  ELSE IF PlainName(k) \in DOMAIN settings THEN <<settings[PlainName(k)]>>
  ELSE <<>>

(* What the app hears ------------------------------------------------------ *)

Value(v) == [is |-> "value", value |-> v]
Error(why) == [is |-> "error", why |-> why]
Panic == [is |-> "panic"]
Gone == Error("no longer running")
Dropped == Error("dropped the response")

(* Calls and threads ------------------------------------------------------- *)

Init ==
  /\ thread = [s \in Sources |-> "none"]
  /\ jobs = [s \in Sources |-> <<>>]
  /\ current = [s \in Sources |-> Nothing]
  /\ calls = <<>>
  /\ heard = Nothing
  /\ settings = <<>>
  /\ setting = [s \in Sources |-> Nothing]
  /\ posted = {}
  /\ mine = [s \in Sources |-> [k \in Keys |-> [set |-> FALSE, value |-> <<>>]]]
  /\ writes = 0

\* The extension runs: its start function or an export.
Executing(s) ==
  /\ setting[s] = Nothing
  /\ \/ thread[s] = "starting"
     \/ current[s] # Nothing /\ current[s].reply = Nothing

Finished(ids) == [i \in DOMAIN calls |-> IF i \in ids THEN [calls[i] EXCEPT !.answered = TRUE]
                                         ELSE calls[i]]

Create(s) ==
  /\ thread[s] = "none"
  /\ thread' = [thread EXCEPT ![s] = "starting"]
  /\ heard' = Nothing
  /\ UNCHANGED <<jobs, current, calls, settingVars>>

\* The module is not one, its start function traps, or the host panics.
Created(s) ==
  /\ thread[s] = "starting"
  /\ setting[s] = Nothing
  /\ \E outcome \in {"running", "failed"} : thread' = [thread EXCEPT ![s] = outcome]
  /\ heard' = Nothing
  /\ UNCHANGED <<jobs, current, calls, settingVars>>

\* run: a call is queued, or answered at once when the thread is gone.
Call(s) ==
  /\ Len(calls) < MaxCalls /\ Len(calls) + writes < MaxActs
  /\ \/ /\ thread[s] \in {"running", "unwinding"}
        /\ calls' = Append(calls, [source |-> s, answered |-> FALSE])
        /\ jobs' = [jobs EXCEPT ![s] = Append(@, Len(calls) + 1)]
        /\ heard' = Nothing
     \/ /\ thread[s] = "dead"
        /\ calls' = Append(calls, [source |-> s, answered |-> TRUE])
        /\ \E op \in Used[s] :
             heard' = [id |-> Len(calls) + 1, answer |-> IF op = "features" THEN Value({}) ELSE Gone]
        /\ UNCHANGED jobs
  /\ UNCHANGED <<thread, current, settingVars>>

\* Mutant: the thread takes up the call that came last.
BeginLatest(s) ==
  /\ thread[s] = "running"
  /\ current[s] = Nothing
  /\ jobs[s] # <<>>
  /\ \E op \in Used[s] : \E arg \in ArgumentsOf(op) :
       /\ op \in Alone => Len(calls) = 1 /\ writes = 0
       /\ current' = [current EXCEPT ![s] =
                        [id |-> jobs[s][Len(jobs[s])], op |-> op, arg |-> arg, reply |-> Nothing]]
  /\ jobs' = [jobs EXCEPT ![s] = SubSeq(@, 1, Len(@) - 1)]
  /\ heard' = Nothing
  /\ UNCHANGED <<thread, calls, settingVars>>

\* What the call asks for shows only when the thread takes it up.
Begin(s) ==
  /\ thread[s] = "running"
  /\ current[s] = Nothing
  /\ jobs[s] # <<>>
  /\ \E op \in Used[s] : \E arg \in ArgumentsOf(op) :
       /\ op \in Alone => Len(calls) = 1 /\ writes = 0
       /\ current' = [current EXCEPT ![s] =
                        [id |-> Head(jobs[s]), op |-> op, arg |-> arg, reply |-> Nothing]]
  /\ jobs' = [jobs EXCEPT ![s] = Tail(@)]
  /\ heard' = Nothing
  /\ UNCHANGED <<thread, calls, settingVars>>

\* The export returns or traps.
Reply(s) ==
  /\ current[s] # Nothing
  /\ current[s].reply = Nothing
  /\ setting[s] = Nothing
  /\ \E reply \in MayReply(s, current[s].op) :
       current' = [current EXCEPT ![s].reply = reply]
  /\ heard' = Nothing
  /\ UNCHANGED <<thread, jobs, calls, settingVars>>

\* The host reads the reply and answers; a reader that panics takes the thread
\* with it.
Deliver(s) ==
  /\ current[s] # Nothing
  /\ current[s].reply # Nothing
  /\ current' = [current EXCEPT ![s] = Nothing]
  /\ calls' = Finished({current[s].id})
  /\ UNCHANGED <<jobs, settingVars>>
  /\ \E answer \in {AnswerTo(current[s].op, current[s].arg, current[s].reply)} :
       /\ heard' = [id |-> current[s].id, reply |-> current[s].reply,
                    answer |-> IF answer = Panic THEN Dropped ELSE answer]
       /\ thread' = [thread EXCEPT ![s] = IF answer = Panic THEN "unwinding" ELSE @]

\* An import panics, a read of a negative address for one.
ImportPanics(s) ==
  /\ current[s] # Nothing
  /\ current[s].reply = Nothing
  /\ setting[s] = Nothing
  /\ thread' = [thread EXCEPT ![s] = "unwinding"]
  /\ calls' = Finished({current[s].id})
  /\ heard' = [id |-> current[s].id, answer |-> Dropped]
  /\ current' = [current EXCEPT ![s] = Nothing]
  /\ UNCHANGED <<jobs, settingVars>>

\* Mutant: the calls that wait hear nothing.
UnwoundSilently(s) ==
  /\ thread[s] = "unwinding"
  /\ thread' = [thread EXCEPT ![s] = "dead"]
  /\ jobs' = [jobs EXCEPT ![s] = <<>>]
  /\ heard' = Nothing
  /\ UNCHANGED <<current, calls, settingVars>>

\* The receiver goes with the thread, and the calls it holds with the receiver.
Unwound(s) ==
  /\ thread[s] = "unwinding"
  /\ thread' = [thread EXCEPT ![s] = "dead"]
  /\ calls' = Finished({jobs[s][i] : i \in DOMAIN jobs[s]})
  /\ jobs' = [jobs EXCEPT ![s] = <<>>]
  /\ heard' = Nothing
  /\ UNCHANGED <<current, settingVars>>

\* The app lets go of the handle, which every call holds until it is answered.
Release(s) ==
  /\ thread[s] = "running"
  /\ \A i \in DOMAIN calls : calls[i].source = s => calls[i].answered
  /\ thread' = [thread EXCEPT ![s] = "ended"]
  /\ heard' = Nothing
  /\ UNCHANGED <<jobs, current, calls, settingVars>>

(* defaults.get, defaults.set and the app's writes -------------------------- *)

Get(s) ==
  /\ Executing(s)
  /\ \E k \in Keys :
       LET found == GetValue(s, k)
       IN  heard' = [reader |-> s, key |-> k,
                     author |-> IF found = <<>> THEN Nothing ELSE found[1].author,
                     bytes |-> IF found = <<>> THEN <<>> ELSE <<BytesOf(found[1].value)>>]
  /\ UNCHANGED <<threadVars, settingVars>>

\* The bounds of the writes.
MayWrite ==
  /\ writes < MaxWrites /\ Len(calls) + writes < MaxActs
  /\ \A s \in Sources : current[s] # Nothing => current[s].op \notin Alone

\* The first of the two writes of defaults.set; the lock is let go between them.
SetOwn(s) ==
  /\ Executing(s)
  /\ MayWrite
  /\ writes' = writes + 1
  /\ \E k \in Keys : \E d \in SettingData :
       LET value == ValueOfData(d.kind, d.data)
       IN  /\ settings' = SetValue(settings, Own(s, k), value, s)
           /\ mine' = [mine EXCEPT ![s][k] = [set |-> TRUE, value |-> value]]
           /\ setting' = [setting EXCEPT ![s] = [key |-> k, value |-> value]]
  /\ heard' = Nothing
  /\ UNCHANGED <<threadVars, posted>>

SetPlain(s) ==
  /\ setting[s] # Nothing
  /\ settings' = SetValue(settings, PlainName(setting[s].key), setting[s].value, s)
  /\ setting' = [setting EXCEPT ![s] = Nothing]
  /\ heard' = Nothing
  /\ UNCHANGED <<threadVars, posted, mine, writes>>

\* The app restores the preferences it saved under both names and does not wait.
Restore(s) ==
  /\ MayWrite
  /\ writes' = writes + 1
  /\ \E k \in Keys : \E v \in AppValues :
       posted' = posted \cup {[name |-> name, value |-> v] : name \in {Own(s, k), PlainName(k)}}
  /\ heard' = Nothing
  /\ UNCHANGED <<threadVars, settings, setting, mine>>

\* A preference the user changes goes to the plain name alone.
SavePreference ==
  /\ MayWrite
  /\ writes' = writes + 1
  /\ \E k \in Keys : \E v \in AppValues :
       posted' = posted \cup {[name |-> PlainName(k), value |-> v]}
  /\ heard' = Nothing
  /\ UNCHANGED <<threadVars, settings, setting, mine>>

\* The pool of the bridge runs the app's writes in any order.
Land ==
  \E p \in posted :
    LET value == ValueOfText(p.value.type, p.value.text)
    IN  /\ posted' = posted \ {p}
        /\ settings' = SetValue(settings, p.name, value, App)
        /\ mine' = [s \in Sources |-> [k \in Keys |->
                      IF p.name = Own(s, k) THEN [set |-> value # <<>>, value |-> value]
                      ELSE mine[s][k]]]
        /\ heard' = Nothing
        /\ UNCHANGED <<threadVars, setting, writes>>

Step(s) ==
  \/ Create(s) \/ Created(s) \/ Call(s) \/ Begin(s) \/ Reply(s) \/ Deliver(s) \/ ImportPanics(s) \/ Unwound(s)
  \/ Release(s) \/ Get(s) \/ SetOwn(s) \/ SetPlain(s) \/ Restore(s)

Next == SavePreference \/ Land \/ \E s \in Sources : Step(s)

\* The thread takes up what is sent to it and unwinds to the end, defaults.set
\* makes both its writes, and a call ends one way or the other, which the
\* extension owes.
Fairness ==
  \A s \in Sources :
    /\ WF_vars(Begin(s))
    /\ WF_vars(ImportPanics(s) \/ Reply(s))
    /\ WF_vars(Deliver(s))
    /\ WF_vars(Unwound(s))
    /\ WF_vars(SetPlain(s))

Spec == Init /\ [][Next]_vars /\ Fairness

(* Properties -------------------------------------------------------------- *)

ThreadStates == {"none", "starting", "running", "failed", "unwinding", "dead", "ended"}
OwnNames == {Own(s, k) : s \in Sources, k \in Keys}
PlainNames == {PlainName(k) : k \in Keys}

ThreadsTypeOK ==
  /\ thread \in [Sources -> ThreadStates]
  /\ jobs \in [Sources -> Seq(1 .. MaxCalls)]
  /\ DOMAIN current = Sources /\ \A s \in Sources : current[s] \in RunsOf(s) \cup {Nothing}
  /\ calls \in Seq([source : Sources, answered : BOOLEAN]) /\ Len(calls) <= MaxCalls
  /\ DOMAIN settings \subseteq OwnNames \cup PlainNames
  /\ setting \in [Sources -> Sets \cup {Nothing}]
  /\ posted \subseteq [name : OwnNames \cup PlainNames, value : AppValues]
  /\ DOMAIN mine = Sources /\ \A s \in Sources : DOMAIN mine[s] = Keys
  /\ writes \in Nat

\* A call that is not answered runs or waits, in one place, at a thread that will
\* come to it or drop it; one that is answered is nowhere, so no second answer can
\* come (run, the loop of create).
CallsAccounted ==
  \A i \in DOMAIN calls :
    LET s == calls[i].source
        queued == {n \in DOMAIN jobs[s] : jobs[s][n] = i}
        runs == current[s] # Nothing /\ current[s].id = i
    IN  /\ Cardinality(queued) = IF runs \/ calls[i].answered THEN 0 ELSE 1
        /\ runs => ~calls[i].answered
        /\ ~calls[i].answered => thread[s] \in {"running", "unwinding"}

\* The calls of an extension are answered in the order they were made, also when a
\* panic drops those that wait and later ones find the thread gone (run).
AnswersInOrder ==
  \A i, j \in DOMAIN calls :
    (i < j /\ calls[i].source = calls[j].source /\ calls[j].answered) => calls[i].answered

\* No call is lost or answered twice, and none before an earlier one of its
\* extension, whatever panics and whenever calls come (run, the loop of create).
CallsInTurn == CallsAccounted /\ AnswersInOrder

\* Every call is answered, whatever the extension does and also when a call
\* before it, or it itself, brought the thread down (run).
EveryCallAnswered ==
  \A i \in 1..MaxCalls : (i \in DOMAIN calls) ~> (i \in DOMAIN calls /\ calls[i].answered)

\* defaults.get gives an extension what was last set for it under its own name,
\* whatever other extensions and the app write under the plain name meanwhile,
\* and after it removed a setting never a value it wrote before.
SettingsReadBack ==
  (heard # Nothing /\ "reader" \in DOMAIN heard) =>
    LET own == mine[heard.reader][heard.key]
    IN  /\ own.value # <<>> => heard.bytes = <<BytesOf(own.value[1])>>
        /\ (own.set /\ own.value = <<>>) => heard.author # heard.reader
=============================================================================
