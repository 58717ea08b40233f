---------------------------- MODULE PulseAudio ----------------------------
(***************************************************************************)
(* components/pa.c: the cache of sinks that the main thread reads and the  *)
(* PulseAudio loop's thread keeps current from the server's replies and    *)
(* events.  Both search and extend the cache's list, main without holding  *)
(* the loop's lock.                                                        *)
(*                                                                         *)
(* The volume and the mute flag of a sink are one level.  The server       *)
(* answers requests in their order and sends events on the same            *)
(* connection.                                                             *)
(***************************************************************************)
EXTENDS Integers, Sequences, FiniteSets, SequencesExt

CONSTANTS
  Sinks,       \* the names of the server's sinks
  NoSink,      \* the NULL of pa->sink, sink and pa_default_sink
  Aliases,     \* "@DEFAULT_SINK@", "@DEFAULT_AUDIO_SINK@"
  Wanted,      \* the arguments of the pa_* entries of config.h
  FirstIndex,  \* the index of each sink at the start
  MaxIndex,    \* bound on the indexes that plugging a sink in again gives out
  MaxLevel,    \* bound on the levels
  MaxChanges,  \* bound on the changes at the server
  MaxEntries   \* bound on the entries allocated

ASSUME PulseConstants ==
  /\ NoSink \notin Sinks \cup Aliases
  /\ Sinks # {} /\ Sinks \cap Aliases = {}
  /\ Wanted \subseteq Sinks \cup Aliases \cup {NoSink}
  /\ FirstIndex \in [Sinks -> Nat]
  /\ \A s, t \in Sinks : FirstIndex[s] = FirstIndex[t] => s = t
  /\ \A s \in Sinks : FirstIndex[s] <= MaxIndex
  /\ MaxIndex \in Nat /\ MaxLevel \in Nat /\ MaxChanges \in Nat /\ MaxEntries \in Nat

Absent == -1
Freed == -2  \* the index of an entry that pa_free has freed

VARIABLES
  index, level,     \* of each sink of the server (index Absent: unplugged)
  default,          \* the server's default sink
  lastIndex,        \* the largest index given out
  changes,          \* how many changes there were at the server
  been, held,       \* history: the sinks that were the default, the indexes of each
  subscribed,       \* the server sends this client events about sinks
  requests, inbox,  \* the connection: to the server, to the PulseAudio thread
  ctx,              \* "none", "connecting", "ready", "failed"
  flag,             \* pa_state_callback_signal
  entries,          \* every pa_t ever allocated: [sink, index, level]
  list,             \* the entries reachable from pa_queue, in its order
  tail,             \* the entry tqh_last points into, 0 for the head
  default_sink,     \* pa_default_sink
  raised,           \* arguments not looked up since PA_SIGNAL was last sent
  at, arg, found,   \* of each thread: where it is, the sink it looks up, its pa_t
  last,             \* of each thread: the tqh_last it has loaded
  raced,            \* history: main's entries inserted while the other thread inserted
  shown             \* the level main last put into a text, for each argument

server == <<index, level, default, lastIndex, changes, been, held>>
wire   == <<subscribed, requests, inbox>>
link   == <<wire, ctx, flag>>
queue  == <<list, tail>>
cache  == <<entries, queue, default_sink, raised>>
locals == <<arg, found, last, raced, shown>>
vars   == <<server, link, cache, at, locals>>

Threads == {"main", "pulse"}
Unseen == -1
Final == {"exited", "crashed", "corrupted"}
Running == at["main"] \notin Final
Inserting(p) == at[p] \in {"load", "link", "tail"}
Present(s) == index[s] # Absent

Init ==
  /\ index = FirstIndex /\ lastIndex = Max(Range(FirstIndex)) /\ changes = 0
  /\ level = [s \in Sinks |-> MaxLevel] /\ default \in Sinks
  /\ been = {default} /\ held = [s \in Sinks |-> {FirstIndex[s]}]
  /\ subscribed = FALSE /\ requests = <<>> /\ inbox = <<>>
  /\ ctx = "none" /\ flag = FALSE
  /\ entries = <<>> /\ list = <<>> /\ tail = 0
  /\ default_sink = NoSink /\ raised = {}
  /\ at = [main |-> "init", pulse |-> "idle"]
  /\ arg = [p \in Threads |-> NoSink] /\ found = [p \in Threads |-> 0]
  /\ last = found /\ raced = {}
  /\ shown = [w \in Wanted |-> Unseen]

-----------------------------------------------------------------------------
(* The server                                                              *)

Notify(k) ==
  inbox' = IF subscribed THEN Append(inbox, [t |-> "event", index |-> k])
                         ELSE inbox

(* An event comes for every change of a sink, its level or another. *)
ChangeSink(s) ==
  /\ Present(s) /\ \E l \in 0..MaxLevel : level' = [level EXCEPT ![s] = l]
  /\ Notify(index[s])
  /\ UNCHANGED <<index, default, lastIndex>>

(* An event of the facility SERVER: pa.c subscribes to SINK only. *)
ChangeDefault(s) ==
  /\ Present(s) /\ s # default /\ default' = s
  /\ UNCHANGED <<index, level, lastIndex, inbox>>

Unplug(s) ==
  /\ Present(s) /\ index' = [index EXCEPT ![s] = Absent]
  /\ default' \in {t \in Sinks : IF default = s THEN index'[t] # Absent ELSE t = default}
  /\ Notify(index[s])
  /\ UNCHANGED <<level, lastIndex>>

Plug(s) ==
  /\ ~Present(s) /\ lastIndex < MaxIndex /\ lastIndex' = lastIndex + 1
  /\ index' = [index EXCEPT ![s] = lastIndex'] /\ default' \in {default, s}
  /\ Notify(lastIndex')
  /\ UNCHANGED level

Change ==
  /\ Running /\ changes < MaxChanges /\ changes' = changes + 1
  /\ \E s \in Sinks : ChangeSink(s) \/ ChangeDefault(s) \/ Unplug(s) \/ Plug(s)
  /\ been' = been \cup {default'}
  /\ held' = [s \in Sinks |-> held[s] \cup ({index'[s]} \ {Absent})]
  /\ UNCHANGED <<subscribed, requests, ctx, flag, cache, at, locals>>

(* The sinks, at most one, that a request is about. *)
Meant(r) ==
  {s \in Sinks : /\ Present(s)
                 /\ \/ r.t = "index" /\ index[s] = r.index
                    \/ r.t = "name" /\ s = (IF r.sink = NoSink THEN default ELSE r.sink)}

Answers(r) ==
  IF r.t = "server" THEN {[t |-> "server", name |-> default]}
  ELSE IF Meant(r) = {} THEN {[t |-> "error", e |-> r.e]}
  ELSE {[t |-> "info", e |-> r.e, index |-> index[s], level |-> level[s]] : s \in Meant(r)}

Serve ==
  /\ Running /\ requests # <<>>
  /\ requests' = Tail(requests)
  /\ LET r == Head(requests)
     IN  \/ r.t = "subscribe" /\ subscribed' = TRUE /\ UNCHANGED inbox
         \/ /\ r.t # "subscribe" /\ UNCHANGED subscribed
            /\ \E a \in Answers(r) : inbox' = Append(inbox, a)
  /\ UNCHANGED <<server, ctx, flag, cache, at, locals>>

-----------------------------------------------------------------------------
(* pa_find_by_sink(sink), which both threads call; main without the lock   *)

Goes(p, from, to) == at[p] = from /\ at' = [at EXCEPT ![p] = to]

Ask(r) == requests' = Append(requests, r)

(* The comparison is with what the caller gave, not with what was stored
   for it, and strcmp dereferences the NULL stored for the default sink:
   there the walk over the list ends. *)
Crashes(e, s) == s # NoSink /\ entries[e].sink = NoSink
Matches(e, s) == entries[e].sink = s

WalkBySink(s) == SelectInSeq(list, LAMBDA e : Crashes(e, s) \/ Matches(e, s))

Find(p) ==
  LET n == WalkBySink(arg[p])
  IN  /\ n # 0 /\ ~Crashes(list[n], arg[p])
      /\ Goes(p, "find", "found")
      /\ found' = [found EXCEPT ![p] = list[n]]
      /\ UNCHANGED <<server, link, cache, arg, last, raced, shown>>

Stored(s) == IF s \in Aliases THEN NoSink ELSE s

(* Nothing found: a new entry for the thread, which is to be linked.  If
   the other thread is about to link one of its own, main's has raced. *)
New(p) ==
  /\ WalkBySink(arg[p]) = 0 /\ ctx = "ready" /\ Len(entries) < MaxEntries
  /\ found' = [found EXCEPT ![p] = Len(entries) + 1]
  /\ raced' = IF \E q \in Threads : Inserting(q) THEN raced \cup {found'["main"]} ELSE raced
  /\ UNCHANGED <<server, subscribed, inbox, ctx, flag, queue, default_sink, raised,
                 arg, last, shown>>

Allocates(s) == entries' = Append(entries, [sink |-> Stored(s), index |-> 0, level |-> 0])
AsksFor(p) == Ask([t |-> "name", e |-> found'[p], sink |-> Stored(arg[p])])

(* Mutants of Create: the entry is linked and asked for before it is
   allocated; it is not asked for; it is not linked. *)
CreateUnallocated(p) == New(p) /\ Goes(p, "find", "load") /\ UNCHANGED entries /\ AsksFor(p)
CreateUnasked(p)  == New(p) /\ Goes(p, "find", "load") /\ Allocates(arg[p]) /\ UNCHANGED requests
CreateUnlinked(p) == New(p) /\ Goes(p, "find", "found") /\ Allocates(arg[p]) /\ AsksFor(p)

(* The entry is zeroed, and there is the request that will fill it. *)
Create(p) == New(p) /\ Goes(p, "find", "load") /\ Allocates(arg[p]) /\ AsksFor(p)

(* strcmp(NULL), or a request without a connection: the library asserts. *)
FindCrashes ==
  /\ LET n == WalkBySink(arg["main"])
     IN  IF n = 0 THEN ctx # "ready" ELSE Crashes(list[n], arg["main"])
  /\ Goes("main", "find", "crashed")
  /\ UNCHANGED <<server, link, cache, locals>>

(* TAILQ_INSERT_TAIL loads tqh_last, stores the entry where that points, and
   moves tqh_last.  Where the other thread has stored since, its entry is
   overwritten; whatever is inserted behind a lost entry is lost with it. *)
Load(p) ==
  /\ Goes(p, "load", "link")
  /\ last' = [last EXCEPT ![p] = tail]
  /\ UNCHANGED <<server, link, cache, arg, found, raced, shown>>

Link(p) ==
  /\ Goes(p, "link", "tail")
  /\ list' = LET n == SelectInSeq(list, LAMBDA e : e = last[p])
             IN  IF last[p] # 0 /\ n = 0 THEN list
                 ELSE Append(SubSeq(list, 1, n), found[p])
  /\ UNCHANGED <<server, link, entries, tail, default_sink, raised, locals>>

MoveTail(p) ==
  /\ Goes(p, "tail", "found")
  /\ tail' = found[p]
  /\ UNCHANGED <<server, link, entries, list, default_sink, raised, locals>>

FindBySink(p) == Find(p) \/ Create(p) \/ Load(p) \/ Link(p) \/ MoveTail(p)

-----------------------------------------------------------------------------
(* The main thread                                                         *)

(* pa_init without a loop, a context, a connection or a thread. *)
InitFails == Goes("main", "init", "idle") /\ UNCHANGED <<server, link, cache, locals>>

InitStarts ==
  /\ Goes("main", "init", "test")
  /\ ctx' = "connecting"
  /\ UNCHANGED <<server, wire, flag, cache, locals>>

(* while (!pa_state_callback_signal) wait: waiting gives up the lock, and
   whoever is woken gets it back when no callback runs. *)
InitWaits ==
  /\ \/ flag /\ Goes("main", "test", "check")
     \/ ~flag /\ Goes("main", "test", "blocked")
     \/ at["pulse"] = "idle" /\ Goes("main", "woken", "test")
  /\ UNCHANGED <<server, link, cache, locals>>

InitEnds ==
  /\ Goes("main", "check", "idle")
  /\ IF ctx = "ready" THEN UNCHANGED <<ctx, wire>>
     ELSE ctx' = "none" /\ requests' = <<>> /\ inbox' = <<>> /\ subscribed' = FALSE
  /\ UNCHANGED <<server, flag, cache, locals>>

(* The status bar samples its entry for w: pa_line and the others look up
   the pa_t, then read it. *)
Lookup(w) ==
  /\ Goes("main", "idle", "find")
  /\ arg' = [arg EXCEPT !["main"] = w] /\ raised' = raised \ {w}
  /\ UNCHANGED <<server, link, entries, queue, default_sink, found, last, raced, shown>>

Read ==
  /\ Goes("main", "found", "idle")
  /\ shown' = [shown EXCEPT ![arg["main"]] = entries[found["main"]].level]
  /\ UNCHANGED <<server, link, cache, arg, found, last, raced>>

(* pa_free frees the entries of the list, and then stops the thread. *)
Free ==
  /\ Goes("main", "idle", "stop")
  /\ entries' = [e \in DOMAIN entries |-> [entries[e] EXCEPT
                   !.index = IF e \in Range(list) THEN Freed ELSE @]]
  /\ list' = <<>> /\ tail' = 0
  /\ UNCHANGED <<server, link, default_sink, raised, locals>>

Stop ==
  /\ at["pulse"] = "idle" /\ Goes("main", "stop", "exited")
  /\ UNCHANGED <<server, link, cache, locals>>

-----------------------------------------------------------------------------
(* The PulseAudio thread: its callbacks run with the lock                  *)

HoldsLock == at["main"] \in {"init", "test", "check"}
Dispatching == Running /\ at["pulse"] = "idle" /\ ~HoldsLock

(* pa_threaded_mainloop_signal *)
SignalMain ==
  at' = [at EXCEPT !["main"] = IF @ = "blocked" THEN "woken" ELSE @]

(* Mutant: the case of a failed context does not reach the flag. *)
StateCallbackReady ==
  /\ Dispatching /\ ctx = "connecting"
  /\ \/ /\ ctx' = "ready" /\ flag' = TRUE
        /\ requests' = <<[t |-> "subscribe"], [t |-> "server"]>>
     \/ ctx' = "failed" /\ UNCHANGED <<flag, requests>>
  /\ SignalMain
  /\ UNCHANGED <<server, subscribed, inbox, cache, locals>>

(* pa_state_callback: subscribe and ask for the default sink, or give up. *)
StateCallback ==
  /\ Dispatching
  /\ \/ /\ ctx = "connecting" /\ ctx' = "ready"
        /\ requests' = <<[t |-> "subscribe"], [t |-> "server"]>>
        /\ UNCHANGED <<subscribed, inbox>>
     \/ /\ ctx \in {"connecting", "ready"} /\ ctx' = "failed"
        /\ requests' = <<>> /\ inbox' = <<>> /\ subscribed' = FALSE
  /\ flag' = TRUE
  /\ SignalMain
  /\ UNCHANGED <<server, cache, locals>>

(* The next message is for a callback. *)
Incoming(type) ==
  /\ Dispatching /\ inbox # <<>> /\ Head(inbox).t = type
  /\ inbox' = Tail(inbox)
  /\ UNCHANGED <<server, subscribed, ctx, flag, queue, locals>>

(* Mutant: entries whose information has not come yet match every index. *)
WalkUnfilled(k) == SelectInSeq(list, LAMBDA e : entries[e].index \in {0, k})

WalkByIndex(k) == SelectInSeq(list, LAMBDA e : entries[e].index = k)

(* Mutant: an event always leads to the default sink's entry. *)
SubscribeServerOnly ==
  /\ Incoming("event")
  /\ Ask([t |-> "server"])
  /\ UNCHANGED <<entries, default_sink, raised, at>>

SubscribeCallback ==
  /\ Incoming("event")
  /\ LET k == Head(inbox).index
         n == WalkByIndex(k)
     IN  IF n = 0 THEN Ask([t |-> "server"])
                  ELSE Ask([t |-> "index", e |-> list[n], index |-> k])
  /\ UNCHANGED <<entries, default_sink, raised, at>>

Updated(m) == [entries EXCEPT ![m.e] = [@ EXCEPT !.index = m.index, !.level = m.level]]

(* Mutant: the signal is raised before the values are stored. *)
SinkInfoRaisesFirst ==
  \/ /\ Dispatching /\ inbox # <<>> /\ Head(inbox).t = "info"
     /\ entries[Head(inbox).e].index # Freed /\ Updated(Head(inbox)) # entries
     /\ raised' = Wanted /\ Goes("pulse", "idle", "store")
     /\ UNCHANGED <<server, link, entries, queue, default_sink, locals>>
  \/ /\ Goes("pulse", "store", "idle") /\ entries' = Updated(Head(inbox))
     /\ inbox' = Tail(inbox)
     /\ UNCHANGED <<server, subscribed, requests, ctx, flag, queue, default_sink, raised, locals>>

(* pa_sink_info_callback with the information asked for.  The values are
   stored first; if one is new, the signal comes next. *)
SinkInfoCallback ==
  /\ Incoming("info") /\ entries[Head(inbox).e].index # Freed
  /\ entries' = Updated(Head(inbox))
  /\ IF entries' = entries THEN SignalMain ELSE at' = [at EXCEPT !["pulse"] = "kill"]
  /\ UNCHANGED <<requests, default_sink, raised>>

SinkInfoRaises ==
  /\ at["pulse"] = "kill" /\ raised' = Wanted
  /\ at' = [at EXCEPT !["pulse"] = "idle", !["main"] = IF @ = "blocked" THEN "woken" ELSE @]
  /\ UNCHANGED <<server, link, entries, queue, default_sink, locals>>

(* Freed memory is written to: that may go unnoticed, or not. *)
SinkInfoAfterFree ==
  /\ Incoming("info") /\ entries[Head(inbox).e].index = Freed
  /\ at' \in {at, [at EXCEPT !["main"] = "corrupted"]}
  /\ UNCHANGED <<requests, entries, default_sink, raised>>

(* pa_sink_info_callback without information. *)
SinkMissingCallback ==
  /\ Incoming("error")
  /\ SignalMain
  /\ UNCHANGED <<requests, entries, default_sink, raised>>

(* server_info_callback: what it knows of the default sink is its name. *)
ServerInfoCallback ==
  /\ Incoming("server")
  /\ default_sink' = Head(inbox).name
  /\ at' = [at EXCEPT !["pulse"] = IF default_sink' = default_sink THEN "idle" ELSE "find"]
  /\ UNCHANGED <<requests, entries, raised>>

(* Mutant: the new default sink is not asked for. *)
ServerInfoIgnores ==
  /\ Goes("pulse", "found", "idle")
  /\ UNCHANGED <<server, link, cache, locals>>

ServerInfoAsks ==
  /\ Goes("pulse", "found", "idle")
  /\ Ask([t |-> "name", e |-> found["pulse"], sink |-> default_sink])
  /\ UNCHANGED <<server, subscribed, inbox, ctx, flag, cache, locals>>

-----------------------------------------------------------------------------
Main ==
  \/ InitFails \/ InitStarts \/ InitWaits \/ InitEnds
  \/ FindBySink("main") \/ FindCrashes \/ Read \/ Free \/ Stop

(* A callback that has begun. *)
PulseGoesOn == FindBySink("pulse") \/ ServerInfoAsks \/ SinkInfoRaises

Pulse ==
  \/ StateCallback \/ SubscribeCallback \/ SinkInfoCallback
  \/ SinkInfoAfterFree \/ SinkMissingCallback \/ ServerInfoCallback
  \/ Running /\ PulseGoesOn

Finished == (~Running \/ Len(entries) = MaxEntries) /\ UNCHANGED vars

Next ==
  \/ Main \/ Pulse \/ Change \/ Serve \/ Finished
  \/ \E w \in Wanted : Lookup(w)

Spec == Init /\ [][Next]_vars

(* What the PulseAudio thread does next, but for losing the connection. *)
PulseRuns ==
  \/ ctx = "connecting" /\ StateCallback
  \/ SubscribeCallback \/ SinkInfoCallback \/ SinkInfoAfterFree
  \/ SinkMissingCallback \/ ServerInfoCallback
  \/ Running /\ PulseGoesOn

(* The steps of pa_init are taken, the server answers, and the PulseAudio
   thread runs: the context comes up or fails, the loop calls back for what
   it got, and a callback that has begun ends. *)
FairSpec ==
  /\ Spec
  /\ WF_vars(InitFails \/ InitStarts \/ InitWaits \/ InitEnds)
  /\ WF_vars(PulseRuns)
  /\ WF_vars(Serve)

-----------------------------------------------------------------------------
(* Properties                                                              *)

(* The list and the messages speak of allocated entries, the indexes of
   plugged in sinks are distinct. *)
TypeOK ==
  /\ at["main"] \in Final \cup {"init", "test", "blocked", "woken", "check",
                               "idle", "find", "load", "link", "tail", "found", "stop"}
  /\ at["pulse"] \in {"idle", "find", "load", "link", "tail", "found", "kill"}
  /\ \A s, t \in Sinks : index[s] = index[t] => s = t \/ ~Present(s)
  /\ \A e \in DOMAIN entries : entries[e].sink \in Sinks \cup {NoSink}
  /\ Range(list) \subseteq DOMAIN entries /\ tail \in 0..Len(entries)
  /\ \A m \in Range(inbox) : m.t \in {"info", "error"} => m.e \in DOMAIN entries
  /\ default_sink \in Sinks \cup {NoSink}

(* pa_init returns, whether the server answers, refuses or is not there. *)
InitReturns == <>(at["main"] \notin {"init", "test", "blocked", "woken", "check"})

OnItsWay(e) ==
  \/ \E r \in Range(requests) : r.t \in {"name", "index"} /\ r.e = e
  \/ \E m \in Range(inbox) :
       \/ m.t = "info" /\ m.e = e
       \/ m.t = "event" /\ m.index = entries[e].index

(* The first entry never falls behind the sink it is bound to: in whatever
   order events and replies come, whichever entry was lost, its level is the
   sink's or a message that will bring it up to date is on its way.  Only an
   entry of main's that raced may have come to the head after an event
   about its sink refreshed the one it overwrites. *)
NeverBehind ==
  ctx = "ready" /\ at["main"] \notin Final \cup {"stop"} /\
  list # <<>> /\ list[1] \notin raced =>
    \A s \in Sinks : index[s] = entries[list[1]].index =>
      entries[list[1]].level = level[s] \/ OnItsWay(list[1])

(* A text that no longer is what the list says has been announced, or is
   just about to be: the signal was raised after main began the lookup
   behind that text, wherever main was when the values were stored.  Only a
   new entry may come to the list unannounced: what it gets will be. *)
Zeroed(e) == entries[e].index = 0 /\ entries[e].level = 0

ShownOrRaised ==
  at["main"] = "idle" /\ at["pulse"] # "kill" =>
    \A w \in Wanted \ raised :
      LET n == WalkBySink(w)
      IN  shown[w] # Unseen /\ n # 0 => shown[w] = entries[list[n]].level \/ Zeroed(list[n])

(* A sink that was shown once does not bring the bar down later: whatever
   entry comes to the list next, and when the server goes, its lookup ends
   at its own entry, unless both threads were inserting at the same time.
   The aliases never match what is stored for them. *)
ShownStaysSafe ==
  at["main"] = "crashed" /\ arg["main"] \notin Aliases /\ raced = {} =>
    shown[arg["main"]] = Unseen

Quiet == requests = <<>> /\ inbox = <<>> /\ at["pulse"] = "idle"

DefaultEntries == {e \in DOMAIN entries : entries[e].sink = NoSink}

(* No message is lost on the way to the text: when all are dealt with every
   entry for the default sink has the index of a sink, and of no other than
   the server's default if that has always been the same. *)
ShowsDefault ==
  ctx = "ready" /\ Quiet /\ at["main"] \notin Final \cup {"stop"} =>
    \A e \in DefaultEntries :
      entries[e].index # 0 /\ (been = {default} => entries[e].index = index[default])

(* The indexes that information about s may have had. *)
HeldFor(s) == UNION {held[t] : t \in IF s = NoSink THEN been ELSE {s}}

(* An entry for a sink given by name is bound to no other, one for the
   default sink only to sinks that were the default: its index, once its
   information has come, is one that such a sink has or had. *)
BoundToItsSink ==
  \A e \in DOMAIN entries : entries[e].index \in {0, Freed} \cup HeldFor(entries[e].sink)

(* What the server names as its default is shown, if only for a moment: an
   event that is answered afterwards may bring the former one back. *)
DefaultFollowed ==
  at["pulse"] = "found" ~>
    \/ ctx # "ready" \/ at["main"] \in Final \cup {"stop"}
    \/ default_sink # NoSink /\
         (~Present(default_sink) \/ \E e \in DefaultEntries : entries[e].index = index[default_sink])
=============================================================================
