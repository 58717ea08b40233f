------------------------- MODULE PulseAudioProofs -------------------------
(***************************************************************************)
(* Theorems about the cache of pa.c, for any sinks, aliases, entries of    *)
(* config.h, any changes at the server and any bounds.                     *)
(***************************************************************************)
EXTENDS PulseAudio, WellFoundedInduction, TLAPS

-----------------------------------------------------------------------------
(* Types                                                                   *)

Entry == [sink : Sinks \cup {NoSink}, index : Nat \cup {Freed}, level : Nat]

Requests ==
  [t : {"subscribe", "server"}]
  \cup [t : {"name"}, e : Nat, sink : Sinks \cup {NoSink}]
  \cup [t : {"index"}, e : Nat, index : Nat]

Messages ==
  [t : {"server"}, name : Sinks] \cup [t : {"error"}, e : Nat]
  \cup [t : {"info"}, e : Nat, index : Nat, level : Nat]
  \cup [t : {"event"}, index : Nat]

MainPlaces == {"init", "test", "blocked", "woken", "check",
               "idle", "find", "load", "link", "tail", "found", "stop"}
PulsePlaces == {"idle", "find", "load", "link", "tail", "found", "kill"}
Places == Final \cup MainPlaces \cup PulsePlaces

ServerTypes ==
  /\ index \in [Sinks -> Nat \cup {Absent}] /\ level \in [Sinks -> Nat]
  /\ default \in Sinks /\ lastIndex \in Nat

WireTypes == requests \in Seq(Requests) /\ inbox \in Seq(Messages)

CacheTypes ==
  /\ entries \in Seq(Entry) /\ list \in Seq(DOMAIN entries) /\ tail \in 0..Len(entries)
  /\ default_sink \in Sinks \cup {NoSink} /\ raised \subseteq Wanted

PlaceTypes ==
  /\ at \in [Threads -> Places] /\ at["main"] # "kill" /\ at["pulse"] \in PulsePlaces
  /\ arg \in [Threads -> Wanted \cup {NoSink}] /\ arg["pulse"] = NoSink
  /\ found \in [Threads -> Nat] /\ last \in [Threads -> Nat] /\ shown \in [Wanted -> Nat \cup {Unseen}]

TypeInv == ServerTypes /\ WireTypes /\ CacheTypes /\ PlaceTypes

(* What is sent speaks of entries that were allocated. *)
Allocated ==
  /\ \A n \in DOMAIN requests :
       requests[n].t \in {"name", "index"} => requests[n].e \in DOMAIN entries
  /\ \A n \in DOMAIN inbox :
       inbox[n].t \in {"info", "error"} => inbox[n].e \in DOMAIN entries
  /\ \A p \in Threads : at[p] \in {"load", "link", "tail", "found"} => found[p] \in DOMAIN entries

(* Indexes are given to one sink each, and none is larger than the last. *)
Indexes ==
  /\ \A s \in Sinks : index[s] <= lastIndex /\ FirstIndex[s] <= lastIndex
  /\ \A s, t \in Sinks : index[s] \in {index[t], FirstIndex[t]} => s = t \/ ~Present(s)
  /\ \A e \in DOMAIN entries : entries[e].index <= lastIndex
  /\ \A n \in DOMAIN requests : requests[n].t = "index" => requests[n].index <= lastIndex
  /\ \A n \in DOMAIN inbox : inbox[n].t \in {"info", "event"} => inbox[n].index <= lastIndex

CacheInv == TypeInv /\ Allocated /\ Indexes

(* A thread inserts the entry for the sink it looks up, and the callback
   finds an entry of the default sink. *)
LookupInv ==
  /\ \A p \in Threads : Inserting(p) => entries[found[p]].sink = Stored(arg[p])
  /\ at["pulse"] = "found" => entries[found["pulse"]].sink = NoSink

-----------------------------------------------------------------------------
(* What the entries are bound to                                           *)

(* The first sink of the server has index 0; it has not where it was
   unplugged and plugged in again before the bar was started. *)
NoIndexZero == \A s \in Sinks : FirstIndex[s] # 0

HistoryInv ==
  /\ Present(default) /\ default \in been /\ default_sink \in been \cup {NoSink}
  /\ been \subseteq Sinks /\ held \in [Sinks -> SUBSET Nat]
  /\ \A s \in Sinks : Present(s) => index[s] \in held[s]
  /\ \A n \in DOMAIN inbox : inbox[n].t = "server" => inbox[n].name \in been
  (* As long as the default stays the same it is not unplugged. *)
  /\ been = {default} => held[default] = {index[default]}

(* Until its information comes an entry has the index 0, whose ever that is. *)
EntryBound(e) == entries[e].index \in {0, Freed} \cup HeldFor(entries[e].sink)

RequestBound(r) ==
  /\ r.t = "name" => entries[r.e].sink = r.sink \/ (entries[r.e].sink = NoSink /\ r.sink \in been)
  /\ r.t = "index" => r.index \in {0} \cup HeldFor(entries[r.e].sink)

MessageBound(m) == m.t = "info" => m.index \in {0} \cup HeldFor(entries[m.e].sink)

BoundInv ==
  /\ NoIndexZero => \A s \in Sinks : index[s] # 0
  /\ HistoryInv
  /\ \A e \in DOMAIN entries : EntryBound(e)
  /\ \A n \in DOMAIN requests : RequestBound(requests[n])
  /\ \A n \in DOMAIN inbox : MessageBound(inbox[n])

-----------------------------------------------------------------------------
(* The list                                                                *)

Live == at["main"] \notin Final \cup {"stop"}

(* An entry is linked before tqh_last moves to it, and the list keeps its
   head.  What main inserts has raced, or nobody else inserts meanwhile. *)
ListInv ==
  Live =>
    /\ tail # 0 => list # <<>>
    /\ list # <<>> => tail # 0 \/ \E p \in Threads : at[p] = "tail"
    /\ \A p \in Threads :
         at[p] = "tail" \/ (at[p] = "link" /\ last[p] # 0) => list # <<>>
    /\ Inserting("main") /\ found["main"] \notin raced =>
         ~Inserting("pulse") /\ (at["main"] = "link" => last["main"] = tail)

-----------------------------------------------------------------------------
(* What brings the first entry up to date                                  *)

Sure(e) == \E n \in DOMAIN requests : requests[n] = [t |-> "name", e |-> e, sink |-> NoSink]
Asked(e, k) == \E n \in DOMAIN requests : requests[n] = [t |-> "index", e |-> e, index |-> k]
InfoAfter(e, i) == \E n \in DOMAIN inbox : n > i /\ inbox[n].t = "info" /\ inbox[n].e = e
EventAfter(k, i) == \E n \in DOMAIN inbox : n > i /\ inbox[n].t = "event" /\ inbox[n].index = k

(* An entry e with index k and level l, once the first i messages are dealt
   with, is level or is brought up to date by what follows. *)
Covered(e, k, l, i) ==
  \A s \in Sinks : index[s] = k =>
    l = level[s] \/ EventAfter(k, i) \/ InfoAfter(e, i) \/ Sure(e) \/ Asked(e, k)

(* The entries that are first or may become so. *)
AtHead(p) == (at[p] = "load" /\ tail = 0) \/ (at[p] = "link" /\ last[p] = 0)
MayBeFirst(e) ==
  \/ list # <<>> /\ e = list[1]
  \/ \E p \in Threads : AtHead(p) /\ e = found[p]

(* The same for the values e has, and for every one that is on its way. *)
Follows(e, k, l) ==
  /\ Covered(e, k, l, 0)
  /\ \A i \in DOMAIN inbox : inbox[i].t = "info" /\ inbox[i].e = e =>
       Covered(e, inbox[i].index, inbox[i].level, i)

(* While e still has the index 0, sink 0 is asked for or answered for it. *)
Expected(e) == \A s \in Sinks : index[s] = 0 => Sure(e) \/ InfoAfter(e, 0)
Unfilled(e) == entries[e].index = 0 /\ Expected(e)

(* Before the first answer about the server none about a sink comes. *)
ServerFirst ==
  \/ \E i \in DOMAIN inbox :
       inbox[i].t = "server" /\ \A j \in 1..i : inbox[j].t \in {"server", "event"}
  \/ /\ \A j \in DOMAIN inbox : inbox[j].t = "event"
     /\ \E i \in DOMAIN requests :
          requests[i].t = "server" /\ \A j \in 1..i : requests[j].t \in {"subscribe", "server"}

Silent == requests = <<>> /\ inbox = <<>> /\ subscribed = FALSE
Empty == entries = <<>> /\ list = <<>> /\ tail = 0 /\ default_sink = NoSink /\ at["pulse"] = "idle"

(* Without a connection nothing is sent, and nothing is cached before. *)
ConnectionInv ==
  /\ at["main"] = "init" => ctx = "none"
  /\ ctx # "ready" => Silent
  /\ at["main"] = "init" \/ ctx = "connecting" => Empty
  /\ at["pulse"] # "idle" => ctx = "ready" /\ default_sink # NoSink

AnswersInv ==
  ctx = "ready" =>
    /\ default_sink = NoSink => ServerFirst
    /\ ~subscribed => inbox = <<>> /\ requests # <<>> /\ requests[1].t = "subscribe"

(* Once the default sink is known its entry is linked, and what main then
   inserts at the head has raced. *)
DefaultInv ==
  Live =>
    /\ \A e \in DOMAIN entries : entries[e].index # Freed
    /\ at["pulse"] \in {"found", "kill"} \/ (at["pulse"] = "idle" /\ default_sink # NoSink) =>
         list # <<>> /\ (tail # 0 \/ at["main"] = "tail")
    /\ AtHead("main") /\ found["main"] \notin raced =>
         default_sink = NoSink \/ at["pulse"] = "find"

StartInv == Present(default) /\ ConnectionInv /\ AnswersInv /\ DefaultInv

(* The entries yet to be linked, those of main's only that may get first.
   One that raced may be first unexpectedly. *)
Waiting(e) ==
  \/ at["pulse"] \in {"load", "link"} /\ e = found["pulse"]
  \/ AtHead("main") /\ e = found["main"] /\ e \notin raced

FirstInv ==
  ctx = "ready" /\ Live =>
    /\ \A e \in DOMAIN entries \ raced :
         MayBeFirst(e) => Follows(e, entries[e].index, entries[e].level)
    /\ \A e : Waiting(e) => Unfilled(e)
    /\ ~subscribed => \A e \in DOMAIN entries : Unfilled(e)

(* An entry for the default sink has the index of a sink, or information
   about one is on its way, or asked for in a way that does not fail. *)
Filled(e) == entries[e].index # 0 \/ Sure(e) \/ InfoAfter(e, 0)

FilledInv ==
  ctx = "ready" =>
    /\ \A e \in DOMAIN entries : entries[e].sink = NoSink => Filled(e)
    /\ \A n \in DOMAIN inbox : inbox[n].t = "info" => inbox[n].index # 0

-----------------------------------------------------------------------------
(* What main has shown                                                     *)

Looking == at["main"] \in {"find", "load", "link", "tail", "found"}
LevelOf(w) == entries[list[WalkBySink(w)]].level

(* A text for w with the level l is what the list says, unless an entry
   whose information is yet to come has been put there. *)
Agrees(w, l) == WalkBySink(w) # 0 => l = LevelOf(w) \/ Zeroed(list[WalkBySink(w)])

AnnouncedInv(w) ==
  w \notin raised /\ shown[w] # Unseen /\ ~(Looking /\ w = arg["main"]) => Agrees(w, shown[w])

(* What a lookup is about to show is what the list says. *)
LookedUpInv(w) ==
  Looking /\ w = arg["main"] /\ w \notin raised =>
    /\ Inserting("main") => Zeroed(found["main"]) /\ Agrees(w, 0)
    /\ at["main"] = "found" => Agrees(w, entries[found["main"]].level)

ShownInv ==
  /\ Looking => arg["main"] \in Wanted
  /\ Live /\ Inserting("pulse") => Zeroed(found["pulse"])
  /\ Live /\ at["pulse"] # "kill" =>
       /\ Looking /\ arg["main"] \in raised => Wanted \subseteq raised
       /\ \A w \in Wanted : AnnouncedInv(w) /\ LookedUpInv(w)

-----------------------------------------------------------------------------
(* Sequences and least elements                                            *)

LEMMA LeastExists ==
  ASSUME NEW I \in SUBSET Nat, I # {}
  PROVE  Min(I) \in I /\ \A y \in I : Min(I) <= y
<1> DEFINE R == {ss \in Nat \X Nat : ss[1] < ss[2]}
<1>1. IsWellFoundedOn(R, Nat)
  BY NatLessThanWellFounded, Zenon DEF OpToRel
<1>2. PICK x \in I : \A y \in I : ~(<<y, x>> \in R)
  <2> HIDE DEF R
  <2> QED BY <1>1, WFMin
<1>3. \A y \in I : x <= y
  <2>1. ASSUME NEW y \in Nat, NEW z \in Nat, y < z
        PROVE  <<y, z>> \in R
    BY <2>1, Zenon
  <2> HIDE DEF R
  <2>2. \A y \in I : ~(y < x)
    BY <1>2, <2>1
  <2> QED BY <2>2
<1> QED BY <1>2, <1>3 DEF Min

LEMMA GreatestExists ==
  ASSUME NEW I \in SUBSET Nat, I # {}, NEW b \in Nat, \A y \in I : y <= b
  PROVE  Max(I) \in I /\ \A y \in I : y <= Max(I)
<1> DEFINE J == {b - y : y \in I}
<1>1. J \in SUBSET Nat /\ J # {}
  <2>1. \A y \in I : b - y \in Nat
    OBVIOUS
  <2>2. PICK y : y \in I
    OBVIOUS
  <2>3. b - y \in J
    BY <2>2
  <2>4. J \subseteq Nat
    BY <2>1
  <2> QED BY <2>3, <2>4
<1>2. Min(J) \in J /\ \A y \in J : Min(J) <= y
  <2> HIDE DEF J
  <2> QED BY <1>1, LeastExists
<1>3. PICK x \in I : Min(J) = b - x
  BY <1>2
<1>4. \A y \in I : y <= x
  <2>1. \A y \in I : b - y \in J
    OBVIOUS
  <2> HIDE DEF J
  <2> QED BY <1>2, <1>3, <2>1
<1> QED BY <1>4 DEF Max

(* What SelectInSeq returns of the places where its test holds. *)
LEMMA FirstOf ==
  ASSUME NEW I \in SUBSET Nat, NEW f, f = IF I # {} THEN Min(I) ELSE 0
  PROVE  /\ I = {} => f = 0
         /\ I # {} => f \in I /\ \A y \in I : f <= y
BY LeastExists

LEMMA Appended ==
  ASSUME NEW S, NEW s \in Seq(S), NEW x \in S
  PROVE  /\ Append(s, x) \in Seq(S) /\ Len(Append(s, x)) = Len(s) + 1 /\ Len(s) \in Nat
         /\ DOMAIN s = 1..Len(s) /\ DOMAIN Append(s, x) = 1..Len(s) + 1
         /\ \A n \in DOMAIN s : Append(s, x)[n] = s[n]
         /\ Append(s, x)[Len(s) + 1] = x
         /\ \A n \in DOMAIN Append(s, x) : n \in DOMAIN s \/ n = Len(s) + 1
OBVIOUS

LEMMA Shifted ==
  ASSUME NEW S, NEW s \in Seq(S), s # <<>>
  PROVE  /\ Tail(s) \in Seq(S) /\ Len(Tail(s)) = Len(s) - 1 /\ Len(s) \in Nat \ {0}
         /\ Head(s) = s[1] /\ 1 \in DOMAIN s /\ s[1] \in S
         /\ DOMAIN s = 1..Len(s) /\ DOMAIN Tail(s) = 1..Len(s) - 1
         /\ \A n \in DOMAIN Tail(s) : n + 1 \in DOMAIN s /\ Tail(s)[n] = s[n + 1]
OBVIOUS

(* A thread goes from one place to another. *)
LEMMA Moved ==
  ASSUME PlaceTypes, NEW p \in Threads, NEW from, NEW to \in Places, Goes(p, from, to),
         p = "main" => to # "kill", p = "pulse" => to \in PulsePlaces
  PROVE  /\ at[p] = from /\ at'[p] = to /\ \A q \in Threads \ {p} : at'[q] = at[q]
         /\ at' \in [Threads -> Places] /\ at'["main"] # "kill" /\ at'["pulse"] \in PulsePlaces
BY DEF PlaceTypes, Goes, Threads

LEMMA TwoThreads ==
  "main" \in Threads /\ "pulse" \in Threads /\ \A p \in Threads : p = "main" \/ p = "pulse"
BY DEF Threads

LEMMA RequestKinds ==
  ASSUME NEW r \in Requests
  PROVE  /\ r.t \in {"subscribe", "server", "name", "index"}
         /\ r.t = "name" => /\ r.e \in Nat /\ r.sink \in Sinks \cup {NoSink}
                            /\ r = [t |-> "name", e |-> r.e, sink |-> r.sink]
         /\ r.t = "index" => /\ r.e \in Nat /\ r.index \in Nat
                             /\ r = [t |-> "index", e |-> r.e, index |-> r.index]
BY DEF Requests

LEMMA MessageKinds ==
  ASSUME NEW m \in Messages
  PROVE  /\ m.t \in {"server", "error", "info", "event"}
         /\ m.t = "server" => m.name \in Sinks
         /\ m.t = "error" => m.e \in Nat
         /\ m.t = "info" => m.e \in Nat /\ m.index \in Nat /\ m.level \in Nat
         /\ m.t = "event" => m.index \in Nat
BY DEF Messages

LEMMA Sent ==
  /\ [t |-> "subscribe"] \in Requests /\ [t |-> "server"] \in Requests
  /\ \A e \in Nat, x \in Sinks \cup {NoSink} : [t |-> "name", e |-> e, sink |-> x] \in Requests
  /\ \A e \in Nat, k \in Nat : [t |-> "index", e |-> e, index |-> k] \in Requests
  /\ \A x \in Sinks : [t |-> "server", name |-> x] \in Messages
  /\ \A e \in Nat : [t |-> "error", e |-> e] \in Messages
  /\ \A e \in Nat, k \in Nat, l \in Nat :
       [t |-> "info", e |-> e, index |-> k, level |-> l] \in Messages
  /\ \A k \in Nat : [t |-> "event", index |-> k] \in Messages
BY DEF Requests, Messages

(* The largest first index. *)
LEMMA LargestIndex ==
  /\ Max(Range(FirstIndex)) \in Nat
  /\ \A s \in Sinks : FirstIndex[s] <= Max(Range(FirstIndex))
<1>1. Range(FirstIndex) \in SUBSET Nat /\ Range(FirstIndex) # {}
  BY PulseConstants DEF Range
<1>2. \A y \in Range(FirstIndex) : y <= MaxIndex
  BY PulseConstants DEF Range
<1>3. \A s \in Sinks : FirstIndex[s] \in Range(FirstIndex)
  BY PulseConstants DEF Range
<1> QED BY <1>1, <1>2, <1>3, GreatestExists, PulseConstants

(* What a request about sinks means is plugged in. *)
LEMMA AnswerKinds ==
  ASSUME ServerTypes, NEW r \in Requests, r.t # "subscribe", NEW a \in Answers(r)
  PROVE  /\ a \in Messages
         /\ a.t = "server" <=> r.t = "server"
         /\ a.t \in {"server", "error", "info"}
         /\ a.t \in {"error", "info"} => r.t \in {"name", "index"} /\ a.e = r.e
         /\ a.t = "error" => Meant(r) = {}
         /\ a.t = "info" => \E s \in Meant(r) : a.index = index[s] /\ a.level = level[s]
         /\ \A s \in Meant(r) : s \in Sinks /\ index[s] \in Nat /\ level[s] \in Nat
<1>1. \A s \in Meant(r) : s \in Sinks /\ index[s] \in Nat /\ level[s] \in Nat
  BY DEF Meant, Present, ServerTypes
<1>2. CASE r.t = "server"
  <2>1. a = [t |-> "server", name |-> default]
    BY <1>2 DEF Answers
  <2>2. default \in Sinks
    BY DEF ServerTypes
  <2> QED BY <1>1, <1>2, <2>1, <2>2, Sent
<1>3. CASE r.t # "server" /\ Meant(r) = {}
  <2>1. a = [t |-> "error", e |-> r.e]
    BY <1>3 DEF Answers
  <2> QED BY <1>1, <1>3, <2>1, Sent, RequestKinds
<1>4. CASE r.t # "server" /\ Meant(r) # {}
  <2>1. PICK s \in Meant(r) :
          a = [t |-> "info", e |-> r.e, index |-> index[s], level |-> level[s]]
    BY <1>4 DEF Answers
  <2>2. r.e \in Nat /\ r.t \in {"name", "index"}
    BY <1>4, RequestKinds
  <2> QED BY <1>1, <1>4, <2>1, <2>2, Sent
<1> QED BY <1>2, <1>3, <1>4

-----------------------------------------------------------------------------
(* The steps keep the types, allocate what is named and give out indexes   *)

LEMMA CacheInvInit == Init => CacheInv
<1> SUFFICES ASSUME Init PROVE CacheInv
  OBVIOUS
<1>1. ServerTypes /\ Indexes
  BY PulseConstants, LargestIndex DEF Init, ServerTypes, Indexes, Absent
<1>2. WireTypes /\ CacheTypes
  BY PulseConstants DEF Init, WireTypes, CacheTypes
<1>3. PlaceTypes
  BY DEF Init, PlaceTypes, Threads, Places, Final, MainPlaces, PulsePlaces, Unseen
<1>4. Allocated
  BY TwoThreads DEF Init, Allocated
<1> QED BY <1>1, <1>2, <1>3, <1>4 DEF CacheInv, TypeInv

(* Steps that leave the server, the connection and the entries alone. *)
LEMMA LocalStep ==
  ASSUME CacheInv, UNCHANGED <<index, level, default, lastIndex, requests, inbox, entries>>,
         PlaceTypes', CacheTypes',
         \A p \in Threads : at'[p] \in {"load", "link", "tail", "found"} => found'[p] \in DOMAIN entries
  PROVE  CacheInv'
<1>1. ServerTypes' /\ WireTypes'
  BY DEF CacheInv, TypeInv, ServerTypes, WireTypes
<1>2. Allocated'
  BY DEF CacheInv, Allocated
<1>3. Indexes'
  BY DEF CacheInv, Indexes, Present
<1> QED BY <1>1, <1>2, <1>3 DEF CacheInv, TypeInv

LEMMA NotifyKeeps ==
  ASSUME CacheInv, NEW k \in Nat, k <= lastIndex', lastIndex \in Nat, lastIndex' \in Nat,
         lastIndex <= lastIndex', Notify(k)
  PROVE  /\ inbox' \in Seq(Messages)
         /\ \A n \in DOMAIN inbox' :
              /\ inbox'[n].t \in {"info", "error"} => inbox'[n].e \in DOMAIN entries
              /\ inbox'[n].t \in {"info", "event"} => inbox'[n].index <= lastIndex'
<1> DEFINE m == [t |-> "event", index |-> k]
<1>1. m \in Messages /\ m.t = "event" /\ m.index = k
  BY Sent
<1>2. inbox \in Seq(Messages)
  BY DEF CacheInv, TypeInv, WireTypes
<1>3. \A n \in DOMAIN inbox :
              /\ inbox[n].t \in {"info", "error"} => inbox[n].e \in DOMAIN entries
              /\ inbox[n].t \in {"info", "event"} => inbox[n].index <= lastIndex'
  <2>1. ASSUME NEW n \in DOMAIN inbox, inbox[n].t \in {"info", "event"}
        PROVE  inbox[n].index <= lastIndex'
    <3>1. inbox[n] \in Messages
      BY <1>2
    <3>2. inbox[n].index \in Nat /\ inbox[n].index <= lastIndex
      BY <2>1, <3>1, MessageKinds DEF CacheInv, Indexes
    <3> QED BY <3>2
  <2> QED BY <2>1 DEF CacheInv, Allocated
<1>4. CASE inbox' = Append(inbox, m)
  <2> HIDE DEF m
  <2> QED BY <1>1, <1>2, <1>3, <1>4, Appended
<1>5. CASE inbox' = inbox
  BY <1>2, <1>3, <1>5
<1> QED BY <1>4, <1>5 DEF Notify

LEMMA ChangeCacheInv == ASSUME CacheInv, Change PROVE CacheInv'
<1> USE DEF CacheInv, TypeInv
<1>1. PICK s \in Sinks : ChangeSink(s) \/ ChangeDefault(s) \/ Unplug(s) \/ Plug(s)
  BY DEF Change
<1>2. UNCHANGED <<requests, entries, list, tail, default_sink, raised, at, arg, found, last, shown>>
  BY DEF Change, cache, queue, locals
<1>3. PlaceTypes' /\ CacheTypes'
  BY <1>2 DEF PlaceTypes, CacheTypes
<1>4. /\ index[s] \in Nat \cup {Absent} /\ lastIndex \in Nat /\ index[s] <= lastIndex
      /\ Present(s) => index[s] \in Nat
  BY DEF ServerTypes, Indexes, Present
<1>5. ServerTypes' /\ lastIndex' >= lastIndex /\ \E k \in Nat : k <= lastIndex' /\ (Notify(k) \/ inbox' = inbox)
  <2>1. CASE ChangeSink(s)
    BY <1>4, <2>1, PulseConstants DEF ServerTypes, ChangeSink
  <2>2. CASE ChangeDefault(s)
    BY <1>4, <2>2 DEF ServerTypes, ChangeDefault
  <2>3. CASE Unplug(s)
    <3>1. default' \in Sinks
      BY <2>3 DEF Unplug
    <3> QED BY <1>4, <2>3, <3>1 DEF ServerTypes, Unplug
  <2>4. CASE Plug(s)
    <3>1. default' \in Sinks
      BY <2>4 DEF Plug, ServerTypes
    <3> QED BY <1>4, <2>4, <3>1 DEF ServerTypes, Plug
  <2> QED BY <1>1, <2>1, <2>2, <2>3, <2>4
<1>6. /\ inbox' \in Seq(Messages)
      /\ \A n \in DOMAIN inbox' :
           /\ inbox'[n].t \in {"info", "error"} => inbox'[n].e \in DOMAIN entries
           /\ inbox'[n].t \in {"info", "event"} => inbox'[n].index <= lastIndex'
  <2>1. PICK k \in Nat : k <= lastIndex' /\ (Notify(k) \/ inbox' = inbox)
    BY <1>5
  <2>2. lastIndex \in Nat /\ lastIndex' \in Nat
    BY <1>5 DEF ServerTypes
  <2>3. CASE Notify(k)
    BY <1>5, <2>1, <2>2, <2>3, NotifyKeeps
  <2>4. CASE inbox' = inbox
    <3>1. ASSUME NEW n \in DOMAIN inbox, inbox[n].t \in {"info", "event"}
          PROVE  inbox[n].index <= lastIndex'
      <4>1. inbox[n] \in Messages
        BY DEF WireTypes
      <4>2. inbox[n].index \in Nat /\ inbox[n].index <= lastIndex
        BY <3>1, <4>1, MessageKinds DEF Indexes
      <4> QED BY <1>5, <2>2, <4>2
    <3> QED BY <2>4, <3>1 DEF WireTypes, Allocated
  <2> QED BY <2>1, <2>3, <2>4
<1>7. WireTypes' /\ Allocated'
  BY <1>2, <1>6 DEF WireTypes, Allocated
<1>8. /\ \A x \in Sinks : index'[x] <= lastIndex' /\ FirstIndex[x] <= lastIndex'
      /\ \A x, y \in Sinks : index'[x] \in {index'[y], FirstIndex[y]} => x = y \/ index'[x] = Absent
  <2>1. /\ \A x \in Sinks : index[x] <= lastIndex /\ FirstIndex[x] <= lastIndex
        /\ \A x \in Sinks : index[x] \in Nat \cup {Absent} /\ FirstIndex[x] \in Nat
        /\ \A x, y \in Sinks : index[x] \in {index[y], FirstIndex[y]} => x = y \/ index[x] = Absent
    BY PulseConstants DEF ServerTypes, Indexes, Present
  <2>2. CASE index' = index
    <3>1. \A x \in Sinks : index[x] <= lastIndex' /\ FirstIndex[x] <= lastIndex'
      BY <1>4, <1>5, <2>1 DEF ServerTypes, Absent
    <3> QED BY <2>1, <2>2, <3>1
  <2>3. CASE Unplug(s)
    BY <1>4, <2>1, <2>3 DEF Unplug, ServerTypes, Absent
  <2>4. CASE Plug(s)
    BY <1>4, <2>1, <2>4 DEF Plug, ServerTypes, Absent
  <2> QED BY <1>1, <2>2, <2>3, <2>4 DEF ChangeSink, ChangeDefault
<1>9. /\ \A e \in DOMAIN entries : entries[e].index <= lastIndex'
      /\ \A n \in DOMAIN requests : requests[n].t = "index" => requests[n].index <= lastIndex'
  <2>1. lastIndex \in Nat /\ lastIndex' \in Nat
    BY <1>5 DEF ServerTypes
  <2>2. ASSUME NEW e \in DOMAIN entries
        PROVE  entries[e].index <= lastIndex'
    <3>1. entries[e] \in Entry
      BY DEF CacheTypes
    <3>2. entries[e].index \in Int /\ entries[e].index <= lastIndex
      BY <3>1 DEF Entry, Freed, Indexes
    <3> QED BY <1>5, <2>1, <3>2
  <2>3. ASSUME NEW n \in DOMAIN requests, requests[n].t = "index"
        PROVE  requests[n].index <= lastIndex'
    <3>1. requests[n] \in Requests
      BY DEF WireTypes
    <3>2. requests[n].index \in Nat /\ requests[n].index <= lastIndex
      BY <2>3, <3>1, RequestKinds DEF Indexes
    <3> QED BY <1>5, <2>1, <3>2
  <2> QED BY <2>2, <2>3
<1>10. Indexes'
  BY <1>2, <1>6, <1>8, <1>9 DEF Indexes, Present
<1> QED BY <1>3, <1>5, <1>7, <1>10

LEMMA ServeCacheInv == ASSUME CacheInv, Serve PROVE CacheInv'
<1> USE DEF CacheInv, TypeInv
<1>1. /\ UNCHANGED <<index, level, default, lastIndex, entries, list, tail, default_sink, raised>>
      /\ UNCHANGED <<at, arg, found, last, shown>>
  BY DEF Serve, server, cache, queue, locals
<1>2. /\ requests' \in Seq(Requests) /\ requests[1] \in Requests /\ 1 \in DOMAIN requests
      /\ \A n \in DOMAIN requests' : n + 1 \in DOMAIN requests /\ requests'[n] = requests[n + 1]
  BY Shifted DEF Serve, WireTypes
<1>3. PICK r \in Requests : r = requests[1] /\ r = Head(requests)
  BY <1>2, Shifted DEF Serve, WireTypes
<1>4. \/ inbox' = inbox
      \/ r.t # "subscribe" /\ \E a \in Answers(r) : inbox' = Append(inbox, a)
  BY <1>3 DEF Serve
<1>5. \A a \in Answers(r) : r.t # "subscribe" =>
        /\ a \in Messages /\ a.t \in {"server", "error", "info"}
        /\ a.t \in {"error", "info"} => a.e \in DOMAIN entries
        /\ a.t = "info" => a.index <= lastIndex
  <2> SUFFICES ASSUME r.t # "subscribe", NEW a \in Answers(r)
               PROVE  /\ a \in Messages /\ a.t \in {"server", "error", "info"}
                      /\ a.t \in {"error", "info"} => a.e \in DOMAIN entries
                      /\ a.t = "info" => a.index <= lastIndex
    OBVIOUS
  <2>1. /\ a \in Messages /\ a.t \in {"server", "error", "info"}
        /\ a.t \in {"error", "info"} => r.t \in {"name", "index"} /\ a.e = r.e
        /\ a.t = "info" => \E s \in Meant(r) : a.index = index[s]
        /\ \A s \in Meant(r) : s \in Sinks
    BY AnswerKinds
  <2>2. r.t \in {"name", "index"} => r.e \in DOMAIN entries
    BY <1>2, <1>3 DEF Allocated
  <2> QED BY <2>1, <2>2 DEF Indexes
<1>6. /\ inbox' \in Seq(Messages)
      /\ \A n \in DOMAIN inbox' :
           /\ inbox'[n].t \in {"info", "error"} => inbox'[n].e \in DOMAIN entries
           /\ inbox'[n].t \in {"info", "event"} => inbox'[n].index <= lastIndex
  <2>1. CASE inbox' = inbox
    BY <2>1 DEF WireTypes, Allocated, Indexes
  <2>2. ASSUME r.t # "subscribe", NEW a \in Answers(r), inbox' = Append(inbox, a)
        PROVE  <1>6!1 /\ <1>6!2
    BY <1>5, <2>2, Appended DEF WireTypes, Allocated, Indexes
  <2> QED BY <1>4, <2>1, <2>2
<1>7. ServerTypes' /\ CacheTypes' /\ PlaceTypes'
  BY <1>1 DEF ServerTypes, CacheTypes, PlaceTypes
<1>8. WireTypes' /\ Allocated' /\ Indexes'
  BY <1>1, <1>2, <1>6 DEF WireTypes, Allocated, Indexes, Present
<1> QED BY <1>7, <1>8

LEMMA FindTypes ==
  ASSUME CacheInv, NEW p \in Threads, Find(p)
  PROVE  /\ WalkBySink(arg[p]) \in DOMAIN list /\ found'[p] = list[WalkBySink(arg[p])]
         /\ found'[p] \in DOMAIN entries /\ found' \in [Threads -> Nat]
         /\ \A q \in Threads \ {p} : found'[q] = found[q]
<1> DEFINE I == {i \in 1..Len(list) : Crashes(list[i], arg[p]) \/ Matches(list[i], arg[p])}
<1>1. I \in SUBSET Nat /\ WalkBySink(arg[p]) = IF I # {} THEN Min(I) ELSE 0
  BY DEF WalkBySink, SelectInSeq
<1>2. WalkBySink(arg[p]) \in I
  <2> HIDE DEF I
  <2> QED BY <1>1, FirstOf DEF Find
<1>3. WalkBySink(arg[p]) \in DOMAIN list
  BY <1>2 DEF CacheInv, TypeInv, CacheTypes
<1>4. PICK n \in DOMAIN list : n = WalkBySink(arg[p])
  BY <1>3
<1>5. list[n] \in DOMAIN entries /\ DOMAIN entries \subseteq Nat
  BY DEF CacheInv, TypeInv, CacheTypes
<1> QED BY <1>3, <1>4, <1>5 DEF Find, CacheInv, TypeInv, PlaceTypes

(* A request that main or a callback sends. *)
LEMMA AskTypes ==
  ASSUME CacheInv, NEW r \in Requests, Ask(r), r.t \in {"name", "index"} => r.e \in DOMAIN entries',
         DOMAIN entries \subseteq DOMAIN entries', r.t = "index" => r.index <= lastIndex
  PROVE  /\ requests' \in Seq(Requests)
         /\ \A n \in DOMAIN requests' :
              /\ requests'[n].t \in {"name", "index"} => requests'[n].e \in DOMAIN entries'
              /\ requests'[n].t = "index" => requests'[n].index <= lastIndex
BY Appended DEF Ask, CacheInv, TypeInv, WireTypes, Allocated, Indexes

LEMMA CreateCacheInv == ASSUME CacheInv, NEW p \in Threads, Create(p) PROVE CacheInv'
<1> USE DEF CacheInv, TypeInv
<1>1. /\ UNCHANGED <<index, level, default, lastIndex, list, tail, default_sink, raised>>
      /\ UNCHANGED <<inbox, arg, last, shown>>
  BY DEF Create, New, Allocates, AsksFor, server, queue
<1>2. /\ at' \in [Threads -> Places] /\ at'["main"] # "kill" /\ at'["pulse"] \in PulsePlaces
      /\ at[p] = "find" /\ \A q \in Threads \ {p} : at'[q] = at[q]
  BY Moved DEF Create, New, Allocates, AsksFor, Places, Final, MainPlaces, PulsePlaces
<1>3. Stored(arg[p]) \in Sinks \cup {NoSink}
  BY PulseConstants DEF Stored, PlaceTypes
<1>4. PICK x : x = [sink |-> Stored(arg[p]), index |-> 0, level |-> 0]
  OBVIOUS
<1>5. x \in Entry /\ x.index = 0
  BY <1>3, <1>4 DEF Entry
<1>6. entries' = Append(entries, x)
  BY <1>4 DEF Create, New, Allocates, AsksFor
<1>7. /\ entries' \in Seq(Entry) /\ DOMAIN entries = 1..Len(entries)
      /\ DOMAIN entries' = 1..Len(entries) + 1 /\ Len(entries) \in Nat /\ Len(entries') = Len(entries) + 1
      /\ \A e \in DOMAIN entries' :
           (e \in DOMAIN entries /\ entries'[e] = entries[e]) \/ entries'[e].index = 0
  BY <1>5, <1>6, Appended DEF CacheTypes
<1>8. found' = [found EXCEPT ![p] = Len(entries) + 1]
  BY DEF Create, New, Allocates, AsksFor
<1>9. /\ found' \in [Threads -> Nat] /\ found'[p] = Len(entries) + 1
      /\ \A q \in Threads \ {p} : found'[q] = found[q]
  BY <1>7, <1>8 DEF PlaceTypes
<1>10. PICK r : r = [t |-> "name", e |-> Len(entries) + 1, sink |-> Stored(arg[p])]
  OBVIOUS
<1>11. r \in Requests /\ Ask(r) /\ r.t = "name" /\ r.e \in DOMAIN entries'
  BY <1>3, <1>7, <1>9, <1>10, Sent DEF Create, New, Allocates, AsksFor
<1>12. /\ requests' \in Seq(Requests)
       /\ \A n \in DOMAIN requests' :
            /\ requests'[n].t \in {"name", "index"} => requests'[n].e \in DOMAIN entries'
            /\ requests'[n].t = "index" => requests'[n].index <= lastIndex
  BY <1>7, <1>11, AskTypes
<1>13. ServerTypes' /\ WireTypes'
  BY <1>1, <1>12 DEF ServerTypes, WireTypes
<1>14. CacheTypes'
  BY <1>1, <1>7 DEF CacheTypes
<1>15. PlaceTypes'
  BY <1>1, <1>2, <1>9 DEF PlaceTypes
<1>16. Allocated'
  <2>1. \A q \in Threads : at'[q] \in {"load", "link", "tail", "found"} => found'[q] \in DOMAIN entries'
    BY <1>2, <1>7, <1>9 DEF Allocated
  <2>2. \A n \in DOMAIN inbox' : inbox'[n].t \in {"info", "error"} => inbox'[n].e \in DOMAIN entries'
    BY <1>1, <1>7 DEF Allocated
  <2> QED BY <1>12, <2>1, <2>2 DEF Allocated
<1>17. Indexes'
  <2>1. \A e \in DOMAIN entries' : entries'[e].index <= lastIndex
    BY <1>7 DEF Indexes, ServerTypes
  <2> QED BY <1>1, <1>12, <2>1 DEF Indexes, Present
<1> QED BY <1>13, <1>14, <1>15, <1>16, <1>17

(* The steps of main, and of a lookup, that change its place only. *)
LEMMA MainCacheInv ==
  ASSUME CacheInv,
         InitFails \/ InitStarts \/ InitWaits \/ FindCrashes \/ Read \/ Stop \/ \E w \in Wanted : Lookup(w)
  PROVE  CacheInv'
<1> USE DEF CacheInv, TypeInv
<1>1. UNCHANGED <<index, level, default, lastIndex, requests, inbox, entries, list, tail, default_sink,
                  found, last>>
  BY DEF InitFails, InitStarts, InitWaits, FindCrashes, Read, Stop, Lookup, server, link, wire, cache, queue,
         locals
<1>2. raised' \subseteq Wanted
  BY DEF InitFails, InitStarts, InitWaits, FindCrashes, Read, Stop, Lookup, cache, CacheTypes
<1>3. arg' \in [Threads -> Wanted \cup {NoSink}] /\ arg'["pulse"] = NoSink
  BY DEF InitFails, InitStarts, InitWaits, FindCrashes, Read, Stop, Lookup, locals, PlaceTypes, Threads
<1>4. shown' \in [Wanted -> Nat \cup {Unseen}]
  <2>1. CASE Read
    <3>1. found["main"] \in DOMAIN entries
      BY <2>1, TwoThreads DEF Read, Goes, Allocated
    <3>2. entries[found["main"]] \in Entry
      BY <3>1 DEF CacheTypes
    <3>3. entries[found["main"]].level \in Nat
      BY <3>2 DEF Entry
    <3> QED BY <2>1, <3>3 DEF Read, PlaceTypes
  <2>2. CASE ~Read
    BY <2>2 DEF InitFails, InitStarts, InitWaits, FindCrashes, Stop, Lookup, locals, PlaceTypes
  <2> QED BY <2>1, <2>2
<1>5. PICK from, to : /\ Goes("main", from, to) /\ to \in Places \ {"kill"}
                      /\ to \in {"load", "link", "tail", "found"} => from \in {"load", "link", "tail", "found"}
  BY DEF InitFails, InitStarts, InitWaits, FindCrashes, Read, Stop, Lookup, Final, Places, MainPlaces,
         PulsePlaces
<1>6. /\ at' \in [Threads -> Places] /\ at'["main"] # "kill" /\ at'["pulse"] \in PulsePlaces
      /\ at["main"] = from /\ at'["main"] = to /\ at'["pulse"] = at["pulse"]
  BY <1>5, Moved, TwoThreads
<1>7. PlaceTypes' /\ CacheTypes'
  BY <1>1, <1>2, <1>3, <1>4, <1>6 DEF PlaceTypes, CacheTypes
<1>8. \A p \in Threads : at'[p] \in {"load", "link", "tail", "found"} => found'[p] \in DOMAIN entries
  BY <1>1, <1>5, <1>6, TwoThreads DEF Allocated
<1> QED BY <1>1, <1>7, <1>8, LocalStep

(* TAILQ_INSERT_TAIL stores the entry behind the one whose place was loaded,
   if that is still there. *)
LEMMA LinkEffect ==
  ASSUME CacheTypes, NEW p \in Threads, Link(p), found[p] \in DOMAIN entries
  PROVE  /\ list' \in Seq(DOMAIN entries)
         /\ \/ last[p] # 0 /\ list' = list
            \/ last[p] = 0 /\ Len(list') = 1 /\ list'[1] = found[p]
            \/ \E n \in DOMAIN list :
                 /\ last[p] # 0 /\ list[n] = last[p]
                 /\ Len(list') = n + 1 /\ list'[n + 1] = found[p]
                 /\ \A m \in 1..n : list'[m] = list[m]
<1> DEFINE I == {i \in 1..Len(list) : list[i] = last[p]}
<1>1. PICK n : n = IF I # {} THEN Min(I) ELSE 0
  OBVIOUS
<1>2. list' = IF last[p] # 0 /\ n = 0 THEN list ELSE Append(SubSeq(list, 1, n), found[p])
  BY <1>1 DEF Link, SelectInSeq
<1>3. /\ list \in Seq(DOMAIN entries) /\ Len(list) \in Nat /\ DOMAIN list = 1..Len(list)
      /\ DOMAIN entries \subseteq Nat \ {0}
  BY DEF CacheTypes
<1>4. I \in SUBSET Nat /\ I \subseteq DOMAIN list
  BY <1>3
<1>5. (I = {} => n = 0) /\ (I # {} => n \in I)
  <2> HIDE DEF I
  <2> QED BY <1>1, <1>4, FirstOf
<1>6. CASE I # {}
  <2>1. n \in DOMAIN list /\ list[n] = last[p] /\ last[p] # 0
    BY <1>3, <1>5, <1>6
  <2>2. PICK k \in DOMAIN list : k = n
    BY <2>1
  <2>3. list' = Append(SubSeq(list, 1, k), found[p])
    <3>1. n # 0
      BY <1>3, <2>1
    <3> QED BY <1>2, <2>2, <3>1
  <2>4. SubSeq(list, 1, k) \in Seq(DOMAIN entries) /\ Len(SubSeq(list, 1, k)) = k
        /\ \A m \in 1..k : SubSeq(list, 1, k)[m] = list[m]
    BY <1>3
  <2>5. list' \in Seq(DOMAIN entries) /\ Len(list') = k + 1 /\ list'[k + 1] = found[p]
        /\ \A m \in 1..k : list'[m] = list[m]
    BY <1>3, <2>3, <2>4, Appended
  <2> QED BY <2>1, <2>2, <2>5
<1>7. CASE I = {} /\ last[p] # 0
  BY <1>2, <1>3, <1>5, <1>7
<1>8. CASE I = {} /\ last[p] = 0
  <2>1. list' = Append(SubSeq(list, 1, 0), found[p])
    BY <1>2, <1>5, <1>8
  <2>2. SubSeq(list, 1, 0) \in Seq(DOMAIN entries) /\ Len(SubSeq(list, 1, 0)) = 0
    BY <1>3
  <2>3. list' \in Seq(DOMAIN entries) /\ Len(list') = 1 /\ list'[1] = found[p]
    BY <2>1, <2>2, Appended
  <2> QED BY <1>8, <2>3
<1> QED BY <1>6, <1>7, <1>8

LEMMA ThreadCacheInv ==
  ASSUME CacheInv, NEW p \in Threads, Find(p) \/ Load(p) \/ Link(p) \/ MoveTail(p)
  PROVE  CacheInv'
<1> USE DEF CacheInv, TypeInv
<1>1. UNCHANGED <<index, level, default, lastIndex, requests, inbox, entries, default_sink, raised, arg,
                  shown>>
  BY DEF Find, Load, Link, MoveTail, server, link, wire, cache, queue, locals
<1>2. PICK from, to : /\ Goes(p, from, to) /\ to \in PulsePlaces \cap Places /\ to # "kill"
                      /\ Find(p) \/ from \in {"load", "link", "tail"}
  BY DEF Find, Load, Link, MoveTail, PulsePlaces, Places, Final, MainPlaces
<1>3. /\ at' \in [Threads -> Places] /\ at'["main"] # "kill" /\ at'["pulse"] \in PulsePlaces
      /\ at[p] = from /\ \A q \in Threads \ {p} : at'[q] = at[q]
  BY <1>2, Moved
<1>4. /\ found' \in [Threads -> Nat] /\ \A q \in Threads \ {p} : found'[q] = found[q]
      /\ last' \in [Threads -> Nat]
  <2>1. tail \in Nat
    BY DEF CacheTypes
  <2>2. CASE Find(p)
    BY <2>2, FindTypes DEF Find, PlaceTypes
  <2>3. CASE Load(p)
    BY <2>1, <2>3 DEF Load, PlaceTypes
  <2>4. CASE Link(p) \/ MoveTail(p)
    BY <2>4 DEF Load, Link, MoveTail, locals, PlaceTypes
  <2> QED BY <2>2, <2>3, <2>4
<1>5. found'[p] \in DOMAIN entries
  BY <1>2, <1>3, FindTypes DEF Load, Link, MoveTail, locals, Allocated
<1>6. tail' \in 0..Len(entries)
  <2>1. tail' = tail \/ tail' = found'[p]
    BY DEF Find, Load, Link, MoveTail, cache, queue, locals
  <2>2. DOMAIN entries = 1..Len(entries) /\ tail \in 0..Len(entries)
    BY DEF CacheTypes
  <2> QED BY <1>5, <2>1, <2>2
<1>7. list' \in Seq(DOMAIN entries)
  BY <1>5, LinkEffect DEF Find, Load, Link, MoveTail, cache, queue, locals, CacheTypes
<1>8. PlaceTypes' /\ CacheTypes'
  BY <1>1, <1>3, <1>4, <1>6, <1>7 DEF PlaceTypes, CacheTypes
<1>9. \A q \in Threads : at'[q] \in {"load", "link", "tail", "found"} => found'[q] \in DOMAIN entries
  BY <1>3, <1>4, <1>5 DEF Allocated
<1> QED BY <1>1, <1>8, <1>9, LocalStep

LEMMA IncomingTypes ==
  ASSUME CacheInv, NEW type, Incoming(type)
  PROVE  /\ Head(inbox) \in Messages /\ Head(inbox) = inbox[1] /\ 1 \in DOMAIN inbox
         /\ Head(inbox).t = type /\ at["pulse"] = "idle" /\ Running
         /\ UNCHANGED <<index, level, default, lastIndex, subscribed, ctx, list, tail, arg, found, last,
                        raced, shown>>
         /\ inbox' = Tail(inbox) /\ inbox' \in Seq(Messages)
         /\ \A n \in DOMAIN inbox' : n + 1 \in DOMAIN inbox /\ inbox'[n] = inbox[n + 1]
         /\ \A n \in DOMAIN inbox :
              /\ inbox[n].t \in {"info", "error"} => inbox[n].e \in DOMAIN entries
              /\ inbox[n].t \in {"info", "event"} => inbox[n].index <= lastIndex
BY Shifted DEF Incoming, Dispatching, CacheInv, TypeInv, WireTypes, Allocated, Indexes, server, queue, locals

LEMMA SignalTypes ==
  ASSUME PlaceTypes, SignalMain
  PROVE  /\ at' \in [Threads -> Places] /\ at'["main"] # "kill" /\ at'["pulse"] = at["pulse"]
         /\ at'["main"] = IF at["main"] = "blocked" THEN "woken" ELSE at["main"]
BY DEF PlaceTypes, SignalMain, Threads, Places, Final, MainPlaces, PulsePlaces

(* A message dealt with, and perhaps a request sent. *)
LEMMA DealtWith ==
  ASSUME CacheInv, NEW type, Incoming(type), requests' \in Seq(Requests),
         \A n \in DOMAIN requests' :
           /\ requests'[n].t \in {"name", "index"} => requests'[n].e \in DOMAIN entries
           /\ requests'[n].t = "index" => requests'[n].index <= lastIndex,
         entries' \in Seq(Entry), DOMAIN entries' = DOMAIN entries,
         \A e \in DOMAIN entries : entries'[e].index <= lastIndex,
         default_sink' \in Sinks \cup {NoSink}, raised' \subseteq Wanted,
         at' \in [Threads -> Places] /\ at'["main"] # "kill", at'["pulse"] \in {"idle", "find", "kill"},
         at'["main"] \in {"load", "link", "tail", "found"} => at'["main"] = at["main"]
  PROVE  CacheInv'
<1> USE DEF CacheInv, TypeInv
<1>1. Len(entries') = Len(entries)
  BY DEF CacheTypes
<1>2. ServerTypes' /\ WireTypes'
  BY IncomingTypes DEF ServerTypes, WireTypes
<1>3. CacheTypes' /\ PlaceTypes'
  BY <1>1, IncomingTypes DEF CacheTypes, PlaceTypes, PulsePlaces
<1>4. Allocated'
  <2>1. \A n \in DOMAIN inbox' : inbox'[n].t \in {"info", "error"} => inbox'[n].e \in DOMAIN entries
    BY IncomingTypes
  <2>2. ASSUME NEW p \in Threads, at'[p] \in {"load", "link", "tail", "found"}
        PROVE  found'[p] \in DOMAIN entries
    <3>1. p = "main" /\ at[p] \in {"load", "link", "tail", "found"}
      BY <2>2, TwoThreads
    <3> QED BY <3>1, IncomingTypes DEF Allocated
  <2> QED BY <2>1, <2>2 DEF Allocated
<1>5. Indexes'
  BY IncomingTypes DEF Indexes, Present
<1> QED BY <1>2, <1>3, <1>4, <1>5

(* What the walk over the list by index finds. *)
LEMMA ByIndexProps ==
  ASSUME CacheTypes, NEW k \in Nat
  PROVE  /\ WalkByIndex(k) \in 0..Len(list) /\ Len(list) \in Nat /\ DOMAIN list = 1..Len(list)
         /\ WalkByIndex(k) = 0 => \A n \in DOMAIN list : entries[list[n]].index # k
         /\ WalkByIndex(k) # 0 =>
              /\ WalkByIndex(k) \in DOMAIN list /\ list[WalkByIndex(k)] \in DOMAIN entries
              /\ entries[list[WalkByIndex(k)]].index = k
              /\ \A n \in DOMAIN list : entries[list[n]].index = k => WalkByIndex(k) <= n
<1> DEFINE I == {i \in 1..Len(list) : entries[list[i]].index = k}
<1>1. I \in SUBSET Nat /\ I \subseteq DOMAIN list /\ WalkByIndex(k) = IF I # {} THEN Min(I) ELSE 0
  BY DEF WalkByIndex, SelectInSeq, CacheTypes
<1>2. /\ I = {} => WalkByIndex(k) = 0
      /\ I # {} => WalkByIndex(k) \in I /\ \A y \in I : WalkByIndex(k) <= y
  <2> HIDE DEF I
  <2> QED BY <1>1, FirstOf
<1>3. \A n \in DOMAIN list : n \in Nat \ {0} /\ list[n] \in DOMAIN entries
  BY DEF CacheTypes
<1>4. DOMAIN list = 1..Len(list) /\ Len(list) \in Nat
  BY DEF CacheTypes
<1>5. CASE I = {}
  BY <1>2, <1>4, <1>5
<1>6. CASE I # {}
  <2>1. PICK w : w = WalkByIndex(k)
    OBVIOUS
  <2>2. w \in I /\ \A y \in I : w <= y
    BY <1>2, <1>6, <2>1
  <2> QED BY <1>3, <1>4, <2>1, <2>2
<1> QED BY <1>5, <1>6

LEMMA SubscribeCacheInv == ASSUME CacheInv, SubscribeCallback PROVE CacheInv'
<1>1. /\ Incoming("event") /\ UNCHANGED <<entries, default_sink, raised, at>>
  BY DEF SubscribeCallback
<1>2. PICK k \in Nat : k = Head(inbox).index /\ k <= lastIndex
  BY <1>1, IncomingTypes, MessageKinds
<1>3. PICK r \in Requests :
        /\ Ask(r) /\ r.t \in {"server", "index"}
        /\ r.t = "index" => r.e \in DOMAIN entries /\ r.index <= lastIndex
  <2>1. CASE WalkByIndex(k) = 0
    BY <1>2, <2>1, Sent DEF SubscribeCallback
  <2>2. CASE WalkByIndex(k) # 0
    <3>1. PICK e : e = list[WalkByIndex(k)]
      OBVIOUS
    <3>2. e \in DOMAIN entries /\ e \in Nat
      <4>1. CacheTypes /\ DOMAIN entries \subseteq Nat
        BY DEF CacheInv, TypeInv, CacheTypes
      <4> QED BY <2>2, <3>1, <4>1, ByIndexProps
    <3>3. Ask([t |-> "index", e |-> e, index |-> k])
      BY <1>2, <2>2, <3>1 DEF SubscribeCallback
    <3>4. [t |-> "index", e |-> e, index |-> k] \in Requests
      BY <3>2, Sent
    <3> QED BY <1>2, <3>2, <3>3, <3>4
  <2> QED BY <2>1, <2>2
<1>4. /\ requests' \in Seq(Requests)
      /\ \A n \in DOMAIN requests' :
           /\ requests'[n].t \in {"name", "index"} => requests'[n].e \in DOMAIN entries
           /\ requests'[n].t = "index" => requests'[n].index <= lastIndex
  BY <1>1, <1>3, AskTypes
<1>5. /\ entries \in Seq(Entry) /\ default_sink \in Sinks \cup {NoSink} /\ raised \subseteq Wanted
      /\ at \in [Threads -> Places] /\ at["main"] # "kill" /\ at["pulse"] = "idle"
      /\ \A e \in DOMAIN entries : entries[e].index <= lastIndex
  BY <1>1, IncomingTypes DEF CacheInv, TypeInv, CacheTypes, PlaceTypes, Indexes
<1> QED BY <1>1, <1>4, <1>5, DealtWith

(* The information goes into the entry it was asked for. *)
LEMMA InfoEffect ==
  ASSUME CacheInv, SinkInfoCallback
  PROVE  LET m == inbox[1]
         IN  /\ Incoming("info") /\ m \in Messages /\ m.t = "info" /\ m.e \in DOMAIN entries
             /\ m.index \in Nat /\ m.level \in Nat /\ m.index <= lastIndex
             /\ entries' \in Seq(Entry) /\ DOMAIN entries' = DOMAIN entries
             /\ \A e \in DOMAIN entries : entries'[e].sink = entries[e].sink
             /\ \A e \in DOMAIN entries \ {m.e} : entries'[e] = entries[e]
             /\ entries'[m.e].index = m.index /\ entries'[m.e].level = m.level
<1>1. Incoming("info")
  BY DEF SinkInfoCallback
<1>2. PICK m \in Messages : m = inbox[1] /\ m = Head(inbox)
  BY <1>1, IncomingTypes
<1>3. /\ m.t = "info" /\ m.e \in DOMAIN entries /\ m.index <= lastIndex
      /\ m.index \in Nat /\ m.level \in Nat
  BY <1>1, <1>2, IncomingTypes, MessageKinds
<1>4. entries' = [entries EXCEPT ![m.e] = [@ EXCEPT !.index = m.index, !.level = m.level]]
  BY <1>2, Zenon DEF SinkInfoCallback, Updated
<1>5. PICK old : old = entries[m.e]
  OBVIOUS
<1>6. old \in Entry /\ entries \in Seq(Entry)
  BY <1>3, <1>5 DEF CacheInv, TypeInv, CacheTypes
<1>7. PICK new : new = [old EXCEPT !.index = m.index, !.level = m.level]
  OBVIOUS
<1>8. new = [sink |-> old.sink, index |-> m.index, level |-> m.level]
  <2>1. old = [sink |-> old.sink, index |-> old.index, level |-> old.level]
    BY <1>6, Zenon DEF Entry
  <2> QED BY <1>7, <2>1, Zenon
<1>9. new \in Entry /\ new.sink = old.sink /\ new.index = m.index /\ new.level = m.level
  BY <1>3, <1>6, <1>8 DEF Entry
<1>10. entries' = [entries EXCEPT ![m.e] = new]
  BY <1>4, <1>5, <1>7, Zenon
<1> QED BY <1>1, <1>2, <1>3, <1>5, <1>6, <1>9, <1>10

(* Only the callback itself goes on; whom it wakes was waiting. *)
LEMMA InfoPlaces ==
  ASSUME PlaceTypes, at["pulse"] = "idle", SinkInfoCallback
  PROVE  /\ at' \in [Threads -> Places] /\ at'["main"] # "kill" /\ at'["pulse"] \in {"idle", "kill"}
         /\ at'["pulse"] = "idle" => entries' = entries
         /\ at'["main"] = at["main"] \/ (at["main"] = "blocked" /\ at'["main"] = "woken")
<1>1. CASE entries' = entries
  BY <1>1, SignalTypes DEF SinkInfoCallback, PlaceTypes, Threads
<1>2. CASE entries' # entries
  <2>1. at' = [at EXCEPT !["pulse"] = "kill"]
    BY <1>2 DEF SinkInfoCallback
  <2> QED BY <2>1 DEF PlaceTypes, Threads, Places, MainPlaces, PulsePlaces, Final
<1> QED BY <1>1, <1>2

LEMMA InfoCacheInv == ASSUME CacheInv, SinkInfoCallback PROVE CacheInv'
<1>1. /\ Incoming("info") /\ UNCHANGED <<requests, default_sink>>
  BY DEF SinkInfoCallback
<1>2. raised' \subseteq Wanted
  BY DEF SinkInfoCallback, CacheInv, TypeInv, CacheTypes
<1>3. entries' \in Seq(Entry) /\ DOMAIN entries' = DOMAIN entries
  BY InfoEffect
<1>4. \A e \in DOMAIN entries : entries'[e].index <= lastIndex
  BY InfoEffect DEF CacheInv, Indexes
<1>5. /\ at' \in [Threads -> Places] /\ at'["main"] # "kill" /\ at'["pulse"] \in {"idle", "kill"}
      /\ at'["main"] \in {"load", "link", "tail", "found"} => at'["main"] = at["main"]
  BY <1>1, InfoPlaces, IncomingTypes DEF CacheInv, TypeInv
<1>6. /\ requests \in Seq(Requests) /\ default_sink \in Sinks \cup {NoSink}
      /\ \A n \in DOMAIN requests :
           /\ requests[n].t \in {"name", "index"} => requests[n].e \in DOMAIN entries
           /\ requests[n].t = "index" => requests[n].index <= lastIndex
  BY DEF CacheInv, TypeInv, WireTypes, CacheTypes, Allocated, Indexes
<1> QED BY <1>1, <1>2, <1>3, <1>4, <1>5, <1>6, DealtWith

LEMMA OtherMessagesCacheInv ==
  ASSUME CacheInv, SinkInfoAfterFree \/ SinkMissingCallback \/ ServerInfoCallback
  PROVE  CacheInv'
<1>1. PICK type : Incoming(type) /\ type \in {"info", "error", "server"}
  BY DEF SinkInfoAfterFree, SinkMissingCallback, ServerInfoCallback
<1>2. UNCHANGED <<requests, entries, raised>>
  BY DEF SinkInfoAfterFree, SinkMissingCallback, ServerInfoCallback
<1>3. default_sink' \in Sinks \cup {NoSink}
  <2>1. CASE ServerInfoCallback
    BY <2>1, IncomingTypes, MessageKinds DEF ServerInfoCallback
  <2>2. CASE ~ServerInfoCallback
    BY <2>2 DEF SinkInfoAfterFree, SinkMissingCallback, CacheInv, TypeInv, CacheTypes
  <2> QED BY <2>1, <2>2
<1>4. /\ at' \in [Threads -> Places] /\ at'["main"] # "kill" /\ at'["pulse"] \in {"idle", "find"}
      /\ at'["main"] \in {"load", "link", "tail", "found"} => at'["main"] = at["main"]
  <2>1. PlaceTypes /\ at["pulse"] = "idle"
    BY <1>1, IncomingTypes DEF CacheInv, TypeInv
  <2>2. CASE SinkInfoAfterFree
    BY <2>1, <2>2 DEF SinkInfoAfterFree, PlaceTypes, Threads, Places, Final
  <2>3. CASE SinkMissingCallback
    BY <2>1, <2>3, SignalTypes DEF SinkMissingCallback
  <2>4. CASE ServerInfoCallback
    BY <2>1, <2>4 DEF ServerInfoCallback, PlaceTypes, Threads, Places, Final, MainPlaces, PulsePlaces
  <2> QED BY <2>2, <2>3, <2>4
<1>5. /\ requests \in Seq(Requests) /\ entries \in Seq(Entry) /\ raised \subseteq Wanted
      /\ \A n \in DOMAIN requests :
           /\ requests[n].t \in {"name", "index"} => requests[n].e \in DOMAIN entries
           /\ requests[n].t = "index" => requests[n].index <= lastIndex
      /\ \A e \in DOMAIN entries : entries[e].index <= lastIndex
  BY DEF CacheInv, TypeInv, WireTypes, CacheTypes, Allocated, Indexes
<1> QED BY <1>1, <1>2, <1>3, <1>4, <1>5, DealtWith

LEMMA ConnectionCacheInv == ASSUME CacheInv, StateCallback \/ InitEnds PROVE CacheInv'
<1> USE DEF CacheInv, TypeInv
<1>1. /\ UNCHANGED <<index, level, default, lastIndex, entries, list, tail, default_sink, raised>>
      /\ UNCHANGED <<arg, found, last, shown>>
  BY DEF StateCallback, InitEnds, server, cache, queue, locals
<1>2. /\ requests' \in Seq(Requests) /\ inbox' \in Seq(Messages)
      /\ \A n \in DOMAIN requests' :
           requests'[n].t \in {"subscribe", "server"} \/ (requests' = requests /\ n \in DOMAIN requests)
      /\ inbox' = inbox \/ inbox' = <<>>
  <2>1. CASE requests' = <<[t |-> "subscribe"], [t |-> "server"]>> /\ UNCHANGED inbox
    <3>1. PICK x, y : x = [t |-> "subscribe"] /\ y = [t |-> "server"]
      OBVIOUS
    <3>2. x \in Requests /\ y \in Requests /\ x.t = "subscribe" /\ y.t = "server"
      BY <3>1, Sent
    <3>3. requests' = <<x, y>>
      BY <2>1, <3>1
    <3> QED BY <2>1, <3>2, <3>3 DEF WireTypes
  <2>2. CASE requests' = <<>> /\ inbox' = <<>>
    BY <2>2
  <2>3. CASE UNCHANGED <<requests, inbox>>
    BY <2>3 DEF WireTypes
  <2> QED BY <2>1, <2>2, <2>3 DEF StateCallback, InitEnds, wire
<1>3. /\ at' \in [Threads -> Places] /\ at'["main"] # "kill" /\ at'["pulse"] = at["pulse"]
      /\ at'["main"] \in {"load", "link", "tail", "found"} => at'["main"] = at["main"]
  <2>1. CASE StateCallback
    BY <2>1, SignalTypes DEF StateCallback
  <2>2. CASE InitEnds
    BY <2>2, Moved, TwoThreads DEF InitEnds, Places, Final, MainPlaces, PulsePlaces
  <2> QED BY <2>1, <2>2
<1>4. ServerTypes' /\ WireTypes' /\ CacheTypes' /\ PlaceTypes'
  BY <1>1, <1>2, <1>3 DEF ServerTypes, WireTypes, CacheTypes, PlaceTypes
<1>5. Allocated'
  <2>1. \A n \in DOMAIN requests' : requests'[n].t \in {"name", "index"} => requests'[n].e \in DOMAIN entries
    BY <1>2 DEF Allocated
  <2>2. \A n \in DOMAIN inbox' : inbox'[n].t \in {"info", "error"} => inbox'[n].e \in DOMAIN entries
    BY <1>2 DEF Allocated
  <2>3. \A p \in Threads : at'[p] \in {"load", "link", "tail", "found"} => found[p] \in DOMAIN entries
    BY <1>3, TwoThreads DEF Allocated
  <2> QED BY <1>1, <2>1, <2>2, <2>3 DEF Allocated
<1>6. Indexes'
  <2>1. \A n \in DOMAIN requests' : requests'[n].t = "index" => requests'[n].index <= lastIndex
    BY <1>2 DEF Indexes
  <2>2. \A n \in DOMAIN inbox' : inbox'[n].t \in {"info", "event"} => inbox'[n].index <= lastIndex
    BY <1>2 DEF Indexes
  <2> QED BY <1>1, <2>1, <2>2 DEF Indexes, Present
<1> QED BY <1>4, <1>5, <1>6

(* pa_free frees the entries of the list; whose they were is not written. *)
LEMMA FreeEffect ==
  ASSUME CacheInv, Free
  PROVE  /\ entries' \in Seq(Entry) /\ DOMAIN entries' = DOMAIN entries /\ Len(entries') = Len(entries)
         /\ \A e \in DOMAIN entries :
              /\ entries'[e].index <= lastIndex
              /\ entries'[e].sink = entries[e].sink /\ entries'[e].index \in {entries[e].index, Freed}
<1> USE DEF CacheInv, TypeInv
<1>1. DOMAIN entries = 1..Len(entries) /\ Len(entries) \in Nat
  BY DEF CacheTypes
<1>2. ASSUME NEW e \in DOMAIN entries
      PROVE  /\ entries'[e] \in Entry /\ entries'[e].index <= lastIndex
             /\ entries'[e].sink = entries[e].sink /\ entries'[e].index \in {entries[e].index, Freed}
  <2>1. PICK k : k = IF e \in Range(list) THEN Freed ELSE entries[e].index
    OBVIOUS
  <2>2. PICK old, new : old = entries[e] /\ new = entries'[e]
    OBVIOUS
  <2>3. old \in Entry
    BY <2>2 DEF CacheTypes
  <2>4. new = [old EXCEPT !.index = k]
    <3>1. entries'[e] = [entries[e] EXCEPT !.index = IF e \in Range(list) THEN Freed ELSE @]
      BY Zenon DEF Free
    <3> QED BY <2>1, <2>2, <3>1, Zenon
  <2>5. old = [sink |-> old.sink, index |-> old.index, level |-> old.level]
    BY <2>3, Zenon DEF Entry
  <2>6. new = [sink |-> old.sink, index |-> k, level |-> old.level]
    BY <2>4, <2>5, Zenon
  <2>7. k \in {old.index, Freed} /\ old.index <= lastIndex /\ lastIndex \in Nat
    BY <2>1, <2>2 DEF Indexes, ServerTypes
  <2>8. new \in Entry /\ new.sink = old.sink /\ new.index = k /\ new.index <= lastIndex
    BY <2>3, <2>6, <2>7 DEF Entry, Freed
  <2> QED BY <2>2, <2>7, <2>8
<1>3. /\ entries' \in Seq(Entry) /\ DOMAIN entries' = DOMAIN entries /\ Len(entries') = Len(entries)
  <2>1. entries' \in [1..Len(entries) -> Entry]
    BY <1>1, <1>2 DEF Free
  <2> QED BY <1>1, <2>1
<1> QED BY <1>2, <1>3

LEMMA FreeCacheInv == ASSUME CacheInv, Free PROVE CacheInv'
<1> USE DEF CacheInv, TypeInv
<1>1. /\ UNCHANGED <<index, level, default, lastIndex, requests, inbox, default_sink, raised>>
      /\ UNCHANGED <<arg, found, last, shown>> /\ list' = <<>> /\ tail' = 0
  BY DEF Free, server, link, wire, locals
<1>2. /\ at' \in [Threads -> Places] /\ at'["main"] = "stop" /\ at'["pulse"] = at["pulse"]
  BY Moved, TwoThreads DEF Free, Places, Final, MainPlaces, PulsePlaces
<1>3. ServerTypes' /\ WireTypes'
  BY <1>1 DEF ServerTypes, WireTypes
<1>4. CacheTypes' /\ PlaceTypes'
  BY <1>1, <1>2, FreeEffect DEF CacheTypes, PlaceTypes
<1>5. Allocated'
  BY <1>1, <1>2, FreeEffect, TwoThreads DEF Allocated
<1>6. Indexes'
  BY <1>1, FreeEffect DEF Indexes, Present
<1> QED BY <1>3, <1>4, <1>5, <1>6

LEMMA AskerCacheInv == ASSUME CacheInv, ServerInfoAsks PROVE CacheInv'
<1> USE DEF CacheInv, TypeInv
<1>1. /\ UNCHANGED <<index, level, default, lastIndex, inbox, entries, list, tail, default_sink, raised>>
      /\ UNCHANGED <<arg, found, last, shown>>
  BY DEF ServerInfoAsks, server, cache, queue, locals
<1>2. /\ at' \in [Threads -> Places] /\ at'["main"] # "kill" /\ at'["pulse"] = "idle"
      /\ at["pulse"] = "found" /\ at'["main"] = at["main"]
  BY Moved, TwoThreads DEF ServerInfoAsks, Places, Final, MainPlaces, PulsePlaces
<1>3. PICK r : r = [t |-> "name", e |-> found["pulse"], sink |-> default_sink]
  OBVIOUS
<1>4. found["pulse"] \in DOMAIN entries /\ found["pulse"] \in Nat
  BY <1>2, TwoThreads DEF Allocated, PlaceTypes
<1>5. r \in Requests /\ r.t = "name" /\ r.e \in DOMAIN entries /\ Ask(r)
  BY <1>3, <1>4, Sent DEF CacheTypes, ServerInfoAsks
<1>6. /\ requests' \in Seq(Requests)
      /\ \A n \in DOMAIN requests' :
           /\ requests'[n].t \in {"name", "index"} => requests'[n].e \in DOMAIN entries
           /\ requests'[n].t = "index" => requests'[n].index <= lastIndex
  BY <1>1, <1>5, AskTypes
<1>7. ServerTypes' /\ WireTypes' /\ CacheTypes' /\ PlaceTypes'
  BY <1>1, <1>2, <1>6 DEF ServerTypes, WireTypes, CacheTypes, PlaceTypes, PulsePlaces
<1>8. Allocated'
  BY <1>1, <1>2, <1>6, TwoThreads DEF Allocated
<1>9. Indexes'
  BY <1>1, <1>6 DEF Indexes, Present
<1> QED BY <1>7, <1>8, <1>9

LEMMA RaisesCacheInv == ASSUME CacheInv, SinkInfoRaises PROVE CacheInv'
<1> USE DEF CacheInv, TypeInv
<1>1. UNCHANGED <<index, level, default, lastIndex, requests, inbox, entries, list, tail, default_sink,
                  found>>
  BY DEF SinkInfoRaises, server, link, wire, queue, locals
<1>2. /\ at' \in [Threads -> Places] /\ at'["main"] # "kill" /\ at'["pulse"] = "idle"
      /\ at'["main"] = IF at["main"] = "blocked" THEN "woken" ELSE at["main"]
  BY DEF SinkInfoRaises, PlaceTypes, Threads, Places, Final, MainPlaces, PulsePlaces
<1>3. CacheTypes' /\ PlaceTypes'
  BY <1>1, <1>2 DEF SinkInfoRaises, locals, CacheTypes, PlaceTypes, PulsePlaces
<1>4. \A p \in Threads : at'[p] \in {"load", "link", "tail", "found"} => found'[p] \in DOMAIN entries
  BY <1>1, <1>2, TwoThreads DEF Allocated
<1> QED BY <1>1, <1>3, <1>4, LocalStep

LEMMA CacheInvNext == CacheInv /\ [Next]_vars => CacheInv'
<1> SUFFICES ASSUME CacheInv, [Next]_vars PROVE CacheInv'
  OBVIOUS
<1>1. CASE Main
  <2>1. CASE InitEnds
    BY <2>1, ConnectionCacheInv
  <2>2. CASE FindBySink("main")
    BY <2>2, TwoThreads, ThreadCacheInv, CreateCacheInv DEF FindBySink
  <2>3. CASE Free
    BY <2>3, FreeCacheInv
  <2> QED BY <1>1, <2>1, <2>2, <2>3, MainCacheInv DEF Main
<1>2. CASE Pulse
  <2>1. CASE FindBySink("pulse")
    BY <2>1, TwoThreads, ThreadCacheInv, CreateCacheInv DEF FindBySink
  <2> QED BY <1>2, <2>1, ConnectionCacheInv, SubscribeCacheInv, InfoCacheInv, OtherMessagesCacheInv,
             AskerCacheInv, RaisesCacheInv DEF Pulse, PulseGoesOn
<1>3. CASE UNCHANGED vars
  BY <1>3 DEF vars, server, link, wire, cache, queue, locals, CacheInv, TypeInv, ServerTypes, WireTypes,
              CacheTypes, PlaceTypes, Allocated, Indexes, Present
<1> QED BY <1>1, <1>2, <1>3, ChangeCacheInv, ServeCacheInv, MainCacheInv DEF Next, Finished

(* PulseAudio's type invariant: the list and the messages speak of entries
   that were allocated, the indexes of plugged in sinks are distinct. *)
THEOREM EntriesAllocated == Spec => []TypeOK
<1>1. CacheInv => TypeOK
  <2> SUFFICES ASSUME CacheInv PROVE TypeOK
    OBVIOUS
  <2> USE DEF CacheInv, TypeInv
  <2>1. at["main"] \in Final \cup MainPlaces /\ at["pulse"] \in PulsePlaces
    BY TwoThreads DEF PlaceTypes, Places, MainPlaces, PulsePlaces
  <2>2. \A s, t \in Sinks : index[s] = index[t] => s = t \/ ~Present(s)
    BY DEF Indexes
  <2>3. \A e \in DOMAIN entries : entries[e].sink \in Sinks \cup {NoSink}
    <3>1. \A e \in DOMAIN entries : entries[e] \in Entry
      BY DEF CacheTypes
    <3> QED BY <3>1 DEF Entry
  <2>4. Range(list) \subseteq DOMAIN entries /\ tail \in 0..Len(entries)
    BY DEF CacheTypes, Range
  <2>5. \A m \in Range(inbox) : m.t \in {"info", "error"} => m.e \in DOMAIN entries
    BY DEF Allocated, Range
  <2>6. default_sink \in Sinks \cup {NoSink}
    BY DEF CacheTypes
  <2> QED BY <2>1, <2>2, <2>3, <2>4, <2>5, <2>6 DEF TypeOK, Places, Final, MainPlaces, PulsePlaces
<1> QED BY <1>1, CacheInvInit, CacheInvNext, PTL DEF Spec

-----------------------------------------------------------------------------
(* Lookups                                                                 *)

(* What the walk over the list by sink ends at. *)
Stops(e, w) == Crashes(e, w) \/ Matches(e, w)

LEMMA BySinkProps ==
  ASSUME CacheTypes, NEW w
  PROVE  /\ WalkBySink(w) \in 0..Len(list) /\ Len(list) \in Nat /\ DOMAIN list = 1..Len(list)
         /\ WalkBySink(w) = 0 => \A n \in DOMAIN list : ~Stops(list[n], w)
         /\ WalkBySink(w) # 0 =>
              /\ WalkBySink(w) \in DOMAIN list /\ list[WalkBySink(w)] \in DOMAIN entries
              /\ Stops(list[WalkBySink(w)], w)
              /\ \A n \in DOMAIN list : Stops(list[n], w) => WalkBySink(w) <= n
<1> DEFINE I == {i \in 1..Len(list) : Stops(list[i], w)}
<1>1. I \in SUBSET Nat /\ I \subseteq DOMAIN list /\ WalkBySink(w) = IF I # {} THEN Min(I) ELSE 0
  BY DEF WalkBySink, SelectInSeq, CacheTypes, Stops
<1>2. /\ I = {} => WalkBySink(w) = 0
      /\ I # {} => WalkBySink(w) \in I /\ \A y \in I : WalkBySink(w) <= y
  <2> HIDE DEF I
  <2> QED BY <1>1, FirstOf
<1>3. \A n \in DOMAIN list : n \in Nat \ {0} /\ list[n] \in DOMAIN entries
  BY DEF CacheTypes
<1>4. DOMAIN list = 1..Len(list) /\ Len(list) \in Nat
  BY DEF CacheTypes
<1>5. CASE I = {}
  BY <1>2, <1>4, <1>5
<1>6. CASE I # {}
  <2>1. PICK n : n = WalkBySink(w)
    OBVIOUS
  <2>2. n \in I /\ \A y \in I : n <= y
    BY <1>2, <1>6, <2>1
  <2> QED BY <1>3, <1>4, <2>1, <2>2
<1> QED BY <1>5, <1>6

(* Only entries for the default sink end the walk for it. *)
LEMMA DefaultStops ==
  /\ \A e : Stops(e, NoSink) <=> entries[e].sink = NoSink
  /\ Stored(NoSink) = NoSink
BY PulseConstants DEF Stops, Crashes, Matches, Stored

(* An entry stays that of the sink it was created for. *)
LEMMA SinksKept ==
  ASSUME CacheInv, [Next]_vars
  PROVE  \A e \in DOMAIN entries : e \in DOMAIN entries' /\ entries'[e].sink = entries[e].sink
<1>1. CASE UNCHANGED entries
  BY <1>1
<1>2. CASE \E p \in Threads : Create(p)
  <2>1. PICK p \in Threads : Create(p)
    BY <1>2
  <2>2. PICK x : entries' = Append(entries, x)
    BY <2>1 DEF Create, New, Allocates, AsksFor
  <2> QED BY <2>2 DEF CacheInv, TypeInv, CacheTypes
<1>3. CASE Free
  BY <1>3, FreeEffect
<1>4. CASE SinkInfoCallback
  BY <1>4, InfoEffect
<1>5. \/ UNCHANGED entries \/ Free \/ SinkInfoCallback \/ \E p \in Threads : Create(p)
  <2>1. CASE Main
    BY <2>1, TwoThreads DEF Main, InitFails, InitStarts, InitWaits, InitEnds, FindBySink, Find, Load, Link,
                            MoveTail, FindCrashes, Read, Stop, cache
  <2>2. CASE Pulse
    BY <2>2, TwoThreads DEF Pulse, StateCallback, SubscribeCallback, SinkInfoAfterFree, SinkMissingCallback,
                            ServerInfoCallback, PulseGoesOn, FindBySink, Find, Load, Link, MoveTail,
                            ServerInfoAsks, SinkInfoRaises, cache
  <2> QED BY <2>1, <2>2 DEF Next, Change, Serve, Finished, Lookup, vars, cache
<1> QED BY <1>1, <1>2, <1>3, <1>4, <1>5

(* What a step does to a thread: nothing, a step of its lookup, or it is no
   longer about an entry. *)
LEMMA ThreadSteps ==
  ASSUME CacheInv, [Next]_vars, NEW p \in Threads
  PROVE  \/ Find(p) \/ Create(p) \/ Load(p) \/ Link(p) \/ MoveTail(p)
         \/ at'[p] = at[p] /\ found'[p] = found[p] /\ arg'[p] = arg[p]
         \/ /\ at'[p] \notin {"load", "link", "tail", "found"} /\ at'[p] # at[p]
            /\ at[p] \notin {"load", "link", "tail"} \/ at'["main"] = "corrupted"
<1> USE DEF CacheInv, TypeInv
<1>1. CASE Main
  <2>1. CASE FindBySink("main")
    <3>1. p = "pulse" \/ p = "main"
      BY TwoThreads
    <3>2. CASE p = "main"
      BY <2>1, <3>2 DEF FindBySink
    <3>3. CASE p = "pulse"
      BY <2>1, <3>3, FindTypes DEF FindBySink, Find, Create, New, Allocates, AsksFor, Load, Link, MoveTail,
                                   Goes, locals, PlaceTypes, Threads
    <3> QED BY <3>1, <3>2, <3>3
  <2>2. CASE ~FindBySink("main")
    BY <1>1, <2>2 DEF Main, InitFails, InitStarts, InitWaits, InitEnds, FindCrashes, Read, Free, Stop, Goes,
                            locals, PlaceTypes, Threads
  <2> QED BY <2>1, <2>2
<1>2. CASE Pulse
  <2>1. CASE FindBySink("pulse")
    <3>1. p = "pulse" \/ p = "main"
      BY TwoThreads
    <3>2. CASE p = "pulse"
      BY <2>1, <3>2 DEF FindBySink
    <3>3. CASE p = "main"
      BY <2>1, <3>3, FindTypes DEF FindBySink, Find, Create, New, Allocates, AsksFor, Load, Link, MoveTail,
                                   Goes, locals, PlaceTypes, Threads
    <3> QED BY <3>1, <3>2, <3>3
  <2>2. CASE ServerInfoAsks \/ ServerInfoCallback
    BY <2>2, IncomingTypes DEF ServerInfoAsks, ServerInfoCallback, Goes, locals, PlaceTypes, Threads
  <2>3. CASE SinkMissingCallback \/ StateCallback
    BY <2>3, SignalTypes, IncomingTypes, TwoThreads DEF SinkMissingCallback, StateCallback, locals
  <2>5. CASE SinkInfoCallback
    <3>1. Incoming("info")
      BY <2>5 DEF SinkInfoCallback
    <3> QED BY <2>5, <3>1, IncomingTypes, InfoPlaces, TwoThreads
  <2>6. CASE SinkInfoRaises
    BY <2>6 DEF SinkInfoRaises, locals, PlaceTypes, Threads
  <2>4. CASE SinkInfoAfterFree \/ SubscribeCallback
    BY <2>4, IncomingTypes DEF SinkInfoAfterFree, SubscribeCallback, PlaceTypes, Threads
  <2> QED BY <1>2, <2>1, <2>2, <2>3, <2>4, <2>5, <2>6 DEF Pulse, PulseGoesOn
<1>3. CASE \E w \in Wanted : Lookup(w)
  BY <1>3 DEF Lookup, Goes, PlaceTypes, Threads
<1>4. CASE Change \/ Serve \/ Finished \/ UNCHANGED vars
  BY <1>4 DEF Change, Serve, Finished, vars, locals
<1> QED BY <1>1, <1>2, <1>3, <1>4 DEF Next

LEMMA LookupInvNext == ASSUME CacheInv, CacheInv', LookupInv, [Next]_vars PROVE LookupInv'
<1>1. \A e \in DOMAIN entries : e \in DOMAIN entries' /\ entries'[e].sink = entries[e].sink
  BY SinksKept
<1>2. \A p \in Threads : at[p] \in {"load", "link", "tail", "found"} => found[p] \in DOMAIN entries
  BY DEF CacheInv, Allocated
<1>3. PlaceTypes /\ CacheTypes
  BY DEF CacheInv, TypeInv
<1>4. ASSUME NEW p \in Threads
      PROVE  /\ Inserting(p)' => entries'[found'[p]].sink = Stored(arg'[p])
             /\ p = "pulse" /\ at'[p] = "found" => entries'[found'[p]].sink = NoSink
  <2>1. CASE Find(p)
    <3>1. at'[p] = "found" /\ UNCHANGED entries
      BY <1>3, <2>1, Moved DEF Find, Places, Final, MainPlaces, PulsePlaces, cache
    <3>2. found'[p] = list[WalkBySink(arg[p])] /\ WalkBySink(arg[p]) # 0
      BY <2>1, FindTypes DEF Find
    <3>3. PICK e : e = list[WalkBySink(arg[p])]
      OBVIOUS
    <3>4. Stops(e, arg[p])
      BY <1>3, <3>2, <3>3, BySinkProps
    <3>5. p = "pulse" => entries[e].sink = NoSink
      BY <1>3, <3>4, DefaultStops DEF PlaceTypes
    <3> QED BY <3>1, <3>2, <3>3, <3>5 DEF Inserting
  <2>2. CASE Create(p)
    <3>1. at'[p] = "load" /\ arg' = arg
      BY <1>3, <2>2, Moved DEF Create, New, Allocates, AsksFor, Places, Final, MainPlaces, PulsePlaces
    <3>2. found'[p] = Len(entries) + 1
      BY <1>3, <2>2 DEF Create, New, Allocates, AsksFor, PlaceTypes
    <3>3. PICK x : x = [sink |-> Stored(arg[p]), index |-> 0, level |-> 0]
      OBVIOUS
    <3>4. entries' = Append(entries, x) /\ x.sink = Stored(arg[p])
      BY <2>2, <3>3 DEF Create, New, Allocates, AsksFor
    <3>5. entries'[Len(entries) + 1] = x
      BY <1>3, <3>4 DEF CacheTypes
    <3> QED BY <3>1, <3>2, <3>4, <3>5 DEF Inserting
  <2>3. CASE Load(p) \/ Link(p) \/ MoveTail(p)
    <3>1. at[p] \in {"load", "link", "tail"} /\ UNCHANGED <<entries, found, arg>>
      BY <2>3 DEF Load, Link, MoveTail, Goes, cache, locals
    <3>2. entries[found[p]].sink = Stored(arg[p])
      BY <3>1 DEF LookupInv, Inserting
    <3>3. p = "pulse" => Stored(arg[p]) = NoSink
      BY <1>3, DefaultStops DEF PlaceTypes
    <3> QED BY <3>1, <3>2, <3>3
  <2>4. CASE at'[p] = at[p] /\ found'[p] = found[p] /\ arg'[p] = arg[p]
    BY <1>1, <1>2, <2>4 DEF LookupInv, Inserting
  <2>5. CASE at'[p] \notin {"load", "link", "tail", "found"}
    BY <2>5 DEF Inserting
  <2> QED BY <2>1, <2>2, <2>3, <2>4, <2>5, ThreadSteps
<1> QED BY <1>4, TwoThreads DEF LookupInv, Inserting

LEMMA LookupInvInit == Init => LookupInv
BY TwoThreads DEF Init, LookupInv, Inserting


-----------------------------------------------------------------------------
(* Where entries, requests and messages come from                          *)

LEMMA EntrySteps ==
  ASSUME CacheInv, [Next]_vars, NEW e \in DOMAIN entries'
  PROVE  \/ e \in DOMAIN entries /\ entries'[e] = entries[e]
         \/ Free /\ e \in DOMAIN entries /\ entries'[e].index \in {entries[e].index, Freed}
         \/ SinkInfoCallback /\ e = inbox[1].e
         \/ \E p \in Threads :
              Create(p) /\ e = Len(entries) + 1
              /\ entries'[e] = [sink |-> Stored(arg[p]), index |-> 0, level |-> 0]
<1>1. CASE \E p \in Threads : Create(p)
  <2>1. PICK p \in Threads : Create(p)
    BY <1>1
  <2>2. PICK x : x = [sink |-> Stored(arg[p]), index |-> 0, level |-> 0]
    OBVIOUS
  <2>3. entries' = Append(entries, x)
    BY <2>1, <2>2 DEF Create, New, Allocates, AsksFor
  <2>4. \/ e = Len(entries) + 1 /\ entries'[e] = x
        \/ e \in DOMAIN entries /\ entries'[e] = entries[e]
    BY <2>3 DEF CacheInv, TypeInv, CacheTypes
  <2> QED BY <2>1, <2>2, <2>4
<1>2. CASE Free
  BY <1>2, FreeEffect
<1>3. CASE SinkInfoCallback
  BY <1>3, InfoEffect
<1>4. UNCHANGED entries \/ Free \/ SinkInfoCallback \/ \E p \in Threads : Create(p)
  <2>1. CASE Main
    BY <2>1, TwoThreads DEF Main, InitFails, InitStarts, InitWaits, InitEnds, FindBySink, Find, Load, Link,
                            MoveTail, FindCrashes, Read, Stop, cache
  <2>2. CASE Pulse
    BY <2>2, TwoThreads DEF Pulse, StateCallback, SubscribeCallback, SinkInfoAfterFree, SinkMissingCallback,
                            ServerInfoCallback, PulseGoesOn, FindBySink, Find, Load, Link, MoveTail,
                            ServerInfoAsks, SinkInfoRaises, cache
  <2> QED BY <2>1, <2>2 DEF Next, Change, Serve, Finished, Lookup, vars, cache
<1> QED BY <1>1, <1>2, <1>3, <1>4

LEMMA RequestSteps ==
  ASSUME CacheInv, [Next]_vars, NEW n \in DOMAIN requests'
  PROVE  \/ \E k \in DOMAIN requests : requests'[n] = requests[k]
         \/ requests'[n].t \in {"subscribe", "server"}
         \/ /\ SubscribeCallback
            /\ LET k == inbox[1].index
               IN  /\ WalkByIndex(k) # 0
                   /\ requests'[n] = [t |-> "index", e |-> list[WalkByIndex(k)], index |-> k]
         \/ /\ ServerInfoAsks
            /\ requests'[n] = [t |-> "name", e |-> found["pulse"], sink |-> default_sink]
         \/ \E p \in Threads :
              Create(p) /\ requests'[n] = [t |-> "name", e |-> Len(entries) + 1, sink |-> Stored(arg[p])]
<1> USE DEF CacheInv, TypeInv
<1>1. CASE UNCHANGED requests
  BY <1>1
<1>2. CASE requests' = <<>>
  BY <1>2
<1>3. ASSUME NEW r, Ask(r)
      PROVE  requests'[n] = r \/ \E k \in DOMAIN requests : requests'[n] = requests[k]
  BY <1>3 DEF Ask, WireTypes
<1>4. CASE \E p \in Threads : Create(p)
  <2>1. PICK p \in Threads : Create(p)
    BY <1>4
  <2>2. PICK r : r = [t |-> "name", e |-> Len(entries) + 1, sink |-> Stored(arg[p])]
    OBVIOUS
  <2>3. found'[p] = Len(entries) + 1
    BY <2>1 DEF Create, New, Allocates, AsksFor, PlaceTypes
  <2>4. Ask(r)
    BY <2>1, <2>2, <2>3 DEF Create, New, Allocates, AsksFor
  <2> QED BY <1>3, <2>1, <2>2, <2>4
<1>5. CASE SubscribeCallback
  <2>1. PICK k : k = inbox[1].index /\ k = Head(inbox).index
    BY <1>5, IncomingTypes DEF SubscribeCallback
  <2>2. CASE WalkByIndex(k) = 0
    <3>1. PICK r : r = [t |-> "server"]
      OBVIOUS
    <3>2. Ask(r) /\ r.t = "server"
      BY <1>5, <2>1, <2>2, <3>1 DEF SubscribeCallback
    <3> QED BY <1>3, <3>2
  <2>3. CASE WalkByIndex(k) # 0
    <3>1. PICK r : r = [t |-> "index", e |-> list[WalkByIndex(k)], index |-> k]
      OBVIOUS
    <3>2. Ask(r)
      BY <1>5, <2>1, <2>3, <3>1 DEF SubscribeCallback
    <3> QED BY <1>3, <1>5, <2>1, <2>3, <3>1, <3>2
  <2> QED BY <2>2, <2>3
<1>6. CASE ServerInfoAsks
  <2>1. PICK r : r = [t |-> "name", e |-> found["pulse"], sink |-> default_sink]
    OBVIOUS
  <2>2. Ask(r)
    BY <1>6, <2>1 DEF ServerInfoAsks
  <2> QED BY <1>3, <1>6, <2>1, <2>2
<1>7. CASE requests' = <<[t |-> "subscribe"], [t |-> "server"]>>
  <2>1. PICK x, y : x = [t |-> "subscribe"] /\ y = [t |-> "server"]
    OBVIOUS
  <2>2. requests' = <<x, y>> /\ x.t = "subscribe" /\ y.t = "server"
    BY <1>7, <2>1
  <2> QED BY <2>2
<1>8. CASE Serve
  BY <1>8, Shifted DEF Serve, WireTypes
<1>9. \/ UNCHANGED requests \/ requests' = <<>> \/ requests' = <<[t |-> "subscribe"], [t |-> "server"]>>
      \/ SubscribeCallback \/ ServerInfoAsks \/ Serve \/ \E p \in Threads : Create(p)
  <2>1. CASE Main
    BY <2>1, TwoThreads DEF Main, InitFails, InitStarts, InitWaits, InitEnds, FindBySink, Find, Load, Link,
                            MoveTail, FindCrashes, Read, Free, Stop, link, wire
  <2>2. CASE Pulse
    BY <2>2, TwoThreads DEF Pulse, PulseGoesOn, SinkInfoRaises, StateCallback, SinkInfoCallback,
                            SinkInfoAfterFree, SinkMissingCallback, ServerInfoCallback, FindBySink, Find,
                            Load, Link, MoveTail, link, wire
  <2> QED BY <2>1, <2>2 DEF Next, Change, Finished, Lookup, vars, link, wire
<1> QED BY <1>1, <1>2, <1>4, <1>5, <1>6, <1>7, <1>8, <1>9

(* A change tells of a sink by an index that it has or had. *)
LEMMA ChangeEffect ==
  ASSUME CacheInv, Change
  PROVE  /\ UNCHANGED <<requests, subscribed, ctx, flag, entries, list, tail, default_sink, raised>>
         /\ UNCHANGED <<at, arg, found, last, raced, shown>> /\ Running
         /\ \A t \in Sinks : index'[t] \in {index[t], Absent} \/ index'[t] = lastIndex + 1
         /\ \/ inbox' = inbox /\ UNCHANGED <<index, level>>
            \/ \E k \in Nat : /\ Notify(k)
                              /\ \E s \in Sinks : /\ k = index[s] \/ k = index'[s]
                                                  /\ \A t \in Sinks \ {s} : /\ index'[t] = index[t]
                                                                            /\ level'[t] = level[t]
                                                  /\ index'[s] = k \/ index'[s] = Absent
<1> USE DEF CacheInv, TypeInv
<1>1. PICK s \in Sinks : ChangeSink(s) \/ ChangeDefault(s) \/ Unplug(s) \/ Plug(s)
  BY DEF Change
<1>2. ServerTypes /\ (Present(s) => index[s] \in Nat)
  BY DEF ServerTypes, Present
<1>3. CASE ChangeDefault(s)
  BY <1>3 DEF ChangeDefault, Change, cache, queue, locals
<1>4. CASE ChangeSink(s)
  <2>1. index[s] \in Nat /\ Notify(index[s]) /\ index' = index /\ \A t \in Sinks \ {s} : level'[t] = level[t]
    BY <1>2, <1>4 DEF ChangeSink, ServerTypes
  <2> QED BY <2>1 DEF Change, cache, queue, locals
<1>5. CASE Unplug(s)
  <2>1. /\ index[s] \in Nat /\ Notify(index[s]) /\ level' = level /\ index'[s] = Absent
        /\ \A t \in Sinks \ {s} : index'[t] = index[t]
    BY <1>2, <1>5 DEF Unplug, ServerTypes
  <2> QED BY <2>1 DEF Change, cache, queue, locals
<1>6. CASE Plug(s)
  <2>1. /\ lastIndex + 1 \in Nat /\ Notify(lastIndex + 1) /\ level' = level /\ index'[s] = lastIndex + 1
        /\ \A t \in Sinks \ {s} : index'[t] = index[t]
    BY <1>2, <1>6 DEF Plug, ServerTypes
  <2>2. \A t \in Sinks : index'[t] \in {index[t], Absent} \/ index'[t] = lastIndex + 1
    BY <2>1
  <2>3. PICK k \in Nat : k = lastIndex + 1
    BY <2>1
  <2>4. Notify(k) /\ k = index'[s]
    BY <2>1, <2>3
  <2>5. /\ UNCHANGED <<requests, subscribed, ctx, flag, entries, list, tail, default_sink, raised>>
        /\ UNCHANGED <<at, arg, found, last, raced, shown>> /\ Running
    BY DEF Change, cache, queue, locals
  <2> QED BY <2>1, <2>2, <2>4, <2>5
<1> QED BY <1>1, <1>3, <1>4, <1>5, <1>6

LEMMA MessageSteps ==
  ASSUME CacheInv, [Next]_vars, NEW n \in DOMAIN inbox'
  PROVE  \/ \E k \in DOMAIN inbox : inbox'[n] = inbox[k]
         \/ /\ Serve /\ requests[1].t # "subscribe" /\ requests[1] \in Requests
            /\ inbox'[n] \in Answers(requests[1])
         \/ /\ Change /\ inbox'[n].t = "event"
            /\ \E s \in Sinks : inbox'[n].index \in {index[s], index'[s]}
<1> USE DEF CacheInv, TypeInv
<1>1. CASE UNCHANGED inbox
  BY <1>1
<1>2. CASE inbox' = <<>>
  BY <1>2
<1>3. CASE \E type : Incoming(type)
  BY <1>3, IncomingTypes
<1>4. CASE Serve
  <2>1. requests[1] \in Requests /\ requests[1] = Head(requests)
    BY <1>4, Shifted DEF Serve, WireTypes
  <2>2. PICK r : r = requests[1] /\ r = Head(requests)
    BY <2>1
  <2>3. \/ inbox' = inbox
        \/ r.t # "subscribe" /\ \E a \in Answers(r) : inbox' = Append(inbox, a)
    BY <1>4, <2>2 DEF Serve
  <2>4. ASSUME NEW a \in Answers(r), inbox' = Append(inbox, a)
        PROVE  inbox'[n] = a \/ \E k \in DOMAIN inbox : inbox'[n] = inbox[k]
    BY <2>4 DEF WireTypes
  <2> QED BY <1>4, <2>1, <2>2, <2>3, <2>4
<1>5. CASE Change
  <2>1. CASE UNCHANGED inbox
    BY <2>1
  <2>2. ASSUME NEW k \in Nat, Notify(k), NEW s \in Sinks, k = index[s] \/ k = index'[s]
        PROVE  \/ \E j \in DOMAIN inbox : inbox'[n] = inbox[j]
               \/ inbox'[n].t = "event" /\ inbox'[n].index \in {index[s], index'[s]}
    <3>1. PICK m : m = [t |-> "event", index |-> k]
      OBVIOUS
    <3>2. m.t = "event" /\ m.index = k /\ (inbox' = inbox \/ inbox' = Append(inbox, m))
      BY <2>2, <3>1 DEF Notify
    <3> QED BY <2>2, <3>2 DEF WireTypes
  <2> QED BY <1>5, <2>1, <2>2, ChangeEffect
<1>6. UNCHANGED inbox \/ inbox' = <<>> \/ Serve \/ Change \/ \E type : Incoming(type)
  <2>1. CASE Main
    BY <2>1, TwoThreads DEF Main, InitFails, InitStarts, InitWaits, InitEnds, FindBySink, Find, Create, New,
                            Allocates, AsksFor, Load, Link, MoveTail, FindCrashes, Read, Free, Stop, link,
                            wire
  <2>2. CASE Pulse
    BY <2>2, TwoThreads DEF Pulse, PulseGoesOn, SinkInfoRaises, StateCallback, SubscribeCallback,
                            SinkInfoCallback, SinkInfoAfterFree, SinkMissingCallback, ServerInfoCallback,
                            FindBySink, Find, Create, New, Allocates, AsksFor, Load, Link, MoveTail,
                            ServerInfoAsks, link, wire
  <2> QED BY <2>1, <2>2 DEF Next, Finished, Lookup, vars, link, wire
<1> QED BY <1>1, <1>2, <1>3, <1>4, <1>5, <1>6


-----------------------------------------------------------------------------
(* What the entries are bound to                                           *)

(* The default sink is one that is plugged in. *)
LEMMA DefaultPresent == ASSUME CacheInv, Present(default), [Next]_vars PROVE Present(default)'
<1>1. CASE Change
  <2>1. PICK s \in Sinks : ChangeSink(s) \/ ChangeDefault(s) \/ Unplug(s) \/ Plug(s)
    BY <1>1 DEF Change
  <2>2. ServerTypes
    BY DEF CacheInv, TypeInv
  <2>3. CASE Unplug(s)
    BY <2>2, <2>3 DEF Unplug, Present, ServerTypes
  <2>4. CASE Plug(s)
    BY <2>2, <2>4 DEF Plug, Present, ServerTypes, Absent
  <2>5. CASE ChangeSink(s) \/ ChangeDefault(s)
    BY <2>5 DEF ChangeSink, ChangeDefault, Present
  <2> QED BY <2>1, <2>3, <2>4, <2>5
<1>2. CASE index' = index /\ default' = default
  BY <1>2 DEF Present
<1>3. (index' = index /\ default' = default) \/ Change
  <2>1. CASE Main
    BY <2>1 DEF Main, InitFails, InitStarts, InitWaits, InitEnds, FindBySink, Find, Create, New, Allocates,
                AsksFor, Load, Link, MoveTail, FindCrashes, Read, Free, Stop, server
  <2>2. CASE Pulse
    BY <2>2 DEF Pulse, PulseGoesOn, SinkInfoRaises, StateCallback, SubscribeCallback, SinkInfoCallback,
                SinkInfoAfterFree, Incoming, SinkMissingCallback, ServerInfoCallback, FindBySink, Find,
                Create, New, Allocates, AsksFor, Load, Link, MoveTail, ServerInfoAsks, server
  <2> QED BY <2>1, <2>2 DEF Next, Serve, Finished, Lookup, vars, server
<1> QED BY <1>1, <1>2, <1>3

LEMMA BoundInit == Init => BoundInv
<1> SUFFICES ASSUME Init PROVE BoundInv
  OBVIOUS
<1>1. \A s \in Sinks : index[s] \in Nat /\ index[s] \in held[s]
  BY PulseConstants DEF Init
<1>2. HistoryInv
  BY <1>1, PulseConstants DEF Init, HistoryInv, Present, Absent
<1> QED BY <1>2 DEF Init, NoIndexZero, BoundInv

(* Any step leaves the server alone, but for a change. *)
LEMMA ServerKept == ASSUME [Next]_vars PROVE UNCHANGED server \/ Change
<1>1. CASE Main
  BY <1>1 DEF Main, InitFails, InitStarts, InitWaits, InitEnds, FindBySink, Find, Create, New, Allocates,
              AsksFor, Load, Link, MoveTail, FindCrashes, Read, Free, Stop
<1>2. CASE Pulse
  BY <1>2 DEF Pulse, PulseGoesOn, SinkInfoRaises, StateCallback, SubscribeCallback, SinkInfoCallback,
              SinkInfoAfterFree, Incoming, SinkMissingCallback, ServerInfoCallback, FindBySink, Find, Create,
              New, Allocates, AsksFor, Load, Link, MoveTail, ServerInfoAsks
<1> QED BY <1>1, <1>2 DEF Next, Serve, Finished, Lookup, vars

(* What was a sink's stays one of its indexes. *)
LEMMA HistoryGrows ==
  ASSUME CacheInv, HistoryInv, [Next]_vars
  PROVE  /\ been \subseteq been'
         /\ \A s \in Sinks \cup {NoSink} : HeldFor(s) \subseteq HeldFor(s)'
         /\ default' \in been' /\ been' \subseteq Sinks /\ held' \in [Sinks -> SUBSET Nat]
         /\ \A s \in Sinks : Present(s)' => index'[s] \in held'[s]
         /\ been' = {default'} => held'[default'] = {index'[default']}
<1>1. CASE UNCHANGED server
  BY <1>1 DEF server, HistoryInv, HeldFor, Present
<1>2. CASE Change
  <2>1. PICK s \in Sinks : ChangeSink(s) \/ ChangeDefault(s) \/ Unplug(s) \/ Plug(s)
    BY <1>2 DEF Change
  <2>2. /\ been' = been \cup {default'}
        /\ held' = [t \in Sinks |-> held[t] \cup ({index'[t]} \ {Absent})]
    BY <1>2 DEF Change
  <2>3. ServerTypes /\ ServerTypes'
    <3>1. CacheInv'
      BY CacheInvNext
    <3> QED BY <3>1 DEF CacheInv, TypeInv
  <2>4. \A t \in Sinks : held'[t] \in SUBSET Nat /\ held[t] \subseteq held'[t]
    BY <2>2, <2>3 DEF HistoryInv, ServerTypes
  <2>5. held' \in [Sinks -> SUBSET Nat]
    BY <2>2, <2>4
  <2>6. \A t \in Sinks : Present(t)' => index'[t] \in held'[t]
    BY <2>2 DEF Present
  <2>7. \A t \in Sinks \cup {NoSink} : HeldFor(t) \subseteq HeldFor(t)'
    BY <2>2, <2>4 DEF HeldFor, HistoryInv
  <2>8. ASSUME been' = {default'} PROVE held'[default'] = {index'[default']}
    <3>1. been = {default} /\ default' = default
      BY <2>2, <2>8 DEF HistoryInv
    <3>2. held[default] = {index[default]} /\ default \in Sinks /\ Present(default)
      BY <2>3, <3>1 DEF HistoryInv, ServerTypes
    <3>3. index'[default] = index[default]
      <4>1. CASE s = default /\ Unplug(s)
        BY <2>3, <3>1, <4>1 DEF Unplug, ServerTypes
      <4>2. CASE s # default \/ ~Unplug(s)
        BY <2>1, <2>3, <3>2, <4>2 DEF ChangeSink, ChangeDefault, Unplug, Plug, ServerTypes
      <4> QED BY <4>1, <4>2
    <3> QED BY <2>2, <3>1, <3>2, <3>3 DEF Present
  <2> QED BY <2>2, <2>3, <2>5, <2>6, <2>7, <2>8 DEF HistoryInv, ServerTypes
<1> QED BY <1>1, <1>2, ServerKept

LEMMA HistoryNext == ASSUME CacheInv, HistoryInv, [Next]_vars PROVE HistoryInv'
<1>1. Present(default)'
  BY DefaultPresent DEF HistoryInv
<1>2. default_sink' \in been' \cup {NoSink}
  <2>1. CASE ServerInfoCallback
    <3>1. /\ default_sink' = inbox[1].name /\ 1 \in DOMAIN inbox /\ inbox[1].t = "server"
      BY <2>1, IncomingTypes DEF ServerInfoCallback
    <3> QED BY <3>1, HistoryGrows DEF HistoryInv
  <2>2. CASE default_sink' = default_sink
    BY <2>2, HistoryGrows DEF HistoryInv
  <2>3. default_sink' = default_sink \/ ServerInfoCallback
    <3>1. CASE Main
      BY <3>1 DEF Main, InitFails, InitStarts, InitWaits, InitEnds, FindBySink, Find, Create, New, Allocates,
                  AsksFor, Load, Link, MoveTail, FindCrashes, Read, Free, Stop, cache
    <3>2. CASE Pulse
      BY <3>2 DEF Pulse, PulseGoesOn, SinkInfoRaises, StateCallback, SubscribeCallback, SinkInfoCallback,
                  SinkInfoAfterFree, SinkMissingCallback, FindBySink, Find, Create, New, Allocates, AsksFor,
                  Load, Link, MoveTail, ServerInfoAsks, cache
    <3> QED BY <3>1, <3>2 DEF Next, Change, Serve, Finished, Lookup, vars, cache
  <2> QED BY <2>1, <2>2, <2>3
<1>3. ASSUME NEW n \in DOMAIN inbox', NEW m, m = inbox'[n], m.t = "server" PROVE m.name \in been'
  <2>1. CASE \E k \in DOMAIN inbox : inbox'[n] = inbox[k]
    BY <1>3, <2>1, HistoryGrows DEF HistoryInv
  <2>2. CASE Serve /\ requests[1].t # "subscribe" /\ requests[1] \in Requests /\ m \in Answers(requests[1])
    <3>1. PICK r \in Requests : r = requests[1] /\ m \in Answers(r) /\ r.t # "subscribe"
      BY <2>2
    <3>2. r.t = "server"
      BY <1>3, <3>1, AnswerKinds DEF CacheInv, TypeInv
    <3>3. m.name = default
      BY <3>1, <3>2 DEF Answers
    <3> QED BY <2>2, <3>3, HistoryGrows DEF Serve, server
  <2>3. CASE m.t = "event"
    BY <1>3, <2>3
  <2> QED BY <1>3, <2>1, <2>2, <2>3, MessageSteps
<1> QED BY <1>1, <1>2, <1>3, HistoryGrows DEF HistoryInv

(* What was bound to a sink remains so. *)
LEMMA BoundKept ==
  ASSUME CacheInv, BoundInv, [Next]_vars
  PROVE  /\ \A n \in DOMAIN requests : \A r : r = requests[n] => RequestBound(r)'
         /\ \A n \in DOMAIN inbox : \A m : m = inbox[n] => MessageBound(m)'
         /\ \A e \in DOMAIN entries :
              entries'[e].index \in {entries[e].index, Freed} => EntryBound(e)'
<1> USE DEF CacheInv, TypeInv
<1>1. ASSUME NEW e \in DOMAIN entries, NEW s, s = entries[e].sink
      PROVE  entries'[e].sink = s /\ HeldFor(s) \subseteq HeldFor(s)'
  <2>1. entries[e] \in Entry
    BY DEF CacheTypes
  <2>2. s \in Sinks \cup {NoSink}
    BY <1>1, <2>1 DEF Entry
  <2> QED BY <1>1, <2>2, SinksKept, HistoryGrows DEF BoundInv
<1>2. ASSUME NEW n \in DOMAIN requests, NEW r, r = requests[n]
      PROVE  RequestBound(r)'
  <2>1. r.t \in {"name", "index"} => r.e \in DOMAIN entries
    BY <1>2 DEF Allocated
  <2>2. been \subseteq been'
    BY HistoryGrows DEF BoundInv
  <2> QED BY <1>1, <1>2, <2>1, <2>2 DEF BoundInv, RequestBound
<1>3. ASSUME NEW n \in DOMAIN inbox, NEW m, m = inbox[n]
      PROVE  MessageBound(m)'
  <2>1. m.t = "info" => m.e \in DOMAIN entries
    BY <1>3 DEF Allocated
  <2> QED BY <1>1, <1>3, <2>1 DEF BoundInv, MessageBound
<1>4. ASSUME NEW e \in DOMAIN entries, entries'[e].index \in {entries[e].index, Freed}
      PROVE  EntryBound(e)'
  BY <1>1, <1>4 DEF BoundInv, EntryBound
<1> QED BY <1>2, <1>3, <1>4

LEMMA BoundNext == ASSUME CacheInv, LookupInv, BoundInv, [Next]_vars PROVE BoundInv'
<1> USE DEF CacheInv, TypeInv
<1>1. HistoryInv'
  BY HistoryNext DEF BoundInv
<1>2. \A e \in DOMAIN entries : e \in DOMAIN entries' /\ entries'[e].sink = entries[e].sink
  BY SinksKept
<1>3. /\ \A n \in DOMAIN requests : \A r : r = requests[n] => RequestBound(r)'
      /\ \A n \in DOMAIN inbox : \A m : m = inbox[n] => MessageBound(m)'
      /\ \A e \in DOMAIN entries :
           entries'[e].index \in {entries[e].index, Freed} => EntryBound(e)'
  BY BoundKept
<1>4. ASSUME NoIndexZero PROVE \A s \in Sinks : index'[s] # 0
  <2>1. \A s \in Sinks : index[s] # 0
    BY <1>4 DEF BoundInv
  <2>2. CASE Change
    <3>1. \A s \in Sinks : index'[s] \in {index[s], Absent} \/ index'[s] = lastIndex + 1
      BY <2>2, ChangeEffect
    <3> QED BY <2>1, <3>1 DEF ServerTypes, Absent
  <2>3. CASE UNCHANGED server
    BY <2>1, <2>3 DEF server
  <2> QED BY <2>2, <2>3, ServerKept
<1>5. ASSUME NEW e \in DOMAIN entries' PROVE EntryBound(e)'
  <2>1. CASE e \in DOMAIN entries /\ entries'[e].index \in {entries[e].index, Freed}
    BY <1>3, <2>1
  <2>2. CASE SinkInfoCallback /\ e = inbox[1].e
    <3>1. PICK m : m = inbox[1]
      OBVIOUS
    <3>2. /\ 1 \in DOMAIN inbox /\ e \in DOMAIN entries /\ m.t = "info" /\ m.e = e
          /\ entries'[e].index = m.index
      BY <2>2, <3>1, InfoEffect, IncomingTypes
    <3>3. MessageBound(m)'
      BY <1>3, <3>1, <3>2
    <3> QED BY <3>2, <3>3 DEF MessageBound, EntryBound
  <2>3. CASE entries'[e].index = 0
    BY <2>3 DEF EntryBound
  <2>4. ASSUME NEW x, entries'[e] = [sink |-> x, index |-> 0, level |-> 0]
        PROVE  entries'[e].index = 0
    BY <2>4
  <2> QED BY <2>1, <2>2, <2>3, <2>4, EntrySteps
<1>6. ASSUME NEW n \in DOMAIN requests', NEW r, r = requests'[n] PROVE RequestBound(r)'
  <2>1. CASE \E k \in DOMAIN requests : requests'[n] = requests[k]
    BY <1>3, <1>6, <2>1
  <2>2. CASE r.t \in {"subscribe", "server"}
    BY <2>2 DEF RequestBound
  <2>3. ASSUME SubscribeCallback,
               NEW k, k = inbox[1].index, WalkByIndex(k) # 0,
               r = [t |-> "index", e |-> list[WalkByIndex(k)], index |-> k]
        PROVE  RequestBound(r)'
    <3>1. k \in Nat /\ UNCHANGED <<entries, been, held>>
      BY <2>3, IncomingTypes, MessageKinds DEF SubscribeCallback, Incoming, server
    <3>2. CacheTypes
      OBVIOUS
    <3>3. PICK e : e = list[WalkByIndex(k)]
      OBVIOUS
    <3>4. e \in DOMAIN entries /\ entries[e].index = k
      BY <2>3, <3>1, <3>2, <3>3, ByIndexProps
    <3>5. r = [t |-> "index", e |-> e, index |-> k]
      BY <2>3, <3>3
    <3>6. EntryBound(e)
      BY <3>4 DEF BoundInv
    <3> QED BY <3>1, <3>4, <3>5, <3>6 DEF RequestBound, EntryBound, HeldFor, Freed
  <2>4. CASE ServerInfoAsks /\ r = [t |-> "name", e |-> found["pulse"], sink |-> default_sink]
    <3>1. UNCHANGED <<entries, been>> /\ entries[found["pulse"]].sink = NoSink
      BY <2>4 DEF ServerInfoAsks, cache, server, LookupInv, Goes
    <3> QED BY <2>4, <3>1 DEF RequestBound, BoundInv, HistoryInv
  <2>5. ASSUME NEW p \in Threads, Create(p),
               r = [t |-> "name", e |-> Len(entries) + 1, sink |-> Stored(arg[p])]
        PROVE  RequestBound(r)'
    <3>1. PICK x, y : x = Stored(arg[p]) /\ y = [sink |-> x, index |-> 0, level |-> 0]
      OBVIOUS
    <3>2. entries' = Append(entries, y) /\ y.sink = x
      BY <2>5, <3>1 DEF Create, New, Allocates, AsksFor
    <3>3. entries'[Len(entries) + 1] = y
      BY <3>2 DEF CacheTypes
    <3> QED BY <2>5, <3>1, <3>2, <3>3 DEF RequestBound
  <2> QED BY <1>6, <2>1, <2>2, <2>3, <2>4, <2>5, RequestSteps
<1>7. ASSUME NEW n \in DOMAIN inbox', NEW m, m = inbox'[n] PROVE MessageBound(m)'
  <2>1. CASE \E k \in DOMAIN inbox : inbox'[n] = inbox[k]
    BY <1>3, <1>7, <2>1
  <2>2. CASE m.t = "event"
    BY <2>2 DEF MessageBound
  <2>3. CASE Serve /\ requests[1].t # "subscribe" /\ requests[1] \in Requests /\ m \in Answers(requests[1])
    <3>1. PICK r \in Requests : r = requests[1] /\ 1 \in DOMAIN requests
      BY <2>3, Shifted DEF Serve, WireTypes
    <3>2. /\ m.t \in {"server", "error", "info"}
          /\ m.t \in {"error", "info"} => r.t \in {"name", "index"} /\ m.e = r.e
          /\ m.t = "info" => \E s \in Meant(r) : m.index = index[s]
      BY <2>3, <3>1, AnswerKinds
    <3>3. UNCHANGED <<entries, been, held>>
      BY <2>3 DEF Serve, server, cache
    <3>4. SUFFICES ASSUME m.t = "info" PROVE m.index \in {0} \cup HeldFor(entries[m.e].sink)
      BY <3>2, <3>3 DEF MessageBound, HeldFor
    <3>5. PICK s \in Meant(r) : m.index = index[s]
      BY <3>2, <3>4
    <3>6. /\ s \in Sinks /\ Present(s)
          /\ \/ r.t = "index" /\ index[s] = r.index
             \/ r.t = "name" /\ s = (IF r.sink = NoSink THEN default ELSE r.sink)
      BY DEF Meant
    <3>7. RequestBound(r) /\ m.e = r.e /\ HistoryInv
      BY <3>1, <3>2, <3>4 DEF BoundInv
    <3>8. CASE r.t = "index"
      BY <3>5, <3>6, <3>7, <3>8 DEF RequestBound
    <3>9. CASE r.t = "name"
      <4>1. s \in (IF entries[m.e].sink = NoSink THEN been ELSE {entries[m.e].sink})
        BY <3>6, <3>7, <3>9, PulseConstants DEF RequestBound, HistoryInv
      <4>2. index[s] \in held[s]
        BY <3>6, <3>7 DEF HistoryInv
      <4> QED BY <3>5, <4>1, <4>2 DEF HeldFor
    <3> QED BY <3>6, <3>8, <3>9
  <2> QED BY <1>7, <2>1, <2>2, <2>3, MessageSteps
<1> QED BY <1>1, <1>4, <1>5, <1>6, <1>7 DEF BoundInv

(* The cache never confuses sinks: an entry for a sink given by name has no
   index but those of this sink, one for the default sink only those of
   sinks that the server named, and 0 until the information comes. *)
THEOREM EntriesKeepTheirSinks == Spec => []BoundToItsSink
<1> DEFINE I == CacheInv /\ LookupInv /\ BoundInv
<1>1. Init => I
  BY CacheInvInit, LookupInvInit, BoundInit
<1>2. I /\ [Next]_vars => I'
  BY CacheInvNext, LookupInvNext, BoundNext
<1>3. I => BoundToItsSink
  BY DEF BoundInv, BoundToItsSink, EntryBound
<1> QED BY <1>1, <1>2, <1>3, PTL DEF Spec

-----------------------------------------------------------------------------
(* The list                                                                *)

LEMMA ListSteps ==
  ASSUME [Next]_vars
  PROVE  UNCHANGED <<list, tail>> \/ Free \/ \E p \in Threads : Link(p) \/ MoveTail(p)
<1>1. CASE Main
  BY <1>1, TwoThreads DEF Main, InitFails, InitStarts, InitWaits, InitEnds, FindBySink, Load, Find, Create,
                          New, Allocates, AsksFor, FindCrashes, Read, Stop, cache, queue
<1>2. CASE Pulse
  BY <1>2, TwoThreads DEF Pulse, PulseGoesOn, SinkInfoRaises, StateCallback, SubscribeCallback,
                          SinkInfoCallback, SinkInfoAfterFree, Incoming, SinkMissingCallback,
                          ServerInfoCallback, FindBySink, Load, Find, Create, New, Allocates, AsksFor,
                          ServerInfoAsks, cache, queue
<1> QED BY <1>1, <1>2 DEF Next, Change, Serve, Finished, Lookup, vars, cache, queue

(* pa_free and the end of the process are final. *)
LEMMA LiveBefore == ASSUME CacheInv, [Next]_vars, Live' PROVE Live /\ ~Free
<1> USE DEF CacheInv, TypeInv
<1>1. ~Free
  BY DEF Free, Goes, Live, PlaceTypes, Threads
<1> SUFFICES Live
  BY <1>1
<1>2. CASE Main
  BY <1>2 DEF Main, InitFails, InitStarts, InitWaits, InitEnds, FindBySink, Find, Create, New, Allocates,
              AsksFor, Load, Link, MoveTail, FindCrashes, Read, Free, Stop, Goes, Live, Final, PlaceTypes,
              Threads
<1>3. CASE Pulse
  <2>1. CASE StateCallback \/ SinkMissingCallback
    BY <2>1, SignalTypes DEF StateCallback, SinkMissingCallback, Live, Final
  <2>4. CASE SinkInfoCallback \/ SinkInfoRaises
    BY <2>4 DEF SinkInfoCallback, SinkInfoRaises, SignalMain, Live, Final, PlaceTypes, Threads
  <2>2. CASE SubscribeCallback \/ SinkInfoAfterFree \/ ServerInfoCallback
    BY <2>2 DEF SubscribeCallback, SinkInfoAfterFree, ServerInfoCallback, Live, Final, PlaceTypes, Threads
  <2>3. CASE FindBySink("pulse") \/ ServerInfoAsks
    BY <2>3 DEF FindBySink, Find, Create, New, Allocates, AsksFor, Load, Link, MoveTail, ServerInfoAsks,
                Goes, Live, PlaceTypes, Threads
  <2> QED BY <1>3, <2>1, <2>2, <2>3, <2>4 DEF Pulse, PulseGoesOn
<1>4. CASE \E w \in Wanted : Lookup(w)
  BY <1>4 DEF Lookup, Goes, Live, Final
<1>5. CASE Change \/ Serve \/ Finished \/ UNCHANGED vars
  BY <1>5 DEF Change, Serve, Finished, vars, Live
<1> QED BY <1>2, <1>3, <1>4, <1>5 DEF Next

(* What a thread has loaded changes when it loads; only who creates races. *)
LEMMA LastSteps ==
  ASSUME [Next]_vars
  PROVE  UNCHANGED <<last, raced>> \/ \E p \in Threads : Create(p) \/ Load(p)
<1>1. CASE Main
  BY <1>1, TwoThreads DEF Main, InitFails, InitStarts, InitWaits, InitEnds, FindBySink, Find, Link, MoveTail,
                          FindCrashes, Read, Free, Stop, locals
<1>2. CASE Pulse
  BY <1>2, TwoThreads DEF Pulse, PulseGoesOn, SinkInfoRaises, StateCallback, SubscribeCallback,
                          SinkInfoCallback, SinkInfoAfterFree, Incoming, SinkMissingCallback,
                          ServerInfoCallback, FindBySink, Find, Link, MoveTail, ServerInfoAsks, locals
<1> QED BY <1>1, <1>2 DEF Next, Change, Serve, Finished, Lookup, vars, locals

(* One thread's step of an insertion. *)
LEMMA InsertStep ==
  ASSUME CacheInv, NEW p \in Threads, Load(p) \/ Link(p) \/ MoveTail(p)
  PROVE  /\ \A q \in Threads \ {p} : at'[q] = at[q] /\ last'[q] = last[q]
         /\ UNCHANGED <<entries, arg, found, raced, shown, raised, default_sink>>
         /\ found[p] \in DOMAIN entries /\ found[p] # 0
         /\ Load(p) => at[p] = "load" /\ at'[p] = "link" /\ last'[p] = tail /\ UNCHANGED <<list, tail>>
         /\ Link(p) => at[p] = "link" /\ at'[p] = "tail" /\ last' = last /\ tail' = tail
         /\ MoveTail(p) => /\ at[p] = "tail" /\ at'[p] = "found" /\ last' = last
                           /\ list' = list /\ tail' = found[p]
<1> USE DEF CacheInv, TypeInv
<1>1. at[p] \in {"load", "link", "tail"}
  BY DEF Load, Link, MoveTail, Goes
<1>2. found[p] \in DOMAIN entries /\ found[p] # 0
  BY <1>1 DEF Allocated, CacheTypes
<1>3. CASE Load(p)
  BY <1>2, <1>3 DEF Load, Link, MoveTail, Goes, cache, queue, PlaceTypes, Threads
<1>4. CASE Link(p)
  BY <1>2, <1>4 DEF Load, Link, MoveTail, Goes, locals, PlaceTypes, Threads
<1>5. CASE MoveTail(p)
  BY <1>2, <1>5 DEF Load, Link, MoveTail, Goes, locals, PlaceTypes, Threads
<1> QED BY <1>3, <1>4, <1>5

LEMMA CreateStep ==
  ASSUME CacheInv, NEW p \in Threads, Create(p)
  PROVE  /\ at[p] = "find" /\ at'[p] = "load" /\ found'[p] = Len(entries) + 1 /\ ctx = "ready"
         /\ \A q \in Threads \ {p} : at'[q] = at[q] /\ found'[q] = found[q]
         /\ UNCHANGED <<list, tail, arg, last, shown, raised, default_sink, inbox, subscribed, ctx>>
         /\ DOMAIN entries' = DOMAIN entries \cup {Len(entries) + 1} /\ Len(entries) + 1 \notin DOMAIN entries
         /\ \A e \in DOMAIN entries : entries'[e] = entries[e]
         /\ entries'[Len(entries) + 1].sink = Stored(arg[p])
         /\ entries'[Len(entries) + 1].index = 0 /\ entries'[Len(entries) + 1].level = 0
         /\ WalkBySink(arg[p]) = 0 /\ raced \subseteq raced'
         /\ found'["main"] \notin raced' => ~\E q \in Threads : Inserting(q)
<1> USE DEF CacheInv, TypeInv
<1>1. at[p] = "find" /\ at'[p] = "load" /\ \A q \in Threads \ {p} : at'[q] = at[q]
  BY Moved DEF Create, Places, Final, MainPlaces, PulsePlaces
<1>2. found'[p] = Len(entries) + 1 /\ \A q \in Threads \ {p} : found'[q] = found[q]
  BY DEF Create, New, PlaceTypes
<1>3. /\ UNCHANGED <<list, tail, arg, last, shown, raised, default_sink, inbox, subscribed, ctx>>
      /\ ctx = "ready" /\ WalkBySink(arg[p]) = 0
  BY DEF Create, New, queue
<1>4. PICK x : x = [sink |-> Stored(arg[p]), index |-> 0, level |-> 0]
  OBVIOUS
<1>5. x.sink = Stored(arg[p]) /\ x.index = 0 /\ x.level = 0
  BY <1>4
<1>6. entries' = Append(entries, x)
  BY <1>4 DEF Create, Allocates
<1>7. /\ DOMAIN entries = 1..Len(entries) /\ DOMAIN entries' = 1..Len(entries) + 1 /\ Len(entries) \in Nat
      /\ \A e \in DOMAIN entries : entries'[e] = entries[e]
      /\ entries'[Len(entries) + 1] = x
  BY <1>6 DEF CacheTypes
<1>8. raced \subseteq raced' /\ (found'["main"] \notin raced' => ~\E q \in Threads : Inserting(q))
  BY DEF Create, New
<1> QED BY <1>1, <1>2, <1>3, <1>5, <1>7, <1>8

(* Where no thread makes a step of an insertion, those in one stay in it. *)
LEMMA NoInsertStep ==
  ASSUME CacheInv, [Next]_vars, Live', ~Free,
         ~\E p \in Threads : Create(p) \/ Load(p) \/ Link(p) \/ MoveTail(p)
  PROVE  /\ UNCHANGED <<list, tail, last, raced>>
         /\ \A p \in Threads : Inserting(p) \/ Inserting(p)' => at'[p] = at[p] /\ found'[p] = found[p]
<1>1. UNCHANGED <<list, tail, last, raced>>
  BY ListSteps, LastSteps
<1>2. ASSUME NEW p \in Threads, Inserting(p) \/ Inserting(p)'
      PROVE  at'[p] = at[p] /\ found'[p] = found[p]
  <2>1. CASE Find(p)
    <3>1. at[p] = "find" /\ at'[p] = "found"
      BY <2>1, Moved DEF Find, CacheInv, TypeInv, Places, Final, MainPlaces, PulsePlaces
    <3> QED BY <1>2, <3>1 DEF Inserting
  <2> QED BY <1>2, <2>1, ThreadSteps DEF Inserting, Live, Final
<1> QED BY <1>1, <1>2

LEMMA ListInvNext == ASSUME CacheInv, ListInv, [Next]_vars PROVE ListInv'
<1> SUFFICES ASSUME Live' PROVE ListInv'
  BY DEF ListInv
<1>1. Live /\ ~Free
  BY LiveBefore
<1>2. /\ tail # 0 => list # <<>>
      /\ list # <<>> => tail # 0 \/ \E p \in Threads : at[p] = "tail"
      /\ \A p \in Threads : at[p] = "tail" \/ (at[p] = "link" /\ last[p] # 0) => list # <<>>
      /\ Inserting("main") /\ found["main"] \notin raced =>
           ~Inserting("pulse") /\ (at["main"] = "link" => last["main"] = tail)
  BY <1>1 DEF ListInv
<1>3. ASSUME NEW p \in Threads, Load(p) PROVE ListInv'
  BY <1>2, <1>3, InsertStep, TwoThreads DEF ListInv, Inserting
<1>4. ASSUME NEW p \in Threads, Link(p) PROVE ListInv'
  <2>1. CacheTypes /\ found[p] \in DOMAIN entries /\ at[p] = "link"
    BY <1>4, InsertStep DEF CacheInv, TypeInv
  <2>2. list' # <<>>
    <3>1. CASE last[p] # 0 /\ list' = list
      BY <1>2, <2>1, <3>1
    <3>2. ASSUME list' \in Seq(DOMAIN entries), NEW n \in Nat, Len(list') = n + 1
          PROVE  list' # <<>>
      BY <3>2
    <3>3. \A n \in DOMAIN list : n \in Nat
      BY <2>1 DEF CacheTypes
    <3> QED BY <1>4, <2>1, <3>1, <3>2, <3>3, LinkEffect
  <2>3. Inserting("main")' /\ found'["main"] \notin raced' => p = "main" /\ ~Inserting("pulse")'
    BY <1>2, <1>4, InsertStep, TwoThreads DEF Inserting
  <2> QED BY <1>4, <2>2, <2>3, InsertStep DEF ListInv
<1>5. ASSUME NEW p \in Threads, MoveTail(p) PROVE ListInv'
  BY <1>2, <1>5, InsertStep, TwoThreads DEF ListInv, Inserting
<1>6. ASSUME NEW p \in Threads, Create(p) PROVE ListInv'
  BY <1>2, <1>6, CreateStep, TwoThreads DEF ListInv, Inserting
<1>7. CASE ~\E p \in Threads : Create(p) \/ Load(p) \/ Link(p) \/ MoveTail(p)
  <2>1. /\ UNCHANGED <<list, tail, last, raced>>
        /\ \A p \in Threads : Inserting(p) \/ Inserting(p)' => at'[p] = at[p] /\ found'[p] = found[p]
    BY <1>1, <1>7, NoInsertStep
  <2> QED BY <1>2, <2>1, TwoThreads DEF ListInv, Inserting
<1> QED BY <1>3, <1>4, <1>5, <1>6, <1>7

LEMMA ListInvInit == Init => ListInv
BY TwoThreads DEF Init, ListInv, Inserting

-----------------------------------------------------------------------------
(* What main has shown                                                     *)

(* BySinkProps of the next state. *)
LEMMA BySinkPropsNext ==
  ASSUME CacheTypes', NEW w
  PROVE  /\ WalkBySink(w)' \in 0..Len(list') /\ Len(list') \in Nat /\ DOMAIN list' = 1..Len(list')
         /\ WalkBySink(w)' = 0 => \A n \in DOMAIN list' : \A e : e = list'[n] => ~Stops(e, w)'
         /\ WalkBySink(w)' # 0 =>
              /\ WalkBySink(w)' \in DOMAIN list' /\ list'[WalkBySink(w)'] \in DOMAIN entries'
              /\ \A e : e = list'[WalkBySink(w)'] => Stops(e, w)'
              /\ \A n \in DOMAIN list' : \A e : e = list'[n] /\ Stops(e, w)' => WalkBySink(w)' <= n
<1> DEFINE I == {i \in 1..Len(list') : (w # NoSink /\ entries'[list'[i]].sink = NoSink) \/ entries'[list'[i]].sink = w}
<1>1. I \in SUBSET Nat /\ I \subseteq DOMAIN list' /\ WalkBySink(w)' = IF I # {} THEN Min(I) ELSE 0
  BY DEF WalkBySink, SelectInSeq, CacheTypes, Crashes, Matches
<1>2. /\ I = {} => WalkBySink(w)' = 0
      /\ I # {} => WalkBySink(w)' \in I /\ \A y \in I : WalkBySink(w)' <= y
  <2> HIDE DEF I
  <2> QED BY <1>1, FirstOf
<1>3. \A n \in DOMAIN list' : n \in Nat \ {0} /\ list'[n] \in DOMAIN entries'
  BY DEF CacheTypes
<1>4. DOMAIN list' = 1..Len(list') /\ Len(list') \in Nat
  BY DEF CacheTypes
<1>5. \A n \in DOMAIN list' : \A e : e = list'[n] => (n \in I <=> Stops(e, w)')
  BY <1>4 DEF Stops, Crashes, Matches
<1>6. CASE I = {}
  BY <1>2, <1>4, <1>5, <1>6
<1>7. CASE I # {}
  <2>1. PICK n : n = WalkBySink(w)'
    OBVIOUS
  <2>2. n \in I /\ \A y \in I : n <= y
    BY <1>2, <1>7, <2>1
  <2>3. n \in DOMAIN list' /\ n # 0 /\ n \in 0..Len(list')
    BY <1>1, <1>3, <1>4, <2>2
  <2>4. \A e : e = list'[n] => Stops(e, w)'
    BY <1>5, <2>2, <2>3
  <2>5. \A k \in DOMAIN list' : \A e : e = list'[k] /\ Stops(e, w)' => n <= k
    BY <1>5, <2>2
  <2> QED BY <1>3, <1>4, <2>1, <2>3, <2>4, <2>5
<1> QED BY <1>6, <1>7

(* A lookup ends where it ended as long as the list up to there is the same. *)
LEMMA WalkKept ==
  ASSUME CacheInv, CacheInv', [Next]_vars, NEW w, NEW n \in Nat, n <= Len(list), n <= Len(list'),
         \A m \in 1..n : list'[m] = list[m]
  PROVE  /\ WalkBySink(w) \in 1..n => WalkBySink(w)' = WalkBySink(w)
         /\ WalkBySink(w)' \in 1..n => WalkBySink(w)' = WalkBySink(w)
<1>1. CacheTypes /\ CacheTypes' /\ \A e \in DOMAIN entries : entries'[e].sink = entries[e].sink
  BY SinksKept DEF CacheInv, TypeInv
<1>2. /\ DOMAIN list = 1..Len(list) /\ Len(list) \in Nat /\ DOMAIN list' = 1..Len(list') /\ Len(list') \in Nat
      /\ \A m \in DOMAIN list : list[m] \in DOMAIN entries
  BY <1>1 DEF CacheTypes
<1>3. ASSUME NEW m \in 1..n, NEW e, e = list[m]
      PROVE  /\ m \in DOMAIN list /\ m \in DOMAIN list' /\ e = list'[m]
             /\ Stops(e, w)' <=> Stops(e, w)
  <2>1. m \in DOMAIN list /\ m \in DOMAIN list'
    BY <1>2
  <2> QED BY <1>1, <1>2, <1>3, <2>1 DEF Stops, Crashes, Matches
<1>4. PICK a, b : a = WalkBySink(w) /\ b = WalkBySink(w)'
  OBVIOUS
<1>5. /\ a \in 0..Len(list) /\ b \in 0..Len(list')
      /\ a = 0 => \A m \in DOMAIN list : ~Stops(list[m], w)
      /\ a # 0 => Stops(list[a], w) /\ \A m \in DOMAIN list : Stops(list[m], w) => a <= m
      /\ b = 0 => \A m \in DOMAIN list' : \A e : e = list'[m] => ~Stops(e, w)'
      /\ b # 0 => /\ \A e : e = list'[b] => Stops(e, w)'
                  /\ \A m \in DOMAIN list' : \A e : e = list'[m] /\ Stops(e, w)' => b <= m
  BY <1>1, <1>4, BySinkProps, BySinkPropsNext
<1>6. ASSUME a \in 1..n PROVE b = a
  <2>1. PICK e : e = list[a]
    OBVIOUS
  <2>2. Stops(e, w)' /\ a \in DOMAIN list' /\ e = list'[a]
    BY <1>3, <1>5, <1>6, <2>1
  <2>3. b # 0 /\ b <= a
    BY <1>5, <2>2
  <2>4. b \in 1..n
    BY <1>2, <1>5, <1>6, <2>3
  <2>5. PICK f : f = list[b]
    OBVIOUS
  <2>6. Stops(f, w) /\ b \in DOMAIN list
    BY <1>3, <1>5, <2>3, <2>4, <2>5
  <2>7. a <= b
    BY <1>5, <1>6, <2>5, <2>6
  <2> QED BY <1>2, <1>5, <2>3, <2>4, <2>7, <1>6
<1>7. ASSUME b \in 1..n PROVE b = a
  <2>1. PICK e : e = list[b]
    OBVIOUS
  <2>2. Stops(e, w) /\ b \in DOMAIN list
    BY <1>3, <1>5, <1>7, <2>1
  <2>3. a # 0 /\ a <= b
    BY <1>5, <2>1, <2>2
  <2>4. a \in 1..n
    BY <1>2, <1>5, <1>7, <2>3
  <2> QED BY <1>6, <2>4
<1> QED BY <1>4, <1>6, <1>7

LEMMA SameWalk ==
  ASSUME CacheInv, CacheInv', [Next]_vars, list' = list, NEW w
  PROVE  WalkBySink(w)' = WalkBySink(w)
<1>1. CacheTypes /\ CacheTypes'
  BY DEF CacheInv, TypeInv
<1>2. PICK k \in Nat : k = Len(list)
  BY <1>1 DEF CacheTypes
<1>3. WalkBySink(w) \in 0..k /\ WalkBySink(w)' \in 0..k
  BY <1>1, <1>2, BySinkProps, BySinkPropsNext
<1>4. /\ WalkBySink(w) \in 1..k => WalkBySink(w)' = WalkBySink(w)
      /\ WalkBySink(w)' \in 1..k => WalkBySink(w)' = WalkBySink(w)
  BY <1>2, WalkKept
<1> QED BY <1>2, <1>3, <1>4

(* What is linked leaves a lookup alone, cuts it off, or is its end. *)
LEMMA LinkWalk ==
  ASSUME CacheInv, CacheInv', NEW p \in Threads, Link(p), [Next]_vars, NEW w
  PROVE  WalkBySink(w)' # 0 =>
           \/ WalkBySink(w)' = WalkBySink(w) /\ list'[WalkBySink(w)] = list[WalkBySink(w)]
           \/ list'[WalkBySink(w)'] = found[p]
<1>1. /\ CacheTypes /\ CacheTypes' /\ found[p] \in DOMAIN entries
      /\ Len(list) \in Nat /\ DOMAIN list = 1..Len(list)
  BY InsertStep DEF CacheInv, TypeInv, CacheTypes
<1>2. PICK a, b : a = WalkBySink(w) /\ b = WalkBySink(w)'
  OBVIOUS
<1>3. b \in 0..Len(list') /\ Len(list') \in Nat
  BY <1>1, <1>2, BySinkPropsNext
<1>4. CASE list' = list
  BY <1>2, <1>4, SameWalk
<1>5. CASE Len(list') = 1 /\ list'[1] = found[p]
  BY <1>2, <1>3, <1>5
<1>6. ASSUME NEW n \in DOMAIN list, Len(list') = n + 1, list'[n + 1] = found[p],
             \A m \in 1..n : list'[m] = list[m]
      PROVE  b # 0 => (b = a /\ list'[a] = list[a]) \/ list'[b] = found[p]
  <2>1. n \in Nat /\ n <= Len(list) /\ n <= Len(list')
    BY <1>1, <1>6
  <2>2. b \in 1..n => b = a
    BY <1>2, <1>6, <2>1, WalkKept
  <2>3. b # 0 => b \in 1..n \/ b = n + 1
    BY <1>3, <1>6, <2>1
  <2> QED BY <1>6, <2>2, <2>3
<1> QED BY <1>1, <1>2, <1>4, <1>5, <1>6, LinkEffect

(* A text that is what the list says stays so, whatever is put there, as
   long as no information comes. *)
LEMMA AgreesKept ==
  ASSUME CacheInv, CacheInv', [Next]_vars, Live', SinkInfoCallback => entries' = entries,
         \A p \in Threads : Link(p) => Zeroed(found[p]),
         NEW w, NEW l, Agrees(w, l)
  PROVE  Agrees(w, l)'
<1>1. Live /\ ~Free /\ CacheTypes
  BY LiveBefore DEF CacheInv, TypeInv
<1>2. ASSUME NEW e \in DOMAIN entries PROVE entries'[e] = entries[e]
  <2>1. e \in DOMAIN entries' /\ e # Len(entries) + 1
    BY <1>1, SinksKept DEF CacheTypes
  <2> QED BY <1>1, <2>1, EntrySteps
<1>3. PICK a, b : a = WalkBySink(w) /\ b = WalkBySink(w)'
  OBVIOUS
<1>4. a # 0 => list[a] \in DOMAIN entries
  BY <1>1, <1>3, BySinkProps
<1>5. CASE b = a /\ (b # 0 => list'[b] = list[a])
  BY <1>2, <1>3, <1>4, <1>5 DEF Agrees, LevelOf, Zeroed
<1>6. ASSUME NEW p \in Threads, Link(p), b # 0, list'[b] = found[p] PROVE Agrees(w, l)'
  <2>1. Zeroed(found[p]) /\ found[p] \in DOMAIN entries
    BY <1>6, InsertStep
  <2> QED BY <1>2, <1>3, <1>6, <2>1 DEF Agrees, Zeroed
<1>7. CASE list' = list
  <2>1. b = a
    BY <1>3, <1>7, SameWalk
  <2> QED BY <1>5, <1>7, <2>1
<1>8. CASE b = 0
  BY <1>3, <1>8 DEF Agrees
<1>9. ASSUME NEW p \in Threads, Link(p), b # 0 PROVE Agrees(w, l)'
  BY <1>3, <1>5, <1>6, <1>9, LinkWalk
<1>10. list' = list \/ \E p \in Threads : Link(p)
  BY <1>1, ListSteps, InsertStep
<1> QED BY <1>7, <1>8, <1>9, <1>10

(* Which steps are about what main looks up and has shown. *)
LEMMA MainSteps ==
  ASSUME CacheInv, [Next]_vars, Live'
  PROVE  \/ FindBySink("main") \/ Read \/ SinkInfoRaises \/ \E w \in Wanted : Lookup(w)
         \/ /\ UNCHANGED <<raised, shown>>
            /\ \/ UNCHANGED <<at["main"], found["main"], arg["main"]>>
               \/ ~Looking /\ ~Looking'
<1> USE DEF CacheInv, TypeInv
<1>1. CASE Main
  <2>1. CASE FindCrashes \/ Free \/ Stop
    BY <2>1 DEF FindCrashes, Free, Stop, Goes, PlaceTypes, Threads, Live, Final
  <2>2. CASE InitFails \/ InitStarts \/ InitWaits \/ InitEnds
    BY <2>2 DEF InitFails, InitStarts, InitWaits, InitEnds, Goes, PlaceTypes, Threads, Looking, cache, locals
  <2> QED BY <1>1, <2>1, <2>2 DEF Main
<1>2. CASE Pulse
  <2>1. CASE FindBySink("pulse")
    <3>1. UNCHANGED <<raised, shown, arg>>
      BY <2>1 DEF FindBySink, Find, Create, New, Load, Link, MoveTail, cache, locals
    <3>2. at'["main"] = at["main"] /\ found'["main"] = found["main"]
      <4>1. CASE Find("pulse")
        BY <4>1, FindTypes, TwoThreads DEF Find, Goes, PlaceTypes, Threads
      <4>2. CASE Create("pulse")
        BY <4>2, CreateStep, TwoThreads
      <4>3. CASE Load("pulse") \/ Link("pulse") \/ MoveTail("pulse")
        BY <4>3, InsertStep, TwoThreads
      <4> QED BY <2>1, <4>1, <4>2, <4>3 DEF FindBySink
    <3> QED BY <3>1, <3>2
  <2>2. CASE ServerInfoAsks
    BY <2>2 DEF ServerInfoAsks, Goes, PlaceTypes, Threads, cache, locals
  <2>3. CASE ServerInfoCallback \/ SubscribeCallback
    BY <2>3, IncomingTypes DEF ServerInfoCallback, SubscribeCallback, PlaceTypes, Threads
  <2>4. CASE StateCallback
    BY <2>4, SignalTypes DEF StateCallback, Looking, cache, locals
  <2>5. CASE SinkMissingCallback
    BY <2>5, IncomingTypes, SignalTypes DEF SinkMissingCallback, Looking
  <2>6. CASE SinkInfoAfterFree
    BY <2>6, IncomingTypes DEF SinkInfoAfterFree, PlaceTypes, Threads, Live, Final
  <2>7. CASE SinkInfoCallback
    <3>1. Incoming("info") /\ raised' = raised
      BY <2>7 DEF SinkInfoCallback
    <3> QED BY <2>7, <3>1, IncomingTypes, InfoPlaces DEF Looking
  <2> QED BY <1>2, <2>1, <2>2, <2>3, <2>4, <2>5, <2>6, <2>7 DEF Pulse, PulseGoesOn
<1>3. CASE Change \/ Serve \/ Finished \/ UNCHANGED vars
  BY <1>3 DEF Change, Serve, Finished, vars, cache, locals
<1> QED BY <1>1, <1>2, <1>3 DEF Next

(* Nothing comes between the values and the signal on the loop's thread. *)
LEMMA KillStays ==
  ASSUME CacheInv, [Next]_vars, at["pulse"] = "kill", ~SinkInfoRaises
  PROVE  at'["pulse"] = "kill"
<1> USE DEF CacheInv, TypeInv
<1>1. CASE Main
  BY <1>1 DEF Main, InitFails, InitStarts, InitWaits, InitEnds, FindBySink, Find, Create, Load, Link,
              MoveTail, FindCrashes, Read, Free, Stop, Goes, PlaceTypes, Threads
<1>2. ~Pulse
  BY IncomingTypes DEF Pulse, PulseGoesOn, StateCallback, SubscribeCallback, SinkInfoCallback,
                       SinkInfoAfterFree, SinkMissingCallback, ServerInfoCallback, Dispatching, FindBySink,
                       Find, Create, Load, Link, MoveTail, ServerInfoAsks, Goes
<1>3. CASE Change \/ Serve \/ Finished \/ UNCHANGED vars
  BY <1>3 DEF Change, Serve, Finished, vars
<1>4. CASE \E w \in Wanted : Lookup(w)
  BY <1>4 DEF Lookup, Goes, PlaceTypes, Threads
<1> QED BY <1>1, <1>2, <1>3, <1>4 DEF Next

(* The callback's own entry has no information while it runs. *)
LEMMA PulseZeroed ==
  ASSUME CacheInv, CacheInv', [Next]_vars, Live', Inserting("pulse")',
         Live /\ Inserting("pulse") => Zeroed(found["pulse"])
  PROVE  Zeroed(found["pulse"])'
<1>1. Live /\ ~Free
  BY LiveBefore
<1>2. CASE Create("pulse")
  BY <1>2, CreateStep, TwoThreads DEF Zeroed
<1>3. CASE ~Create("pulse")
  <2>1. ~SinkInfoCallback
    <3>1. ASSUME SinkInfoCallback PROVE at'["pulse"] \in {"idle", "kill"}
      BY <3>1, IncomingTypes, InfoPlaces DEF SinkInfoCallback, CacheInv, TypeInv
    <3> QED BY <3>1 DEF Inserting
  <2>2. Inserting("pulse") /\ found'["pulse"] = found["pulse"]
    <3>1. ~Find("pulse")
      BY TwoThreads, Moved DEF Find, Inserting, CacheInv, TypeInv, Places, PulsePlaces
    <3>2. CASE Load("pulse") \/ Link("pulse") \/ MoveTail("pulse")
      BY <3>2, InsertStep, TwoThreads DEF Inserting
    <3> QED BY <1>3, <3>1, <3>2, ThreadSteps, TwoThreads DEF Inserting
  <2>3. found["pulse"] \in DOMAIN entries
    BY <2>2, TwoThreads DEF CacheInv, Allocated, Inserting
  <2>4. entries'[found["pulse"]] = entries[found["pulse"]]
    <3>1. found["pulse"] \in DOMAIN entries' /\ found["pulse"] # Len(entries) + 1
      BY <2>3, SinksKept DEF CacheInv, TypeInv, CacheTypes
    <3> QED BY <1>1, <2>1, <3>1, EntrySteps
  <2> QED BY <1>1, <2>2, <2>4 DEF Zeroed
<1> QED BY <1>2, <1>3

(* Main's lookup of v, and the texts for the others. *)
LEMMA LookupShown ==
  ASSUME CacheInv, CacheInv', [Next]_vars, Live, Live', NEW v \in Wanted, v = arg["main"], Looking,
         v \in raised => Wanted \subseteq raised,
         \A w \in Wanted : AnnouncedInv(w) /\ LookedUpInv(w),
         \A p \in Threads : Link(p) => Zeroed(found[p]) \/ Wanted \subseteq raised,
         FindBySink("main")
  PROVE  \A w \in Wanted : AnnouncedInv(w)' /\ LookedUpInv(w)'
<1>1. ~SinkInfoCallback /\ UNCHANGED <<raised, shown, arg>>
  <2>1. at'["pulse"] = at["pulse"]
    BY DEF FindBySink, Find, Create, Load, Link, MoveTail, Goes, CacheInv, TypeInv, PlaceTypes, Threads
  <2>2. UNCHANGED <<raised, shown, arg, inbox>>
    BY DEF FindBySink, Find, Create, New, Load, Link, MoveTail, link, wire, cache, locals
  <2>3. SinkInfoCallback => Len(inbox') = Len(inbox) - 1 /\ Len(inbox) \in Nat
    BY Shifted DEF SinkInfoCallback, Incoming, CacheInv, TypeInv, WireTypes
  <2> QED BY <2>2, <2>3
<1>2. CASE Wanted \subseteq raised
  BY <1>1, <1>2 DEF AnnouncedInv, LookedUpInv
<1> SUFFICES ASSUME ~(Wanted \subseteq raised), NEW w \in Wanted \ raised
             PROVE  AnnouncedInv(w)' /\ LookedUpInv(w)'
  BY <1>1, <1>2 DEF AnnouncedInv, LookedUpInv
<1>3. /\ \A p \in Threads : Link(p) => Zeroed(found[p])
      /\ v \notin raised /\ AnnouncedInv(w) /\ LookedUpInv(v) /\ "main" \in Threads
  BY TwoThreads
<1>4. \A l : Agrees(w, l) => Agrees(w, l)'
  BY <1>1, <1>3, AgreesKept
<1>5. Looking'
  <2>1. \/ Goes("main", "find", "found") \/ Goes("main", "find", "load") \/ Goes("main", "load", "link")
        \/ Goes("main", "link", "tail") \/ Goes("main", "tail", "found")
    BY DEF FindBySink, Find, Create, Load, Link, MoveTail
  <2> QED BY <2>1 DEF Goes, Looking, CacheInv, TypeInv, PlaceTypes, Threads
<1>6. AnnouncedInv(w)'
  BY <1>1, <1>3, <1>4, <1>5 DEF AnnouncedInv
<1>7. LookedUpInv(w)'
  <2> SUFFICES ASSUME w = v PROVE LookedUpInv(w)'
    BY <1>1 DEF LookedUpInv
  <2>1. CASE Find("main")
    <3>1. at'["main"] = "found" /\ found'["main"] = list[WalkBySink(v)]
      <4>1. found'["main"] = list[WalkBySink(v)]
        BY <2>1, FindTypes, TwoThreads
      <4> QED BY <2>1, <4>1 DEF Find, Goes, CacheInv, TypeInv, PlaceTypes, Threads
    <3>2. UNCHANGED <<entries, list>> /\ WalkBySink(v)' = WalkBySink(v)
      BY <2>1, SameWalk DEF Find, cache, queue
    <3> QED BY <3>1, <3>2 DEF LookedUpInv, Inserting, Agrees, LevelOf
  <2>2. CASE Create("main")
    <3>1. /\ at'["main"] = "load" /\ found'["main"] = Len(entries) + 1 /\ WalkBySink(v) = 0 /\ list' = list
          /\ entries'[Len(entries) + 1].index = 0 /\ entries'[Len(entries) + 1].level = 0
      BY <2>2, <1>3, CreateStep
    <3>2. WalkBySink(v)' = 0
      BY <3>1, SameWalk
    <3> QED BY <3>1, <3>2 DEF LookedUpInv, Inserting, Agrees, Zeroed
  <2>3. CASE Load("main") \/ Link("main") \/ MoveTail("main")
    <3>1. /\ UNCHANGED <<entries, found>> /\ at["main"] \in {"load", "link", "tail"}
          /\ at'["main"] \in {"link", "tail", "found"}
      BY <2>3, <1>3, InsertStep
    <3>2. Zeroed(found["main"]) /\ Agrees(w, 0)
      BY <1>3, <3>1 DEF LookedUpInv, Inserting, Looking
    <3>3. Zeroed(found["main"])' /\ Agrees(w, 0)'
      BY <1>4, <3>1, <3>2 DEF Zeroed
    <3> QED BY <3>1, <3>3 DEF LookedUpInv, Inserting, Zeroed
  <2> QED BY <2>1, <2>2, <2>3 DEF FindBySink
<1> QED BY <1>6, <1>7

LEMMA ShownInvNext == ASSUME CacheInv, CacheInv', ShownInv, [Next]_vars PROVE ShownInv'
<1> SUFFICES ASSUME Live' PROVE ShownInv'
  <2>1. Looking => Live
    BY DEF Looking, Live, Final
  <2>2. ~Live' => ~Looking'
    BY DEF Looking, Live, Final
  <2> QED BY <2>1, <2>2 DEF ShownInv
<1>1. Live /\ ~Free
  BY LiveBefore
<1>2. Looking => arg["main"] \in Wanted
  BY DEF ShownInv
<1>3. Inserting("pulse")' => Zeroed(found["pulse"])'
  BY PulseZeroed DEF ShownInv
<1>4. CASE SinkInfoRaises
  <2>1. raised' = Wanted /\ arg' = arg /\ (Looking' => Looking)
    BY <1>4 DEF SinkInfoRaises, locals, Looking, CacheInv, TypeInv, PlaceTypes, Threads
  <2> QED BY <1>2, <1>3, <2>1 DEF ShownInv, AnnouncedInv, LookedUpInv
<1>5. ASSUME at["pulse"] = "kill", ~SinkInfoRaises
      PROVE  at'["pulse"] = "kill"
  BY <1>5, KillStays
<1>6. ASSUME at["pulse"] # "kill"
      PROVE  /\ Looking /\ arg["main"] \in raised => Wanted \subseteq raised
             /\ \A w \in Wanted : AnnouncedInv(w) /\ LookedUpInv(w)
  BY <1>1, <1>6 DEF ShownInv
<1>7. ASSUME NEW p \in Threads, Link(p), at["pulse"] # "kill" PROVE Zeroed(found[p]) \/ Wanted \subseteq raised
  <2>1. Inserting(p)
    BY <1>7, InsertStep DEF Inserting
  <2>2. CASE p = "pulse"
    BY <1>1, <2>1, <2>2 DEF ShownInv
  <2>3. CASE p = "main"
    <3>1. Looking
      BY <2>1, <2>3 DEF Inserting, Looking
    <3> QED BY <1>2, <1>6, <1>7, <2>1, <2>3, <3>1 DEF LookedUpInv
  <2> QED BY <2>2, <2>3, TwoThreads
<1>8. CASE FindBySink("main")
  <2>1. /\ UNCHANGED <<raised, arg>> /\ at'["pulse"] = at["pulse"] /\ Looking
    BY <1>8 DEF FindBySink, Find, Create, New, Load, Link, MoveTail, Goes, cache, locals, Looking,
                CacheInv, TypeInv, PlaceTypes, Threads
  <2>2. at["pulse"] # "kill" => \A w \in Wanted : AnnouncedInv(w)' /\ LookedUpInv(w)'
    BY <1>1, <1>2, <1>6, <1>7, <1>8, <2>1, LookupShown
  <2> QED BY <1>2, <1>3, <1>6, <2>1, <2>2 DEF ShownInv
<1>9. ASSUME NEW w \in Wanted, NEW l, Agrees(w, l), at["pulse"] # "kill", at'["pulse"] # "kill",
             ~(Wanted \subseteq raised)
      PROVE  Agrees(w, l)'
  <2>1. SinkInfoCallback => entries' = entries
    BY <1>9, InfoPlaces, IncomingTypes DEF SinkInfoCallback, CacheInv, TypeInv
  <2> QED BY <1>7, <1>9, <2>1, AgreesKept
<1>10. CASE Read
  <2>1. /\ at["main"] = "found" /\ at'["main"] = "idle" /\ at'["pulse"] = at["pulse"] /\ raised' = raised
        /\ \A w \in Wanted : shown'[w] = IF w = arg["main"] THEN entries[found["main"]].level ELSE shown[w]
    BY <1>10 DEF Read, Goes, cache, CacheInv, TypeInv, PlaceTypes, Threads
  <2>2. ASSUME NEW w \in Wanted, at["pulse"] # "kill" PROVE AnnouncedInv(w)' /\ LookedUpInv(w)'
    BY <1>6, <1>9, <2>1, <2>2 DEF AnnouncedInv, LookedUpInv, Looking
  <2> QED BY <1>3, <2>1, <2>2 DEF ShownInv, Looking
<1>11. ASSUME NEW v \in Wanted, Lookup(v) PROVE ShownInv'
  <2>1. /\ at["main"] = "idle" /\ at'["main"] = "find" /\ at'["pulse"] = at["pulse"] /\ arg'["main"] = v
        /\ raised' = raised \ {v} /\ shown' = shown
    BY <1>11 DEF Lookup, Goes, CacheInv, TypeInv, PlaceTypes, Threads
  <2>2. UNCHANGED <<list, entries>>
    BY <1>11 DEF Lookup, queue
  <2>3. ASSUME NEW w \in Wanted, at["pulse"] # "kill" PROVE AnnouncedInv(w)' /\ LookedUpInv(w)'
    <3>1. \A l : Agrees(w, l) => Agrees(w, l)'
      <4>1. WalkBySink(w)' = WalkBySink(w)
        BY <2>2, SameWalk
      <4> QED BY <2>2, <4>1 DEF Agrees, LevelOf, Zeroed
    <3> QED BY <1>6, <2>1, <2>3, <3>1 DEF AnnouncedInv, LookedUpInv, Looking, Inserting
  <2> QED BY <1>3, <2>1, <2>3 DEF ShownInv, Looking
<1>12. CASE /\ UNCHANGED <<raised, shown>>
            /\ \/ UNCHANGED <<at["main"], found["main"], arg["main"]>>
               \/ ~Looking /\ ~Looking'
  <2>1. Looking \/ Looking' => Looking /\ UNCHANGED <<at["main"], found["main"], arg["main"]>>
    BY <1>12 DEF Looking
  <2>2. ASSUME NEW w \in Wanted, at["pulse"] # "kill", at'["pulse"] # "kill", ~(Wanted \subseteq raised)
        PROVE  AnnouncedInv(w)' /\ LookedUpInv(w)'
    <3>1. AnnouncedInv(w) /\ LookedUpInv(w)
      BY <1>6, <2>2
    <3>2. \A l : Agrees(w, l) => Agrees(w, l)'
      BY <1>9, <2>2
    <3>3. AnnouncedInv(w)'
      <4>1. Looking' /\ w = arg'["main"] <=> Looking /\ w = arg["main"]
        BY <2>1 DEF Looking
      <4>2. shown' = shown /\ raised' = raised
        BY <1>12
      <4> QED BY <3>1, <3>2, <4>1, <4>2 DEF AnnouncedInv
    <3>4. ASSUME Looking', w = arg'["main"], w \notin raised' PROVE LookedUpInv(w)'
      <4>1. Looking /\ w = arg["main"] /\ w \notin raised /\ found'["main"] = found["main"]
            /\ at'["main"] = at["main"]
        BY <1>12, <2>1, <3>4
      <4>2. ASSUME at["main"] \in {"load", "link", "tail", "found"}
            PROVE  entries'[found["main"]] = entries[found["main"]]
        <5>1. found["main"] \in DOMAIN entries
          BY <4>2, TwoThreads DEF CacheInv, Allocated
        <5>2. found["main"] \in DOMAIN entries' /\ found["main"] # Len(entries) + 1
          BY <5>1, SinksKept DEF CacheInv, TypeInv, CacheTypes
        <5>3. SinkInfoCallback => entries' = entries
          BY <2>2, InfoPlaces, IncomingTypes DEF SinkInfoCallback, CacheInv, TypeInv
        <5> QED BY <1>1, <5>2, <5>3, EntrySteps
      <4> QED BY <3>1, <3>2, <4>1, <4>2 DEF LookedUpInv, Inserting, Zeroed
    <3> QED BY <3>3, <3>4 DEF LookedUpInv
  <2>3. ASSUME Wanted \subseteq raised, NEW w \in Wanted PROVE AnnouncedInv(w)' /\ LookedUpInv(w)'
    BY <1>12, <2>3 DEF AnnouncedInv, LookedUpInv
  <2>4. at'["pulse"] # "kill" => at["pulse"] # "kill" \/ SinkInfoRaises
    BY <1>5
  <2> QED BY <1>2, <1>3, <1>4, <1>6, <1>12, <2>1, <2>2, <2>3, <2>4 DEF ShownInv
<1> QED BY <1>4, <1>8, <1>10, <1>11, <1>12, MainSteps

LEMMA ShownInvInit == Init => ShownInv
<1> SUFFICES ASSUME Init PROVE ShownInv
  OBVIOUS
<1>1. /\ \A w \in Wanted : shown[w] = Unseen
      /\ at["main"] = "init" /\ at["pulse"] = "idle"
  BY DEF Init
<1> QED BY <1>1 DEF ShownInv, AnnouncedInv, LookedUpInv, Looking, Inserting

(* A text that is not what the list says has been announced since main
   began the lookup behind it: whatever the two threads create, link and
   lose at the same time, a lookup's result changes by a new entry or by
   information, and information raises PA_SIGNAL once it is stored. *)
THEOREM ShownTextsHold == Spec => []ShownOrRaised
<1> DEFINE I == CacheInv /\ ShownInv
<1>1. Init => I
  BY CacheInvInit, ShownInvInit
<1>2. I /\ [Next]_vars => I'
  BY CacheInvNext, ShownInvNext
<1>3. I => ShownOrRaised
  <2> SUFFICES ASSUME I, at["main"] = "idle", at["pulse"] # "kill",
                      NEW w \in Wanted \ raised, shown[w] # Unseen, NEW n, n = WalkBySink(w), n # 0
               PROVE  shown[w] = entries[list[n]].level \/ Zeroed(list[n])
    BY DEF ShownOrRaised
  <2>1. AnnouncedInv(w) /\ ~Looking
    BY DEF ShownInv, Live, Final, Looking
  <2> QED BY <2>1 DEF AnnouncedInv, Agrees, LevelOf
<1> QED BY <1>1, <1>2, <1>3, PTL DEF Spec

-----------------------------------------------------------------------------
(* What comes first                                                        *)

Dispatches ==
  SubscribeCallback \/ SinkInfoCallback \/ SinkInfoAfterFree \/ SinkMissingCallback \/ ServerInfoCallback

LEMMA WireSteps ==
  ASSUME [Next]_vars
  PROVE  \/ UNCHANGED <<requests, inbox, subscribed, ctx, default_sink>>
         \/ InitStarts \/ InitEnds \/ StateCallback \/ Change \/ Serve \/ ServerInfoAsks \/ Dispatches
         \/ \E p \in Threads : Create(p)
<1>1. CASE Main
  BY <1>1, TwoThreads DEF Main, InitFails, InitWaits, FindBySink, Find, Load, Link, MoveTail, FindCrashes,
                          Read, Free, Stop, cache, link, wire
<1>2. CASE Pulse
  BY <1>2, TwoThreads DEF Pulse, PulseGoesOn, SinkInfoRaises, Dispatches, FindBySink, Find, Load, Link,
                          MoveTail, cache, link, wire
<1> QED BY <1>1, <1>2 DEF Next, Finished, Lookup, vars, cache, link, wire

(* The places of main and of the callbacks that a step may change. *)
LEMMA DispatchEffect ==
  ASSUME CacheInv, Dispatches
  PROVE  /\ inbox # <<>> /\ 1 \in DOMAIN inbox /\ inbox[1] \in Messages
         /\ inbox' = Tail(inbox) /\ at["pulse"] = "idle"
         /\ DOMAIN inbox = 1..Len(inbox) /\ Len(inbox) \in Nat /\ DOMAIN inbox' = 1..Len(inbox) - 1
         /\ \A n \in DOMAIN inbox' : n + 1 \in DOMAIN inbox /\ inbox'[n] = inbox[n + 1]
         /\ UNCHANGED <<index, level, default, subscribed, ctx, list, tail, arg, found, last, raced, shown>>
         /\ ServerInfoCallback => /\ inbox[1].t = "server" /\ default_sink' = inbox[1].name
                                  /\ default_sink' \in Sinks
                                  /\ at'["pulse"] = IF default_sink' = default_sink THEN "idle" ELSE "find"
         /\ ~ServerInfoCallback => default_sink' = default_sink /\ at'["pulse"] \in {"idle", "kill"}
         /\ ~SinkInfoCallback => at'["pulse"] # "kill"
         /\ ~SubscribeCallback => requests' = requests /\ inbox[1].t # "event"
         /\ SubscribeCallback => inbox[1].t = "event"
         /\ ~SinkInfoCallback => entries' = entries
         /\ SinkInfoCallback \/ SinkInfoAfterFree => inbox[1].t = "info"
         /\ SinkMissingCallback => inbox[1].t = "error"
         /\ Live' => \/ at'["main"] = at["main"]
                     \/ at["main"] = "blocked" /\ at'["main"] = "woken"
<1>1. PICK type : /\ Incoming(type) /\ type = (IF SubscribeCallback THEN "event" ELSE
                                                IF ServerInfoCallback THEN "server" ELSE
                                                IF SinkMissingCallback THEN "error" ELSE "info")
  BY IncomingTypes DEF Dispatches, SubscribeCallback, SinkInfoCallback, SinkInfoAfterFree,
                       SinkMissingCallback, ServerInfoCallback
<1>2. /\ inbox[1] = Head(inbox) /\ 1 \in DOMAIN inbox /\ inbox[1] \in Messages /\ inbox[1].t = type
      /\ at["pulse"] = "idle" /\ inbox' = Tail(inbox)
      /\ UNCHANGED <<index, level, default, subscribed, ctx, list, tail, arg, found, last, raced, shown>>
      /\ \A n \in DOMAIN inbox' : n + 1 \in DOMAIN inbox /\ inbox'[n] = inbox[n + 1]
  BY <1>1, IncomingTypes
<1>3. inbox # <<>> /\ DOMAIN inbox = 1..Len(inbox) /\ Len(inbox) \in Nat /\ DOMAIN inbox' = 1..Len(inbox) - 1
  BY <1>1, <1>2, Shifted DEF CacheInv, TypeInv, WireTypes, Incoming
<1>4. PlaceTypes
  BY DEF CacheInv, TypeInv
<1>5. CASE SubscribeCallback
  BY <1>1, <1>2, <1>3, <1>4, <1>5, IncomingTypes
     DEF SubscribeCallback, SinkInfoCallback, SinkInfoAfterFree, SinkMissingCallback, ServerInfoCallback
<1>6. CASE SinkInfoCallback
  <2>1. Incoming("info") /\ UNCHANGED <<requests, default_sink>>
    BY <1>6 DEF SinkInfoCallback
  <2>2. inbox[1].t = "info" /\ ~ServerInfoCallback /\ ~SubscribeCallback /\ ~SinkMissingCallback
    BY <2>1, IncomingTypes DEF SubscribeCallback, SinkMissingCallback, ServerInfoCallback
  <2> QED BY <1>2, <1>3, <1>4, <1>6, <2>1, <2>2, InfoPlaces
<1>7. CASE SinkInfoAfterFree /\ ~SinkInfoCallback
  <2>1. Incoming("info") /\ UNCHANGED <<requests, default_sink, entries>>
    BY <1>7 DEF SinkInfoAfterFree
  <2>2. inbox[1].t = "info" /\ ~ServerInfoCallback /\ ~SubscribeCallback /\ ~SinkMissingCallback
    BY <2>1, IncomingTypes DEF SubscribeCallback, SinkMissingCallback, ServerInfoCallback
  <2>3. at'["pulse"] = "idle" /\ (Live' => at'["main"] = at["main"])
    BY <1>2, <1>4, <1>7 DEF SinkInfoAfterFree, PlaceTypes, Threads, Live, Final
  <2> QED BY <1>2, <1>3, <1>4, <1>7, <2>1, <2>2, <2>3
<1>8. CASE SinkMissingCallback
  <2>1. Incoming("error") /\ UNCHANGED <<requests, default_sink, entries>> /\ SignalMain
    BY <1>8 DEF SinkMissingCallback
  <2>2. inbox[1].t = "error" /\ ~ServerInfoCallback /\ ~SubscribeCallback /\ ~SinkInfoCallback /\ ~SinkInfoAfterFree
    BY <2>1, IncomingTypes DEF SubscribeCallback, SinkInfoCallback, SinkInfoAfterFree, ServerInfoCallback
  <2> QED BY <1>2, <1>3, <1>4, <1>8, <2>1, <2>2, SignalTypes
<1>9. CASE ServerInfoCallback
  <2>1. /\ Incoming("server") /\ UNCHANGED <<requests, entries>> /\ default_sink' = inbox[1].name
        /\ at'["pulse"] = IF default_sink' = default_sink THEN "idle" ELSE "find"
        /\ at'["main"] = at["main"]
    BY <1>2, <1>4, <1>9 DEF ServerInfoCallback, PlaceTypes, Threads
  <2>2. inbox[1].t = "server" /\ ~SubscribeCallback /\ ~SinkMissingCallback /\ ~SinkInfoCallback /\ ~SinkInfoAfterFree
    BY <2>1, IncomingTypes DEF SubscribeCallback, SinkInfoCallback, SinkInfoAfterFree, SinkMissingCallback
  <2>3. default_sink' \in Sinks
    BY <1>2, <2>1, <2>2, MessageKinds
  <2> QED BY <1>2, <1>3, <1>4, <1>9, <2>1, <2>2, <2>3
<1> QED BY <1>5, <1>6, <1>7, <1>8, <1>9 DEF Dispatches

(* Information about a sink comes when the default sink is known. *)
LEMMA InfoKnown ==
  ASSUME CacheInv, ctx = "ready", AnswersInv, SinkInfoCallback
  PROVE  default_sink # NoSink
<1>1. inbox[1].t = "info"
  BY InfoEffect
<1>2. 1 \in DOMAIN inbox /\ \A i \in DOMAIN inbox : 1 \in 1..i
  BY InfoEffect, IncomingTypes DEF CacheInv, TypeInv, WireTypes
<1>3. ~ServerFirst
  BY <1>1, <1>2 DEF ServerFirst
<1> QED BY <1>3 DEF AnswersInv

LEMMA ConnectionInvNext ==
  ASSUME CacheInv, ConnectionInv, AnswersInv, [Next]_vars
  PROVE  ConnectionInv'
<1>1. PlaceTypes /\ CacheTypes
  BY DEF CacheInv, TypeInv
<1>2. at'["main"] = "init" => at["main"] = "init"
  <2>1. CASE Main
    BY <1>1, <2>1 DEF Main, InitFails, InitStarts, InitWaits, InitEnds, FindBySink, Find, Create, New,
                      Allocates, AsksFor, Load, Link, MoveTail, FindCrashes, Read, Free, Stop, Goes,
                      PlaceTypes, Threads
  <2>2. CASE StateCallback \/ SinkMissingCallback
    BY <1>1, <2>2, SignalTypes DEF StateCallback, SinkMissingCallback
  <2>7. CASE SinkInfoCallback
    BY <1>1, <2>7, InfoPlaces DEF SinkInfoCallback, Incoming, Dispatching
  <2>3. CASE SubscribeCallback \/ SinkInfoAfterFree \/ ServerInfoCallback
    BY <1>1, <2>3 DEF SubscribeCallback, SinkInfoAfterFree, ServerInfoCallback, PlaceTypes, Threads
  <2>4. CASE PulseGoesOn
    BY <1>1, <2>4 DEF PulseGoesOn, SinkInfoRaises, FindBySink, Find, Create, New, Allocates, AsksFor, Load,
                      Link, MoveTail, ServerInfoAsks, Goes, PlaceTypes, Threads
  <2>5. CASE \E w \in Wanted : Lookup(w)
    BY <1>1, <2>5 DEF Lookup, Goes, PlaceTypes, Threads
  <2>6. CASE Change \/ Serve \/ Finished \/ UNCHANGED vars
    BY <2>6 DEF Change, Serve, Finished, vars
  <2> QED BY <2>1, <2>2, <2>3, <2>4, <2>5, <2>6, <2>7 DEF Next, Pulse
<1>3. CASE ctx = "ready"
  <2>1. at["main"] # "init"
    BY <1>3 DEF ConnectionInv
  <2>2. CASE StateCallback
    <3>1. /\ ctx' = "failed" /\ requests' = <<>> /\ inbox' = <<>> /\ subscribed' = FALSE
          /\ at["pulse"] = "idle" /\ SignalMain
      BY <1>3, <2>2 DEF StateCallback, Dispatching
    <3>2. at'["pulse"] = "idle"
      BY <1>1, <3>1, SignalTypes
    <3> QED BY <1>2, <2>1, <3>1, <3>2 DEF ConnectionInv, Silent
  <2>3. CASE ~StateCallback
    <3>1. ctx' = "ready"
      <4>1. ~InitStarts
        BY <2>1 DEF InitStarts, Goes
      <4>2. CASE InitEnds
        BY <1>3, <4>2 DEF InitEnds
      <4>3. CASE Dispatches
        BY <1>3, <4>3, DispatchEffect
      <4> QED BY <1>3, <2>3, <4>1, <4>2, <4>3, WireSteps
                 DEF Change, Serve, ServerInfoAsks, Create, New, Allocates, AsksFor
    <3>2. at'["pulse"] # "idle" => default_sink' # NoSink
      <4>1. CASE ServerInfoCallback
        BY <4>1, DispatchEffect, PulseConstants DEF Dispatches
      <4>2. CASE Dispatches /\ ~ServerInfoCallback
        BY <1>3, <4>2, DispatchEffect, InfoKnown
      <4>3. CASE ~Dispatches
        <5>1. default_sink' = default_sink
          BY <2>3, <4>3, WireSteps DEF InitStarts, InitEnds, Change, Serve, ServerInfoAsks, Create, New,
                                       Allocates, AsksFor, cache
        <5>2. at["pulse"] = "idle" => at'["pulse"] = "idle"
          <6>1. ASSUME at["pulse"] = "idle" PROVE ~PulseGoesOn
            BY <6>1 DEF PulseGoesOn, SinkInfoRaises, FindBySink, Find, Create, New, Load, Link, MoveTail,
                        ServerInfoAsks, Goes
          <6>2. CASE Main
            BY <1>1, <6>2 DEF Main, InitFails, InitStarts, InitWaits, InitEnds, FindBySink, Find, Create,
                              New, Allocates, AsksFor, Load, Link, MoveTail, FindCrashes, Read, Free, Stop,
                              Goes, PlaceTypes, Threads
          <6>3. CASE \E w \in Wanted : Lookup(w)
            BY <1>1, <6>3 DEF Lookup, Goes, PlaceTypes, Threads
          <6>4. CASE Change \/ Serve \/ Finished \/ UNCHANGED vars
            BY <6>4 DEF Change, Serve, Finished, vars
          <6> QED BY <2>3, <4>3, <6>1, <6>2, <6>3, <6>4 DEF Next, Pulse, Dispatches
        <5> QED BY <5>1, <5>2 DEF ConnectionInv
      <4> QED BY <4>1, <4>2, <4>3
    <3> QED BY <1>2, <2>1, <3>1, <3>2 DEF ConnectionInv
  <2> QED BY <2>2, <2>3
<1>4. CASE ctx # "ready"
  <2>1. Silent /\ at["pulse"] = "idle"
    BY <1>4 DEF ConnectionInv
  <2>2. /\ ~Serve /\ ~Dispatches /\ ~ServerInfoAsks /\ ~FindBySink("pulse")
        /\ \A p \in Threads : ~Create(p)
    <3>1. ~Serve /\ ~ServerInfoAsks
      BY <2>1 DEF Silent, Serve, ServerInfoAsks, Goes
    <3>2. ~Dispatches
      BY <2>1, DispatchEffect DEF Silent
    <3>3. ~FindBySink("pulse")
      BY <2>1 DEF FindBySink, Find, Create, New, Allocates, AsksFor, Load, Link, MoveTail, Goes
    <3>4. \A p \in Threads : ~Create(p)
      BY <1>4 DEF Create, New, Allocates, AsksFor
    <3> QED BY <3>1, <3>2, <3>3, <3>4
  <2>3. CASE StateCallback
    <3>1. /\ ctx' \in {"ready", "failed"} /\ (ctx' # "ready" => Silent') /\ SignalMain
          /\ ctx = "connecting" \/ ctx' = "failed"
      BY <1>4, <2>3 DEF StateCallback, Silent
    <3>2. at'["pulse"] = "idle"
      BY <1>1, <2>1, <3>1, SignalTypes
    <3>3. at["main"] # "init"
      BY <2>3 DEF StateCallback, Dispatching, HoldsLock
    <3> QED BY <1>2, <3>1, <3>2, <3>3 DEF ConnectionInv
  <2>4. CASE ~StateCallback
    <3>1. at'["pulse"] = "idle"
      <4>1. CASE Main
        BY <1>1, <2>1, <4>1 DEF Main, InitFails, InitStarts, InitWaits, InitEnds, FindBySink, Find, Create,
                                New, Allocates, AsksFor, Load, Link, MoveTail, FindCrashes, Read, Free, Stop,
                                Goes, PlaceTypes, Threads
      <4>2. CASE \E w \in Wanted : Lookup(w)
        BY <1>1, <2>1, <4>2 DEF Lookup, Goes, PlaceTypes, Threads
      <4>3. CASE Change \/ Finished \/ UNCHANGED vars
        BY <2>1, <4>3 DEF Change, Finished, vars
      <4>4. ~SinkInfoRaises
        BY <2>1 DEF SinkInfoRaises
      <4> QED BY <2>2, <2>4, <4>1, <4>2, <4>3, <4>4 DEF Next, Pulse, PulseGoesOn, Dispatches
    <3>2. Silent'
      <4>1. CASE Change
        <5>1. requests' = requests /\ subscribed' = subscribed
          BY <4>1 DEF Change
        <5>2. inbox' = inbox
          BY <2>1, <4>1 DEF Change, ChangeSink, ChangeDefault, Unplug, Plug, Notify, Silent
        <5> QED BY <2>1, <5>1, <5>2 DEF Silent
      <4>2. CASE InitStarts \/ InitEnds \/ UNCHANGED <<requests, inbox, subscribed, ctx, default_sink>>
        BY <2>1, <4>2 DEF InitStarts, InitEnds, wire, Silent
      <4> QED BY <2>2, <2>4, <4>1, <4>2, WireSteps
    <3>3. ASSUME at'["main"] = "init" \/ ctx' = "connecting" PROVE Empty /\ (ctx' = ctx \/ at'["main"] # "init")
      <4>1. CASE InitStarts
        BY <1>1, <4>1 DEF InitStarts, Goes, ConnectionInv, PlaceTypes, Threads
      <4>2. CASE InitEnds
        BY <1>1, <1>2, <1>4, <3>3, <4>2 DEF InitEnds, Goes, ConnectionInv, PlaceTypes, Threads
      <4>3. CASE ~InitStarts /\ ~InitEnds
        <5>1. ctx' = ctx
          BY <2>2, <2>4, <4>3, WireSteps DEF Change
        <5> QED BY <1>2, <3>3, <5>1 DEF ConnectionInv
      <4> QED BY <4>1, <4>2, <4>3
    <3>4. ASSUME Empty PROVE Empty'
      <4>1. default_sink' = default_sink
        BY <2>2, <2>4, WireSteps DEF InitStarts, InitEnds, Change, cache
      <4>2. entries = <<>> /\ list = <<>> /\ tail = 0 /\ default_sink = NoSink
        BY <3>4 DEF Empty
      <4>3. DOMAIN entries = {} /\ DOMAIN list = {}
        BY <4>2
      <4>4. ~Link("main") /\ ~MoveTail("main") /\ ~Link("pulse") /\ ~MoveTail("pulse")
        BY <4>3, InsertStep, TwoThreads
      <4>5. entries' = <<>>
        <5>1. CASE Free
          <6>1. entries' \in Seq(Entry) /\ Len(entries') = 0
            BY <4>2, <5>1, FreeEffect
          <6> QED BY <6>1
        <5>2. CASE ~Free
          <6>1. \A e \in DOMAIN entries' : FALSE
            BY <2>2, <4>3, <5>2, EntrySteps DEF Dispatches
          <6>2. entries' \in Seq(Entry)
            BY CacheInvNext DEF CacheInv, TypeInv, CacheTypes
          <6>3. DOMAIN entries' = {}
            BY <6>1
          <6>4. ASSUME NEW z \in Seq(Entry), DOMAIN z = {} PROVE z = <<>>
            BY <6>4
          <6> QED BY <6>2, <6>3, <6>4
        <5> QED BY <5>1, <5>2
      <4>6. list' = <<>> /\ tail' = 0
        BY <4>2, <4>4, ListSteps, TwoThreads DEF Free
      <4> QED BY <3>1, <4>1, <4>2, <4>5, <4>6 DEF Empty
    <3>5. at'["main"] = "init" => ctx' = "none"
      BY <1>2, <3>3 DEF ConnectionInv
    <3> QED BY <3>1, <3>2, <3>3, <3>4, <3>5 DEF ConnectionInv
  <2> QED BY <2>3, <2>4
<1> QED BY <1>3, <1>4

Prolongs(t, s) == DOMAIN s \subseteq DOMAIN t /\ \A n \in DOMAIN s : t[n] = s[n]

LEMMA AppendProlongs ==
  ASSUME NEW S, NEW s \in Seq(S), NEW x
  PROVE  /\ Prolongs(Append(s, x), s) /\ DOMAIN Append(s, x) = 1..Len(s) + 1 /\ DOMAIN s = 1..Len(s)
         /\ Len(s) \in Nat /\ Append(s, x)[Len(s) + 1] = x
         /\ \A n \in DOMAIN Append(s, x) : n \in DOMAIN s \/ n = Len(s) + 1
BY DEF Prolongs

LEMMA ServerFirstProlonged ==
  ASSUME WireTypes, ServerFirst, Prolongs(requests', requests), Prolongs(inbox', inbox),
         \A n \in DOMAIN inbox' : n \in DOMAIN inbox \/ inbox'[n].t = "event"
  PROVE  ServerFirst'
<1>1. DOMAIN requests = 1..Len(requests) /\ DOMAIN inbox = 1..Len(inbox) /\ Len(requests) \in Nat /\ Len(inbox) \in Nat
  BY DEF WireTypes
<1>2. ASSUME NEW i \in DOMAIN inbox, inbox[i].t = "server", \A j \in 1..i : inbox[j].t \in {"server", "event"}
      PROVE  ServerFirst'
  <2>1. \A j \in 1..i : j \in DOMAIN inbox
    BY <1>1
  <2> QED BY <1>2, <2>1 DEF ServerFirst, Prolongs
<1>3. ASSUME \A j \in DOMAIN inbox : inbox[j].t = "event",
             NEW i \in DOMAIN requests, requests[i].t = "server",
             \A j \in 1..i : requests[j].t \in {"subscribe", "server"}
      PROVE  ServerFirst'
  <2>1. \A j \in 1..i : j \in DOMAIN requests
    BY <1>1
  <2> QED BY <1>3, <2>1 DEF ServerFirst, Prolongs
<1> QED BY <1>2, <1>3 DEF ServerFirst

(* The server answers what was asked first. *)
LEMMA ServeEffect ==
  ASSUME CacheInv, Serve
  PROVE  /\ requests # <<>> /\ requests[1] \in Requests /\ 1 \in DOMAIN requests
         /\ \A n \in DOMAIN requests \ {1} : n - 1 \in DOMAIN requests' /\ requests'[n - 1] = requests[n]
         /\ DOMAIN requests' = 1..Len(requests) - 1 /\ DOMAIN requests = 1..Len(requests) /\ Len(requests) \in Nat
         /\ UNCHANGED <<index, level, default, ctx, entries, list, tail, default_sink, at, arg, found>>
         /\ \/ requests[1].t = "subscribe" /\ subscribed' = TRUE /\ inbox' = inbox
            \/ /\ requests[1].t # "subscribe" /\ subscribed' = subscribed
               /\ \E a \in Answers(requests[1]) : inbox' = Append(inbox, a)
<1>1. /\ requests[1] = Head(requests) /\ requests # <<>> /\ requests[1] \in Requests /\ 1 \in DOMAIN requests
      /\ requests' = Tail(requests)
      /\ DOMAIN requests' = 1..Len(requests) - 1 /\ DOMAIN requests = 1..Len(requests) /\ Len(requests) \in Nat
  BY Shifted DEF Serve, CacheInv, TypeInv, WireTypes
<1>2. \A n \in DOMAIN requests \ {1} : n - 1 \in DOMAIN requests' /\ requests'[n - 1] = requests[n]
  <2>1. \A k \in DOMAIN requests' : requests'[k] = requests[k + 1]
    BY <1>1, Shifted DEF CacheInv, TypeInv, WireTypes
  <2>2. ASSUME NEW n \in DOMAIN requests \ {1}
        PROVE  n - 1 \in DOMAIN requests' /\ requests'[n - 1] = requests[n]
    <3>1. n - 1 \in DOMAIN requests' /\ (n - 1) + 1 = n
      BY <1>1
    <3> QED BY <2>1, <3>1
  <2> QED BY <2>2
<1>3. PICK r : r = requests[1] /\ r = Head(requests)
  BY <1>1
<1>4. UNCHANGED <<index, level, default, ctx, entries, list, tail, default_sink, at, arg, found>>
  BY DEF Serve, server, cache, queue, locals
<1>5. \/ r.t = "subscribe" /\ subscribed' = TRUE /\ inbox' = inbox
      \/ /\ r.t # "subscribe" /\ subscribed' = subscribed
         /\ \E a \in Answers(r) : inbox' = Append(inbox, a)
  BY <1>3 DEF Serve
<1> QED BY <1>1, <1>2, <1>3, <1>4, <1>5

(* A change appends an event, or nothing. *)
LEMMA NotifyProlongs ==
  ASSUME CacheInv, Change
  PROVE  /\ Prolongs(inbox', inbox) /\ (subscribed = FALSE => inbox' = inbox)
         /\ \A n \in DOMAIN inbox' : n \in DOMAIN inbox \/ inbox'[n].t = "event"
<1>1. inbox \in Seq(Messages)
  BY DEF CacheInv, TypeInv, WireTypes
<1>2. CASE inbox' = inbox
  BY <1>2 DEF Prolongs
<1>3. ASSUME NEW k \in Nat, Notify(k)
      PROVE  /\ Prolongs(inbox', inbox) /\ (subscribed = FALSE => inbox' = inbox)
             /\ \A n \in DOMAIN inbox' : n \in DOMAIN inbox \/ inbox'[n].t = "event"
  <2>1. PICK m : m = [t |-> "event", index |-> k]
    OBVIOUS
  <2>2. m.t = "event"
    BY <2>1
  <2>3. CASE subscribed
    <3>1. inbox' = Append(inbox, m)
      BY <1>3, <2>1, <2>3 DEF Notify
    <3> QED BY <1>1, <2>2, <2>3, <3>1, AppendProlongs
  <2>4. CASE ~subscribed
    <3>1. inbox' = inbox
      BY <1>3, <2>4 DEF Notify
    <3> QED BY <1>2, <3>1
  <2> QED BY <2>3, <2>4
<1> QED BY <1>2, <1>3, ChangeEffect

(* Requests that a lookup or a callback appends. *)
LEMMA AskProlongs ==
  ASSUME CacheInv, ServerInfoAsks \/ SubscribeCallback \/ \E p \in Threads : Create(p)
  PROVE  /\ Prolongs(requests', requests) /\ (requests # <<>> => requests' # <<>> /\ requests'[1] = requests[1])
         /\ ~SubscribeCallback => UNCHANGED <<inbox, subscribed, ctx, default_sink>>
<1>1. PICK r : Ask(r)
  BY DEF ServerInfoAsks, SubscribeCallback, Create, New, Allocates, AsksFor
<1>2. requests \in Seq(Requests) /\ requests' = Append(requests, r)
  BY <1>1 DEF Ask, CacheInv, TypeInv, WireTypes
<1>3. Prolongs(requests', requests) /\ (requests # <<>> => requests' # <<>> /\ requests'[1] = requests[1])
  <2>1. Prolongs(requests', requests)
    BY <1>2, AppendProlongs
  <2>2. requests # <<>> => 1 \in DOMAIN requests
    BY <1>2
  <2>3. requests' # <<>>
    BY <1>2
  <2> QED BY <2>1, <2>2, <2>3 DEF Prolongs
<1> QED BY <1>3 DEF ServerInfoAsks, Create, New, Allocates, AsksFor, cache

LEMMA AnswersInvNext == ASSUME CacheInv, ConnectionInv, AnswersInv, [Next]_vars PROVE AnswersInv'
<1> SUFFICES ASSUME ctx' = "ready"
             PROVE  /\ default_sink' = NoSink => ServerFirst'
                    /\ ~subscribed' => inbox' = <<>> /\ requests' # <<>> /\ requests'[1].t = "subscribe"
  BY DEF AnswersInv
<1>1. WireTypes
  BY DEF CacheInv, TypeInv
<1>2. ASSUME ctx = "ready", default_sink' = default_sink, Prolongs(requests', requests), Prolongs(inbox', inbox),
             \A n \in DOMAIN inbox' : n \in DOMAIN inbox \/ inbox'[n].t = "event",
             requests # <<>> => requests' # <<>> /\ requests'[1] = requests[1],
             subscribed' = subscribed, ~subscribed => inbox' = inbox
      PROVE  /\ default_sink' = NoSink => ServerFirst'
             /\ ~subscribed' => inbox' = <<>> /\ requests' # <<>> /\ requests'[1].t = "subscribe"
  BY <1>1, <1>2, ServerFirstProlonged DEF AnswersInv
<1>3. Prolongs(requests, requests) /\ Prolongs(inbox, inbox)
  BY DEF Prolongs
<1>4. ASSUME UNCHANGED <<requests, inbox, subscribed, ctx, default_sink>>
      PROVE  /\ default_sink' = NoSink => ServerFirst'
             /\ ~subscribed' => inbox' = <<>> /\ requests' # <<>> /\ requests'[1].t = "subscribe"
  <2>1. ctx = "ready" /\ requests' = requests /\ inbox' = inbox /\ subscribed' = subscribed /\ default_sink' = default_sink
    BY <1>4
  <2>2. \A n \in DOMAIN inbox' : n \in DOMAIN inbox \/ inbox'[n].t = "event"
    BY <2>1
  <2>3. Prolongs(requests', requests) /\ Prolongs(inbox', inbox)
    BY <1>3, <2>1
  <2> QED BY <1>2, <2>1, <2>2, <2>3
<1>5. CASE InitStarts \/ InitEnds
  <2>1. UNCHANGED <<requests, inbox, subscribed, ctx, default_sink>>
    BY <1>5 DEF InitStarts, InitEnds, wire, cache
  <2> QED BY <1>4, <2>1
<1>6. CASE StateCallback
  <2>1. ctx = "connecting" /\ requests' = <<[t |-> "subscribe"], [t |-> "server"]>> /\ inbox' = inbox
    BY <1>6 DEF StateCallback
  <2>2. inbox = <<>>
    BY <2>1 DEF ConnectionInv, Silent
  <2>3. PICK x, y : x = [t |-> "subscribe"] /\ y = [t |-> "server"]
    OBVIOUS
  <2>4. x.t = "subscribe" /\ y.t = "server" /\ requests' = <<x, y>>
    BY <2>1, <2>3
  <2>5. DOMAIN requests' = {1, 2} /\ requests'[1] = x /\ requests'[2] = y /\ requests' # <<>>
    BY <2>4
  <2>6. \A j \in 1..2 : requests'[j].t \in {"subscribe", "server"}
    <3>1. \A j \in 1..2 : j = 1 \/ j = 2
      OBVIOUS
    <3> QED BY <2>4, <2>5, <3>1
  <2>7. ServerFirst'
    BY <2>1, <2>2, <2>4, <2>5, <2>6 DEF ServerFirst
  <2> QED BY <2>1, <2>2, <2>4, <2>5, <2>7
<1>7. CASE Change
  <2>1. UNCHANGED <<requests, subscribed, ctx, default_sink>>
    BY <1>7 DEF Change, cache
  <2>2. ctx = "ready" /\ Prolongs(requests', requests) /\ (subscribed = FALSE => inbox' = inbox)
    BY <1>3, <1>7, <2>1, NotifyProlongs
  <2> QED BY <1>2, <1>7, <2>1, <2>2, NotifyProlongs
<1>8. CASE ServerInfoAsks \/ \E p \in Threads : Create(p)
  <2>1. CASE SubscribeCallback
    <3>1. inbox' = inbox
      BY <1>8 DEF ServerInfoAsks, Create, New, Allocates, AsksFor
    <3>2. DOMAIN inbox = 1..Len(inbox) /\ Len(inbox) \in Nat /\ DOMAIN inbox' = 1..Len(inbox) - 1 /\ 1 \in DOMAIN inbox
      BY <2>1, DispatchEffect DEF Dispatches
    <3> QED BY <3>1, <3>2
  <2>2. CASE ~SubscribeCallback
    BY <1>2, <1>3, <1>8, <2>2, AskProlongs
  <2> QED BY <2>1, <2>2
<1>9. CASE Serve
  <2>1. default_sink' = default_sink /\ ctx = "ready"
    BY <1>9, ServeEffect
  <2>2. CASE requests[1].t = "subscribe" /\ subscribed' = TRUE /\ inbox' = inbox
    <3>1. ASSUME \A j \in DOMAIN inbox : inbox[j].t = "event",
                 NEW i \in DOMAIN requests, requests[i].t = "server",
                 \A j \in 1..i : requests[j].t \in {"subscribe", "server"}
          PROVE  ServerFirst'
      <4>1. i # 1
        BY <2>2, <3>1
      <4>2. i - 1 \in DOMAIN requests' /\ requests'[i - 1] = requests[i]
        BY <1>9, <3>1, <4>1, ServeEffect
      <4>3. ASSUME NEW j \in 1..i - 1 PROVE requests'[j].t \in {"subscribe", "server"}
        <5>1. j + 1 \in 1..i /\ j + 1 \in DOMAIN requests \ {1} /\ (j + 1) - 1 = j
          BY <1>9, <3>1, <4>1, ServeEffect
        <5>2. requests'[j] = requests[j + 1]
          BY <1>9, <5>1, ServeEffect
        <5> QED BY <3>1, <5>1, <5>2
      <4> QED BY <2>2, <3>1, <4>2, <4>3 DEF ServerFirst
    <3>2. default_sink = NoSink => ServerFirst'
      BY <2>1, <2>2, <3>1 DEF AnswersInv, ServerFirst
    <3> QED BY <2>1, <2>2, <3>2
  <2>3. ASSUME requests[1].t # "subscribe", subscribed' = subscribed,
               NEW a \in Answers(requests[1]), inbox' = Append(inbox, a)
        PROVE  /\ default_sink' = NoSink => ServerFirst'
               /\ ~subscribed' => inbox' = <<>> /\ requests' # <<>> /\ requests'[1].t = "subscribe"
    <3>1. subscribed
      BY <2>1, <2>3 DEF AnswersInv
    <3>2. /\ Prolongs(inbox', inbox) /\ DOMAIN inbox' = 1..Len(inbox) + 1 /\ DOMAIN inbox = 1..Len(inbox)
          /\ Len(inbox) \in Nat /\ inbox'[Len(inbox) + 1] = a
      BY <1>1, <2>3, AppendProlongs DEF WireTypes
    <3>3. ASSUME NEW i \in DOMAIN inbox, inbox[i].t = "server",
                 \A j \in 1..i : inbox[j].t \in {"server", "event"}
          PROVE  ServerFirst'
      <4>1. \A j \in 1..i : j \in DOMAIN inbox
        BY <3>2
      <4>2. i \in DOMAIN inbox' /\ inbox'[i] = inbox[i] /\ \A j \in 1..i : inbox'[j] = inbox[j]
        BY <3>2, <4>1 DEF Prolongs
      <4> QED BY <3>3, <4>2 DEF ServerFirst
    <3>4. ASSUME \A j \in DOMAIN inbox : inbox[j].t = "event",
                 NEW i \in DOMAIN requests, requests[i].t = "server",
                 \A j \in 1..i : requests[j].t \in {"subscribe", "server"}
          PROVE  ServerFirst'
      <4>1. requests[1].t = "server" /\ requests[1] \in Requests
        <5>1. 1 \in 1..i
          BY <1>9, ServeEffect
        <5> QED BY <1>9, <2>3, <3>4, <5>1, ServeEffect
      <4>2. a.t = "server"
        <5>1. ServerTypes
          BY DEF CacheInv, TypeInv
        <5>2. PICK r \in Requests : r = requests[1]
          BY <4>1
        <5> QED BY <2>3, <4>1, <5>1, <5>2, AnswerKinds
      <4>3. \A j \in 1..Len(inbox) + 1 : inbox'[j].t \in {"server", "event"}
        <5>1. \A j \in 1..Len(inbox) + 1 : j \in DOMAIN inbox \/ j = Len(inbox) + 1
          BY <3>2
        <5> QED BY <3>2, <3>4, <4>2, <5>1 DEF Prolongs
      <4>4. Len(inbox) + 1 \in DOMAIN inbox'
        BY <3>2
      <4> QED BY <3>2, <4>2, <4>3, <4>4 DEF ServerFirst
    <3>5. default_sink = NoSink => ServerFirst'
      BY <2>1, <3>3, <3>4 DEF AnswersInv, ServerFirst
    <3> QED BY <2>1, <2>3, <3>1, <3>5
  <2> QED BY <1>9, <2>2, <2>3, ServeEffect
<1>10. CASE Dispatches
  <2>1. ctx = "ready" /\ inbox # <<>> /\ subscribed' = subscribed /\ subscribed
    BY <1>10, DispatchEffect DEF AnswersInv
  <2>2. SUFFICES ASSUME default_sink' = NoSink PROVE ServerFirst'
    BY <2>1
  <2>3. ~ServerInfoCallback /\ default_sink = NoSink
    BY <1>10, <2>2, DispatchEffect, PulseConstants
  <2>4. inbox[1].t # "server"
    BY <1>10, <2>3, DispatchEffect DEF Dispatches
  <2>5. DOMAIN inbox = 1..Len(inbox) /\ Len(inbox) \in Nat /\ DOMAIN inbox' = 1..Len(inbox) - 1
        /\ \A n \in DOMAIN inbox' : inbox'[n] = inbox[n + 1]
    BY <1>10, DispatchEffect
  <2>6. ASSUME NEW i \in DOMAIN inbox, inbox[i].t = "server",
               \A j \in 1..i : inbox[j].t \in {"server", "event"}
        PROVE  ServerFirst'
    <3>1. i # 1 /\ i - 1 \in DOMAIN inbox' /\ (i - 1) + 1 = i
      BY <2>4, <2>5, <2>6
    <3>2. inbox'[i - 1] = inbox[i]
      BY <2>5, <3>1
    <3>3. ASSUME NEW j \in 1..i - 1 PROVE inbox'[j].t \in {"server", "event"}
      <4>1. j \in DOMAIN inbox' /\ j + 1 \in 1..i
        BY <2>5, <3>1
      <4> QED BY <2>5, <2>6, <4>1
    <3> QED BY <2>6, <3>1, <3>2, <3>3 DEF ServerFirst
  <2>7. ASSUME \A j \in DOMAIN inbox : inbox[j].t = "event",
               NEW i \in DOMAIN requests, requests[i].t = "server",
               \A j \in 1..i : requests[j].t \in {"subscribe", "server"}
        PROVE  ServerFirst'
    <3>1. SubscribeCallback
      BY <1>10, <2>7, DispatchEffect
    <3>2. \A j \in DOMAIN inbox' : inbox'[j].t = "event"
      BY <1>10, <2>7, DispatchEffect
    <3>3. Prolongs(requests', requests)
      BY <3>1, AskProlongs
    <3>4. \A j \in 1..i : j \in DOMAIN requests
      BY <1>1 DEF WireTypes
    <3> QED BY <2>7, <3>2, <3>3, <3>4 DEF ServerFirst, Prolongs
  <2> QED BY <2>1, <2>3, <2>6, <2>7 DEF AnswersInv, ServerFirst
<1> QED BY <1>4, <1>5, <1>6, <1>7, <1>8, <1>9, <1>10, WireSteps

(* A callback ends where it began, or by asking for the default sink. *)
LEMMA CallbackEnds ==
  ASSUME CacheInv, [Next]_vars, at'["pulse"] = "idle"
  PROVE  at["pulse"] \in {"idle", "found", "kill"} /\ default_sink' = default_sink
<1> USE DEF CacheInv, TypeInv
<1>1. CASE Main
  BY <1>1 DEF Main, InitFails, InitStarts, InitWaits, InitEnds, FindBySink, Find, Create, New, Allocates,
              AsksFor, Load, Link, MoveTail, FindCrashes, Read, Free, Stop, Goes, PlaceTypes, Threads, cache
<1>2. CASE Pulse
  <2>1. CASE Dispatches
    BY <2>1, DispatchEffect
  <2>2. CASE StateCallback \/ ServerInfoAsks \/ SinkInfoRaises
    BY <2>2 DEF StateCallback, Dispatching, ServerInfoAsks, SinkInfoRaises, Goes, cache
  <2>3. CASE FindBySink("pulse")
    BY <2>3 DEF FindBySink, Find, Create, New, Allocates, AsksFor, Load, Link, MoveTail, Goes, PlaceTypes,
                Threads
  <2> QED BY <1>2, <2>1, <2>2, <2>3 DEF Pulse, PulseGoesOn, Dispatches
<1>3. CASE \E w \in Wanted : Lookup(w)
  BY <1>3 DEF Lookup, Goes, PlaceTypes, Threads
<1>4. CASE Change \/ Serve \/ Finished \/ UNCHANGED vars
  BY <1>4 DEF Change, Serve, Finished, vars, cache
<1> QED BY <1>1, <1>2, <1>3, <1>4 DEF Next

(* What is linked stays linked, and tqh_last does not point to the head
   again. *)
LEMMA LinkedStays ==
  ASSUME CacheInv, CacheInv', ListInv, [Next]_vars, Live', list # <<>>, tail # 0 \/ at["main"] = "tail"
  PROVE  list' # <<>> /\ (tail' # 0 \/ at'["main"] = "tail")
<1>1. Live /\ ~Free /\ CacheTypes /\ PlaceTypes
  BY LiveBefore DEF CacheInv, TypeInv
<1>2. \A p \in Threads : MoveTail(p) => list' = list /\ tail' # 0
  BY InsertStep
<1>3. ASSUME NEW p \in Threads, Link(p) PROVE list' # <<>> /\ tail' = tail
  <2>1. found[p] \in DOMAIN entries /\ tail' = tail
    BY <1>3, InsertStep
  <2>2. Len(list') # 0 \/ list' = list
    BY <1>1, <1>3, <2>1, LinkEffect DEF CacheTypes
  <2> QED BY <2>1, <2>2
<1>4. \/ at["main"] = "tail" => at'["main"] = "tail"
      \/ MoveTail("main")
  <2>1. at["main"] = "tail" => ~Find("main") /\ ~Create("main") /\ ~Load("main") /\ ~Link("main")
    BY DEF Find, Create, New, Load, Link, Goes
  <2> QED BY <1>1, <2>1, ThreadSteps, TwoThreads DEF Live, Final
<1> QED BY <1>1, <1>2, <1>3, <1>4, ListSteps, TwoThreads

(* A callback looks up the default sink's entry, or links it. *)
LEMMA CallbackBegins ==
  ASSUME CacheInv, [Next]_vars, at'["pulse"] \in {"found", "kill"}
  PROVE  \/ at["pulse"] = at'["pulse"]
         \/ Find("pulse") \/ MoveTail("pulse")
         \/ SinkInfoCallback /\ at["pulse"] = "idle"
<1>1. PlaceTypes
  BY DEF CacheInv, TypeInv
<1>2. CASE Dispatches
  BY <1>1, <1>2, DispatchEffect DEF Dispatches
<1>3. CASE StateCallback
  BY <1>1, <1>3, SignalTypes DEF StateCallback
<1>4. CASE PulseGoesOn
  BY <1>1, <1>4 DEF PulseGoesOn, SinkInfoRaises, FindBySink, Create, New, Load, Link, ServerInfoAsks,
                    Goes, PlaceTypes, Threads
<1>5. CASE Main
  BY <1>1, <1>5 DEF Main, InitFails, InitStarts, InitWaits, InitEnds, FindBySink, Find, Create, New, Load,
                    Link, MoveTail, FindCrashes, Read, Free, Stop, Goes, PlaceTypes, Threads
<1>6. CASE \E w \in Wanted : Lookup(w)
  BY <1>1, <1>6 DEF Lookup, Goes, PlaceTypes, Threads
<1>7. CASE Change \/ Serve \/ Finished \/ UNCHANGED vars
  BY <1>7 DEF Change, Serve, Finished, vars
<1> QED BY <1>2, <1>3, <1>4, <1>5, <1>6, <1>7 DEF Next, Pulse, Dispatches

LEMMA LookupEnds ==
  ASSUME CacheInv, [Next]_vars, at["pulse"] = "find"
  PROVE  at'["pulse"] = "find" \/ Find("pulse") \/ Create("pulse")
<1>1. PlaceTypes
  BY DEF CacheInv, TypeInv
<1>2. ~Dispatches /\ ~StateCallback
  BY DispatchEffect DEF StateCallback, Dispatching
<1>3. CASE PulseGoesOn
  BY <1>1, <1>3 DEF PulseGoesOn, SinkInfoRaises, FindBySink, Load, Link, MoveTail, ServerInfoAsks, Goes
<1>4. CASE Main
  BY <1>1, <1>4 DEF Main, InitFails, InitStarts, InitWaits, InitEnds, FindBySink, Find, Create, New, Load,
                    Link, MoveTail, FindCrashes, Read, Free, Stop, Goes, PlaceTypes, Threads
<1>5. CASE \E w \in Wanted : Lookup(w)
  BY <1>1, <1>5 DEF Lookup, Goes, PlaceTypes, Threads
<1>6. CASE Change \/ Serve \/ Finished \/ UNCHANGED vars
  BY <1>6 DEF Change, Serve, Finished, vars
<1> QED BY <1>2, <1>3, <1>4, <1>5, <1>6 DEF Next, Pulse, Dispatches

(* What is at tqh_first's place was to be there before, or is new. *)
LEMMA AtHeadSteps ==
  ASSUME CacheInv, CacheInv', ListInv, [Next]_vars, Live', NEW p \in Threads, AtHead(p)'
  PROVE  \/ AtHead(p) /\ found'[p] = found[p]
         \/ Create(p) /\ tail = 0
<1>1. Live /\ ~Free /\ PlaceTypes /\ CacheTypes
  BY LiveBefore DEF CacheInv, TypeInv
<1>2. CASE Create(p)
  BY <1>1, <1>2, CreateStep, TwoThreads DEF AtHead
<1>3. CASE \E q \in Threads : Create(q) /\ q # p
  BY <1>1, <1>3, CreateStep, TwoThreads DEF AtHead
<1>4. CASE Load(p) \/ Link(p) \/ MoveTail(p)
  BY <1>1, <1>4, InsertStep DEF AtHead
<1>5. ASSUME NEW q \in Threads \ {p}, Load(q) \/ Link(q) \/ MoveTail(q)
      PROVE  AtHead(p) /\ found'[p] = found[p]
  <2>1. at'[p] = at[p] /\ last'[p] = last[p] /\ found' = found
    BY <1>5, InsertStep
  <2>2. at[p] = "load" => tail = 0
    BY <1>1, <1>5, <2>1, InsertStep DEF AtHead
  <2> QED BY <2>1, <2>2 DEF AtHead
<1>6. CASE ~\E q \in Threads : Create(q) \/ Load(q) \/ Link(q) \/ MoveTail(q)
  <2>1. Inserting(p)'
    BY DEF AtHead, Inserting
  <2> QED BY <1>1, <1>6, <2>1, NoInsertStep DEF AtHead
<1> QED BY <1>2, <1>3, <1>4, <1>5, <1>6

LEMMA DefaultInvNext ==
  ASSUME CacheInv, CacheInv', ListInv, StartInv, [Next]_vars
  PROVE  DefaultInv'
<1> USE DEF StartInv
<1> SUFFICES ASSUME Live'
             PROVE  /\ \A e \in DOMAIN entries' : entries'[e].index # Freed
                    /\ at'["pulse"] \in {"found", "kill"} \/ (at'["pulse"] = "idle" /\ default_sink' # NoSink) =>
                         list' # <<>> /\ (tail' # 0 \/ at'["main"] = "tail")
                    /\ AtHead("main")' /\ found'["main"] \notin raced' =>
                         default_sink' = NoSink \/ at'["pulse"] = "find"
  BY DEF DefaultInv
<1>1. Live /\ ~Free /\ CacheTypes /\ PlaceTypes
  BY LiveBefore DEF CacheInv, TypeInv
<1>2. ASSUME NEW e \in DOMAIN entries' PROVE entries'[e].index # Freed
  <2>1. CASE e \in DOMAIN entries /\ entries'[e] = entries[e]
    BY <1>1, <2>1 DEF DefaultInv
  <2>2. CASE SinkInfoCallback /\ e = inbox[1].e
    BY <2>2, InfoEffect DEF Freed
  <2>3. ASSUME NEW p \in Threads, entries'[e] = [sink |-> Stored(arg[p]), index |-> 0, level |-> 0]
        PROVE  entries'[e].index # Freed
    BY <2>3 DEF Freed
  <2> QED BY <1>1, <2>1, <2>2, <2>3, EntrySteps
<1>3. ASSUME at["pulse"] \in {"found", "kill"} \/ (at["pulse"] = "idle" /\ default_sink # NoSink)
      PROVE  list' # <<>> /\ (tail' # 0 \/ at'["main"] = "tail")
  BY <1>1, <1>3, LinkedStays DEF DefaultInv
<1>4. ASSUME at["pulse"] \notin {"found", "kill"}, at'["pulse"] \in {"found", "kill"}
      PROVE  list' # <<>> /\ (tail' # 0 \/ at'["main"] = "tail")
  <2>1. CASE SinkInfoCallback /\ at["pulse"] = "idle"
    <3>1. ctx = "ready"
      BY <2>1, InfoEffect DEF ConnectionInv, Silent, Incoming
    <3> QED BY <1>3, <2>1, <3>1, InfoKnown
  <2>2. CASE MoveTail("pulse")
    <3>1. at["pulse"] = "tail" /\ list' = list /\ tail' = found["pulse"] /\ found["pulse"] # 0
      BY <2>2, InsertStep, TwoThreads
    <3> QED BY <1>1, <3>1, TwoThreads DEF ListInv
  <2>3. CASE Find("pulse")
    <3>1. WalkBySink(arg["pulse"]) \in DOMAIN list
      BY <2>3, FindTypes, TwoThreads
    <3>2. list # <<>> /\ at["pulse"] = "find"
      BY <1>1, <2>3, <3>1 DEF Find, Goes, CacheTypes
    <3>3. tail # 0 \/ at["main"] = "tail"
      BY <1>1, <3>2, TwoThreads DEF ListInv
    <3> QED BY <3>2, <3>3, LinkedStays
  <2> QED BY <1>4, <2>1, <2>2, <2>3, CallbackBegins
<1>5. ASSUME AtHead("main")', found'["main"] \notin raced', default_sink' # NoSink
      PROVE  at'["pulse"] = "find"
  <2>1. raced \subseteq raced'
    BY <1>1, CreateStep, LastSteps DEF Load, locals
  <2>2. CASE Create("main") /\ tail = 0
    <3>1. at'["pulse"] = at["pulse"] /\ ~Inserting("pulse") /\ default_sink # NoSink /\ at["main"] = "find"
      BY <1>5, <2>2, CreateStep, TwoThreads
    <3>2. at["pulse"] \notin {"idle", "found", "kill"}
      BY <1>1, <2>2, <3>1 DEF DefaultInv
    <3> QED BY <1>1, <3>1, <3>2 DEF PlaceTypes, PulsePlaces, Inserting
  <2>3. CASE AtHead("main") /\ found'["main"] = found["main"]
    <3>1. found["main"] \notin raced /\ Inserting("main")
      BY <1>5, <2>1, <2>3 DEF AtHead, Inserting
    <3>2. CASE at["pulse"] = "find"
      <4>1. ~Create("pulse")
        BY <1>5, <3>1, CreateStep, TwoThreads
      <4>2. ASSUME Find("pulse") PROVE FALSE
        <5>1. list # <<>>
          BY <1>1, <4>2, FindTypes, TwoThreads DEF CacheTypes
        <5>2. tail = 0 /\ at["main"] # "tail"
          BY <1>1, <2>3, <3>1 DEF ListInv, AtHead
        <5> QED BY <1>1, <3>2, <5>1, <5>2, TwoThreads DEF ListInv
      <4> QED BY <3>2, <4>1, <4>2, LookupEnds
    <3>3. CASE default_sink = NoSink
      <4>1. at["pulse"] = "idle"
        BY <3>3 DEF ConnectionInv
      <4>2. ~ServerInfoAsks /\ \A q \in Threads : ~Create(q)
        BY <3>1, <4>1, TwoThreads DEF ServerInfoAsks, Create, Goes, Inserting
      <4>3. ServerInfoCallback
        BY <1>5, <3>3, <4>2, WireSteps, DispatchEffect
           DEF InitStarts, InitEnds, StateCallback, Change, Serve, cache
      <4> QED BY <1>5, <3>3, <4>3, DispatchEffect DEF Dispatches
    <3> QED BY <1>1, <2>3, <3>1, <3>2, <3>3 DEF DefaultInv
  <2> QED BY <1>5, <2>2, <2>3, AtHeadSteps, TwoThreads
<1> QED BY <1>2, <1>3, <1>4, <1>5, CallbackEnds

(* The bar is started with the server there, and an empty cache. *)
LEMMA StartInvInit == Init => StartInv
<1> SUFFICES ASSUME Init PROVE StartInv
  OBVIOUS
<1>1. Present(default)
  BY PulseConstants DEF Init, Present, Absent
<1> QED BY <1>1 DEF Init, StartInv, ConnectionInv, AnswersInv, DefaultInv, Silent, Empty

LEMMA StartInvNext ==
  ASSUME CacheInv, CacheInv', ListInv, StartInv, [Next]_vars
  PROVE  StartInv'
<1> USE DEF StartInv
<1>1. Present(default)'
  BY DefaultPresent
<1> QED BY <1>1, ConnectionInvNext, AnswersInvNext, DefaultInvNext

-----------------------------------------------------------------------------
(* The first entry                                                         *)

(* Only the creation of an entry adds one that may become first. *)
LEMMA MayBeFirstSteps ==
  ASSUME CacheInv, CacheInv', ListInv, [Next]_vars, Live', \A p \in Threads : ~Create(p)
  PROVE  /\ raced' = raced
         /\ \A e : MayBeFirst(e)' => MayBeFirst(e)
         /\ \A e : Waiting(e)' => Waiting(e)
<1>1. Live /\ ~Free /\ CacheTypes /\ PlaceTypes
  BY LiveBefore DEF CacheInv, TypeInv
<1>2. raced' = raced
  BY LastSteps DEF Load
<1>3. \A p \in Threads : AtHead(p)' => AtHead(p) /\ found'[p] = found[p]
  BY AtHeadSteps
<1>4. ASSUME NEW e, list' # <<>>, e = list'[1] PROVE MayBeFirst(e)
  <2>1. CASE list' = list
    BY <1>4, <2>1 DEF MayBeFirst
  <2>2. ASSUME NEW p \in Threads, Link(p), list' # list PROVE MayBeFirst(e)
    <3>1. at[p] = "link" /\ found[p] \in DOMAIN entries
      BY <2>2, InsertStep
    <3>2. \/ last[p] = 0 /\ list'[1] = found[p]
          \/ \E n \in DOMAIN list : \A m \in 1..n : list'[m] = list[m]
      BY <1>1, <2>2, <3>1, LinkEffect
    <3>3. ASSUME NEW n \in DOMAIN list, \A m \in 1..n : list'[m] = list[m] PROVE MayBeFirst(e)
      <4>1. n \in Nat /\ 1 <= n /\ list # <<>>
        BY <1>1 DEF CacheTypes
      <4>2. list'[1] = list[1]
        BY <3>3, <4>1
      <4> QED BY <1>4, <4>1, <4>2 DEF MayBeFirst
    <3>4. CASE last[p] = 0 /\ list'[1] = found[p]
      BY <1>4, <3>1, <3>4 DEF MayBeFirst, AtHead
    <3> QED BY <3>2, <3>3, <3>4
  <2> QED BY <1>1, <2>1, <2>2, ListSteps, InsertStep
<1>5. at'["pulse"] \in {"load", "link"} => at["pulse"] \in {"load", "link"} /\ found'["pulse"] = found["pulse"]
  <2>1. ASSUME at'["pulse"] \in {"load", "link"} PROVE ~Find("pulse") /\ ~Link("pulse") /\ ~MoveTail("pulse")
    BY <1>1, <2>1, InsertStep, TwoThreads DEF Find, Goes, PlaceTypes
  <2>2. Load("pulse") => at["pulse"] = "load" /\ found' = found
    BY InsertStep, TwoThreads
  <2> QED BY <2>1, <2>2, ThreadSteps, TwoThreads
<1>6. ASSUME NEW e, MayBeFirst(e)' PROVE MayBeFirst(e)
  BY <1>3, <1>4, <1>6 DEF MayBeFirst
<1>7. ASSUME NEW e, Waiting(e)' PROVE Waiting(e)
  BY <1>2, <1>3, <1>5, <1>7, TwoThreads DEF Waiting
<1> QED BY <1>2, <1>6, <1>7

(* What is sent later leaves entries covered. *)
LEMMA FollowsProlonged ==
  ASSUME CacheInv, AnswersInv, WireTypes', ctx = "ready", subscribed' = subscribed,
         Prolongs(requests', requests), Prolongs(inbox', inbox),
         \A n \in DOMAIN inbox' : n \in DOMAIN inbox \/ inbox'[n].t = "event",
         \A s \in Sinks : index'[s] # Absent =>
           \/ index'[s] = index[s] /\ level'[s] = level[s]
           \/ /\ subscribed => \E n \in DOMAIN inbox' : /\ n > Len(inbox) /\ inbox'[n].t = "event"
                                                        /\ inbox'[n].index = index'[s]
              /\ index'[s] = 0 => index[s] = 0,
         NEW e, NEW k \in Nat \cup {Freed}, NEW l
  PROVE  /\ Expected(e) => Expected(e)'
         /\ Follows(e, k, l) /\ (~subscribed => k = 0 /\ Expected(e)) => Follows(e, k, l)'
<1>1. /\ DOMAIN inbox = 1..Len(inbox) /\ Len(inbox) \in Nat
      /\ \A n \in DOMAIN inbox : inbox[n] \in Messages
  BY DEF CacheInv, TypeInv, WireTypes
<1>2. /\ Sure(e) => Sure(e)'
      /\ \A x : Asked(e, x) => Asked(e, x)'
  BY DEF Sure, Asked, Prolongs
<1>3. \A i : /\ InfoAfter(e, i) => InfoAfter(e, i)'
             /\ \A x : EventAfter(x, i) => EventAfter(x, i)'
  BY DEF InfoAfter, EventAfter, Prolongs
<1>4. Expected(e) => Expected(e)'
  BY <1>2, <1>3 DEF Expected, Absent
<1>5. ASSUME NEW x \in Nat \cup {Freed}, NEW y, NEW i \in Nat, i <= Len(inbox), Covered(e, x, y, i),
             ~subscribed => x = 0 /\ Expected(e) /\ i = 0
      PROVE  Covered(e, x, y, i)'
  <2> SUFFICES ASSUME NEW s \in Sinks, index'[s] = x
               PROVE  y = level'[s] \/ EventAfter(x, i)' \/ InfoAfter(e, i)' \/ Sure(e)' \/ Asked(e, x)'
    BY DEF Covered
  <2>1. x # Absent
    BY DEF Absent, Freed
  <2>2. CASE index'[s] = index[s] /\ level'[s] = level[s]
    BY <1>2, <1>3, <1>5, <2>2 DEF Covered
  <2>3. ASSUME subscribed, NEW n \in DOMAIN inbox', n > Len(inbox), inbox'[n].t = "event", inbox'[n].index = index'[s]
        PROVE  EventAfter(x, i)'
    <3>1. n \in Nat
      BY <2>3 DEF WireTypes
    <3>2. n > i
      BY <1>1, <1>5, <2>3, <3>1
    <3> QED BY <2>3, <3>2 DEF EventAfter
  <2>4. CASE ~subscribed /\ index'[s] # Absent /\ (index'[s] = 0 => index[s] = 0)
    BY <1>2, <1>3, <1>5, <2>4 DEF Expected
  <2> QED BY <2>1, <2>2, <2>3, <2>4
<1>6. ASSUME Follows(e, k, l), ~subscribed => k = 0 /\ Expected(e)
      PROVE  Follows(e, k, l)'
  <2>1. Covered(e, k, l, 0)'
    BY <1>1, <1>5, <1>6 DEF Follows
  <2>2. ASSUME NEW i \in DOMAIN inbox', inbox'[i].t = "info", inbox'[i].e = e, NEW x, x = inbox'[i].index,
               NEW y, y = inbox'[i].level
        PROVE  Covered(e, x, y, i)'
    <3>1. i \in DOMAIN inbox /\ inbox'[i] = inbox[i]
      BY <2>2 DEF Prolongs
    <3>2. i \in Nat /\ i <= Len(inbox) /\ inbox[i] \in Messages
      BY <1>1, <3>1
    <3>3. inbox[i].t = "info" /\ inbox[i].e = e /\ x = inbox[i].index /\ y = inbox[i].level
      BY <2>2, <3>1
    <3>4. x \in Nat
      BY <3>2, <3>3, MessageKinds
    <3>5. subscribed
      BY <3>1 DEF AnswersInv
    <3>6. Covered(e, x, y, i)
      BY <1>6, <3>1, <3>3 DEF Follows
    <3> QED BY <1>5, <3>2, <3>4, <3>5, <3>6
  <2> QED BY <2>1, <2>2 DEF Follows
<1> QED BY <1>4, <1>6

(* A callback deals with the first message: what follows moves up. *)
LEMMA CoveredAfterDispatch ==
  ASSUME CacheInv, Dispatches, Prolongs(requests', requests),
         NEW e, NEW k, NEW l, NEW i \in Nat, NEW j \in Nat, Covered(e, k, l, i),
         IF i = 0
         THEN /\ j = 0 /\ ~(inbox[1].t = "info" /\ inbox[1].e = e)
              /\ inbox[1].t = "event" /\ inbox[1].index = k =>
                   Asked(e, k)' \/ \A s \in Sinks : index[s] = k => Sure(e) \/ InfoAfter(e, 0)
         ELSE j = i - 1
  PROVE  Covered(e, k, l, j)'
<1>1. /\ DOMAIN inbox = 1..Len(inbox) /\ Len(inbox) \in Nat /\ DOMAIN inbox' = 1..Len(inbox) - 1
      /\ \A n \in DOMAIN inbox' : inbox'[n] = inbox[n + 1]
      /\ index' = index /\ level' = level
  BY DispatchEffect
<1>2. /\ Sure(e) => Sure(e)'
      /\ Asked(e, k) => Asked(e, k)'
  BY DEF Sure, Asked, Prolongs
<1>3. ASSUME NEW n \in DOMAIN inbox, n > i, n # 1
      PROVE  n - 1 \in DOMAIN inbox' /\ n - 1 > j /\ inbox'[n - 1] = inbox[n]
  <2>1. n \in Nat /\ n - 1 \in DOMAIN inbox' /\ (n - 1) + 1 = n
    BY <1>1, <1>3
  <2>2. n - 1 > j
    BY <1>3, <2>1
  <2> QED BY <1>1, <2>1, <2>2
<1>4. InfoAfter(e, i) => InfoAfter(e, j)'
  <2>1. ASSUME NEW n \in DOMAIN inbox, n > i, inbox[n].t = "info", inbox[n].e = e PROVE n # 1
    BY <2>1
  <2> QED BY <1>3, <2>1 DEF InfoAfter
<1>5. i # 0 => (EventAfter(k, i) => EventAfter(k, j)')
  BY <1>3 DEF EventAfter
<1>6. ASSUME i = 0, ~(inbox[1].t = "event" /\ inbox[1].index = k) PROVE EventAfter(k, i) => EventAfter(k, j)'
  BY <1>3, <1>6 DEF EventAfter
<1> SUFFICES ASSUME NEW s \in Sinks, index[s] = k
             PROVE  l = level[s] \/ EventAfter(k, j)' \/ InfoAfter(e, j)' \/ Sure(e)' \/ Asked(e, k)'
  BY <1>1 DEF Covered
<1> QED BY <1>2, <1>4, <1>5, <1>6 DEF Covered

LEMMA FollowsAfterDispatch ==
  ASSUME CacheInv, Dispatches, Prolongs(requests', requests), NEW e, NEW k, NEW l, Follows(e, k, l),
         ~(inbox[1].t = "info" /\ inbox[1].e = e),
         inbox[1].t = "event" /\ inbox[1].index = k =>
           Asked(e, k)' \/ \A s \in Sinks : index[s] = k => Sure(e) \/ InfoAfter(e, 0)
  PROVE  Follows(e, k, l)'
<1>1. Covered(e, k, l, 0)'
  BY CoveredAfterDispatch DEF Follows
<1>2. ASSUME NEW i \in DOMAIN inbox', inbox'[i].t = "info", inbox'[i].e = e, NEW x, x = inbox'[i].index,
             NEW y, y = inbox'[i].level
      PROVE  Covered(e, x, y, i)'
  <2>1. i \in Nat /\ i + 1 \in DOMAIN inbox /\ inbox'[i] = inbox[i + 1] /\ (i + 1) - 1 = i /\ i + 1 \in Nat /\ i + 1 # 0
    BY <1>2, DispatchEffect
  <2>2. Covered(e, x, y, i + 1)
    BY <1>2, <2>1 DEF Follows
  <2>3. PICK h \in Nat : h = i + 1 /\ h # 0 /\ i = h - 1
    BY <2>1
  <2> QED BY <2>1, <2>2, <2>3, CoveredAfterDispatch
<1> QED BY <1>1, <1>2 DEF Follows

(* What the information brings is covered by what comes after it. *)
LEMMA FollowsAfterInfo ==
  ASSUME CacheInv, SinkInfoCallback, NEW e, NEW k, NEW l, Follows(e, k, l), inbox[1].e = e,
         NEW x, x = inbox[1].index, NEW y, y = inbox[1].level
  PROVE  Follows(e, x, y)'
<1>1. Dispatches /\ inbox[1].t = "info" /\ 1 \in DOMAIN inbox /\ Prolongs(requests', requests)
  BY DispatchEffect DEF Dispatches, Prolongs, SinkInfoCallback
<1>2. Covered(e, x, y, 1)
  BY <1>1 DEF Follows
<1>3. Covered(e, x, y, 0)'
  BY <1>1, <1>2, CoveredAfterDispatch
<1>4. ASSUME NEW i \in DOMAIN inbox', inbox'[i].t = "info", inbox'[i].e = e, NEW u, u = inbox'[i].index,
             NEW v, v = inbox'[i].level
      PROVE  Covered(e, u, v, i)'
  <2>1. i \in Nat /\ i + 1 \in DOMAIN inbox /\ inbox'[i] = inbox[i + 1] /\ (i + 1) - 1 = i /\ i + 1 \in Nat /\ i + 1 # 0
    BY <1>1, <1>4, DispatchEffect
  <2>2. Covered(e, u, v, i + 1)
    BY <1>4, <2>1 DEF Follows
  <2>3. PICK h \in Nat : h = i + 1 /\ h # 0 /\ i = h - 1
    BY <2>1
  <2> QED BY <1>1, <2>1, <2>2, <2>3, CoveredAfterDispatch
<1> QED BY <1>3, <1>4 DEF Follows

LEMMA ExpectedAfterDispatch ==
  ASSUME CacheInv, Dispatches, Prolongs(requests', requests), NEW e, Expected(e),
         ~(inbox[1].t = "info" /\ inbox[1].e = e)
  PROVE  Expected(e)'
<1>1. Sure(e) => Sure(e)'
  BY DEF Sure, Prolongs
<1>2. InfoAfter(e, 0) => InfoAfter(e, 0)'
  <2>1. ASSUME NEW n \in DOMAIN inbox, n > 0, inbox[n].t = "info", inbox[n].e = e
        PROVE  n - 1 \in DOMAIN inbox' /\ n - 1 > 0 /\ inbox'[n - 1] = inbox[n]
    <3>1. n # 1 /\ n \in Nat
      BY <2>1, DispatchEffect
    <3>2. n - 1 \in DOMAIN inbox' /\ (n - 1) + 1 = n /\ n - 1 > 0
      BY <3>1, DispatchEffect
    <3> QED BY <3>2, DispatchEffect
  <2> QED BY <2>1 DEF InfoAfter
<1> QED BY <1>1, <1>2, DispatchEffect DEF Expected

(* The server's answer replaces the request, and speaks of the sink as it
   is then. *)
LEMMA FollowsAfterServe ==
  ASSUME CacheInv, CacheInv', Present(default), AnswersInv, ctx = "ready", Serve, NEW e
  PROVE  /\ Expected(e) => Expected(e)'
         /\ \A k \in Nat \cup {Freed} : \A l : Follows(e, k, l) => Follows(e, k, l)'
<1>1. PICK r \in Requests : r = requests[1]
  BY ServeEffect
<1>2. /\ \A n \in DOMAIN requests \ {1} : n - 1 \in DOMAIN requests' /\ requests'[n - 1] = requests[n]
      /\ UNCHANGED <<index, level, default>>
  BY ServeEffect
<1>3. /\ Sure(e) => Sure(e)' \/ r = [t |-> "name", e |-> e, sink |-> NoSink]
      /\ \A x : Asked(e, x) => Asked(e, x)' \/ r = [t |-> "index", e |-> e, index |-> x]
  BY <1>1, <1>2 DEF Sure, Asked
<1>4. DOMAIN inbox = 1..Len(inbox) /\ Len(inbox) \in Nat /\ inbox \in Seq(Messages) /\ ServerTypes
  BY DEF CacheInv, TypeInv, WireTypes
<1>5. CASE r.t = "subscribe" /\ inbox' = inbox
  <2>1. /\ r # [t |-> "name", e |-> e, sink |-> NoSink]
        /\ \A x : r # [t |-> "index", e |-> e, index |-> x]
    BY <1>5
  <2>2. (Sure(e) => Sure(e)') /\ \A x : Asked(e, x) => Asked(e, x)'
    BY <1>3, <2>1
  <2>3. \A x, i : /\ InfoAfter(e, i)' <=> InfoAfter(e, i)
                  /\ EventAfter(x, i)' <=> EventAfter(x, i)
    BY <1>5 DEF InfoAfter, EventAfter
  <2>4. Expected(e) => Expected(e)'
    BY <1>2, <2>2, <2>3 DEF Expected
  <2>5. \A k, l, i : Covered(e, k, l, i) => Covered(e, k, l, i)'
    BY <1>2, <2>2, <2>3 DEF Covered
  <2> QED BY <1>5, <2>4, <2>5 DEF Follows
<1>6. ASSUME r.t # "subscribe", NEW a \in Answers(r), inbox' = Append(inbox, a)
      PROVE  /\ Expected(e) => Expected(e)'
             /\ \A k \in Nat \cup {Freed} : \A l : Follows(e, k, l) => Follows(e, k, l)'
  <2>1. a \in Messages
    BY <1>4, <1>6, AnswerKinds
  <2>2. /\ Len(inbox) + 1 \in DOMAIN inbox' /\ inbox'[Len(inbox) + 1] = a /\ Prolongs(inbox', inbox)
        /\ \A n \in DOMAIN inbox' : n \in DOMAIN inbox \/ n = Len(inbox) + 1
    BY <1>4, <1>6, <2>1, AppendProlongs
  <2>3. \A i : /\ InfoAfter(e, i) => InfoAfter(e, i)'
               /\ \A x : EventAfter(x, i) => EventAfter(x, i)'
    BY <2>2 DEF InfoAfter, EventAfter, Prolongs
  <2>4. ASSUME NEW i \in Nat, i <= Len(inbox), a.t = "info", a.e = e PROVE InfoAfter(e, i)'
    BY <1>4, <2>2, <2>4 DEF InfoAfter
  <2>5. ASSUME NEW s \in Meant(r), r.e = e, r.t \in {"name", "index"} PROVE a.t = "info" /\ a.e = e
    <3>1. a.t \in {"error", "info"} /\ a.t # "error"
      BY <1>4, <1>6, <2>5, AnswerKinds
    <3> QED BY <1>4, <1>6, <2>5, <3>1, AnswerKinds
  <2>6. ASSUME r = [t |-> "name", e |-> e, sink |-> NoSink] PROVE a.t = "info" /\ a.e = e
    <3>1. r.t = "name" /\ r.e = e /\ r.sink = NoSink
      BY <2>6
    <3>2. default \in Meant(r)
      BY <1>4, <3>1 DEF Meant, ServerTypes
    <3> QED BY <2>5, <3>1, <3>2
  <2>7. ASSUME NEW s \in Sinks, Present(s), r = [t |-> "index", e |-> e, index |-> index[s]]
        PROVE  a.t = "info" /\ a.e = e
    <3>1. r.t = "index" /\ r.e = e /\ r.index = index[s]
      BY <2>7
    <3>2. s \in Meant(r)
      BY <2>7, <3>1 DEF Meant
    <3> QED BY <2>5, <3>1, <3>2
  <2>8. Sure(e) => Sure(e)' \/ \A i \in Nat : i <= Len(inbox) => InfoAfter(e, i)'
    BY <1>3, <2>4, <2>6
  <2>9. ASSUME NEW k \in Nat \cup {Freed}, NEW l, NEW i \in Nat, i <= Len(inbox), Covered(e, k, l, i)
        PROVE  Covered(e, k, l, i)'
    <3> SUFFICES ASSUME NEW s \in Sinks, index[s] = k
                 PROVE  l = level[s] \/ EventAfter(k, i)' \/ InfoAfter(e, i)' \/ Sure(e)' \/ Asked(e, k)'
      BY <1>2 DEF Covered
    <3>1. Present(s)
      BY DEF Present, Absent, Freed
    <3>2. Asked(e, k) => Asked(e, k)' \/ InfoAfter(e, i)'
      BY <1>3, <2>4, <2>7, <2>9, <3>1
    <3> QED BY <2>3, <2>8, <2>9, <3>2 DEF Covered
  <2>10. Expected(e) => Expected(e)'
    <3>1. 0 \in Nat /\ 0 <= Len(inbox)
      BY <1>4
    <3> QED BY <1>2, <2>3, <2>8, <3>1 DEF Expected
  <2>11. ASSUME a.t = "info", NEW i, NEW x, x = a.index, NEW y, y = a.level
         PROVE  Covered(e, x, y, i)'
    <3>1. PICK s \in Meant(r) : x = index[s] /\ y = level[s] /\ s \in Sinks
      BY <1>4, <1>6, <2>11, AnswerKinds
    <3>2. Present(s)
      BY DEF Meant
    <3>3. \A t \in Sinks : index[t] = x => t = s
      BY <3>1, <3>2 DEF CacheInv, Indexes
    <3> QED BY <1>2, <3>1, <3>3 DEF Covered
  <2>12. ASSUME NEW k \in Nat \cup {Freed}, NEW l, Follows(e, k, l) PROVE Follows(e, k, l)'
    <3>1. Covered(e, k, l, 0)'
      BY <1>4, <2>9, <2>12 DEF Follows
    <3>2. ASSUME NEW i \in DOMAIN inbox', inbox'[i].t = "info", inbox'[i].e = e, NEW x, x = inbox'[i].index,
                 NEW y, y = inbox'[i].level
          PROVE  Covered(e, x, y, i)'
      <4>1. CASE i = Len(inbox) + 1
        BY <2>2, <2>11, <3>2, <4>1
      <4>2. CASE i \in DOMAIN inbox
        <5>1. inbox'[i] = inbox[i] /\ i \in Nat /\ i <= Len(inbox) /\ inbox[i] \in Messages
          BY <1>4, <2>2, <4>2 DEF Prolongs
        <5>2. x \in Nat /\ Covered(e, x, y, i)
          BY <2>12, <3>2, <4>2, <5>1, MessageKinds DEF Follows
        <5> QED BY <2>9, <5>1, <5>2
      <4> QED BY <2>2, <4>1, <4>2
    <3> QED BY <3>1, <3>2 DEF Follows
  <2> QED BY <2>10, <2>12
<1> QED BY <1>1, <1>5, <1>6, ServeEffect

(* A change at a sink is announced where the client has subscribed. *)
LEMMA ChangedSinks ==
  ASSUME CacheInv, Change, NEW s \in Sinks, index'[s] # Absent
  PROVE  \/ index'[s] = index[s] /\ level'[s] = level[s]
         \/ /\ subscribed => \E n \in DOMAIN inbox' : /\ n > Len(inbox) /\ inbox'[n].t = "event"
                                                      /\ inbox'[n].index = index'[s]
            /\ index'[s] = 0 => index[s] = 0
<1>1. inbox \in Seq(Messages) /\ ServerTypes
  BY DEF CacheInv, TypeInv, WireTypes
<1>2. index'[s] = 0 => index[s] = 0
  <2>1. index'[s] \in {index[s], Absent} \/ index'[s] = lastIndex + 1
    BY ChangeEffect
  <2> QED BY <1>1, <2>1 DEF ServerTypes, Absent
<1>3. CASE inbox' = inbox /\ UNCHANGED <<index, level>>
  BY <1>3
<1>4. ASSUME NEW k \in Nat, Notify(k), NEW u \in Sinks, index'[u] = k \/ index'[u] = Absent,
             \A t \in Sinks \ {u} : index'[t] = index[t] /\ level'[t] = level[t]
      PROVE  \/ index'[s] = index[s] /\ level'[s] = level[s]
             \/ subscribed => \E n \in DOMAIN inbox' : /\ n > Len(inbox) /\ inbox'[n].t = "event"
                                                       /\ inbox'[n].index = index'[s]
  <2>1. PICK m : m = [t |-> "event", index |-> k]
    OBVIOUS
  <2>2. m.t = "event" /\ m.index = k
    BY <2>1
  <2>3. CASE s = u /\ subscribed
    <3>1. inbox' = Append(inbox, m)
      BY <1>4, <2>1, <2>3 DEF Notify
    <3>2. Len(inbox) + 1 \in DOMAIN inbox' /\ Len(inbox) + 1 > Len(inbox) /\ inbox'[Len(inbox) + 1] = m
      BY <1>1, <3>1, AppendProlongs
    <3>3. index'[s] = k
      BY <1>4, <2>3
    <3> QED BY <2>2, <3>2, <3>3
  <2> QED BY <1>4, <2>3
<1> QED BY <1>2, <1>3, <1>4, ChangeEffect

(* Where the bar has entries for the default sink only, the index 0 of an
   entry without information brings no confusion: it is asked for anyway. *)
Harmless == NoIndexZero \/ Wanted \cap Sinks = {}

LEMMA CreateFirst ==
  ASSUME Harmless, CacheInv, CacheInv', BoundInv, AnswersInv, FirstInv, Live, ctx = "ready",
         NEW p \in Threads, Create(p)
  PROVE  FirstInv'
<1>1. PICK e \in Nat : e = Len(entries) + 1
  BY DEF CacheInv, TypeInv, CacheTypes
<1>2. PICK x : x = [sink |-> Stored(arg[p]), index |-> 0, level |-> 0]
  OBVIOUS
<1>3. PICK r : r = [t |-> "name", e |-> e, sink |-> Stored(arg[p])]
  OBVIOUS
<1>4. /\ requests \in Seq(Requests) /\ inbox \in Seq(Messages) /\ entries \in Seq(Entry) /\ PlaceTypes /\ WireTypes'
      /\ CacheTypes /\ ServerTypes
  BY DEF CacheInv, TypeInv, WireTypes, CacheTypes
<1>5. /\ UNCHANGED <<index, level, subscribed, inbox, ctx, list, tail>>
      /\ entries' = Append(entries, x) /\ x.index = 0 /\ x.level = 0
      /\ found' = [found EXCEPT ![p] = e] /\ last' = last /\ raced \subseteq raced'
      /\ at[p] = "find" /\ at' = [at EXCEPT ![p] = "load"]
  BY <1>1, <1>2, CreateStep DEF Create, New, Allocates, AsksFor, Goes, server, queue
<1>6. requests' = Append(requests, r)
  <2>1. found'[p] = e
    BY <1>4, <1>5 DEF PlaceTypes
  <2> QED BY <1>3, <2>1 DEF Create, New, Allocates, AsksFor, Ask
<1>7. /\ e \in DOMAIN entries' /\ entries'[e] = x /\ DOMAIN entries' = 1..e /\ e \notin DOMAIN entries
      /\ \A d \in DOMAIN entries' \ {e} : d \in DOMAIN entries /\ entries'[d] = entries[d]
  BY <1>1, <1>4, <1>5
<1>8. /\ Prolongs(requests', requests) /\ Prolongs(inbox', inbox)
      /\ \E n \in DOMAIN requests' : requests'[n] = r
  <2>1. Prolongs(requests', requests)
    BY <1>4, <1>6, AppendProlongs
  <2>2. Len(requests) + 1 \in DOMAIN requests' /\ requests'[Len(requests) + 1] = r
    BY <1>4, <1>6, AppendProlongs
  <2> QED BY <1>5, <2>1, <2>2 DEF Prolongs
<1>9. Expected(e)'
  <2>1. CASE Stored(arg[p]) = NoSink
    <3>1. Sure(e)'
      BY <1>3, <1>8, <2>1 DEF Sure
    <3> QED BY <3>1 DEF Expected
  <2>2. CASE Stored(arg[p]) # NoSink
    <3>1. arg[p] \in Wanted \cap Sinks
      BY <1>4, <2>2, PulseConstants DEF Stored, PlaceTypes
    <3>2. \A s \in Sinks : index[s] # 0
      BY <3>1 DEF Harmless, BoundInv
    <3> QED BY <1>5, <3>2 DEF Expected
  <2> QED BY <2>1, <2>2
<1>10. Follows(e, 0, 0)'
  <2>1. Covered(e, 0, 0, 0)'
    BY <1>9 DEF Covered, Expected
  <2>2. ASSUME NEW i \in DOMAIN inbox', inbox'[i].t = "info" PROVE inbox'[i].e # e
    BY <1>5, <1>7, <2>2 DEF CacheInv, Allocated
  <2> QED BY <2>1, <2>2 DEF Follows
<1>11. ASSUME NEW d \in DOMAIN entries
       PROVE  /\ Expected(d) => Expected(d)'
              /\ \A k \in Nat \cup {Freed} : \A l :
                   Follows(d, k, l) /\ (~subscribed => k = 0 /\ Expected(d)) => Follows(d, k, l)'
  <2>1. ASSUME NEW k \in Nat \cup {Freed}, NEW l
        PROVE  /\ Expected(d) => Expected(d)'
               /\ Follows(d, k, l) /\ (~subscribed => k = 0 /\ Expected(d)) => Follows(d, k, l)'
    BY <1>4, <1>5, <1>8, FollowsProlonged
  <2> QED BY <2>1
<1>12. ASSUME NEW d \in DOMAIN entries, MayBeFirst(d)'
       PROVE  MayBeFirst(d)
  BY <1>4, <1>5, <1>7, <1>12 DEF MayBeFirst, AtHead, PlaceTypes
<1>13. ASSUME NEW d \in DOMAIN entries' \ raced', MayBeFirst(d)',
              NEW k, k = entries'[d].index, NEW l, l = entries'[d].level
       PROVE  Follows(d, k, l)'
  <2>1. CASE d = e
    BY <1>5, <1>7, <1>10, <1>13, <2>1
  <2>2. CASE d # e
    <3>1. d \in DOMAIN entries \ raced /\ k = entries[d].index /\ l = entries[d].level /\ MayBeFirst(d)
      BY <1>5, <1>7, <1>12, <1>13, <2>2
    <3>2. Follows(d, k, l) /\ (~subscribed => k = 0 /\ Expected(d)) /\ k \in Nat \cup {Freed}
      <4>1. entries[d] \in Entry
        BY <1>4, <3>1
      <4>2. k \in Nat \cup {Freed}
        BY <3>1, <4>1 DEF Entry
      <4>3. Follows(d, k, l)
        BY <3>1 DEF FirstInv
      <4>4. ~subscribed => Unfilled(d)
        BY <3>1 DEF FirstInv
      <4> QED BY <3>1, <4>2, <4>3, <4>4 DEF Unfilled
    <3> QED BY <1>11, <3>1, <3>2
  <2> QED BY <2>1, <2>2
<1>14. ASSUME NEW d \in DOMAIN entries', d = e \/ (d \in DOMAIN entries /\ Unfilled(d))
       PROVE  Unfilled(d)'
  BY <1>5, <1>7, <1>9, <1>11, <1>14 DEF Unfilled
<1>15. ASSUME NEW d, Waiting(d)' PROVE Unfilled(d)'
  <2>1. CASE d = e
    BY <1>7, <1>14, <2>1
  <2>2. CASE d # e
    <3>1. PICK q \in Threads : Inserting(q)' /\ d = found'[q] /\ Waiting(d)'
      BY <1>15, TwoThreads DEF Waiting, AtHead, Inserting
    <3>2. q # p
      BY <1>4, <1>5, <2>2, <3>1 DEF PlaceTypes
    <3>3. Waiting(d) /\ d \in DOMAIN entries
      <4>1. at'[q] = at[q] /\ found'[q] = found[q]
        BY <1>4, <1>5, <3>2 DEF PlaceTypes
      <4>2. d \in DOMAIN entries
        BY <3>1, <4>1 DEF Inserting, CacheInv, Allocated
      <4>3. Waiting(d)
        BY <1>4, <1>5, <2>2, <3>1 DEF Waiting, AtHead, PlaceTypes, Threads
      <4> QED BY <4>2, <4>3
    <3>4. Unfilled(d) /\ d \in DOMAIN entries'
      BY <1>1, <1>4, <1>7, <3>3 DEF FirstInv
    <3> QED BY <1>14, <3>3, <3>4
  <2> QED BY <2>1, <2>2
<1>16. ~subscribed => \A d \in DOMAIN entries' : Unfilled(d)'
  BY <1>7, <1>14 DEF FirstInv
<1> QED BY <1>5, <1>13, <1>15, <1>16 DEF FirstInv

(* What every step but a creation and an answer does: more is sent, or
   nothing. *)
LEMMA ProlongedFirst ==
  ASSUME CacheInv, CacheInv', ListInv, AnswersInv, FirstInv, Live, Live', ctx = "ready", [Next]_vars,
         \A p \in Threads : ~Create(p), UNCHANGED <<entries, subscribed>>,
         Prolongs(requests', requests), Prolongs(inbox', inbox),
         \A n \in DOMAIN inbox' : n \in DOMAIN inbox \/ inbox'[n].t = "event",
         \A s \in Sinks : index'[s] # Absent =>
           \/ index'[s] = index[s] /\ level'[s] = level[s]
           \/ /\ subscribed => \E n \in DOMAIN inbox' : /\ n > Len(inbox) /\ inbox'[n].t = "event"
                                                        /\ inbox'[n].index = index'[s]
              /\ index'[s] = 0 => index[s] = 0
  PROVE  FirstInv'
<1>1. WireTypes' /\ entries \in Seq(Entry)
  BY DEF CacheInv, TypeInv, CacheTypes
<1>2. ASSUME NEW e, NEW k \in Nat \cup {Freed}, NEW l
      PROVE  /\ Expected(e) => Expected(e)'
             /\ Follows(e, k, l) /\ (~subscribed => k = 0 /\ Expected(e)) => Follows(e, k, l)'
  BY <1>1, FollowsProlonged
<1>3. ASSUME NEW e \in DOMAIN entries \ raced', MayBeFirst(e)', NEW k, k = entries[e].index,
             NEW l, l = entries[e].level
      PROVE  Follows(e, k, l)'
  <2>1. entries[e] \in Entry /\ MayBeFirst(e) /\ e \notin raced
    BY <1>1, <1>3, MayBeFirstSteps
  <2>2. k \in Nat \cup {Freed}
    BY <1>3, <2>1 DEF Entry
  <2>3. Follows(e, k, l) /\ (~subscribed => Unfilled(e))
    BY <1>3, <2>1 DEF FirstInv
  <2> QED BY <1>2, <1>3, <2>2, <2>3 DEF Unfilled
<1>4. \A e : Unfilled(e) => Unfilled(e)'
  <2>1. ASSUME NEW e PROVE Expected(e) => Expected(e)'
    <3>1. 0 \in Nat \cup {Freed}
      OBVIOUS
    <3> QED BY <1>2, <3>1
  <2> QED BY <2>1 DEF Unfilled
<1>5. ASSUME NEW e, Waiting(e)' PROVE Unfilled(e)'
  <2>1. Waiting(e)
    BY <1>5, MayBeFirstSteps
  <2> QED BY <1>4, <2>1 DEF FirstInv
<1> QED BY <1>3, <1>4, <1>5 DEF FirstInv

LEMMA ServeFirst ==
  ASSUME CacheInv, CacheInv', StartInv, FirstInv, Live, Live', ctx = "ready", Serve, [Next]_vars
  PROVE  FirstInv'
<1>1. UNCHANGED <<entries, list, tail, at, found, last, raced>> /\ entries \in Seq(Entry)
  BY ServeEffect DEF Serve, locals, CacheInv, TypeInv, CacheTypes
<1>2. ASSUME NEW e
      PROVE  /\ Expected(e) => Expected(e)'
             /\ \A k \in Nat \cup {Freed} : \A l : Follows(e, k, l) => Follows(e, k, l)'
  BY FollowsAfterServe DEF StartInv
<1>3. \A e : /\ MayBeFirst(e)' => MayBeFirst(e)
             /\ Waiting(e)' => Waiting(e)
             /\ Unfilled(e) => Unfilled(e)'
  BY <1>1, <1>2 DEF MayBeFirst, Waiting, AtHead, Unfilled
<1>4. ASSUME NEW e \in DOMAIN entries \ raced, MayBeFirst(e)', NEW k, k = entries[e].index, NEW l, l = entries[e].level
      PROVE  Follows(e, k, l)'
  <2>1. entries[e] \in Entry /\ MayBeFirst(e)
    BY <1>1, <1>3, <1>4
  <2>2. k \in Nat \cup {Freed}
    BY <1>4, <2>1 DEF Entry
  <2>3. Follows(e, k, l)
    BY <1>4, <2>1 DEF FirstInv
  <2> QED BY <1>2, <2>2, <2>3
<1>5. ~subscribed' => ~subscribed
  BY ServeEffect
<1> QED BY <1>1, <1>3, <1>4, <1>5 DEF FirstInv

(* While main is about to link the first entry no information comes. *)
LEMMA NoInfoYet ==
  ASSUME CacheInv, StartInv, Live, ctx = "ready", Dispatches, inbox[1].t = "info"
  PROVE  \A e : ~Waiting(e)
<1> SUFFICES ASSUME NEW e, Waiting(e) PROVE FALSE
  OBVIOUS
<1>1. at["pulse"] = "idle" /\ 1 \in DOMAIN inbox
  BY DispatchEffect
<1>2. default_sink = NoSink
  BY <1>1 DEF Waiting, StartInv, DefaultInv
<1>3. ServerFirst
  BY <1>2 DEF StartInv, AnswersInv
<1>4. ASSUME NEW i \in DOMAIN inbox, \A j \in 1..i : inbox[j].t \in {"server", "event"} PROVE FALSE
  <2>1. 1 \in 1..i
    BY <1>4, DispatchEffect
  <2> QED BY <1>4, <2>1
<1> QED BY <1>1, <1>3, <1>4 DEF ServerFirst

LEMMA DispatchFirst ==
  ASSUME CacheInv, CacheInv', ListInv, StartInv, FirstInv, Live, Live', ctx = "ready", Dispatches, [Next]_vars
  PROVE  FirstInv'
<1>1. /\ UNCHANGED <<list, tail, found, raced, subscribed>> /\ entries \in Seq(Entry) /\ CacheTypes
      /\ inbox[1] \in Messages /\ 1 \in DOMAIN inbox
  BY DispatchEffect DEF CacheInv, TypeInv, CacheTypes
<1>2. subscribed
  <2>1. inbox # <<>>
    BY DispatchEffect
  <2> QED BY <2>1 DEF StartInv, AnswersInv
<1>3. Prolongs(requests', requests)
  <2>1. CASE SubscribeCallback
    BY <2>1, AskProlongs
  <2>2. CASE ~SubscribeCallback
    BY <2>2, DispatchEffect DEF Prolongs
  <2> QED BY <2>1, <2>2
<1>4. \A p \in Threads : ~Create(p)
  <2>1. ASSUME NEW p \in Threads, Create(p) PROVE FALSE
    <3>1. inbox' = inbox
      BY <2>1 DEF Create, New, Allocates, AsksFor
    <3> QED BY <3>1, DispatchEffect
  <2> QED BY <2>1
<1>5. \A e : (MayBeFirst(e)' => MayBeFirst(e)) /\ (Waiting(e)' => Waiting(e))
  BY <1>4, MayBeFirstSteps
<1>6. CASE SinkInfoCallback
  <2>1. PICK m \in Messages : m = inbox[1]
    BY <1>1
  <2>2. /\ m.t = "info" /\ m.e \in DOMAIN entries /\ DOMAIN entries' = DOMAIN entries
        /\ \A e \in DOMAIN entries \ {m.e} : entries'[e] = entries[e]
        /\ entries'[m.e].index = m.index /\ entries'[m.e].level = m.level
    BY <1>6, <2>1, InfoEffect
  <2>3. ASSUME NEW e \in DOMAIN entries \ raced, MayBeFirst(e)', NEW k, k = entries'[e].index,
               NEW l, l = entries'[e].level
        PROVE  Follows(e, k, l)'
    <3>1. PICK x, y : x = entries[e].index /\ y = entries[e].level /\ Follows(e, x, y)
      BY <1>5, <2>3 DEF FirstInv
    <3>2. CASE e = m.e
      BY <1>6, <2>1, <2>2, <2>3, <3>1, <3>2, FollowsAfterInfo
    <3>3. CASE e # m.e
      <4>1. k = x /\ l = y
        BY <2>2, <2>3, <3>1, <3>3
      <4> QED BY <1>3, <2>1, <2>2, <3>1, <3>3, <4>1, FollowsAfterDispatch
    <3> QED BY <3>2, <3>3
  <2>4. \A e : ~Waiting(e)'
    BY <1>5, <2>1, <2>2, NoInfoYet
  <2> QED BY <1>1, <1>2, <2>2, <2>3, <2>4 DEF FirstInv
<1>7. CASE ~SinkInfoCallback
  <2>1. entries' = entries
    BY <1>7, DispatchEffect
  <2>2. inbox[1].t # "info"
    <3>1. ~SinkInfoAfterFree
      <4>1. ASSUME SinkInfoAfterFree PROVE FALSE
        <5>1. Incoming("info") /\ entries[Head(inbox).e].index = Freed
          BY <4>1 DEF SinkInfoAfterFree
        <5>2. Head(inbox).e \in DOMAIN entries
          BY <5>1, IncomingTypes
        <5> QED BY <5>1, <5>2 DEF StartInv, DefaultInv
      <4> QED BY <4>1
    <3>2. SubscribeCallback \/ SinkMissingCallback \/ ServerInfoCallback
      BY <1>7, <3>1 DEF Dispatches
    <3> QED BY <3>2, DispatchEffect
  <2>3. ASSUME NEW e, Waiting(e)' PROVE Unfilled(e)'
    <3>1. Unfilled(e)
      BY <1>5, <2>3 DEF FirstInv
    <3>2. Expected(e)'
      BY <1>3, <2>2, <3>1, ExpectedAfterDispatch DEF Unfilled
    <3> QED BY <2>1, <3>1, <3>2 DEF Unfilled
  <2>4. ASSUME NEW e \in DOMAIN entries \ raced, MayBeFirst(e), NEW k, k = entries[e].index,
               inbox[1].t = "event", inbox[1].index = k
        PROVE  Asked(e, k)' \/ \A s \in Sinks : index[s] = k => Sure(e) \/ InfoAfter(e, 0)
    <3>1. CASE list # <<>> /\ e = list[1]
      <4>1. k \in Nat
        BY <1>1, <2>4, MessageKinds
      <4>2. WalkByIndex(k) = 1
        <5>1. 1 \in DOMAIN list /\ entries[list[1]].index = k
          BY <1>1, <2>4, <3>1 DEF CacheTypes
        <5>2. WalkByIndex(k) # 0 /\ WalkByIndex(k) <= 1 /\ WalkByIndex(k) \in 0..Len(list) /\ Len(list) \in Nat
          BY <1>1, <4>1, <5>1, ByIndexProps
        <5> QED BY <5>2
      <4>3. SubscribeCallback
        BY <2>4, DispatchEffect
      <4>4. PICK r : r = [t |-> "index", e |-> e, index |-> k]
        OBVIOUS
      <4>5. Ask(r)
        <5>1. Head(inbox).index = k
          BY <1>1, <2>4, <4>3, IncomingTypes DEF SubscribeCallback
        <5> QED BY <3>1, <4>2, <4>3, <4>4, <5>1 DEF SubscribeCallback
      <4>6. requests' = Append(requests, r) /\ requests \in Seq(Requests)
        BY <4>5 DEF Ask, CacheInv, TypeInv, WireTypes
      <4>7. Len(requests) + 1 \in DOMAIN requests' /\ requests'[Len(requests) + 1] = r
        BY <4>6, AppendProlongs
      <4> QED BY <4>4, <4>7 DEF Asked
    <3>2. ASSUME Waiting(e)
          PROVE  \A s \in Sinks : index[s] = k => Sure(e) \/ InfoAfter(e, 0)
      BY <2>4, <3>2 DEF FirstInv, Unfilled, Expected
    <3> QED BY <2>4, <3>1, <3>2, TwoThreads DEF MayBeFirst, AtHead, Waiting
  <2>5. ASSUME NEW e \in DOMAIN entries \ raced, MayBeFirst(e)', NEW k, k = entries[e].index,
               NEW l, l = entries[e].level
        PROVE  Follows(e, k, l)'
    <3>1. MayBeFirst(e) /\ Follows(e, k, l)
      BY <1>5, <2>5 DEF FirstInv
    <3> QED BY <1>3, <2>2, <2>4, <2>5, <3>1, FollowsAfterDispatch
  <2> QED BY <1>1, <1>2, <2>1, <2>3, <2>5 DEF FirstInv
<1> QED BY <1>6, <1>7

(* The steps that bring no news. *)
LEMMA QuietSteps ==
  ASSUME [Next]_vars, ctx' = "ready"
  PROVE  \/ Free \/ Change \/ Serve \/ Dispatches \/ StateCallback \/ \E p \in Threads : Create(p)
         \/ /\ UNCHANGED <<index, level, entries, subscribed, inbox, ctx>>
            /\ requests' = requests \/ ServerInfoAsks
<1>1. CASE Main
  <2>1. CASE FindBySink("main")
    BY <2>1, TwoThreads DEF FindBySink, Find, Load, Link, MoveTail, cache, link, wire, server
  <2>2. CASE InitEnds \/ InitStarts
    BY <2>2 DEF InitEnds, InitStarts, cache, wire, server
  <2>3. CASE InitFails \/ InitWaits \/ FindCrashes \/ Read \/ Stop
    BY <2>3 DEF InitFails, InitWaits, FindCrashes, Read, Stop, cache, link, wire, server
  <2> QED BY <1>1, <2>1, <2>2, <2>3 DEF Main
<1>2. CASE Pulse
  <2>1. CASE FindBySink("pulse")
    BY <2>1, TwoThreads DEF FindBySink, Find, Load, Link, MoveTail, cache, link, wire, server
  <2>2. CASE ServerInfoAsks \/ SinkInfoRaises
    BY <2>2 DEF ServerInfoAsks, SinkInfoRaises, cache, link, wire, server
  <2> QED BY <1>2, <2>1, <2>2 DEF Pulse, PulseGoesOn, Dispatches
<1> QED BY <1>1, <1>2 DEF Next, Finished, Lookup, vars, cache, link, wire, server

LEMMA FirstInvNext ==
  ASSUME Harmless, CacheInv, CacheInv', BoundInv, ListInv, StartInv, FirstInv, [Next]_vars
  PROVE  FirstInv'
<1> SUFFICES ASSUME Live', ctx' = "ready" PROVE FirstInv'
  BY DEF FirstInv
<1>1. Live /\ ~Free
  BY LiveBefore
<1>2. Prolongs(requests, requests) /\ Prolongs(inbox, inbox) /\ AnswersInv
  BY DEF Prolongs, StartInv
<1>3. CASE \E p \in Threads : Create(p)
  <2>1. PICK p \in Threads : Create(p)
    BY <1>3
  <2>2. ctx = "ready"
    BY <2>1 DEF Create, New, Allocates, AsksFor
  <2> QED BY <1>1, <1>2, <2>1, <2>2, CreateFirst
<1>4. ASSUME \A p \in Threads : ~Create(p), UNCHANGED <<entries, subscribed, ctx>>,
             Prolongs(requests', requests), Prolongs(inbox', inbox),
             \A n \in DOMAIN inbox' : n \in DOMAIN inbox \/ inbox'[n].t = "event",
             \A s \in Sinks : index'[s] # Absent =>
               \/ index'[s] = index[s] /\ level'[s] = level[s]
               \/ /\ subscribed => \E n \in DOMAIN inbox' : /\ n > Len(inbox) /\ inbox'[n].t = "event"
                                                            /\ inbox'[n].index = index'[s]
                  /\ index'[s] = 0 => index[s] = 0
      PROVE  FirstInv'
  <2>1. ctx = "ready"
    BY <1>4
  <2> QED BY <1>1, <1>2, <1>4, <2>1, ProlongedFirst
<1>5. CASE Change /\ \A p \in Threads : ~Create(p)
  <2>1. UNCHANGED <<entries, subscribed, ctx, requests>>
    BY <1>5, ChangeEffect
  <2>2. Prolongs(requests', requests)
    BY <1>2, <2>1
  <2> QED BY <1>4, <1>5, <2>1, <2>2, NotifyProlongs, ChangedSinks
<1>6. CASE Serve
  <2>1. ctx = "ready"
    BY <1>6, ServeEffect
  <2> QED BY <1>1, <1>6, <2>1, ServeFirst
<1>7. CASE Dispatches
  <2>1. ctx = "ready"
    BY <1>7, DispatchEffect
  <2> QED BY <1>1, <1>7, <2>1, DispatchFirst
<1>8. CASE StateCallback
  <2>1. entries = <<>> /\ entries' = entries
    BY <1>8 DEF StateCallback, StartInv, ConnectionInv, Empty, cache
  <2>2. DOMAIN entries' = {}
    BY <2>1
  <2>3. \A e : ~Waiting(e)'
    BY <2>2, TwoThreads DEF CacheInv, Allocated, Waiting, AtHead
  <2> QED BY <2>2, <2>3 DEF FirstInv
<1>9. CASE /\ UNCHANGED <<index, level, entries, subscribed, inbox, ctx>>
           /\ requests' = requests \/ ServerInfoAsks
           /\ \A p \in Threads : ~Create(p)
  <2>1. Prolongs(requests', requests)
    BY <1>2, <1>9, AskProlongs
  <2>2. Prolongs(inbox', inbox) /\ \A n \in DOMAIN inbox' : n \in DOMAIN inbox
    BY <1>2, <1>9
  <2> QED BY <1>4, <1>9, <2>1, <2>2
<1> QED BY <1>1, <1>3, <1>5, <1>6, <1>7, <1>8, <1>9, QuietSteps

LEMMA FirstInvInit == Init => FirstInv
BY DEF Init, FirstInv

(* The first entry keeps up with its sink, however the two threads and the
   server take turns, unless it is an entry of main's whose insertion met the
   other thread's; and if no sink has the index 0, or if config.h names no
   sink: an entry whose information has not come yet has the index 0, and
   an event of the sink with that index finds it in its entry's place. *)
THEOREM FirstEntryKeepsUp == ASSUME Harmless PROVE Spec => []NeverBehind
<1>1. Init => CacheInv /\ LookupInv /\ BoundInv /\ ListInv /\ StartInv /\ FirstInv
  BY CacheInvInit, LookupInvInit, BoundInit, ListInvInit, StartInvInit, FirstInvInit
<1>2. /\ CacheInv /\ LookupInv /\ BoundInv /\ ListInv /\ StartInv /\ FirstInv /\ [Next]_vars
      => (CacheInv /\ LookupInv /\ BoundInv /\ ListInv /\ StartInv /\ FirstInv)'
  <2> SUFFICES ASSUME CacheInv, LookupInv, BoundInv, ListInv, StartInv, FirstInv, [Next]_vars
               PROVE  (CacheInv /\ LookupInv /\ BoundInv /\ ListInv /\ StartInv /\ FirstInv)'
    OBVIOUS
  <2>1. CacheInv'
    BY CacheInvNext
  <2> QED BY <2>1, LookupInvNext, BoundNext, ListInvNext, StartInvNext, FirstInvNext
<1>3. CacheInv /\ FirstInv => NeverBehind
  <2> SUFFICES ASSUME CacheInv, FirstInv, ctx = "ready", Live, list # <<>>,
                      list[1] \notin raced, NEW s \in Sinks, index[s] = entries[list[1]].index
               PROVE  entries[list[1]].level = level[s] \/ OnItsWay(list[1])
    BY DEF NeverBehind, Live
  <2>1. PICK e : e = list[1]
    OBVIOUS
  <2>2. e \in DOMAIN entries \ raced /\ MayBeFirst(e)
    BY <2>1 DEF CacheInv, TypeInv, CacheTypes, MayBeFirst
  <2>3. Covered(e, entries[e].index, entries[e].level, 0)
    BY <2>2 DEF FirstInv, Follows
  <2>4. Sure(e) \/ Asked(e, entries[e].index) => OnItsWay(e)
    <3>1. ASSUME NEW n \in DOMAIN requests PROVE requests[n] \in Range(requests)
      BY DEF Range
    <3>2. ASSUME NEW n \in DOMAIN requests, requests[n] = [t |-> "name", e |-> e, sink |-> NoSink]
          PROVE  requests[n].t \in {"name", "index"} /\ requests[n].e = e
      BY <3>2
    <3>3. ASSUME NEW n \in DOMAIN requests, requests[n] = [t |-> "index", e |-> e, index |-> entries[e].index]
          PROVE  requests[n].t \in {"name", "index"} /\ requests[n].e = e
      BY <3>3
    <3> QED BY <3>1, <3>2, <3>3 DEF Sure, Asked, OnItsWay
  <2>5. EventAfter(entries[e].index, 0) \/ InfoAfter(e, 0) => OnItsWay(e)
    <3>1. \A n \in DOMAIN inbox : inbox[n] \in Range(inbox)
      BY DEF Range
    <3> QED BY <3>1 DEF EventAfter, InfoAfter, OnItsWay
  <2> QED BY <2>1, <2>3, <2>4, <2>5 DEF Covered
<1> QED BY <1>1, <1>2, <1>3, PTL DEF Spec


-----------------------------------------------------------------------------
(* Entries for the default sink                                            *)

(* What is on its way stays on its way while requests and messages are added. *)
LEMMA AwaitedProlonged ==
  ASSUME Prolongs(requests', requests), Prolongs(inbox', inbox), NEW e
  PROVE  /\ Sure(e) => Sure(e)'
         /\ InfoAfter(e, 0) => InfoAfter(e, 0)'
BY DEF Sure, InfoAfter, Prolongs

(* The server answers a request that names no sink with the default's data. *)
LEMMA AwaitedAfterServe ==
  ASSUME CacheInv, Present(default), Serve, NEW e, Sure(e) \/ InfoAfter(e, 0)
  PROVE  Sure(e)' \/ InfoAfter(e, 0)'
<1>1. PICK r \in Requests : r = requests[1]
  BY ServeEffect
<1>2. inbox \in Seq(Messages) /\ ServerTypes /\ Len(inbox) \in Nat
  BY DEF CacheInv, TypeInv, WireTypes
<1>3. Prolongs(inbox', inbox)
  <2>1. CASE inbox' = inbox
    BY <2>1 DEF Prolongs
  <2>2. ASSUME NEW a, inbox' = Append(inbox, a) PROVE Prolongs(inbox', inbox)
    BY <1>2, <2>2, AppendProlongs
  <2> QED BY <2>1, <2>2, ServeEffect
<1>4. CASE InfoAfter(e, 0)
  BY <1>3, <1>4 DEF InfoAfter, Prolongs
<1>5. ASSUME NEW n \in DOMAIN requests \ {1}, requests[n] = [t |-> "name", e |-> e, sink |-> NoSink]
      PROVE  Sure(e)'
  <2>1. n - 1 \in DOMAIN requests' /\ requests'[n - 1] = requests[n]
    BY ServeEffect
  <2> QED BY <1>5, <2>1 DEF Sure
<1>6. CASE r = [t |-> "name", e |-> e, sink |-> NoSink]
  <2>1. r.t = "name" /\ r.e = e /\ r.sink = NoSink
    BY <1>6
  <2>2. default \in Meant(r)
    BY <1>2, <2>1 DEF Meant, ServerTypes
  <2>3. PICK a \in Answers(r) : inbox' = Append(inbox, a)
    BY <1>1, <2>1, ServeEffect
  <2>4. a.t = "info" /\ a.e = e
    BY <1>2, <2>1, <2>2, AnswerKinds
  <2>5. Len(inbox) + 1 \in DOMAIN inbox' /\ inbox'[Len(inbox) + 1] = a /\ Len(inbox) + 1 > 0
    BY <1>2, <2>3
  <2> QED BY <2>4, <2>5 DEF InfoAfter
<1> QED BY <1>1, <1>4, <1>5, <1>6 DEF Sure

(* A message about another entry leaves what is on its way for this one. *)
LEMMA AwaitedAfterDispatch ==
  ASSUME CacheInv, Dispatches, NEW e, Sure(e) \/ InfoAfter(e, 0),
         ~(inbox[1].t = "info" /\ inbox[1].e = e)
  PROVE  Sure(e)' \/ InfoAfter(e, 0)'
<1>1. Prolongs(requests', requests)
  BY AskProlongs, DispatchEffect DEF Prolongs
<1>2. CASE Sure(e)
  BY <1>1, <1>2 DEF Sure, Prolongs
<1>3. ASSUME NEW n \in DOMAIN inbox, inbox[n].t = "info", inbox[n].e = e
      PROVE  InfoAfter(e, 0)'
  <2>1. n # 1 /\ n \in Nat
    BY <1>3, DispatchEffect
  <2>2. n - 1 \in DOMAIN inbox' /\ (n - 1) + 1 = n /\ n - 1 > 0
    BY <2>1, DispatchEffect
  <2>3. inbox'[n - 1] = inbox[n]
    BY <2>2, DispatchEffect
  <2> QED BY <1>3, <2>2, <2>3 DEF InfoAfter
<1> QED BY <1>2, <1>3 DEF InfoAfter

LEMMA FilledInvNext ==
  ASSUME NoIndexZero, CacheInv, BoundInv, StartInv, FilledInv, [Next]_vars
  PROVE  FilledInv'
<1> SUFFICES ASSUME ctx' = "ready"
             PROVE  /\ \A e \in DOMAIN entries' : entries'[e].sink = NoSink => Filled(e)'
                    /\ \A n \in DOMAIN inbox' : inbox'[n].t = "info" => inbox'[n].index # 0
  BY DEF FilledInv
<1> USE DEF CacheInv, TypeInv
<1>1. CASE StateCallback
  <2>1. entries' = <<>> /\ inbox' = <<>>
    BY <1>1 DEF StateCallback, StartInv, ConnectionInv, Empty, Silent, cache
  <2> QED BY <2>1
<1>2. ctx = "ready" \/ StateCallback
  <2>1. CASE Dispatches \/ Serve \/ Change
    BY <2>1, DispatchEffect, ServeEffect, ChangeEffect
  <2>2. CASE Free \/ \E p \in Threads : Create(p)
    BY <2>2 DEF Free, Create, New, Allocates, AsksFor, link
  <2> QED BY <2>1, <2>2, QuietSteps
<1>3. ASSUME ctx = "ready", NEW n \in DOMAIN inbox', NEW m, m = inbox'[n], m.t = "info"
      PROVE  m.index # 0
  <2>1. CASE \E k \in DOMAIN inbox : inbox'[n] = inbox[k]
    BY <1>3, <2>1 DEF FilledInv
  <2>2. CASE Serve /\ requests[1].t # "subscribe" /\ requests[1] \in Requests /\ m \in Answers(requests[1])
    <3>1. PICK r \in Requests : r = requests[1] /\ m \in Answers(r) /\ r.t # "subscribe"
      BY <2>2
    <3>2. \E s \in Meant(r) : m.index = index[s] /\ s \in Sinks
      BY <1>3, <3>1, AnswerKinds
    <3> QED BY <3>2 DEF BoundInv
  <2>3. CASE m.t = "event"
    BY <1>3, <2>3
  <2> QED BY <1>3, <2>1, <2>2, <2>3, MessageSteps
<1>4. ASSUME ctx = "ready", NEW e \in DOMAIN entries, entries'[e] = entries[e], entries[e].sink = NoSink,
             Sure(e) \/ InfoAfter(e, 0) => Sure(e)' \/ InfoAfter(e, 0)'
      PROVE  Filled(e)'
  BY <1>4 DEF FilledInv, Filled
<1>5. Prolongs(requests, requests) /\ Prolongs(inbox, inbox)
  BY DEF Prolongs
<1>6. ASSUME ctx = "ready", NEW p \in Threads, Create(p), NEW e \in DOMAIN entries', entries'[e].sink = NoSink
      PROVE  Filled(e)'
  <2>1. CASE e \in DOMAIN entries /\ entries'[e] = entries[e]
    <3>1. Prolongs(requests', requests) /\ Prolongs(inbox', inbox)
      BY <1>5, <1>6, AskProlongs DEF Create, New, Allocates, AsksFor
    <3> QED BY <1>4, <1>6, <2>1, <3>1, AwaitedProlonged
  <2>2. CASE e = Len(entries) + 1 /\ e \notin DOMAIN entries
    <3>1. PICK x : x = [sink |-> Stored(arg[p]), index |-> 0, level |-> 0]
      OBVIOUS
    <3>2. entries' = Append(entries, x) /\ x.sink = Stored(arg[p])
      BY <1>6, <3>1 DEF Create, New, Allocates, AsksFor
    <3>3. Stored(arg[p]) = NoSink
      BY <1>6, <2>2, <3>2 DEF CacheTypes
    <3>4. found'[p] = e
      BY <1>6, <2>2 DEF Create, New, Allocates, AsksFor, PlaceTypes
    <3>5. PICK r : r = [t |-> "name", e |-> e, sink |-> NoSink]
      OBVIOUS
    <3>6. Ask(r)
      BY <1>6, <3>3, <3>4, <3>5 DEF Create, New, Allocates, AsksFor
    <3>7. Len(requests) + 1 \in DOMAIN requests' /\ requests'[Len(requests) + 1] = r
      BY <3>6 DEF Ask, WireTypes
    <3> QED BY <3>5, <3>7 DEF Filled, Sure
  <2>3. PICK y : entries' = Append(entries, y)
    BY <1>6 DEF Create, New, Allocates, AsksFor
  <2> QED BY <1>6, <2>1, <2>2, <2>3 DEF CacheTypes
<1>7. ASSUME ctx = "ready", \A p \in Threads : ~Create(p), ~StateCallback,
             NEW e \in DOMAIN entries', entries'[e].sink = NoSink
      PROVE  Filled(e)'
  <2>1. e \in DOMAIN entries /\ entries[e].sink = NoSink
    BY <1>7, EntrySteps, SinksKept, InfoEffect
  <2>2. CASE Free
    <3>1. entries'[e].index \in {entries[e].index, Freed} /\ UNCHANGED <<requests, inbox>>
      BY <2>1, <2>2, FreeEffect DEF Free, link, wire
    <3> QED BY <1>7, <2>1, <3>1 DEF FilledInv, Filled, Freed, Sure, InfoAfter
  <2>3. CASE Change
    <3>1. entries' = entries /\ Prolongs(requests', requests) /\ Prolongs(inbox', inbox)
      BY <1>5, <2>3, ChangeEffect, NotifyProlongs
    <3> QED BY <1>4, <1>7, <2>1, <3>1, AwaitedProlonged
  <2>4. CASE Serve
    <3>1. entries' = entries /\ Present(default)
      BY <2>4, ServeEffect DEF StartInv
    <3> QED BY <1>4, <1>7, <2>1, <2>4, <3>1, AwaitedAfterServe
  <2>5. CASE Dispatches /\ ~(inbox[1].t = "info" /\ inbox[1].e = e)
    <3>1. entries'[e] = entries[e]
      <4>1. CASE SinkInfoCallback
        BY <2>1, <2>5, <4>1, InfoEffect
      <4> QED BY <2>5, <4>1, DispatchEffect
    <3> QED BY <1>4, <1>7, <2>1, <2>5, <3>1, AwaitedAfterDispatch
  <2>6. CASE Dispatches /\ inbox[1].t = "info" /\ inbox[1].e = e
    <3>1. 1 \in DOMAIN inbox /\ inbox[1].index # 0
      BY <1>7, <2>6, DispatchEffect DEF FilledInv
    <3>2. CASE SinkInfoCallback
      <4>1. entries'[e].index = inbox[1].index
        BY <2>6, <3>2, InfoEffect
      <4> QED BY <3>1, <4>1 DEF Filled
    <3>3. CASE SinkInfoAfterFree
      <4>1. entries'[e].index = Freed
        BY <2>6, <3>3, IncomingTypes DEF SinkInfoAfterFree
      <4> QED BY <4>1 DEF Filled, Freed
    <3>4. SinkInfoCallback \/ SinkInfoAfterFree
      BY <2>6, DispatchEffect, IncomingTypes DEF Dispatches, SubscribeCallback, SinkMissingCallback,
                                                 ServerInfoCallback
    <3> QED BY <3>2, <3>3, <3>4
  <2>7. CASE UNCHANGED <<entries, inbox>> /\ (requests' = requests \/ ServerInfoAsks)
    <3>1. Prolongs(requests', requests) /\ Prolongs(inbox', inbox)
      BY <1>5, <2>7, AskProlongs
    <3> QED BY <1>4, <1>7, <2>1, <2>7, <3>1, AwaitedProlonged
  <2> QED BY <1>7, <2>2, <2>3, <2>4, <2>5, <2>6, <2>7, QuietSteps
<1> QED BY <1>1, <1>2, <1>3, <1>6, <1>7

(* No reply about the default sink is lost: when all messages are dealt with
   every entry for it has the index of a sink, and the server's default's if
   that never changed, where no sink has the index 0. *)
THEOREM DefaultIsShown == ASSUME NoIndexZero PROVE Spec => []ShowsDefault
<1> DEFINE I == CacheInv /\ LookupInv /\ BoundInv /\ ListInv /\ StartInv /\ FilledInv
<1>1. Init => I
  <2>1. Init => FilledInv
    BY DEF Init, FilledInv
  <2> QED BY <2>1, CacheInvInit, LookupInvInit, BoundInit, ListInvInit, StartInvInit
<1>2. I /\ [Next]_vars => I'
  <2> SUFFICES ASSUME I, [Next]_vars PROVE I'
    OBVIOUS
  <2>1. CacheInv' /\ LookupInv' /\ BoundInv'
    BY CacheInvNext, LookupInvNext, BoundNext
  <2>2. ListInv' /\ StartInv'
    BY <2>1, ListInvNext, StartInvNext
  <2>3. FilledInv'
    BY NoIndexZero, FilledInvNext
  <2> QED BY <2>1, <2>2, <2>3
<1>3. I => ShowsDefault
  <2> SUFFICES ASSUME I, ctx = "ready", Quiet, Live, NEW e \in DefaultEntries
               PROVE  entries[e].index # 0 /\ (been = {default} => entries[e].index = index[default])
    BY DEF ShowsDefault, Live
  <2>1. e \in DOMAIN entries /\ entries[e].sink = NoSink
    BY DEF DefaultEntries
  <2>2. entries[e].index # 0
    BY <2>1 DEF FilledInv, Filled, Quiet, Sure, InfoAfter
  <2>3. entries[e].index # Freed
    BY <2>1 DEF StartInv, DefaultInv
  <2>4. entries[e].index \in HeldFor(NoSink)
    BY <2>1, <2>2, <2>3 DEF BoundInv, EntryBound
  <2>5. been = {default} => HeldFor(NoSink) = {index[default]}
    BY DEF BoundInv, HistoryInv, HeldFor
  <2> QED BY <2>2, <2>4, <2>5
<1> QED BY <1>1, <1>2, <1>3, PTL DEF Spec

=============================================================================
