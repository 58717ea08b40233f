--------------------------- MODULE BusCacheProofs ---------------------------
(***************************************************************************)
(* Theorems about the caches of upower.c, mm.c and ppd.c, for any devices, *)
(* profiles and levels and any number of changes.                          *)
(***************************************************************************)
EXTENDS BusCache, TLAPS

-----------------------------------------------------------------------------
(* The inductive invariant                                                 *)

AnyReading == UNION {Readings(d) : d \in Devices}
AnyEntry == UNION {Entries(d) : d \in Devices}
AnyValue == UNION {Values(d, p) : d \in Devices, p \in Props}

Messages ==
  [about : Devices \cup {"ppd"}, prop : Props \cup {"added", "removed", "ActiveProfile"},
   value : AnyValue \cup AnyReading \cup Profiles \cup {None}]

TypeInv ==
  /\ bus \in [Devices -> AnyReading \cup {None}]
  /\ object \in [Devices -> AnyReading \cup {None}]
  /\ entry \in [Devices -> AnyEntry \cup {None}] /\ orphans \in SUBSET Devices
  /\ inbox \in Seq(Messages) /\ mode \in Profiles /\ DOMAIN shown = Queries
  /\ \A d \in Devices : bus[d] = None \/ bus[d] \in Readings(d)

(* The library tells what happens to d: this outlives every message. *)
Subscribed(d) == IF d \in Modems THEN "mm" \in client ELSE object[d] # None

Later(n, d, p) == \E k \in DOMAIN inbox : k > n /\ inbox[k].about = d /\ inbox[k].prop = p

(* v is what the daemon says of d, or a message after the n-th changes this, or
   d is a battery whose entry nothing is promised of. *)
Still(n, d, p, v) ==
  \/ Later(n, d, "removed") \/ Later(n, d, p) \/ (d \in Batteries /\ d \in orphans)
  \/ bus[d] # None /\ bus[d][p] = v

(* The newest message about a property tells its value: an older one may be
   wrong, but never the last to be dispatched. *)
MessageOk(n) ==
  LET m == inbox[n]
  IN  \/ m.about = "ppd" /\ m.prop = "ActiveProfile"
      \/ /\ m.about \in Devices /\ Subscribed(m.about)
         /\ \/ m.prop = "removed" /\ m.about \in Modems
            \/ /\ m.prop \in Props /\ m.value \in Values(m.about, m.prop)
               /\ Still(n, m.about, m.prop, m.value)
            \/ /\ m.prop = "added" /\ m.value \in Readings(m.about) /\ m.about \in Modems
               /\ \A p \in Props : Still(n, m.about, p, m.value[p])

(* UPower's objects are never read after the lookup, the modem's are. *)
ObjectOk(d) ==
  object[d] # None =>
    /\ object[d] \in Readings(d) /\ Subscribed(d)
    /\ d \in Modems => \A p \in Props : UpToDate(d, p, object[d][p])

EntryOk(d) ==
  entry[d] # None =>
    /\ entry[d] \in Entries(d)
    /\ d \notin orphans =>
         /\ object[d] # None
         /\ \A p \in Props : UpToDate(d, p, entry[d][p]) \/ (IsPair(d, p) /\ entry[d][p] \in Misread)

Fresh ==
  at = "setup" =>
    /\ inbox = <<>> /\ client = {} /\ profile = None
    /\ \A d \in Devices : object[d] = None /\ entry[d] = None
    /\ \A q \in Queries : shown[q] = None

CacheInv ==
  /\ TypeInv /\ Fresh
  /\ \A n \in DOMAIN inbox : MessageOk(n)
  /\ \A d \in Devices : ObjectOk(d) /\ EntryOk(d)

-----------------------------------------------------------------------------
(* Readings and messages                                                   *)

LEMMA RecordProps ==
  ASSUME NEW S, NEW L, NEW r \in [state : S, level : L], NEW p \in Props, NEW v,
         p = "state" => v \in S, p = "level" => v \in L
  PROVE  /\ [r EXCEPT ![p] = v] \in [state : S, level : L]
         /\ \A q \in Props : [r EXCEPT ![p] = v][q] = IF q = p THEN v ELSE r[q]
<1>1. CASE p = "state"
  BY <1>1 DEF Props
<1>2. CASE p = "level"
  BY <1>2 DEF Props
<1> QED BY <1>1, <1>2 DEF Props

LEMMA RecordWider ==
  ASSUME NEW S, NEW L, NEW M, NEW r \in [state : S, level : L], L \subseteq M
  PROVE  r \in [state : S, level : M]
<1>1. r = [state |-> r.state, level |-> r.level] /\ r.state \in S /\ r.level \in M
  OBVIOUS
<1> QED BY <1>1, Zenon

LEMMA ReadingProps ==
  ASSUME NEW d \in Devices, NEW r \in Readings(d)
  PROVE  /\ r # None /\ r \in AnyReading /\ r \in Entries(d)
         /\ \A p \in Props : r[p] \in Values(d, p)
         /\ \A p \in Props : \A v \in Values(d, p) :
              /\ [r EXCEPT ![p] = v] \in Readings(d)
              /\ \A q \in Props : [r EXCEPT ![p] = v][q] = IF q = p THEN v ELSE r[q]
<1>1. r # None /\ r \in AnyReading /\ r \in Entries(d)
  <2> DEFINE S == Values(d, "state")
  <2>1. Readings(d) = [state : S, level : Levels] /\ Entries(d) = [state : S, level : Levels \cup Misread]
    BY DEF Readings, Entries
  <2> HIDE DEF S
  <2>2. r \in [state : S, level : Levels \cup Misread]
    BY <2>1, RecordWider
  <2> QED BY <2>1, <2>2, BusConstants DEF AnyReading
<1>2. \A p \in Props : r[p] \in Values(d, p)
  BY DEF Readings, Values, Props
<1>3. ASSUME NEW p \in Props, NEW v \in Values(d, p)
      PROVE  /\ [r EXCEPT ![p] = v] \in Readings(d)
             /\ \A q \in Props : [r EXCEPT ![p] = v][q] = IF q = p THEN v ELSE r[q]
  <2> DEFINE S == Values(d, "state")
  <2>1. r \in [state : S, level : Levels] /\ Readings(d) = [state : S, level : Levels]
    BY DEF Readings
  <2>2. (p = "state" => v \in S) /\ (p = "level" => v \in Levels)
    BY DEF Values
  <2> HIDE DEF S
  <2> QED BY <2>1, <2>2, RecordProps
<1> QED BY <1>1, <1>2, <1>3

LEMMA EntryProps ==
  ASSUME NEW d \in Devices, NEW p \in Props, NEW x,
         x \in Values(d, p) \/ (p = "level" /\ x \in Misread),
         entry \in [Devices -> AnyEntry \cup {None}], entry[d] \in Entries(d),
         entry' = [entry EXCEPT ![d][p] = x]
  PROVE  /\ entry' \in [Devices -> AnyEntry \cup {None}]
         /\ entry'[d] \in Entries(d)
         /\ \A e \in Devices \ {d} : entry'[e] = entry[e]
         /\ entry'[d][p] = x /\ \A q \in Props \ {p} : entry'[d][q] = entry[d][q]
<1>1. PICK S, L : Entries(d) = [state : S, level : L] /\ S = Values(d, "state") /\ L = Levels \cup Misread
  BY DEF Entries
<1>2. (p = "state" => x \in S) /\ (p = "level" => x \in L)
  BY <1>1 DEF Values
<1>3. PICK r : r = entry[d]
  OBVIOUS
<1>4. PICK t : t = [r EXCEPT ![p] = x]
  OBVIOUS
<1>5. r \in [state : S, level : L]
  BY <1>1, <1>3
<1>6. /\ t \in [state : S, level : L]
      /\ \A q \in Props : t[q] = IF q = p THEN x ELSE r[q]
  BY <1>2, <1>4, <1>5, RecordProps
<1>7. t \in Entries(d) /\ t \in AnyEntry
  BY <1>1, <1>6 DEF AnyEntry
<1>8. entry' = [entry EXCEPT ![d] = t]
  BY <1>3, <1>4
<1> QED BY <1>3, <1>6, <1>7, <1>8

(* What a new message adds, and does not take away. *)
LEMMA Posted ==
  ASSUME inbox \in Seq(Messages), NEW x, NEW p, NEW v, Post(x, p, v),
         [about |-> x, prop |-> p, value |-> v] \in Messages
  PROVE  /\ inbox' \in Seq(Messages) /\ DOMAIN inbox' = DOMAIN inbox \cup {Len(inbox) + 1}
         /\ Len(inbox) + 1 \notin DOMAIN inbox /\ \A n \in DOMAIN inbox : n \in Nat /\ n < Len(inbox) + 1
         /\ inbox'[Len(inbox) + 1] = [about |-> x, prop |-> p, value |-> v]
         /\ \A n \in DOMAIN inbox : inbox'[n] = inbox[n]
         /\ OnItsWay(x, p)' /\ \A n \in DOMAIN inbox : Later(n, x, p)'
         /\ \A y, q : OnItsWay(y, q) => OnItsWay(y, q)'
         /\ \A n, y, q : Later(n, y, q) => Later(n, y, q)'
<1> DEFINE m == [about |-> x, prop |-> p, value |-> v]
           k == Len(inbox) + 1
<1>1. m.about = x /\ m.prop = p
  OBVIOUS
<1>2. inbox' = Append(inbox, m) /\ m \in Messages
  BY DEF Post
<1> HIDE DEF m
<1>3. /\ inbox' \in Seq(Messages) /\ DOMAIN inbox' = DOMAIN inbox \cup {k} /\ k \notin DOMAIN inbox
      /\ inbox'[k] = m /\ \A n \in DOMAIN inbox : inbox'[n] = inbox[n] /\ n \in Nat /\ n < k
  BY <1>2
<1>4. OnItsWay(x, p)' /\ \A n \in DOMAIN inbox : Later(n, x, p)'
  BY <1>1, <1>3 DEF OnItsWay, Later
<1>5. \A y, q : OnItsWay(y, q) => OnItsWay(y, q)'
  BY <1>3 DEF OnItsWay
<1>6. \A n, y, q : Later(n, y, q) => Later(n, y, q)'
  BY <1>3 DEF Later
<1> QED BY <1>3, <1>4, <1>5, <1>6 DEF m

(* The first message goes, all that came after it stay. *)
LEMMA Taken ==
  ASSUME inbox \in Seq(Messages), inbox # <<>>, inbox' = Tail(inbox)
  PROVE  /\ inbox' \in Seq(Messages) /\ 1 \in DOMAIN inbox /\ Head(inbox) = inbox[1]
         /\ \A n \in DOMAIN inbox' : n + 1 \in DOMAIN inbox /\ inbox'[n] = inbox[n + 1]
         /\ \A n \in DOMAIN inbox' : \A y, q : Later(n + 1, y, q) => Later(n, y, q)'
         /\ \A y, q : Later(1, y, q) => OnItsWay(y, q)'
         /\ \A y, q : OnItsWay(y, q) /\ ~(inbox[1].about = y /\ inbox[1].prop = q) => OnItsWay(y, q)'
<1>1. /\ inbox' \in Seq(Messages) /\ 1 \in DOMAIN inbox /\ Head(inbox) = inbox[1]
      /\ \A n \in DOMAIN inbox' : n \in Nat /\ n + 1 \in DOMAIN inbox /\ inbox'[n] = inbox[n + 1]
      /\ \A k \in DOMAIN inbox : k # 1 => k \in Nat /\ k - 1 \in DOMAIN inbox' /\ inbox'[k - 1] = inbox[k]
      /\ \A k \in DOMAIN inbox : k \in Nat /\ k >= 1
  OBVIOUS
<1>2. ASSUME NEW n \in DOMAIN inbox', NEW y, NEW q, Later(n + 1, y, q) PROVE Later(n, y, q)'
  <2>1. PICK k \in DOMAIN inbox : k > n + 1 /\ inbox[k].about = y /\ inbox[k].prop = q
    BY <1>2 DEF Later
  <2>2. k # 1 /\ k - 1 > n
    BY <1>1, <2>1
  <2> QED BY <1>1, <2>1, <2>2 DEF Later
<1>3. ASSUME NEW y, NEW q, Later(1, y, q) PROVE OnItsWay(y, q)'
  <2>1. PICK k \in DOMAIN inbox : k > 1 /\ inbox[k].about = y /\ inbox[k].prop = q
    BY <1>3 DEF Later
  <2>2. k # 1
    BY <2>1
  <2> QED BY <1>1, <2>1, <2>2 DEF OnItsWay
<1>4. ASSUME NEW y, NEW q, OnItsWay(y, q), ~(inbox[1].about = y /\ inbox[1].prop = q)
      PROVE  OnItsWay(y, q)'
  <2>1. PICK k \in DOMAIN inbox : inbox[k].about = y /\ inbox[k].prop = q
    BY <1>4 DEF OnItsWay
  <2>2. k # 1
    BY <1>4, <2>1
  <2> QED BY <1>1, <2>1, <2>2 DEF OnItsWay
<1> QED BY <1>1, <1>2, <1>3, <1>4

LEMMA SameInbox ==
  ASSUME inbox' = inbox
  PROVE  /\ \A y, q : OnItsWay(y, q)' <=> OnItsWay(y, q)
         /\ \A n, y, q : Later(n, y, q)' <=> Later(n, y, q)
BY DEF OnItsWay, Later

-----------------------------------------------------------------------------
(* The daemons                                                             *)

LEMMA InitCache == Init => CacheInv
<1> SUFFICES ASSUME Init PROVE CacheInv
  OBVIOUS
<1>1. object = [d \in Devices |-> None] /\ entry = [d \in Devices |-> None] /\ inbox = <<>>
  BY DEF Init
<1>2. bus \in [Devices -> AnyReading \cup {None}]
  BY DEF Init, AnyReading
<1>3. TypeInv
  <2>1. object \in [Devices -> AnyReading \cup {None}] /\ entry \in [Devices -> AnyEntry \cup {None}]
    BY <1>1
  <2>2. inbox \in Seq(Messages)
    BY <1>1
  <2> QED BY <1>1, <1>2, <2>1, <2>2 DEF TypeInv, Init
<1>4. \A d \in Devices : ObjectOk(d) /\ EntryOk(d)
  BY <1>1 DEF ObjectOk, EntryOk
<1>5. Fresh
  BY <1>1 DEF Fresh, Init
<1> QED BY <1>1, <1>3, <1>4, <1>5 DEF CacheInv

(* A change of a daemon, about x, is told to whoever is subscribed to it: what
   is kept of x stays up to date, and so do the messages about it. *)
LEMMA DaemonKeeps ==
  ASSUME CacheInv, NEW x, UNCHANGED <<object, entry, client, at, profile, shown>>,
         orphans \subseteq orphans', orphans' \subseteq Devices, orphans' \subseteq orphans \cup {x},
         mode' \in Profiles, bus' \in [Devices -> AnyReading \cup {None}],
         \A e \in Devices : bus'[e] = None \/ bus'[e] \in Readings(e),
         \A e \in Devices : e # x => bus'[e] = bus[e],
         \/ inbox' = inbox
         \/ /\ at # "setup"
            /\ \E p, v : Post(x, p, v) /\ [about |-> x, prop |-> p, value |-> v] \in Messages,
         \A n \in DOMAIN inbox' : n = Len(inbox) + 1 => MessageOk(n)',
         x \in Devices /\ Subscribed(x) =>
           \A n \in DOMAIN inbox, p \in Props : \A v : Still(n, x, p, v) => Still(n, x, p, v)',
         x \in Devices /\ Subscribed(x) =>
           \A p \in Props : \A v : UpToDate(x, p, v) /\ (x \in Modems \/ x \notin orphans') => UpToDate(x, p, v)'
  PROVE  CacheInv'
<1> USE DEF CacheInv
<1> DEFINE Grows == /\ inbox' \in Seq(Messages) /\ \A n \in DOMAIN inbox : inbox'[n] = inbox[n]
                    /\ \A n \in DOMAIN inbox' : n \in DOMAIN inbox \/ n = Len(inbox) + 1
                    /\ \A y, q : OnItsWay(y, q) => OnItsWay(y, q)'
                    /\ \A n, y, q : Later(n, y, q) => Later(n, y, q)'
<1>1. Grows
  <2>1. CASE inbox' = inbox
    BY <2>1, SameInbox DEF TypeInv
  <2>2. ASSUME NEW p, NEW v, Post(x, p, v), [about |-> x, prop |-> p, value |-> v] \in Messages
        PROVE  Grows
    BY <2>2, Posted DEF TypeInv
  <2> QED BY <2>1, <2>2
<1>2. \A e : Subscribed(e)' <=> Subscribed(e)
  BY DEF Subscribed
<1>3. ASSUME NEW e \in Devices, e # x, NEW p \in Props, NEW v
      PROVE  /\ UpToDate(e, p, v) => UpToDate(e, p, v)'
             /\ \A n : Still(n, e, p, v) => Still(n, e, p, v)'
  BY <1>1, <1>3 DEF UpToDate, Still
<1>4. TypeInv' /\ Fresh'
  BY <1>1 DEF TypeInv, Fresh
<1>5. ASSUME NEW n \in DOMAIN inbox' PROVE MessageOk(n)'
  <2>1. CASE n \in DOMAIN inbox
    <3>1. MessageOk(n) /\ inbox'[n] = inbox[n]
      BY <1>1, <2>1
    <3>2. \A e \in Devices, p \in Props : \A v : Subscribed(e) /\ Still(n, e, p, v) => Still(n, e, p, v)'
      BY <1>3, <2>1
    <3> QED BY <1>2, <3>1, <3>2 DEF MessageOk
  <2> QED BY <1>1, <2>1
<1>6. ASSUME NEW e \in Devices, Subscribed(e), e \in Modems \/ e \notin orphans', NEW p \in Props, NEW v,
             UpToDate(e, p, v)
      PROVE  UpToDate(e, p, v)'
  BY <1>3, <1>6
<1>7. ASSUME NEW e \in Devices PROVE ObjectOk(e)' /\ EntryOk(e)'
  <2>1. ObjectOk(e) /\ EntryOk(e)
    OBVIOUS
  <2>2. ObjectOk(e)'
    BY <1>2, <1>6, <2>1 DEF ObjectOk
  <2>3. EntryOk(e)'
    BY <1>6, <2>1 DEF EntryOk, ObjectOk
  <2> QED BY <2>2, <2>3
<1> QED BY <1>4, <1>5, <1>7

LEMMA SwitchKeeps ==
  ASSUME CacheInv, Switch, UNCHANGED <<client, object, cache, shown, at>>
  PROVE  CacheInv'
<1> USE DEF CacheInv
<1>1. /\ UNCHANGED <<bus, object, entry, client, at, profile, shown, orphans>> /\ mode' \in Profiles
      /\ inbox \in Seq(Messages)
  BY DEF Switch, cache, TypeInv
<1>2. \/ inbox' = inbox
      \/ /\ at # "setup" /\ Post("ppd", "ActiveProfile", mode')
         /\ [about |-> "ppd", prop |-> "ActiveProfile", value |-> mode'] \in Messages
  BY <1>1 DEF Switch, Fresh, Messages
<1>3. ASSUME NEW n \in DOMAIN inbox', n = Len(inbox) + 1 PROVE MessageOk(n)'
  <2>1. inbox'[n].about = "ppd" /\ inbox'[n].prop = "ActiveProfile"
    BY <1>1, <1>2, <1>3, Posted
  <2> QED BY <2>1 DEF MessageOk
<1>4. "ppd" \notin Devices
  BY BusConstants
<1>5. orphans \subseteq Devices /\ bus \in [Devices -> AnyReading \cup {None}]
      /\ \A e \in Devices : bus[e] = None \/ bus[e] \in Readings(e)
  BY DEF TypeInv
<1> QED BY <1>1, <1>2, <1>3, <1>4, <1>5, DaemonKeeps

(* Whoever is subscribed to gets its changes. *)
LEMMA AlterKeeps ==
  ASSUME CacheInv, NEW d \in Devices, NEW p \in Props, NEW v \in Values(d, p), Alter(d, p, v),
         UNCHANGED <<client, object, cache, shown, at>>
  PROVE  CacheInv'
<1> USE DEF CacheInv
<1>1. /\ UNCHANGED <<object, entry, client, at, profile, shown, mode, orphans>>
      /\ bus[d] # None /\ bus[d] \in Readings(d) /\ bus' = [bus EXCEPT ![d][p] = v]
      /\ inbox \in Seq(Messages) /\ [about |-> d, prop |-> p, value |-> v] \in Messages
  BY DEF Alter, cache, TypeInv, Messages, AnyValue
<1>2. /\ bus'[d] \in Readings(d) /\ bus'[d] # None /\ bus'[d] \in AnyReading
      /\ \A q \in Props : bus'[d][q] = IF q = p THEN v ELSE bus[d][q]
      /\ \A e \in Devices \ {d} : bus'[e] = bus[e]
  <2>1. bus' = [bus EXCEPT ![d] = [bus[d] EXCEPT ![p] = v]]
    BY <1>1
  <2>2. /\ [bus[d] EXCEPT ![p] = v] \in Readings(d)
        /\ \A q \in Props : [bus[d] EXCEPT ![p] = v][q] = IF q = p THEN v ELSE bus[d][q]
    BY <1>1, ReadingProps
  <2>3. bus'[d] = [bus[d] EXCEPT ![p] = v] /\ \A e \in Devices \ {d} : bus'[e] = bus[e]
    BY <2>1 DEF TypeInv
  <2> QED BY <2>2, <2>3, ReadingProps
<1>3. /\ bus' \in [Devices -> AnyReading \cup {None}]
      /\ \A e \in Devices : bus'[e] = None \/ bus'[e] \in Readings(e)
  BY <1>1, <1>2 DEF TypeInv
<1>4. p # "added" /\ p # "removed"
  BY DEF Props
<1>5. IF Subscribed(d) THEN Post(d, p, v) ELSE inbox' = inbox
  BY DEF Alter, Subscribed, ObjectOk
<1>6. at = "setup" => ~Subscribed(d)
  BY DEF Fresh, Subscribed
<1>7. ASSUME Subscribed(d)
      PROVE  /\ \A n \in DOMAIN inbox, q \in Props : \A u : Still(n, d, q, u) => Still(n, d, q, u)'
             /\ \A q \in Props : \A u : UpToDate(d, q, u) => UpToDate(d, q, u)'
  <2>1. /\ OnItsWay(d, p)' /\ \A n \in DOMAIN inbox : Later(n, d, p)'
        /\ \A y, q : OnItsWay(y, q) => OnItsWay(y, q)'
        /\ \A n, y, q : Later(n, y, q) => Later(n, y, q)'
    BY <1>1, <1>5, <1>7, Posted
  <2> QED BY <1>1, <1>2, <2>1 DEF Still, UpToDate
<1>8. ASSUME NEW n \in DOMAIN inbox', n = Len(inbox) + 1 PROVE MessageOk(n)'
  <2>1. Subscribed(d)
    BY <1>1, <1>5, <1>8
  <2>2. inbox'[n] = [about |-> d, prop |-> p, value |-> v]
    BY <1>1, <1>5, <1>8, <2>1, Posted
  <2>3. Still(n, d, p, v)' /\ Subscribed(d)'
    BY <1>1, <1>2, <2>1 DEF Still, Subscribed
  <2> QED BY <2>2, <2>3 DEF MessageOk
<1>9. orphans' = orphans /\ orphans \subseteq Devices /\ mode' \in Profiles
  BY <1>1 DEF TypeInv
<1>10. \/ inbox' = inbox
       \/ /\ at # "setup"
          /\ \E q, u : Post(d, q, u) /\ [about |-> d, prop |-> q, value |-> u] \in Messages
  BY <1>1, <1>5, <1>6
<1>11. UNCHANGED <<object, entry, client, at, profile, shown>> /\ \A e \in Devices : e # d => bus'[e] = bus[e]
  BY <1>1, <1>2
<1> QED BY <1>3, <1>7, <1>8, <1>9, <1>10, <1>11, DaemonKeeps

(* A modem that comes is announced, a battery is not. *)
LEMMA PlugKeeps ==
  ASSUME CacheInv, NEW d \in Devices, Plug(d), UNCHANGED <<client, object, cache, shown, at>>
  PROVE  CacheInv'
<1> USE DEF CacheInv
<1>1. /\ UNCHANGED <<object, entry, client, at, profile, shown, mode, orphans>> /\ bus[d] = None
      /\ inbox \in Seq(Messages) /\ orphans \subseteq Devices
  BY DEF Plug, cache, TypeInv
<1>2. PICK r \in Readings(d) : bus' = [bus EXCEPT ![d] = r]
  BY DEF Plug
<1>3. /\ bus' \in [Devices -> AnyReading \cup {None}] /\ bus'[d] = r /\ r # None
      /\ \A e \in Devices : bus'[e] = None \/ bus'[e] \in Readings(e)
      /\ \A e \in Devices \ {d} : bus'[e] = bus[e]
  BY <1>2, ReadingProps DEF TypeInv
<1>4. [about |-> d, prop |-> "added", value |-> r] \in Messages
  BY ReadingProps DEF Messages
<1>5. inbox' = inbox \/ (d \in Modems /\ Subscribed(d) /\ Post(d, "added", r))
  BY <1>3 DEF Plug, Subscribed
<1>6. at = "setup" => ~(d \in Modems /\ Subscribed(d))
  BY DEF Fresh, Subscribed
<1>7. /\ \A y, q : OnItsWay(y, q) => OnItsWay(y, q)'
      /\ \A n, y, q : Later(n, y, q) => Later(n, y, q)'
  BY <1>1, <1>4, <1>5, Posted, SameInbox
<1>8. /\ \A n \in DOMAIN inbox, q \in Props : \A u : Still(n, d, q, u) => Still(n, d, q, u)'
      /\ \A q \in Props : \A u : UpToDate(d, q, u) => UpToDate(d, q, u)'
  BY <1>1, <1>7 DEF Still, UpToDate
<1>9. ASSUME NEW n \in DOMAIN inbox', n = Len(inbox) + 1 PROVE MessageOk(n)'
  <2>1. d \in Modems /\ Subscribed(d) /\ Post(d, "added", r)
    BY <1>1, <1>5, <1>9
  <2>2. inbox'[n] = [about |-> d, prop |-> "added", value |-> r]
    BY <1>1, <1>4, <1>9, <2>1, Posted
  <2>3. Subscribed(d)' /\ \A p \in Props : Still(n, d, p, r[p])'
    BY <1>1, <1>3, <2>1 DEF Still, Subscribed
  <2> QED BY <2>1, <2>2, <2>3 DEF MessageOk
<1> QED BY <1>1, <1>3, <1>4, <1>5, <1>6, <1>8, <1>9, DaemonKeeps DEF TypeInv

LEMMA UnplugKeeps ==
  ASSUME CacheInv, NEW d \in Devices, Unplug(d), UNCHANGED <<client, object, cache, shown, at>>
  PROVE  CacheInv'
<1> USE DEF CacheInv
<1>1. /\ UNCHANGED <<object, entry, client, at, profile, shown, mode>>
      /\ inbox \in Seq(Messages) /\ orphans \subseteq Devices /\ bus' = [bus EXCEPT ![d] = None]
      /\ orphans' = IF d \in Batteries /\ object[d] # None THEN orphans \cup {d} ELSE orphans
  BY DEF Unplug, cache, TypeInv
<1>2. /\ bus' \in [Devices -> AnyReading \cup {None}]
      /\ \A e \in Devices : bus'[e] = None \/ bus'[e] \in Readings(e)
      /\ \A e \in Devices \ {d} : bus'[e] = bus[e]
  BY <1>1 DEF TypeInv
<1>3. [about |-> d, prop |-> "removed", value |-> None] \in Messages
  BY DEF Messages
<1>4. IF d \in Modems /\ Subscribed(d) THEN Post(d, "removed", None) ELSE inbox' = inbox
  BY DEF Unplug, Subscribed
<1>5. at = "setup" => ~(d \in Modems /\ Subscribed(d))
  BY DEF Fresh, Subscribed
<1>6. d \in Batteries \/ d \in Modems
  BY DEF Devices
<1>7. ASSUME Subscribed(d)
      PROVE  /\ \A n \in DOMAIN inbox, q \in Props : \A u : Still(n, d, q, u)'
             /\ \A q \in Props : \A u : d \in Modems \/ d \notin orphans' => UpToDate(d, q, u)'
  <2>1. CASE d \in Modems
    <3>1. OnItsWay(d, "removed")' /\ \A n \in DOMAIN inbox : Later(n, d, "removed")'
      BY <1>1, <1>3, <1>4, <1>7, <2>1, Posted
    <3> QED BY <3>1 DEF Still, UpToDate
  <2>2. CASE d \in Batteries
    <3>1. d \notin Modems /\ d \in orphans'
      BY <1>1, <1>7, <2>2, BusConstants DEF Subscribed
    <3> QED BY <2>2, <3>1 DEF Still
  <2> QED BY <1>6, <2>1, <2>2
<1>8. ASSUME NEW n \in DOMAIN inbox', n = Len(inbox) + 1 PROVE MessageOk(n)'
  <2>1. d \in Modems /\ Subscribed(d) /\ Post(d, "removed", None)
    BY <1>1, <1>4, <1>8
  <2>2. inbox'[n] = [about |-> d, prop |-> "removed", value |-> None]
    BY <1>1, <1>3, <1>8, <2>1, Posted
  <2>3. Subscribed(d)'
    BY <1>1, <2>1 DEF Subscribed
  <2> QED BY <2>1, <2>2, <2>3 DEF MessageOk
<1> QED BY <1>1, <1>2, <1>3, <1>4, <1>5, <1>7, <1>8, DaemonKeeps DEF TypeInv

-----------------------------------------------------------------------------
(* Main                                                                    *)

(* A step that touches neither messages nor caches. *)
LEMMA CacheUntouched ==
  ASSUME CacheInv, UNCHANGED <<bus, mode, inbox, object, entry, orphans>>, DOMAIN shown' = Queries,
         "mm" \in client => "mm" \in client', at' # "setup"
  PROVE  CacheInv'
<1> USE DEF CacheInv
<1>1. TypeInv' /\ Fresh'
  BY DEF TypeInv, Fresh
<1>2. \A e : Subscribed(e) => Subscribed(e)'
  BY DEF Subscribed
<1>3. \A n, d, p, v : Still(n, d, p, v)' <=> Still(n, d, p, v)
  BY SameInbox DEF Still
<1>4. \A d, p, v : UpToDate(d, p, v)' <=> UpToDate(d, p, v)
  BY SameInbox DEF UpToDate
<1>5. \A n \in DOMAIN inbox : MessageOk(n)'
  BY <1>2, <1>3 DEF MessageOk
<1>6. \A d \in Devices : ObjectOk(d)' /\ EntryOk(d)'
  BY <1>2, <1>4 DEF ObjectOk, EntryOk
<1> QED BY <1>1, <1>5, <1>6

LEMMA SetupKeeps ==
  ASSUME CacheInv, Setup
  PROVE  CacheInv'
<1> USE DEF CacheInv
<1>1. /\ inbox = <<>> /\ \A d \in Devices : object[d] = None /\ entry[d] = None
      /\ UNCHANGED <<bus, mode, inbox, entry, orphans>> /\ at' = "lookups"
      /\ object' = [d \in Devices |-> IF d \in Modems /\ "mm" \in client' THEN bus[d] ELSE None]
  BY DEF Setup, Fresh, daemons
<1>2. DOMAIN shown' = Queries
  BY DEF Setup, PpdUpdate, Raised, TypeInv
<1>3. object' \in [Devices -> AnyReading \cup {None}]
  BY <1>1 DEF TypeInv
<1>4. TypeInv' /\ Fresh'
  BY <1>1, <1>2, <1>3 DEF TypeInv, Fresh
<1>5. \A d \in Devices : ObjectOk(d)' /\ EntryOk(d)'
  BY <1>1 DEF ObjectOk, EntryOk, UpToDate, Subscribed, TypeInv
<1> QED BY <1>1, <1>4, <1>5

(* What a dispatch leaves of the messages' truth: only what the first one, m,
   is about may change. *)
LEMMA FirstTaken ==
  ASSUME CacheInv, inbox # <<>>, inbox' = Tail(inbox), NEW m, m = inbox[1],
         UNCHANGED <<bus, mode, client>>, orphans \subseteq orphans'
  PROVE  /\ inbox' \in Seq(Messages) /\ Head(inbox) = m /\ MessageOk(1) /\ m \in Messages
         /\ \A d \in Devices, p \in Props : \A v :
              /\ UpToDate(d, p, v) /\ ~(m.about = d /\ m.prop \in {p, "removed"}) => UpToDate(d, p, v)'
              /\ Still(1, d, p, v) /\ ~(d \in Batteries /\ d \in orphans) => UpToDate(d, p, v)'
         /\ (\A d \in Devices : Subscribed(d) => Subscribed(d)') => \A n \in DOMAIN inbox' : MessageOk(n)'
<1> USE DEF CacheInv
<1>1. inbox \in Seq(Messages)
  BY DEF TypeInv
<1>2. /\ inbox' \in Seq(Messages) /\ 1 \in DOMAIN inbox /\ Head(inbox) = m /\ MessageOk(1)
      /\ \A n \in DOMAIN inbox' : n + 1 \in DOMAIN inbox /\ inbox'[n] = inbox[n + 1]
      /\ \A n \in DOMAIN inbox' : \A y, q : Later(n + 1, y, q) => Later(n, y, q)'
  BY <1>1, Taken
<1>3. m \in Messages
  BY <1>1, <1>2
<1>4. /\ \A y, q : Later(1, y, q) => OnItsWay(y, q)'
      /\ \A y, q : OnItsWay(y, q) /\ ~(m.about = y /\ m.prop = q) => OnItsWay(y, q)'
  BY <1>1, Taken
<1>5. ASSUME NEW d \in Devices, NEW p \in Props, NEW v
      PROVE  /\ UpToDate(d, p, v) /\ ~(m.about = d /\ m.prop \in {p, "removed"}) => UpToDate(d, p, v)'
             /\ Still(1, d, p, v) /\ ~(d \in Batteries /\ d \in orphans) => UpToDate(d, p, v)'
  BY <1>4 DEF UpToDate, Still
<1>6. ASSUME \A e \in Devices : Subscribed(e) => Subscribed(e)' PROVE \A n \in DOMAIN inbox' : MessageOk(n)'
  <2> SUFFICES ASSUME NEW n \in DOMAIN inbox' PROVE MessageOk(n)'
    OBVIOUS
  <2>1. MessageOk(n + 1) /\ inbox'[n] = inbox[n + 1]
        /\ \A y, q : Later(n + 1, y, q) => Later(n, y, q)'
    BY <1>2
  <2>2. \A d, p, v : Still(n + 1, d, p, v) => Still(n, d, p, v)'
    BY <2>1 DEF Still
  <2> QED BY <1>6, <2>1, <2>2 DEF MessageOk
<1> QED BY <1>2, <1>3, <1>5, <1>6

(* A handler stores the value it was handed, or what it misreads. *)
LEMMA NotifyStores ==
  ASSUME NEW d \in Devices, NEW p \in Props, NEW v \in Values(d, p), Hears(d), Notify(d, p, v),
         entry \in [Devices -> AnyEntry \cup {None}], entry[d] \in Entries(d)
  PROVE  /\ entry' \in [Devices -> AnyEntry \cup {None}]
         /\ entry'[d] \in Entries(d)
         /\ \A e \in Devices \ {d} : entry'[e] = entry[e]
         /\ \E x \in IF IsPair(d, p) THEN Misread ELSE {v} :
              entry'[d][p] = x /\ \A q \in Props \ {p} : entry'[d][q] = entry[d][q]
<1>1. PICK x : /\ x \in IF IsPair(d, p) THEN Misread ELSE {v}
               /\ \/ entry' = [entry EXCEPT ![d][p] = x]
                  \/ x = entry[d][p] /\ entry' = entry
  BY DEF Notify, Compare
<1>2. x \in Values(d, p) \/ (p = "level" /\ x \in Misread)
  BY <1>1 DEF IsPair
<1>3. /\ entry' \in [Devices -> AnyEntry \cup {None}]
      /\ entry'[d] \in Entries(d)
      /\ \A e \in Devices \ {d} : entry'[e] = entry[e]
      /\ entry'[d][p] = x /\ \A q \in Props \ {p} : entry'[d][q] = entry[d][q]
  <2>1. CASE entry' = [entry EXCEPT ![d][p] = x]
    BY <1>2, <2>1, EntryProps, Zenon
  <2>2. CASE x = entry[d][p] /\ entry' = entry
    BY <2>2
  <2> QED BY <1>1, <2>1, <2>2
<1> QED BY <1>1, <1>3

(* A handler brings what its message is about up to the message's value, but
   for the level of a modem: that is the daemon's, or a later message will
   tell it. *)
LEMMA PropertyKeeps ==
  ASSUME CacheInv, inbox # <<>>, inbox' = Tail(inbox), NEW m, m = inbox[1],
         UNCHANGED <<bus, mode, client, orphans>>, at' # "setup", DOMAIN shown' = Queries,
         NEW d \in Devices, NEW p \in Props, NEW v, d = m.about, p = m.prop, v = m.value,
         object[d] # None => /\ object' = [object EXCEPT ![d][p] = v]
                             /\ Notify(d, p, v),
         object[d] = None => object' = object /\ entry' = entry
  PROVE  CacheInv'
<1> USE DEF CacheInv
<1>1. /\ inbox' \in Seq(Messages) /\ v \in Values(d, p) /\ Still(1, d, p, v)
      /\ object \in [Devices -> AnyReading \cup {None}] /\ entry \in [Devices -> AnyEntry \cup {None}]
  BY FirstTaken DEF MessageOk, Props, TypeInv
<1>2. ~(d \in Batteries /\ d \in orphans) => UpToDate(d, p, v)'
  BY <1>1, FirstTaken
<1>3. \A q \in Props : \A u : q # p /\ UpToDate(d, q, u) => UpToDate(d, q, u)'
  BY FirstTaken DEF Props
<1>4. \A e \in Devices, q \in Props : \A u : e # d /\ UpToDate(e, q, u) => UpToDate(e, q, u)'
  BY FirstTaken
<1>5. ASSUME NEW e \in Devices, e # d, object'[e] = object[e], entry'[e] = entry[e]
      PROVE  ObjectOk(e)' /\ EntryOk(e)'
  <2>1. Subscribed(e) => Subscribed(e)'
    BY <1>5 DEF Subscribed
  <2> QED BY <1>4, <1>5, <2>1 DEF ObjectOk, EntryOk
<1>6. CASE object[d] = None
  <2>1. object' = object /\ entry' = entry
    BY <1>6
  <2>2. TypeInv' /\ Fresh'
    BY <1>1, <2>1 DEF TypeInv, Fresh
  <2>3. \A n \in DOMAIN inbox' : MessageOk(n)'
    BY <2>1, FirstTaken DEF Subscribed
  <2>4. ObjectOk(d)' /\ EntryOk(d)'
    BY <1>6, <2>1 DEF ObjectOk, EntryOk
  <2> QED BY <1>5, <2>1, <2>2, <2>3, <2>4
<1>7. CASE object[d] # None
  <2>1. /\ object[d] \in Readings(d) /\ Subscribed(d)
        /\ d \in Modems => \A q \in Props : UpToDate(d, q, object[d][q])
    BY <1>7 DEF ObjectOk
  <2>2. PICK s : s = [object[d] EXCEPT ![p] = v]
    OBVIOUS
  <2>3. /\ s \in Readings(d) /\ s # None /\ s \in AnyReading
        /\ \A q \in Props : s[q] = IF q = p THEN v ELSE object[d][q]
    BY <1>1, <2>1, <2>2, ReadingProps
  <2>4. /\ object' \in [Devices -> AnyReading \cup {None}] /\ object'[d] = s
        /\ \A e \in Devices \ {d} : object'[e] = object[e]
    <3>1. object' = [object EXCEPT ![d] = s]
      BY <1>7, <2>2
    <3> QED BY <1>1, <2>3, <3>1
  <2>5. \A e \in Devices : Subscribed(e) => Subscribed(e)'
    BY <2>3, <2>4 DEF Subscribed
  <2>6. ObjectOk(d)'
    <3>1. d \in Modems => ~(d \in Batteries)
      BY BusConstants
    <3>2. d \in Modems => \A q \in Props : UpToDate(d, q, s[q])'
      BY <1>2, <1>3, <2>1, <2>3, <3>1
    <3> QED BY <2>1, <2>3, <2>4, <2>5, <3>2 DEF ObjectOk
  <2>7. /\ entry' \in [Devices -> AnyEntry \cup {None}]
        /\ \A e \in Devices \ {d} : entry'[e] = entry[e]
        /\ EntryOk(d)'
    <3>1. CASE ~Hears(d)
      <4>1. entry' = entry /\ (entry[d] = None \/ d \in orphans)
        BY <1>7, <3>1 DEF Notify, Hears
      <4> QED BY <1>1, <4>1 DEF EntryOk
    <3>2. CASE Hears(d)
      <4>1. entry[d] \in Entries(d) /\ entry[d] # None
        BY <3>2 DEF EntryOk, Hears
      <4>2. /\ entry' \in [Devices -> AnyEntry \cup {None}]
            /\ entry'[d] \in Entries(d)
            /\ \A e \in Devices \ {d} : entry'[e] = entry[e]
            /\ \E x \in IF IsPair(d, p) THEN Misread ELSE {v} :
                 entry'[d][p] = x /\ \A q \in Props \ {p} : entry'[d][q] = entry[d][q]
        BY <1>1, <1>7, <3>2, <4>1, NotifyStores
      <4>3. PICK x \in IF IsPair(d, p) THEN Misread ELSE {v} :
                 entry'[d][p] = x /\ \A q \in Props \ {p} : entry'[d][q] = entry[d][q]
        BY <4>2
      <4>4. ASSUME d \notin orphans, NEW q \in Props
            PROVE  UpToDate(d, q, entry[d][q])' \/ (IsPair(d, q) /\ entry'[d][q] \in Misread)
        <5>1. CASE q = p
          BY <1>2, <4>3, <4>4, <5>1
        <5>2. CASE q # p
          BY <1>3, <4>1, <4>3, <4>4, <5>2 DEF EntryOk
        <5> QED BY <5>1, <5>2
      <4> QED BY <2>3, <2>4, <4>2, <4>4 DEF EntryOk
    <3> QED BY <3>1, <3>2
  <2>8. TypeInv' /\ Fresh'
    BY <1>1, <2>4, <2>7 DEF TypeInv, Fresh
  <2> QED BY <1>5, <2>4, <2>5, <2>6, <2>7, <2>8, FirstTaken
<1> QED BY <1>6, <1>7

LEMMA DispatchKeeps ==
  ASSUME CacheInv, Dispatch
  PROVE  CacheInv'
<1> USE DEF CacheInv
<1> PICK m : m = inbox[1]
  OBVIOUS
<1>1. /\ inbox # <<>> /\ inbox' = Tail(inbox) /\ at = "tick"
      /\ UNCHANGED <<bus, mode, client>> /\ at' # "setup" /\ orphans \subseteq orphans'
  BY DEF Dispatch, daemons, Notify
<1>2. inbox' \in Seq(Messages) /\ Head(inbox) = m /\ MessageOk(1)
  BY <1>1, FirstTaken
<1>3. DOMAIN shown' = Queries
  BY DEF Dispatch, PpdUpdate, Notify, Raised, TypeInv, cache
<1>4. CASE m.about = "ppd" /\ UNCHANGED <<object, entry, orphans, at>>
  <2>1. TypeInv' /\ Fresh'
    BY <1>1, <1>2, <1>3, <1>4 DEF TypeInv, Fresh
  <2>2. \A d : Subscribed(d)' <=> Subscribed(d)
    BY <1>1, <1>4 DEF Subscribed
  <2>3. \A d \in Devices, p \in Props : \A v : UpToDate(d, p, v) => UpToDate(d, p, v)'
    BY <1>1, <1>4, FirstTaken, BusConstants
  <2>4. \A d \in Devices : ObjectOk(d)' /\ EntryOk(d)'
    BY <1>1, <1>4, <2>2, <2>3 DEF ObjectOk, EntryOk
  <2> QED BY <1>1, <2>1, <2>2, <2>4, FirstTaken
<1>5. CASE m.prop = "added" /\ object' = [object EXCEPT ![m.about] = m.value]
           /\ UNCHANGED <<cache, orphans, shown, at>>
  <2>1. PICK d, v : d = m.about /\ v = m.value
    OBVIOUS
  <2>2. /\ d \in Devices /\ d \in Modems /\ Subscribed(d) /\ v \in Readings(d)
        /\ \A p \in Props : Still(1, d, p, v[p])
    BY <1>2, <1>5, <2>1 DEF MessageOk, Props
  <2>3. /\ v # None /\ v \in AnyReading /\ object'[d] = v
        /\ object' \in [Devices -> AnyReading \cup {None}]
        /\ \A e \in Devices \ {d} : object'[e] = object[e]
    BY <1>5, <2>1, <2>2, ReadingProps DEF TypeInv
  <2>4. TypeInv' /\ Fresh'
    BY <1>1, <1>2, <1>5, <2>3 DEF TypeInv, Fresh, cache
  <2>5. \A e \in Devices : Subscribed(e) => Subscribed(e)'
    BY <1>1, <2>2, <2>3 DEF Subscribed
  <2>6. \A p \in Props : UpToDate(d, p, v[p])'
    BY <1>1, <2>2, FirstTaken, BusConstants
  <2>7. \A e \in Devices, p \in Props : \A u : UpToDate(e, p, u) => UpToDate(e, p, u)'
    BY <1>1, <1>5, FirstTaken DEF Props
  <2>8. ASSUME NEW e \in Devices PROVE ObjectOk(e)'
    <3>1. CASE e = d
      BY <2>2, <2>3, <2>5, <2>6, <3>1 DEF ObjectOk
    <3>2. CASE e # d
      BY <2>3, <2>5, <2>7, <3>2 DEF ObjectOk
    <3> QED BY <3>1, <3>2
  <2>9. \A e \in Devices : EntryOk(e)'
    BY <1>5, <2>3, <2>7 DEF EntryOk, cache
  <2> QED BY <1>1, <2>4, <2>5, <2>8, <2>9, FirstTaken
<1>6. CASE /\ m.prop = "removed" /\ object' = [object EXCEPT ![m.about] = None]
           /\ orphans' = IF entry[m.about] # None THEN orphans \cup {m.about} ELSE orphans
           /\ UNCHANGED <<cache, shown, at>>
  <2>1. PICK d : d = m.about
    OBVIOUS
  <2>2. d \in Devices /\ d \in Modems
    BY <1>2, <1>6, <2>1 DEF MessageOk, Props
  <2>3. /\ object'[d] = None /\ object' \in [Devices -> AnyReading \cup {None}]
        /\ \A e \in Devices \ {d} : object'[e] = object[e]
    BY <1>6, <2>1, <2>2 DEF TypeInv
  <2>4. entry' = entry /\ (entry[d] # None => d \in orphans')
    BY <1>6, <2>1 DEF cache
  <2>5. TypeInv' /\ Fresh'
    BY <1>1, <1>2, <1>6, <2>1, <2>2, <2>3 DEF TypeInv, Fresh, cache
  <2>6. \A e \in Devices : Subscribed(e) => Subscribed(e)'
    BY <1>1, <2>2, <2>3 DEF Subscribed
  <2>7. \A e \in Devices, p \in Props : \A u : e # d /\ UpToDate(e, p, u) => UpToDate(e, p, u)'
    BY <1>1, <2>1, FirstTaken
  <2>8. ASSUME NEW e \in Devices PROVE ObjectOk(e)' /\ EntryOk(e)'
    <3>1. CASE e = d
      BY <2>3, <2>4, <3>1 DEF ObjectOk, EntryOk
    <3>2. CASE e # d
      BY <1>1, <2>3, <2>4, <2>6, <2>7, <3>2 DEF ObjectOk, EntryOk
    <3> QED BY <3>1, <3>2
  <2> QED BY <1>1, <2>5, <2>6, <2>8, FirstTaken
<1>7. CASE /\ m.prop \in Props
           /\ IF object[m.about] # None
              THEN /\ object' = [object EXCEPT ![m.about][m.prop] = m.value]
                   /\ Notify(m.about, m.prop, m.value)
              ELSE UNCHANGED <<object, entry, shown, at>>
           /\ UNCHANGED <<profile, failed, orphans>>
  <2>1. PICK d, p, v : d = m.about /\ p = m.prop /\ v = m.value
    OBVIOUS
  <2>2. d \in Devices /\ p \in Props
    BY <1>2, <1>7, <2>1 DEF MessageOk, Props
  <2>3. object[d] # None => object' = [object EXCEPT ![d][p] = v] /\ Notify(d, p, v)
    BY <1>7, <2>1
  <2>4. object[d] = None => object' = object /\ entry' = entry
    BY <1>7, <2>1
  <2> QED BY <1>1, <1>3, <1>7, <2>1, <2>2, <2>3, <2>4, PropertyKeeps
<1> QED BY <1>2, <1>4, <1>5, <1>6, <1>7 DEF Dispatch

(* A device that is found is entered with a reading that is up to date. *)
LEMMA FoundKeeps ==
  ASSUME CacheInv, NEW d \in Devices, NEW r, NEW s, r \in Readings(d), s \in Readings(d),
         \A p \in Props : UpToDate(d, p, r[p]) /\ UpToDate(d, p, s[p]),
         d \in Modems => Subscribed(d), DOMAIN shown' = Queries,
         entry' = [entry EXCEPT ![d] = r], object' = [object EXCEPT ![d] = s],
         UNCHANGED <<bus, mode, inbox, client, orphans>>, at' # "setup"
  PROVE  CacheInv'
<1> USE DEF CacheInv
<1>1. r # None /\ r \in AnyEntry /\ r \in Entries(d) /\ s # None /\ s \in AnyReading
  BY ReadingProps DEF AnyEntry
<1>2. /\ object' \in [Devices -> AnyReading \cup {None}] /\ entry' \in [Devices -> AnyEntry \cup {None}]
      /\ object'[d] = s /\ entry'[d] = r
      /\ \A e \in Devices \ {d} : object'[e] = object[e] /\ entry'[e] = entry[e]
  BY <1>1 DEF TypeInv
<1>3. TypeInv' /\ Fresh'
  BY <1>2 DEF TypeInv, Fresh
<1>4. \A e \in Devices : (e = d \/ Subscribed(e)) => Subscribed(e)'
  BY <1>1, <1>2 DEF Subscribed
<1>5. \A n \in DOMAIN inbox : MessageOk(n)'
  <2>1. \A n, e, p, v : Still(n, e, p, v)' <=> Still(n, e, p, v)
    BY SameInbox DEF Still
  <2> QED BY <1>4, <2>1 DEF MessageOk
<1>6. \A e, p, v : UpToDate(e, p, v)' <=> UpToDate(e, p, v)
  BY SameInbox DEF UpToDate
<1>7. ASSUME NEW e \in Devices PROVE ObjectOk(e)' /\ EntryOk(e)'
  <2>1. CASE e = d
    BY <1>1, <1>2, <1>4, <1>6, <2>1 DEF ObjectOk, EntryOk
  <2>2. CASE e # d
    BY <1>2, <1>4, <1>6, <2>2 DEF ObjectOk, EntryOk
  <2> QED BY <2>1, <2>2
<1> QED BY <1>3, <1>5, <1>7

LEMMA LookupKeeps ==
  ASSUME CacheInv, NEW q \in Queries, Lookup(q[1], q[2])
  PROVE  CacheInv'
<1> USE DEF CacheInv
<1> PICK d : d = q[1]
  OBVIOUS
<1>1. d \in Devices /\ UNCHANGED <<bus, mode, inbox, client, orphans>> /\ at' # "setup"
  BY DEF Lookup, UpowerFind, MmFind, daemons
<1>2. DOMAIN shown' = Queries
  BY DEF Lookup, FindRaises, Raised, TypeInv
<1>3. CASE UNCHANGED <<entry, object>>
  BY <1>1, <1>2, <1>3, CacheUntouched
<1>4. CASE /\ d \in Batteries /\ bus[d] # None /\ entry' = [entry EXCEPT ![d] = bus[d]]
           /\ object' = [object EXCEPT ![d] = Kept(d)]
  <2> PICK r : r = bus[d]
    OBVIOUS
  <2>1. r \in Readings(d) /\ \A p \in Props : UpToDate(d, p, r[p])
    BY <1>1, <1>4 DEF TypeInv, UpToDate
  <2>2. d \notin Modems
    BY <1>4, BusConstants
  <2> QED BY <1>1, <1>2, <1>4, <2>1, <2>2, FoundKeeps DEF Kept
<1>5. CASE /\ d \in Modems /\ object[d] # None /\ entry' = [entry EXCEPT ![d] = object[d]]
           /\ UNCHANGED object
  <2> PICK r : r = object[d]
    OBVIOUS
  <2>1. r \in Readings(d) /\ Subscribed(d) /\ \A p \in Props : UpToDate(d, p, r[p])
    BY <1>1, <1>5 DEF ObjectOk
  <2>2. object' = [object EXCEPT ![d] = r]
    BY <1>1, <1>5 DEF TypeInv
  <2> QED BY <1>1, <1>2, <1>5, <2>1, <2>2, FoundKeeps
<1> QED BY <1>3, <1>4, <1>5 DEF Lookup, UpowerFind, MmFind

LEMMA FreeKeeps ==
  ASSUME CacheInv, Free
  PROVE  CacheInv'
<1> USE DEF CacheInv
<1>1. /\ entry' = [d \in Devices |-> None]
      /\ "mm" \in client => "mm" \in client'
      /\ UNCHANGED <<bus, mode, inbox, object, orphans, shown>> /\ at' = "exited"
  BY DEF Free, daemons
<1>2. TypeInv' /\ Fresh'
  BY <1>1 DEF TypeInv, Fresh
<1>3. \A e : Subscribed(e) => Subscribed(e)'
  BY <1>1 DEF Subscribed
<1>4. \A n \in DOMAIN inbox : MessageOk(n)'
  <2>1. \A n, d, p, v : Still(n, d, p, v)' <=> Still(n, d, p, v)
    BY <1>1, SameInbox DEF Still
  <2> QED BY <1>1, <1>3, <2>1 DEF MessageOk
<1>5. \A d \in Devices : ObjectOk(d)' /\ EntryOk(d)'
  <2>1. \A d, p, v : UpToDate(d, p, v)' <=> UpToDate(d, p, v)
    BY <1>1, SameInbox DEF UpToDate
  <2> QED BY <1>1, <1>3, <2>1 DEF ObjectOk, EntryOk
<1> QED BY <1>1, <1>2, <1>4, <1>5

LEMMA NextCache == CacheInv /\ [Next]_vars => CacheInv'
<1> SUFFICES ASSUME CacheInv, [Next]_vars PROVE CacheInv'
  OBVIOUS
<1> USE DEF cache, daemons
<1>1. CASE Change
  BY <1>1, SwitchKeeps, AlterKeeps, PlugKeeps, UnplugKeeps DEF Change
<1>2. CASE Setup
  BY <1>2, SetupKeeps
<1>3. CASE Tick
  BY <1>3, CacheUntouched DEF Tick, CacheInv, TypeInv
<1>4. CASE Dispatch
  BY <1>4, DispatchKeeps
<1>5. CASE TickDone
  BY <1>5, CacheUntouched DEF TickDone, CacheInv, TypeInv
<1>6. CASE PpdLine
  BY <1>6, CacheUntouched DEF PpdLine, CacheInv, TypeInv
<1>7. CASE Free
  BY <1>7, FreeKeeps
<1>8. CASE \E q \in Queries : Lookup(q[1], q[2])
  BY <1>8, LookupKeeps
<1>9. CASE UNCHANGED vars
  <2>1. UNCHANGED <<bus, mode, inbox, client, object, entry, orphans, profile, shown, at>>
    BY <1>9 DEF vars
  <2>2. CASE at # "setup"
    BY <2>1, <2>2, CacheUntouched DEF CacheInv, TypeInv
  <2>3. CASE at = "setup"
    <3>1. TypeInv' /\ Fresh' /\ inbox' = <<>>
      BY <2>1, <2>3 DEF TypeInv, Fresh, CacheInv
    <3>2. \A d \in Devices : ObjectOk(d)' /\ EntryOk(d)'
      BY <2>1, <2>3 DEF Fresh, CacheInv, ObjectOk, EntryOk
    <3> QED BY <3>1, <3>2 DEF CacheInv
  <2> QED BY <2>2, <2>3
<1> QED BY <1>1, <1>2, <1>3, <1>4, <1>5, <1>6, <1>7, <1>8, <1>9 DEF Next, Finished

(* upower.c, mm.c: no change of a device that is still there is lost between
   the copy at its first lookup and its callback, however the messages and the
   passes interleave; but the signal quality of a modem, after its first
   notification, is whatever mm_modem_callback misreads. *)
THEOREM NoReadingLost == Spec => []CacheFollows
<1>1. CacheInv => CacheFollows
  BY DEF CacheInv, EntryOk, CacheFollows
<1> QED BY <1>1, InitCache, NextCache, PTL DEF Spec

-----------------------------------------------------------------------------
(* The profile                                                             *)

LEMMA DaemonTells ==
  ASSUME CacheInv, NEW d \in Devices,
         Plug(d) \/ Unplug(d) \/ \E p \in Props : \E v \in Values(d, p) : Alter(d, p, v)
  PROVE  mode' = mode /\ (inbox' = inbox \/ \E m \in Messages : Post(m.about, m.prop, m.value))
<1>1. CASE Plug(d)
  <2> PICK r \in Readings(d) : bus' = [bus EXCEPT ![d] = r]
    BY <1>1 DEF Plug
  <2>1. bus'[d] = r /\ [about |-> d, prop |-> "added", value |-> r] \in Messages
    BY ReadingProps DEF Messages, CacheInv, TypeInv
  <2> QED BY <1>1, <2>1 DEF Plug
<1>2. ASSUME NEW p \in Props, NEW v \in Values(d, p), Alter(d, p, v)
      PROVE  mode' = mode /\ (inbox' = inbox \/ \E m \in Messages : Post(m.about, m.prop, m.value))
  <2>1. [about |-> d, prop |-> p, value |-> v] \in Messages
    BY DEF Messages, AnyValue
  <2> QED BY <1>2, <2>1 DEF Alter
<1>3. CASE Unplug(d)
  <2>1. [about |-> d, prop |-> "removed", value |-> None] \in Messages
    BY DEF Messages
  <2> QED BY <1>3, <2>1 DEF Unplug
<1> QED BY <1>1, <1>2, <1>3

(* ppd.c: the profile is the daemon's, but for a message on its way or a call
   that failed, also when a message comes before the call that answers it. *)
THEOREM ProfileNotLost == Spec => []ProfileFollows
<1>1. Init => ProfileFollows
  BY DEF Init, ProfileFollows, Running
<1>2. ASSUME CacheInv, ProfileFollows, [Next]_vars PROVE ProfileFollows'
  <2> USE DEF cache, daemons
  <2>1. ASSUME UNCHANGED <<mode, profile, failed, inbox>>, client' \subseteq client, Running' => Running
        PROVE  ProfileFollows'
    BY <1>2, <2>1, SameInbox DEF ProfileFollows
  <2>2. CASE Change
    <3>1. UNCHANGED <<client, profile, failed, at>>
      BY <2>2 DEF Change
    <3>2. CASE Switch
      <4>1. CASE "ppd" \in client
        BY <4>1, <3>2 DEF ProfileFollows, OnItsWay, Switch, Post, CacheInv, TypeInv
      <4> QED BY <3>1, <4>1 DEF ProfileFollows
    <3>3. CASE mode' = mode /\ (inbox' = inbox \/ \E m \in Messages : Post(m.about, m.prop, m.value))
      <4>1. OnItsWay("ppd", "ActiveProfile") => OnItsWay("ppd", "ActiveProfile")'
        <5>1. ASSUME NEW m \in Messages, Post(m.about, m.prop, m.value)
              PROVE  OnItsWay("ppd", "ActiveProfile") => OnItsWay("ppd", "ActiveProfile")'
          <6>1. [about |-> m.about, prop |-> m.prop, value |-> m.value] \in Messages
            BY DEF Messages
          <6> QED BY <1>2, <5>1, <6>1, Posted DEF CacheInv, TypeInv
        <5> QED BY <3>3, <5>1, SameInbox
      <4> QED BY <1>2, <3>1, <3>3, <4>1 DEF ProfileFollows, Running
    <3> QED BY <1>2, <2>2, <3>2, <3>3, DaemonTells DEF Change
  <2>3. CASE Setup
    BY <2>3 DEF Setup, PpdUpdate, Renewed, ProfileFollows
  <2>4. CASE Dispatch
    <3>1. /\ inbox # <<>> /\ inbox' = Tail(inbox) /\ UNCHANGED <<mode, client>>
          /\ Running /\ inbox \in Seq(Messages)
      BY <1>2, <2>4 DEF Dispatch, CacheInv, TypeInv, Running
    <3>2. CASE PpdUpdate
      BY <3>1, <3>2 DEF PpdUpdate, Renewed, ProfileFollows
    <3>3. CASE Head(inbox).prop \in Props \cup {"added", "removed"} /\ UNCHANGED <<profile, failed>>
      <4>1. inbox[1].prop # "ActiveProfile"
        BY <3>1, <3>3 DEF Props
      <4>2. OnItsWay("ppd", "ActiveProfile") => OnItsWay("ppd", "ActiveProfile")'
        BY <3>1, <4>1, Taken
      <4> QED BY <1>2, <3>1, <3>3, <4>2 DEF ProfileFollows
    <3> QED BY <2>4, <3>2, <3>3 DEF Dispatch
  <2>5. CASE Tick \/ TickDone \/ PpdLine \/ Free
    BY <2>1, <2>5 DEF Tick, TickDone, PpdLine, Free, Running
  <2>6. CASE \E q \in Queries : Lookup(q[1], q[2])
    BY <2>1, <2>6 DEF Lookup, Running
  <2>7. CASE UNCHANGED vars
    BY <2>1, <2>7 DEF vars, Running
  <2> QED BY <1>2, <2>2, <2>3, <2>4, <2>5, <2>6, <2>7 DEF Next, Finished
<1> QED BY <1>1, <1>2, InitCache, NextCache, PTL DEF Spec

-----------------------------------------------------------------------------
(* What was shown                                                          *)

(* An answer given before its device was there was none. *)
NoneBefore ==
  Running => \A q \in Queries : q[1] \in Devices /\ entry[q[1]] = None => shown[q] \in {None, Due}

ShownInv == ChangeAnnounced /\ NoneBefore /\ DOMAIN shown = Queries

LEMMA NotPpd == \A q \in Queries : q[1] \notin Devices => q = <<"ppd", "line">> /\ Service(q[1]) = "ppd"
BY BusConstants DEF Queries, Devices, Service

LEMMA DeviceService == \A d \in Devices : Service(d) # "ppd"
BY DEF Devices, Service

(* A step may raise the signals of services, if it leaves alone what the
   queries of the others would answer. *)
LEMMA RaisedKeeps ==
  ASSUME ShownInv, Running, NEW s, shown' = Raised(s),
         s = "ppd" \/ profile' = profile,
         \A d \in Devices : Service(d) = s \/ entry'[d] = entry[d]
  PROVE  ShownInv'
<1>1. DOMAIN shown' = Queries /\ \A q \in Queries : shown'[q] = IF Service(q[1]) = s THEN Due ELSE shown[q]
  BY DEF Raised
<1>2. ChangeAnnounced'
  <2> SUFFICES ASSUME NEW q \in Queries, shown'[q] # Due
               PROVE  IF q[1] \notin Devices THEN shown'[q] = profile'
                      ELSE \/ entry'[q[1]] = None
                           \/ shown'[q] = Answer(q[1], q[2], entry'[q[1]])
                           \/ q[1] \in Modems /\ shown'[q] = None
    BY DEF ChangeAnnounced
  <2>1. Service(q[1]) # s /\ shown'[q] = shown[q]
    BY <1>1
  <2> QED BY <2>1, NotPpd DEF ShownInv, ChangeAnnounced
<1>3. NoneBefore'
  BY <1>1 DEF ShownInv, NoneBefore
<1> QED BY <1>1, <1>2, <1>3 DEF ShownInv

(* A lookup shows what it answers, and announces a device it finds to those
   who were told that there is none. *)
LEMMA LookupShows ==
  ASSUME CacheInv, ShownInv, NEW q \in Queries, Lookup(q[1], q[2])
  PROVE  ShownInv'
<1> PICK d, what : q = <<d, what>>
  BY DEF Queries
<1> DEFINE answer == IF entry'[d] = None THEN None ELSE Answer(d, what, entry'[d])
<1>1. PICK others : /\ others = IF Cached(d) \/ entry'[d] = None THEN shown ELSE FindRaises(d)
                    /\ shown' = [others EXCEPT ![q] = answer]
  BY DEF Lookup
<1>2. d \in Devices /\ profile' = profile /\ Running /\ (at' = at \/ at' = "crashed")
  BY DEF Lookup, UpowerFind, MmFind, Running
<1>3. DOMAIN others = Queries /\ DOMAIN shown' = Queries
  BY <1>1 DEF FindRaises, Raised, ShownInv
<1>4. entry' = entry \/ (entry[d] = None /\ \E r : entry' = [entry EXCEPT ![d] = r])
  BY DEF Lookup, UpowerFind, MmFind, Cached
<1>5. \A e \in Devices \ {d} : entry'[e] = entry[e]
  BY <1>4 DEF CacheInv, TypeInv
<1>6. ASSUME NEW u \in Queries, u # q PROVE shown'[u] = others[u] /\ others[u] \in {Due, shown[u]}
  BY <1>1, <1>3, <1>6 DEF FindRaises, Raised
<1>7. shown'[q] = answer
  BY <1>1, <1>3
<1>8. ASSUME NEW u \in Queries, u # q, u[1] = d, entry[d] = None, entry'[d] # None, shown'[u] # Due
      PROVE  d \in Modems /\ shown'[u] = None
  <2>1. CASE d \in Batteries
    <3>1. others[u] = Due
      BY <1>1, <1>8, <2>1 DEF FindRaises, Raised, Cached, Service
    <3> QED BY <1>6, <1>8, <3>1
  <2>2. CASE d \notin Batteries
    BY <1>2, <1>6, <1>8, <2>2 DEF ShownInv, NoneBefore, Devices
  <2> QED BY <2>1, <2>2
<1>9. ASSUME at' = at PROVE ChangeAnnounced' /\ NoneBefore'
  <2>1. ASSUME NEW u \in Queries, shown'[u] # Due
        PROVE  IF u[1] \notin Devices THEN shown'[u] = profile'
               ELSE \/ entry'[u[1]] = None
                    \/ shown'[u] = Answer(u[1], u[2], entry'[u[1]])
                    \/ u[1] \in Modems /\ shown'[u] = None
    <3>1. CASE u = q
      <4>1. u[1] = d /\ u[2] = what
        BY <3>1
      <4> QED BY <1>2, <1>7, <3>1, <4>1
    <3>2. CASE u # q
      <4>1. shown'[u] = shown[u]
        BY <1>6, <2>1, <3>2
      <4>2. CASE u[1] # d \/ entry' = entry
        <5>1. u[1] \in Devices => entry'[u[1]] = entry[u[1]]
          BY <1>5, <4>2
        <5>2. IF u[1] \notin Devices THEN shown[u] = profile
              ELSE \/ entry[u[1]] = None
                   \/ shown[u] = Answer(u[1], u[2], entry[u[1]])
                   \/ u[1] \in Modems /\ shown[u] = None
          BY <1>2, <2>1, <4>1 DEF ShownInv, ChangeAnnounced
        <5> QED BY <1>2, <4>1, <5>1, <5>2
      <4>3. CASE u[1] = d /\ entry[d] = None /\ entry'[d] # None
        BY <1>2, <1>8, <2>1, <3>2, <4>3
      <4> QED BY <1>2, <1>4, <4>2, <4>3
    <3> QED BY <3>1, <3>2
  <2>2. ASSUME NEW u \in Queries, u[1] \in Devices, entry'[u[1]] = None
        PROVE  shown'[u] \in {None, Due}
    <3>1. CASE u = q
      <4>1. u[1] = d
        BY <3>1
      <4> QED BY <1>7, <2>2, <3>1, <4>1
    <3>2. CASE u # q
      <4>1. entry[u[1]] = None
        BY <1>4, <1>5, <2>2
      <4> QED BY <1>2, <1>6, <2>2, <3>2, <4>1 DEF ShownInv, NoneBefore
    <3> QED BY <3>1, <3>2
  <2> QED BY <2>1, <2>2 DEF ChangeAnnounced, NoneBefore
<1>10. ASSUME at' = "crashed" PROVE ChangeAnnounced' /\ NoneBefore'
  BY <1>10 DEF ChangeAnnounced, NoneBefore, Running
<1> QED BY <1>2, <1>3, <1>9, <1>10 DEF ShownInv

LEMMA DispatchShows ==
  ASSUME CacheInv, ShownInv, Dispatch
  PROVE  ShownInv'
<1>1. Running
  BY DEF Dispatch, Running
<1>2. CASE PpdUpdate /\ UNCHANGED <<object, entry>>
  <2>1. CASE shown' = Raised("ppd")
    BY <1>1, <1>2, <2>1, RaisedKeeps
  <2>2. CASE UNCHANGED <<profile, shown>>
    BY <1>1, <1>2, <2>2 DEF ShownInv, ChangeAnnounced, NoneBefore, Running
  <2> QED BY <1>2, <2>1, <2>2 DEF PpdUpdate
<1>3. CASE UNCHANGED <<entry, profile, shown>>
  BY <1>1, <1>3 DEF ShownInv, ChangeAnnounced, NoneBefore, Running
<1>4. CASE profile' = profile /\ \E d, p, v : Notify(d, p, v)
  <2> PICK d, p, v : Notify(d, p, v)
    BY <1>4
  <2>1. ASSUME NEW x, shown' = Raised(Service(d)), entry' = [entry EXCEPT ![d][p] = x]
        PROVE  ShownInv'
    <3>1. \A e \in Devices : e = d \/ entry'[e] = entry[e]
      BY <2>1 DEF CacheInv, TypeInv
    <3> QED BY <1>1, <1>4, <2>1, <3>1, RaisedKeeps
  <2> QED BY <1>3, <1>4, <2>1 DEF Notify
<1> QED BY <1>2, <1>3, <1>4 DEF Dispatch, cache

LEMMA SetupShows ==
  ASSUME CacheInv, ShownInv, Setup
  PROVE  ShownInv'
<1>1. /\ \A q \in Queries : shown[q] = None /\ profile = None
      /\ \A d \in Devices : entry'[d] = None
  BY DEF CacheInv, Fresh, Setup
<1>2. CASE shown' = Raised("ppd")
  <2>1. \A q \in Queries : shown'[q] = IF Service(q[1]) = "ppd" THEN Due ELSE None
    BY <1>1, <1>2 DEF Raised
  <2>2. ChangeAnnounced' /\ NoneBefore'
    BY <1>1, <2>1, NotPpd DEF ChangeAnnounced, NoneBefore
  <2> QED BY <1>2, <2>2 DEF ShownInv, Raised
<1>3. CASE UNCHANGED <<profile, shown>>
  BY <1>1, <1>3, NotPpd DEF ShownInv, ChangeAnnounced, NoneBefore
<1> QED BY <1>2, <1>3 DEF Setup, PpdUpdate

LEMMA NextShows == CacheInv /\ ShownInv /\ [Next]_vars => ShownInv'
<1> SUFFICES ASSUME CacheInv, ShownInv, [Next]_vars PROVE ShownInv'
  OBVIOUS
<1> USE DEF cache, daemons
<1>1. CASE UNCHANGED <<entry, profile, shown>> /\ (Running' => Running)
  BY <1>1 DEF ShownInv, ChangeAnnounced, NoneBefore
<1>2. CASE Change \/ Tick \/ TickDone \/ UNCHANGED vars
  BY <1>1, <1>2 DEF Change, Tick, TickDone, vars, Running
<1>3. CASE PpdLine
  <2>1. /\ \A q \in Queries : shown'[q] = IF q = <<"ppd", "line">> THEN profile ELSE shown[q]
        /\ DOMAIN shown' = Queries /\ UNCHANGED <<entry, profile, at>>
    BY <1>3 DEF PpdLine, ShownInv
  <2>2. <<"ppd", "line">>[1] \notin Devices
    BY BusConstants
  <2>3. ChangeAnnounced' /\ NoneBefore'
    BY <1>3, <2>1, <2>2 DEF ShownInv, ChangeAnnounced, NoneBefore, PpdLine, Running
  <2> QED BY <2>1, <2>3 DEF ShownInv
<1>4. CASE Free
  BY <1>4 DEF Free, ShownInv, ChangeAnnounced, NoneBefore, Running
<1> QED BY <1>2, <1>3, <1>4, SetupShows, DispatchShows, LookupShows DEF Next, Finished

(* upower.c, mm.c, ppd.c: what an entry would answer differently from what is
   shown has been announced by a signal, but for a modem that was not there. *)
THEOREM ChangesRaise == Spec => []ChangeAnnounced
<1>1. Init => ShownInv
  BY DEF Init, ShownInv, ChangeAnnounced, NoneBefore, Running
<1>2. ShownInv => ChangeAnnounced
  BY DEF ShownInv
<1> QED BY <1>1, <1>2, InitCache, NextCache, NextShows, PTL DEF Spec
=============================================================================
