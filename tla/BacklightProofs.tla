-------------------------- MODULE BacklightProofs --------------------------
(***************************************************************************)
(* Theorems about the two threads of backlight.c, for any backlights, any  *)
(* names in config.h, any brightness and any number of changes.            *)
(***************************************************************************)
EXTENDS Backlight, TLAPS

-----------------------------------------------------------------------------
(* The inductive invariant                                                 *)

Fields == Devices \cup {Top}
Linked == {d \in Devices : InQueue(d)}
Reached == Linked \cup {Top}

TypeInv ==
  /\ actual \in [Devices -> Nat] /\ brightness \in [Devices -> Nat]
  /\ mine \in Nat /\ read \in Nat /\ events \in Seq(Devices)
  /\ next \in [Fields -> Devices \cup {None}] /\ last \in Fields \cup {None}
  /\ udev \in BOOLEAN /\ DOMAIN shown = Wanted

(* What main's and the thread's places say of what they are about. *)
Places ==
  /\ at = "init" => tat = "none" /\ ~udev /\ last = None
  /\ at \in {"insert", "move", "inserted"} => udev /\ arg \in Devices
  /\ udev => last # None
  /\ tat \in {"none", "start"} => met = {} /\ monitor = "none"
  /\ tat \in {"walk", "found", "compare", "signal", "missed"} => name \in Devices
  /\ tat \in {"found", "compare", "signal"} => name \in Linked
  /\ tat \in {"compare", "signal"} => name \in met

(* tqh_last points to the end of the list, but between the two stores of an
   insertion, when the entry behind it is the new one. *)
LastIsEnd ==
  /\ IF last = None THEN Linked = {} ELSE last \in Reached
  /\ last # None /\ at \notin {"move", "corrupted"} => next[last] = None
  /\ at = "insert" => arg \notin Reached
  /\ at = "move" => next[last] = arg /\ next[arg] = None
  /\ at \in {"move", "inserted"} => arg \in Linked

(* The fields that can be reached make one list without a cycle: rank counts
   them from the head.  Whatever the walk has passed has not its name. *)
Ordered(rank) ==
  /\ rank[Top] = 0
  /\ \A x \in Reached : next[x] # None => rank[next[x]] = rank[x] + 1
  /\ \A x \in Reached : next[x] = None => \A y \in Reached : rank[y] <= rank[x]
  /\ \A x, y \in Reached : rank[x] = rank[y] => x = y
  /\ tat = "walk" /\ name \in Reached => rank[pos] < rank[name]

QueueInv ==
  /\ LastIsEnd
  /\ \E rank \in [Fields -> Nat] : Ordered(rank)
  /\ \A x \in Fields \ Reached : next[x] = None
  /\ tat = "walk" => pos \in Reached /\ known \subseteq Linked
  /\ met \subseteq Linked
  /\ WalkFindsLinked

(* A text that was shown is that of an entry. *)
TextInv ==
  /\ \A w \in Wanted : shown[w] # None => w \in Linked
  /\ \A w \in Wanted \ raised :
       shown[w] # None /\ tat # "signal" => shown[w] = brightness[w]

(* What the thread has read is still so, or an event says it is not: without
   this an entry that is level by accident could be overwritten. *)
ReadOk ==
  Running /\ monitor = "receiving" /\ tat = "compare" =>
    read = actual[name] \/ \E k \in DOMAIN events : events[k] = name

CatchUp == NeverBehindOnceMet /\ ReadOk

Inv == TypeInv /\ Places /\ QueueInv /\ CatchUp /\ TextInv

-----------------------------------------------------------------------------
(* The list                                                                *)

LEMMA LinkedKept ==
  ASSUME next' = next
  PROVE  /\ Linked' = Linked /\ Reached' = Reached
         /\ \A w : InQueue(w)' <=> InQueue(w)
BY DEF Linked, Reached, InQueue

LEMMA NextLinked ==
  ASSUME TypeInv, NEW x \in Fields, next[x] # None
  PROVE  next[x] \in Linked
BY DEF TypeInv, Linked, InQueue

(* The store that links an entry adds it and loses none. *)
LEMMA LinkAdds ==
  ASSUME TypeInv, NEW x \in Fields, next[x] = None, NEW d \in Devices,
         next' = [next EXCEPT ![x] = d]
  PROVE  /\ Linked' = Linked \cup {d} /\ Reached' = Reached \cup {d}
         /\ next' \in [Fields -> Devices \cup {None}] /\ next'[x] = d
         /\ \A y \in Fields \ {x} : next'[y] = next[y]
<1>1. /\ next' \in [Fields -> Devices \cup {None}] /\ next'[x] = d
      /\ \A y \in Fields \ {x} : next'[y] = next[y]
  BY DEF TypeInv
<1>2. DOMAIN next = Fields /\ DOMAIN next' = Fields /\ None \notin Devices
  BY <1>1, BacklightConstants DEF TypeInv
<1>3. ASSUME NEW e \in Devices PROVE InQueue(e)' <=> InQueue(e) \/ e = d
  BY <1>1, <1>2 DEF InQueue
<1>4. Linked' = Linked \cup {d}
  BY <1>3 DEF Linked
<1> QED BY <1>1, <1>4 DEF Reached

(* A step that leaves the queue and the thread's walk alone. *)
LEMMA QueueUntouched ==
  ASSUME QueueInv, LastIsEnd', next' = next, tat' = tat, pos' = pos, name' = name,
         met' = met, known' = known
  PROVE  QueueInv'
<1>1. Linked' = Linked /\ Reached' = Reached
  BY LinkedKept
<1>2. PICK rank \in [Fields -> Nat] : Ordered(rank)
  BY DEF QueueInv
<1>3. Ordered(rank)'
  BY <1>1, <1>2 DEF Ordered
<1> QED BY <1>1, <1>3 DEF QueueInv, WalkFindsLinked, Fields

-----------------------------------------------------------------------------
(* The kernel and main                                                     *)

LEMMA InitInv == Init => Inv
<1> SUFFICES ASSUME Init PROVE Inv
  OBVIOUS
<1>1. Linked = {} /\ Reached = {Top}
  BY BacklightConstants DEF Init, Linked, Reached, InQueue
<1>2. TypeInv
  <2>1. udev \in BOOLEAN
    BY Zenon DEF Init
  <2>2. /\ actual \in [Devices -> Nat] /\ brightness \in [Devices -> Nat] /\ mine \in Nat /\ read \in Nat
        /\ next \in [Fields -> Devices \cup {None}] /\ last \in Fields \cup {None}
    BY BacklightConstants DEF Init, Fields
  <2>3. DOMAIN shown = Wanted /\ events \in Seq(Devices)
    BY DEF Init
  <2> QED BY <2>1, <2>2, <2>3, Zenon DEF TypeInv
<1>3. QueueInv
  <2>1. Ordered([x \in Fields |-> 0])
    BY <1>1 DEF Ordered, Init, Fields
  <2> QED BY <1>1, <2>1 DEF QueueInv, Init, LastIsEnd, WalkFindsLinked, Fields
<1> QED BY <1>1, <1>2, <1>3 DEF Inv, Init, Places, CatchUp, ReadOk, NeverBehindOnceMet, TextInv

LEMMA ChangeKeeps ==
  ASSUME Inv, NEW d \in Devices, Change(d)
  PROVE  Inv'
<1> USE DEF Inv
<1>1. /\ next' = next /\ last' = last /\ brightness' = brightness /\ UNCHANGED <<main, thread, text>>
      /\ udev' = udev /\ monitor' = monitor
      /\ events' = IF monitor = "receiving" THEN Append(events, d) ELSE events
      /\ \A e \in Devices \ {d} : actual'[e] = actual[e]
  BY DEF Change, queue, TypeInv
<1>2. Linked' = Linked /\ Reached' = Reached
  BY <1>1, LinkedKept
<1>3. TypeInv'
  <2>1. PICK l \in 0..MaxLevel : actual' = [actual EXCEPT ![d] = l]
    BY DEF Change
  <2>2. actual' \in [Devices -> Nat]
    BY <2>1, BacklightConstants DEF TypeInv
  <2> QED BY <1>1, <2>2 DEF TypeInv, main, thread, text
<1>4. Places'
  BY <1>1, <1>2 DEF Places, main, thread
<1>5. QueueInv'
  BY <1>1, <1>2, QueueUntouched DEF QueueInv, LastIsEnd, main, thread
<1>6. ASSUME Running, monitor = "receiving"
      PROVE  /\ \E k \in DOMAIN events' : events'[k] = d
             /\ \A e : (\E k \in DOMAIN events : events[k] = e) => \E k \in DOMAIN events' : events'[k] = e
  <2>1. events \in Seq(Devices) /\ events' = Append(events, d)
    BY <1>1, <1>6 DEF TypeInv
  <2>2. Len(events') \in DOMAIN events' /\ events'[Len(events')] = d
    BY <2>1
  <2>3. \A k \in DOMAIN events : k \in DOMAIN events' /\ events'[k] = events[k]
    BY <2>1
  <2> QED BY <2>2, <2>3
<1>7. CatchUp'
  <2>1. Running' = Running /\ UNCHANGED <<tat, name, read, met, monitor, brightness>>
    BY <1>1 DEF Running, main, thread
  <2>2. ReadOk'
    <3>1. tat = "compare" => name \in Devices
      BY DEF Places
    <3> QED BY <1>1, <1>6, <2>1, <3>1 DEF CatchUp, ReadOk
  <2>3. NeverBehindOnceMet'
    <3>1. met \subseteq Devices
      BY DEF QueueInv, Linked
    <3> QED BY <1>1, <1>6, <2>1, <3>1 DEF CatchUp, NeverBehindOnceMet, OnItsWay
  <2> QED BY <2>2, <2>3 DEF CatchUp
<1>8. TextInv'
  BY <1>1, <1>2 DEF TextInv, text, thread
<1> QED BY <1>3, <1>4, <1>5, <1>7, <1>8

LEMMA BacklightInitKeeps ==
  ASSUME Inv, BacklightInit, UNCHANGED <<arg, mine, next, brightness, text>>,
         UNCHANGED <<kernel, monitor, events, name, pos, read, known, met>>
  PROVE  Inv'
<1> USE DEF Inv, BacklightInit
<1>1. Linked' = Linked /\ Reached' = Reached
  BY LinkedKept
<1>2. TypeInv' /\ Places'
  <2>1. udev' \in BOOLEAN /\ last' \in Fields \cup {None} /\ (udev' => last' # None)
    BY BacklightConstants DEF TypeInv, Fields
  <2>2. TypeInv'
    BY <2>1 DEF TypeInv, kernel, text
  <2>3. at' = "idle" /\ tat' \in {"none", "start"} /\ met' = {} /\ monitor' = "none"
    BY DEF Places
  <2> QED BY <2>1, <2>2, <2>3 DEF Places
<1>3. LastIsEnd'
  <2>1. last = None /\ next[Top] = None
    BY NextLinked DEF Places, QueueInv, LastIsEnd, Fields
  <2> QED BY <1>1, <2>1 DEF LastIsEnd, Reached, Fields, QueueInv
<1>4. QueueInv'
  <2>1. tat # "walk" /\ tat' # "walk" /\ tat' # "missed"
    BY DEF Places
  <2>2. PICK rank \in [Fields -> Nat] : Ordered(rank)
    BY DEF QueueInv
  <2>3. Ordered(rank)'
    BY <1>1, <2>1, <2>2 DEF Ordered
  <2> QED BY <1>1, <1>3, <2>1, <2>3 DEF QueueInv, WalkFindsLinked, Fields
<1>5. CatchUp'
  BY DEF Places, NeverBehindOnceMet, CatchUp, ReadOk
<1>6. TextInv'
  BY <1>1 DEF TextInv, text, Places
<1> QED BY <1>2, <1>4, <1>5, <1>6

(* What a step of main inside the queue leaves alone of the thread. *)
Aside == UNCHANGED <<kernel, monitor, events, name, pos, read, known, met>>

LEMMA LookupKeeps ==
  ASSUME Inv, NEW w \in Wanted, Lookup(w), Aside
  PROVE  Inv'
<1> USE DEF Inv
<1>1. /\ at = "idle" /\ next' = next /\ last' = last /\ brightness' = brightness
      /\ udev' = udev /\ tat' = tat
      /\ UNCHANGED <<actual, changes, monitor, events, name, pos, read, known, met>>
  BY DEF Lookup, queue, Aside, kernel
<1>2. Linked' = Linked /\ Reached' = Reached
  BY <1>1, LinkedKept
<1>3. InQueue(w) => w \in Linked
  <2>1. w # None
    BY BacklightConstants
  <2> QED BY <2>1 DEF InQueue, Linked, TypeInv
<1>4. \/ at' = "insert" /\ arg' = w /\ mine' = actual[w] /\ UNCHANGED text
         /\ udev /\ w \in Devices \ Linked
      \/ UNCHANGED main /\ w \in Linked /\ Show(w, brightness[w])
      \/ UNCHANGED main /\ Show(w, None)
  BY <1>3 DEF Lookup, NewFromSyspath, Linked
<1>5. TypeInv'
  BY <1>1, <1>4 DEF TypeInv, main, text, Show
<1>6. Places'
  BY <1>1, <1>2, <1>4 DEF Places, main
<1>7. QueueInv'
  <2>1. LastIsEnd'
    BY <1>1, <1>2, <1>4, BacklightConstants DEF QueueInv, LastIsEnd, main, Reached
  <2> QED BY <1>1, <2>1, QueueUntouched
<1>8. CatchUp'
  BY <1>1, <1>4 DEF NeverBehindOnceMet, OnItsWay, CatchUp, ReadOk, Running, Final, main
<1>9. TextInv'
  BY <1>1, <1>2, <1>4 DEF TextInv, TypeInv, text, Show
<1> QED BY <1>5, <1>6, <1>7, <1>8, <1>9

LEMMA InsertKeeps ==
  ASSUME Inv, Insert, Aside
  PROVE  Inv'
<1> USE DEF Inv
<1>1. /\ arg' = arg /\ mine' = mine /\ udev' = udev /\ tat' = tat
      /\ UNCHANGED <<raised, shown>> /\ at \in {"insert", "move"}
      /\ UNCHANGED <<actual, changes, monitor, events, name, pos, read, known, met>>
  BY DEF Insert, InsertTail, Aside, kernel, text
<1>2. udev /\ arg \in Devices /\ last # None /\ last \in Fields
  BY <1>1 DEF Places, QueueInv, LastIsEnd, TypeInv
<1>3. CASE at = "insert"
  <2>1. /\ at' = "move" /\ next' = [next EXCEPT ![last] = arg] /\ last' = last
        /\ brightness' = [brightness EXCEPT ![arg] = mine]
    BY <1>2, <1>3 DEF Insert, InsertTail
  <2>2. next[last] = None /\ arg \notin Reached /\ last \in Reached /\ next[arg] = None
    BY <1>2, <1>3 DEF QueueInv, LastIsEnd, Fields
  <2>3. /\ Linked' = Linked \cup {arg} /\ Reached' = Reached \cup {arg}
        /\ next' \in [Fields -> Devices \cup {None}] /\ next'[last] = arg
        /\ \A y \in Fields \ {last} : next'[y] = next[y]
    BY <1>2, <2>1, <2>2, LinkAdds
  <2>4. TypeInv'
    BY <1>1, <1>2, <2>1, <2>3 DEF TypeInv
  <2>5. Places'
    BY <1>1, <1>2, <1>3, <2>1, <2>3 DEF Places
  <2>6. QueueInv'
    <3>1. LastIsEnd'
      BY <1>1, <1>2, <2>1, <2>2, <2>3 DEF LastIsEnd, Fields
    <3>2. PICK rank \in [Fields -> Nat] : Ordered(rank)
      BY DEF QueueInv
    <3>3. PICK more \in [Fields -> Nat] :
            more[arg] = rank[last] + 1 /\ \A x \in Reached : more[x] = rank[x] /\ x # arg
      <4>1. [rank EXCEPT ![arg] = rank[last] + 1] \in [Fields -> Nat]
        BY <1>2 DEF Fields
      <4>2. /\ [rank EXCEPT ![arg] = rank[last] + 1][arg] = rank[last] + 1
            /\ \A x \in Reached : [rank EXCEPT ![arg] = rank[last] + 1][x] = rank[x] /\ x # arg
        BY <1>2, <2>2 DEF Fields, Reached, Linked
      <4> QED BY <4>1, <4>2
    <3>4. Reached \subseteq Fields /\ \A x \in Reached : rank[x] \in Nat /\ rank[x] <= rank[last]
      BY <2>2, <3>2 DEF Ordered, Reached, Linked, Fields
    <3>5. next'[arg] = None
      BY <1>2, <2>2, <2>3 DEF Fields
    <3>6. more[Top] = 0 /\ Top \in Reached
      BY <3>2, <3>3 DEF Ordered, Reached
    <3>7. \A x \in Reached' : next'[x] # None => more[next'[x]] = more[x] + 1
      <4> SUFFICES ASSUME NEW x \in Reached, next'[x] # None
                   PROVE  more[next'[x]] = more[x] + 1
        BY <2>3, <3>5
      <4>1. CASE x = last
        BY <2>3, <3>3, <4>1
      <4>2. CASE x # last
        <5>1. x \in Fields /\ next'[x] = next[x]
          BY <2>3, <3>4, <4>2
        <5>2. next[x] \in Reached
          BY <5>1, NextLinked DEF Reached
        <5> QED BY <3>2, <3>3, <5>1, <5>2 DEF Ordered
      <4> QED BY <4>1, <4>2
    <3>8. \A x \in Reached' : next'[x] = None => \A y \in Reached' : more[y] <= more[x]
      <4>1. \A x \in Reached : next'[x] # None
        <5> SUFFICES ASSUME NEW x \in Reached, next'[x] = None PROVE FALSE
          OBVIOUS
        <5>1. x # last /\ x \in Fields
          BY <1>2, <2>3, <3>4, BacklightConstants
        <5>2. next[x] = None
          BY <2>3, <5>1
        <5>3. rank[last] <= rank[x] /\ rank[x] <= rank[last]
          BY <2>2, <3>2, <3>4, <5>2 DEF Ordered
        <5>4. rank[last] = rank[x]
          BY <2>2, <3>4, <5>3
        <5> QED BY <2>2, <3>2, <5>1, <5>4 DEF Ordered
      <4>2. \A y \in Reached' : more[y] <= more[arg]
        BY <2>2, <2>3, <3>3, <3>4
      <4> QED BY <2>3, <4>1, <4>2
    <3>9. \A x, y \in Reached' : more[x] = more[y] => x = y
      <4>1. \A x \in Reached : more[x] # more[arg]
        BY <2>2, <3>3, <3>4
      <4>2. \A x, y \in Reached : more[x] = more[y] => x = y
        BY <3>2, <3>3 DEF Ordered
      <4> QED BY <2>3, <4>1, <4>2
    <3>10. tat' = "walk" /\ name' \in Reached' => more[pos'] < more[name']
      <4> SUFFICES ASSUME tat = "walk", name \in Reached \cup {arg} PROVE more[pos] < more[name]
        BY <1>1, <2>3
      <4>1. pos \in Reached
        BY DEF QueueInv
      <4>2. CASE name = arg
        BY <2>2, <3>3, <3>4, <4>1, <4>2
      <4>3. CASE name \in Reached
        BY <3>2, <3>3, <4>1, <4>3 DEF Ordered
      <4> QED BY <4>2, <4>3
    <3>11. Ordered(more)'
      BY <3>6, <3>7, <3>8, <3>9, <3>10 DEF Ordered
    <3>12. \A x \in Fields \ Reached' : next'[x] = None
      BY <2>2, <2>3 DEF QueueInv
    <3> QED BY <1>1, <2>3, <3>1, <3>3, <3>11, <3>12 DEF QueueInv, WalkFindsLinked, Fields
  <2>7. CatchUp'
    <3>1. arg \notin met
      BY <2>2 DEF QueueInv, Reached
    <3>2. \A d \in met : d \in Devices /\ brightness'[d] = brightness[d]
      BY <2>1, <3>1 DEF QueueInv, Linked, TypeInv
    <3> QED BY <1>1, <1>3, <3>2 DEF NeverBehindOnceMet, OnItsWay, CatchUp, ReadOk, Running, Final
  <2>8. TextInv'
    <3>1. \A w \in Wanted : shown[w] # None => w \in Linked /\ w # arg
      BY <2>2 DEF TextInv, Reached
    <3>2. \A w \in Linked \ {arg} : brightness'[w] = brightness[w]
      BY <2>1 DEF Linked, TypeInv
    <3> QED BY <1>1, <2>3, <3>1, <3>2 DEF TextInv
  <2> QED BY <2>4, <2>5, <2>6, <2>7, <2>8
<1>4. CASE at = "move"
  <2>1. at' = "inserted" /\ last' = arg /\ next' = next /\ brightness' = brightness
    BY <1>4 DEF Insert, InsertTail
  <2>2. Linked' = Linked /\ Reached' = Reached
    BY <2>1, LinkedKept
  <2>3. arg \in Linked /\ next[arg] = None /\ arg # None
    BY <1>2, <1>4, BacklightConstants DEF QueueInv, LastIsEnd
  <2>4. TypeInv'
    BY <1>1, <1>2, <2>1 DEF TypeInv, Fields
  <2>5. Places'
    BY <1>1, <1>2, <1>4, <2>1, <2>2, <2>3 DEF Places
  <2>6. QueueInv'
    <3>1. LastIsEnd'
      BY <1>1, <2>1, <2>2, <2>3 DEF LastIsEnd, Reached
    <3> QED BY <1>1, <2>1, <3>1, QueueUntouched
  <2>7. CatchUp'
    BY <1>1, <1>4, <2>1 DEF NeverBehindOnceMet, OnItsWay, CatchUp, ReadOk, Running, Final
  <2>8. TextInv'
    BY <1>1, <2>1, <2>2 DEF TextInv
  <2> QED BY <2>4, <2>5, <2>6, <2>7, <2>8
<1> QED BY <1>1, <1>3, <1>4

LEMMA InsertedKeeps ==
  ASSUME Inv, Inserted, Aside
  PROVE  Inv'
<1> USE DEF Inv
<1>1. /\ at = "inserted" /\ at' = "idle" /\ Show(arg, brightness[arg]) /\ arg' = arg /\ mine' = mine
      /\ next' = next /\ last' = last /\ brightness' = brightness /\ udev' = udev /\ tat' = tat
      /\ UNCHANGED <<actual, changes, monitor, events, name, pos, read, known, met>>
  BY DEF Inserted, queue, Aside, kernel
<1>2. Linked' = Linked /\ Reached' = Reached
  BY <1>1, LinkedKept
<1>3. arg \in Linked
  BY <1>1 DEF QueueInv, LastIsEnd
<1>4. TypeInv' /\ Places'
  BY <1>1, <1>2 DEF TypeInv, Places, Show
<1>5. QueueInv'
  <2>1. LastIsEnd'
    BY <1>1, <1>2 DEF QueueInv, LastIsEnd
  <2> QED BY <1>1, <2>1, QueueUntouched
<1>6. CatchUp'
  BY <1>1 DEF NeverBehindOnceMet, OnItsWay, CatchUp, ReadOk, Running, Final
<1>7. TextInv'
  BY <1>1, <1>2, <1>3 DEF TextInv, TypeInv, Show
<1> QED BY <1>4, <1>5, <1>6, <1>7

LEMMA FreeKeeps ==
  ASSUME Inv, FreeBegins \/ FreeMonitor \/ Exit,
         UNCHANGED <<kernel, events, queue, brightness, thread, text>>
  PROVE  Inv'
<1> USE DEF Inv
<1>1. /\ at' \in {"unref", "corrupted", "exit", "exited"} /\ at \in {"idle", "unref", "exit"}
      /\ udev' \in {udev, FALSE} /\ (monitor' = "receiving" => monitor = "receiving")
      /\ (monitor = "none" => monitor' = "none") /\ arg' = arg /\ mine' = mine
      /\ next' = next /\ last' = last
  BY DEF FreeBegins, FreeMonitor, Exit, queue
<1>2. Linked' = Linked /\ Reached' = Reached
  BY <1>1, LinkedKept
<1>3. udev' => udev
  BY <1>1
<1>4. TypeInv'
  <2>1. udev' \in BOOLEAN
    BY <1>1 DEF TypeInv
  <2> QED BY <1>1, <2>1 DEF TypeInv, kernel, thread, text
<1>5. Places'
  BY <1>1, <1>2, <1>3 DEF Places, thread
<1>6. QueueInv'
  <2>1. LastIsEnd'
    BY <1>1, <1>2 DEF QueueInv, LastIsEnd
  <2> QED BY <1>1, <2>1, QueueUntouched DEF thread
<1>7. CatchUp'
  BY <1>1 DEF NeverBehindOnceMet, OnItsWay, CatchUp, ReadOk, Running, Final, kernel, thread
<1>8. TextInv'
  BY <1>2 DEF TextInv, text, thread
<1> QED BY <1>4, <1>5, <1>6, <1>7, <1>8

-----------------------------------------------------------------------------
(* The thread                                                              *)

(* What a step of the thread leaves alone. *)
Others == UNCHANGED <<kernel, udev, queue, arg, mine, shown>>

(* The thread is in no walk after the step. *)
LEMMA OffWalk ==
  ASSUME QueueInv, Others, at' \in {at, "corrupted"}, tat' \notin {"walk", "missed"},
         met' \subseteq Linked
  PROVE  QueueInv'
<1>1. next' = next /\ last' = last /\ arg' = arg
  BY DEF Others, queue
<1>2. Linked' = Linked /\ Reached' = Reached
  BY <1>1, LinkedKept
<1>3. LastIsEnd'
  BY <1>1, <1>2 DEF QueueInv, LastIsEnd
<1>4. PICK rank \in [Fields -> Nat] : Ordered(rank)
  BY DEF QueueInv
<1>5. Ordered(rank)'
  BY <1>1, <1>2, <1>4 DEF Ordered
<1> QED BY <1>1, <1>2, <1>3, <1>5 DEF QueueInv, WalkFindsLinked, Fields

LEMMA StartMonitorKeeps ==
  ASSUME Inv, StartMonitor, Others
  PROVE  Inv'
<1> USE DEF Inv, StartMonitor, Others
<1>1. Linked' = Linked
  BY LinkedKept DEF queue
<1>2. QueueInv'
  BY OffWalk DEF QueueInv
<1>3. TypeInv' /\ Places'
  BY <1>1 DEF TypeInv, Places, queue, kernel
<1>4. CatchUp'
  BY DEF Places, NeverBehindOnceMet, CatchUp, ReadOk
<1>5. TextInv'
  BY <1>1 DEF TextInv
<1> QED BY <1>2, <1>3, <1>4, <1>5

LEMMA ReceiveKeeps ==
  ASSUME Inv, Receive, Others
  PROVE  Inv'
<1> USE DEF Inv, Receive, Others
<1>1. Linked' = Linked /\ Reached' = Reached /\ next' = next /\ last' = last
  BY LinkedKept DEF queue
<1>2. /\ events \in Seq(Devices) /\ name' \in Devices /\ name' = events[1]
      /\ events' \in Seq(Devices) /\ Len(events') = Len(events) - 1
      /\ \A k \in 1..Len(events') : events'[k] = events[k + 1]
  BY DEF TypeInv
<1>3. TypeInv' /\ Places'
  BY <1>1, <1>2 DEF TypeInv, Places, kernel
<1>4. QueueInv'
  <2>1. LastIsEnd'
    BY <1>1 DEF QueueInv, LastIsEnd
  <2>2. PICK rank \in [Fields -> Nat] : Ordered(rank)
    BY DEF QueueInv
  <2>3. name' \in Reached => rank[Top] < rank[name']
    <3>1. name' \in Fields /\ name' # Top /\ Top \in Reached
      BY <1>2, BacklightConstants DEF Fields, Reached
    <3> QED BY <2>2, <3>1 DEF Ordered
  <2>4. Ordered(rank)'
    BY <1>1, <2>2, <2>3 DEF Ordered
  <2>5. known' = Linked
    BY DEF Linked
  <2> QED BY <1>1, <2>1, <2>4, <2>5 DEF QueueInv, WalkFindsLinked, Fields, Reached
<1>5. CatchUp'
  <2> SUFFICES ASSUME Running, NEW d \in met PROVE brightness[d] = actual[d] \/ OnItsWay(d)'
    BY DEF CatchUp, ReadOk, NeverBehindOnceMet, Running, kernel
  <2>1. CASE brightness[d] = actual[d]
    BY <2>1
  <2>2. CASE \E k \in DOMAIN events : events[k] = d
    <3>1. PICK k \in 1..Len(events) : events[k] = d
      BY <1>2, <2>2
    <3>2. CASE k = 1
      BY <1>2, <3>1, <3>2 DEF OnItsWay
    <3>3. CASE k # 1
      <4>1. k - 1 \in DOMAIN events' /\ events'[k - 1] = d
        BY <1>2, <3>1, <3>3
      <4> QED BY <4>1 DEF OnItsWay
    <3> QED BY <3>2, <3>3
  <2> QED BY <2>1, <2>2 DEF NeverBehindOnceMet, OnItsWay, CatchUp, ReadOk
<1>6. TextInv'
  BY <1>1 DEF TextInv
<1> QED BY <1>3, <1>4, <1>5, <1>6

LEMMA ReceiveFreedKeeps ==
  ASSUME Inv, ReceiveFreed, Others
  PROVE  Inv'
<1> USE DEF Inv, ReceiveFreed, Others
<1>1. Linked' = Linked
  BY LinkedKept DEF queue
<1>2. QueueInv'
  BY OffWalk DEF QueueInv
<1>3. TypeInv' /\ Places'
  BY <1>1 DEF TypeInv, Places, queue, kernel
<1>4. CatchUp' /\ TextInv'
  BY <1>1 DEF CatchUp, ReadOk, NeverBehindOnceMet, TextInv
<1> QED BY <1>2, <1>3, <1>4

(* The one step where the order of the list matters: a walk that comes to the
   end was behind every entry. *)
LEMMA WalkKeeps ==
  ASSUME Inv, Walk, Others
  PROVE  Inv'
<1> USE DEF Inv, Walk, Others
<1>1. Linked' = Linked /\ Reached' = Reached /\ next' = next /\ last' = last
  BY LinkedKept DEF queue
<1>2. pos \in Reached /\ pos \in Fields /\ name \in Devices
  BY DEF QueueInv, Places, Reached, Linked, Fields
<1>3. PICK rank \in [Fields -> Nat] : Ordered(rank)
  BY DEF QueueInv
<1>4. next[pos] # None => next[pos] \in Linked /\ rank[next[pos]] = rank[pos] + 1
  BY <1>2, <1>3, NextLinked DEF Ordered
<1>5. name \in Linked => rank[pos] < rank[name] /\ rank[pos] \in Nat /\ rank[name] \in Nat
  BY <1>2, <1>3 DEF Ordered, Reached, Fields
<1>6. tat' = "missed" => name \notin Linked
  <2>1. tat' = "missed" => next[pos] = None
    OBVIOUS
  <2>2. next[pos] = None /\ name \in Linked => rank[name] <= rank[pos]
    BY <1>2, <1>3 DEF Ordered, Reached
  <2> QED BY <1>5, <2>1, <2>2
<1>7. tat' = "walk" /\ name \in Reached => rank[pos'] < rank[name]
  <2> SUFFICES ASSUME tat' = "walk", name \in Reached PROVE rank[pos'] < rank[name]
    OBVIOUS
  <2>1. next[pos] # None /\ pos' = next[pos] /\ pos' # name
    OBVIOUS
  <2>2. name \in Linked
    BY <1>2, BacklightConstants DEF Reached
  <2>3. rank[pos'] # rank[name]
    BY <1>3, <1>4, <2>1, <2>2 DEF Ordered, Reached
  <2> QED BY <1>4, <1>5, <2>1, <2>2, <2>3
<1>8. TypeInv' /\ Places'
  BY <1>1, <1>2, <1>4 DEF TypeInv, Places, kernel
<1>9. QueueInv'
  <2>1. LastIsEnd'
    BY <1>1 DEF QueueInv, LastIsEnd
  <2>2. Ordered(rank)'
    BY <1>1, <1>3, <1>7 DEF Ordered
  <2>3. tat' = "walk" => pos' \in Reached
    BY <1>4 DEF Reached
  <2>4. WalkFindsLinked'
    BY <1>6 DEF WalkFindsLinked, QueueInv
  <2> QED BY <1>1, <2>1, <2>2, <2>3, <2>4 DEF QueueInv, Fields
<1>10. CatchUp'
  <2>1. tat' = "missed" => name \notin met
    BY <1>6 DEF QueueInv
  <2> QED BY <2>1 DEF NeverBehindOnceMet, OnItsWay, CatchUp, ReadOk, Running, kernel
<1>11. TextInv'
  BY <1>1 DEF TextInv
<1> QED BY <1>8, <1>9, <1>10, <1>11

LEMMA ReadLevelKeeps ==
  ASSUME Inv, ReadLevel, Others
  PROVE  Inv'
<1> USE DEF Inv, ReadLevel, Others
<1>1. Linked' = Linked /\ name \in Linked /\ name \in Devices
  BY LinkedKept DEF queue, Places
<1>2. QueueInv'
  <2>1. met' \subseteq Linked
    BY <1>1 DEF QueueInv
  <2> QED BY <2>1, OffWalk
<1>3. TypeInv' /\ Places'
  BY <1>1 DEF TypeInv, Places, queue, kernel
<1>4. CatchUp'
  BY DEF NeverBehindOnceMet, OnItsWay, CatchUp, ReadOk, Running, kernel
<1>5. TextInv'
  BY <1>1 DEF TextInv
<1> QED BY <1>2, <1>3, <1>4, <1>5

LEMMA CompareKeeps ==
  ASSUME Inv, Compare, UNCHANGED <<at, monitor, events, name, pos, read, known, met, raised>>, Others
  PROVE  Inv'
<1> USE DEF Inv, Others
<1>1. Linked' = Linked /\ name \in Linked /\ name \in Devices
  BY LinkedKept DEF queue, Places, Compare
<1>2. /\ tat = "compare" /\ tat' \in {"signal", "receive"}
      /\ brightness'[name] = read /\ brightness' \in [Devices -> Nat]
      /\ \A d \in Devices \ {name} : brightness'[d] = brightness[d]
      /\ tat' = "receive" => brightness' = brightness
  BY <1>1 DEF Compare, TypeInv
<1>3. QueueInv'
  BY <1>2, OffWalk DEF QueueInv
<1>4. TypeInv' /\ Places'
  BY <1>1, <1>2 DEF TypeInv, Places, queue, kernel
<1>5. CatchUp'
  <2>1. \A d \in met : d \in Devices
    BY DEF QueueInv, Linked
  <2>2. Running /\ monitor = "receiving" => brightness'[name] = actual[name] \/ OnItsWay(name)'
    BY <1>2 DEF CatchUp, ReadOk, OnItsWay
  <2>3. \A d \in met \ {name} : OnItsWay(d)' <=> OnItsWay(d)
    BY <1>2 DEF OnItsWay, kernel
  <2>4. NeverBehindOnceMet'
    BY <1>2, <2>1, <2>2, <2>3 DEF CatchUp, NeverBehindOnceMet, Running, kernel
  <2> QED BY <1>2, <2>4 DEF CatchUp, ReadOk
<1>6. TextInv'
  BY <1>1, <1>2 DEF TextInv
<1> QED BY <1>3, <1>4, <1>5, <1>6

LEMMA UnrefKeeps ==
  ASSUME Inv, Unref, Others
  PROVE  Inv'
<1> USE DEF Inv, Unref, Others
<1>1. Linked' = Linked
  BY LinkedKept DEF queue
<1>2. QueueInv'
  BY OffWalk DEF QueueInv
<1>3. TypeInv' /\ Places'
  BY <1>1 DEF TypeInv, Places, queue, kernel
<1>4. CatchUp'
  BY DEF NeverBehindOnceMet, OnItsWay, CatchUp, ReadOk, Running, kernel
<1>5. TextInv'
  BY <1>1 DEF TextInv
<1> QED BY <1>2, <1>3, <1>4, <1>5

LEMMA NextInv == Inv /\ [Next]_vars => Inv'
<1> SUFFICES ASSUME Inv, [Next]_vars PROVE Inv'
  OBVIOUS
<1>1. CASE Main
  <2>1. CASE BacklightInit /\ UNCHANGED <<arg, mine, next, brightness, text>> /\ Aside
    BY <2>1, BacklightInitKeeps DEF Aside
  <2>2. CASE (\E w \in Wanted : Lookup(w)) /\ Aside
    BY <2>2, LookupKeeps
  <2>3. CASE (Insert \/ Inserted) /\ Aside
    BY <2>3, InsertKeeps, InsertedKeeps
  <2>4. CASE /\ FreeBegins \/ FreeMonitor \/ Exit
             /\ UNCHANGED <<kernel, events, queue, brightness, thread, text>>
    BY <2>4, FreeKeeps
  <2> QED BY <1>1, <2>1, <2>2, <2>3, <2>4 DEF Main, Aside
<1>2. CASE Thread
  BY <1>2, StartMonitorKeeps, ReceiveKeeps, ReceiveFreedKeeps, WalkKeeps, ReadLevelKeeps,
     CompareKeeps, UnrefKeeps DEF Thread, Others
<1>3. CASE \E d \in Devices : Change(d)
  BY <1>3, ChangeKeeps
<1>4. CASE Finished \/ UNCHANGED vars
  <2>1. UNCHANGED vars
    BY <1>4 DEF Finished
  <2>2. Linked' = Linked /\ Reached' = Reached
    BY <2>1, LinkedKept DEF vars, queue
  <2>3. TypeInv' /\ Places' /\ TextInv'
    BY <2>1, <2>2 DEF Inv, TypeInv, Places, TextInv, vars, kernel, queue, main, thread, text
  <2>4. QueueInv'
    BY <2>1, <2>2, QueueUntouched DEF Inv, QueueInv, LastIsEnd, vars, queue, main, thread
  <2>5. CatchUp'
    BY <2>1 DEF Inv, NeverBehindOnceMet, OnItsWay, CatchUp, ReadOk, Running, vars, kernel, main, thread
  <2> QED BY <2>3, <2>4, <2>5 DEF Inv
<1> QED BY <1>1, <1>2, <1>3, <1>4 DEF Next

LEMMA AlwaysInv == Spec => []Inv
BY InitInv, NextInv, PTL DEF Spec

-----------------------------------------------------------------------------
(* The theorems                                                            *)

(* However many insertions of main fall into it, a walk of the thread that
   finds nothing has missed no entry that was linked when it began: the two
   stores of TAILQ_INSERT_TAIL keep a walker's list whole (backlight_find). *)
THEOREM WalkMissesNone == Spec => []WalkFindsLinked
<1>1. Inv => WalkFindsLinked
  BY DEF Inv, QueueInv
<1> QED BY <1>1, AlwaysInv, PTL

(* An entry the thread has found once is level with its device from then on,
   or an event that will make it so is on its way (backlight_loop). *)
THEOREM MetStaysLevel == Spec => []NeverBehindOnceMet
<1>1. Inv => NeverBehindOnceMet
  BY DEF Inv, CatchUp
<1> QED BY <1>1, AlwaysInv, PTL

(* A shown brightness that its entry no longer has was announced by
   BACKLIGHT_SIGNAL since, or the thread is about to raise it (backlight_loop,
   backlight_line). *)
THEOREM OutdatedIsAnnounced == Spec => []ShownOrRaised
<1>1. Inv => ShownOrRaised
  BY DEF Inv, TextInv, ShownOrRaised
<1> QED BY <1>1, AlwaysInv, PTL

LEMMA NeverCrashes == Inv /\ at # "crashed" /\ [Next]_vars => at' # "crashed"
<1> SUFFICES ASSUME Inv, at # "crashed", [Next]_vars PROVE at' # "crashed"
  OBVIOUS
<1>1. CASE Insert
  BY <1>1 DEF Insert, InsertTail, Inv, Places
<1>2. CASE Main /\ ~Insert
  BY <1>2 DEF Main, BacklightInit, Lookup, Inserted, FreeBegins, FreeMonitor, Exit, main
<1>3. CASE Thread
  BY <1>3 DEF Thread, StartMonitor, Receive, ReceiveFreed, Walk, ReadLevel, Compare, Unref
<1>4. CASE (\E d \in Devices : Change(d)) \/ Finished \/ UNCHANGED vars
  BY <1>4 DEF Change, Finished, vars, main
<1> QED BY <1>1, <1>2, <1>3, <1>4 DEF Next

(* Main never appends to a queue that was not initialised, with a libudev
   that finds no device without a context (backlight_init, backlight_find). *)
THEOREM QueueIsReady == Spec => []QueueReady
<1>1. Init => QueueReady
  BY DEF Init, QueueReady
<1>2. Inv /\ QueueReady /\ [Next]_vars => QueueReady'
  BY NeverCrashes DEF QueueReady
<1> QED BY <1>1, <1>2, AlwaysInv, PTL DEF Spec
=============================================================================
