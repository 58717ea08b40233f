------------------------------ MODULE BusCache ------------------------------
(***************************************************************************)
(* components/upower.c, components/mm.c and components/ppd.c: values that  *)
(* daemons tell over the system bus, cached per device.  The messages of   *)
(* the bus wait for the default main context until nm_tick, the only tick  *)
(* of GLib's that main calls, iterates it for all of them; calls to a      *)
(* daemon are answered at once.                                            *)
(***************************************************************************)
EXTENDS Integers, Sequences, FiniteSets

CONSTANTS
  Batteries,   \* the arguments of the upower_* entries of config.h
  Modems,      \* the arguments of the mm_* entries
  None,        \* NULL
  Due,         \* "a signal was sent since", no answer
  Levels,      \* charges and signal qualities in percent
  Misread,     \* what half of an address may be, read as a number
  Profiles,    \* power profiles
  MaxChanges   \* bound on the changes the daemons make

VARIABLES
  bus,       \* what the daemons say of each device, or None
  mode,      \* what power-profiles-daemon says
  inbox,     \* the messages that wait for a tick
  client,    \* the services there is a client of
  object,    \* the library's object of each device, or None
  entry,     \* upower_queue and mm_queue: the cached values, or None
  orphans,   \* the entries made from an object whose device went away since
  profile,   \* ppd_profile
  failed,    \* the last call to power-profiles-daemon failed
  shown,     \* the last answer to each query, Due when its signal came since
  changes,   \* how many changes there were
  at         \* "setup", "lookups", "tick", "exited", "crashed"

daemons == <<bus, mode, changes>>
cache   == <<entry, profile, failed>>
vars    == <<daemons, inbox, client, object, cache, orphans, shown, at>>

Devices  == Batteries \cup Modems
Services == {"upower", "mm", "ppd"}
Service(x) == IF x \in Batteries THEN "upower" ELSE IF x \in Modems THEN "mm" ELSE "ppd"

Props == {"state", "level"}
Values(d, p) ==
  IF p = "level" THEN Levels
  ELSE IF d \in Batteries THEN {"discharging", "charging"} ELSE {"connected", "registered"}
Readings(d) == [state : Values(d, "state"), level : Levels]
Entries(d) == [state : Values(d, "state"), level : Levels \cup Misread]

ASSUME BusConstants ==
  /\ Batteries \cap Modems = {} /\ "ppd" \notin Devices
  /\ None # Due /\ {None, Due} \cap (Devices \cup Profiles) = {}
  /\ \A d \in Devices : None \notin Entries(d)
  /\ Levels \subseteq 0..100 /\ Misread \subseteq Nat /\ Misread # {}
  /\ MaxChanges \in Nat

Queries ==
  (Batteries \X {"line", "perc", "state"}) \cup (Modems \X {"line", "perc"}) \cup {<<"ppd", "line">>}

Running == at \in {"lookups", "tick"}

Init ==
  /\ bus \in [Devices -> {None} \cup UNION {Readings(d) : d \in Devices}]
  /\ \A d \in Devices : bus[d] = None \/ bus[d] \in Readings(d)
  /\ mode \in Profiles /\ changes = 0 /\ inbox = <<>> /\ client = {}
  /\ object = [d \in Devices |-> None] /\ entry = object
  /\ profile = None /\ failed = FALSE /\ orphans = {} /\ at = "setup"
  /\ shown = [q \in Queries |-> None]

-----------------------------------------------------------------------------
(* The daemons.  A message comes for what the libraries have subscribed to *)

Post(x, p, v) == inbox' = Append(inbox, [about |-> x, prop |-> p, value |-> v])

Alter(d, p, v) ==
  /\ bus[d] # None /\ bus[d][p] # v
  /\ bus' = [bus EXCEPT ![d][p] = v]
  /\ IF object[d] # None \/ (d \in Modems /\ "mm" \in client)
     THEN Post(d, p, v) ELSE UNCHANGED inbox
  /\ UNCHANGED <<mode, orphans>>

(* A battery that comes back has the path of the one before, so the object of
   that one hears of it; a modem gets a path of its own. *)
Plug(d) ==
  /\ bus[d] = None
  /\ bus' \in {[bus EXCEPT ![d] = r] : r \in Readings(d)}
  /\ IF d \in Modems /\ "mm" \in client THEN Post(d, "added", bus'[d]) ELSE UNCHANGED inbox
  /\ UNCHANGED <<mode, orphans>>

(* Nothing of the program is connected to device-removed or object-removed. *)
Unplug(d) ==
  /\ bus[d] # None /\ bus' = [bus EXCEPT ![d] = None]
  /\ IF d \in Modems /\ "mm" \in client THEN Post(d, "removed", None) ELSE UNCHANGED inbox
  /\ orphans' = IF d \in Batteries /\ object[d] # None THEN orphans \cup {d} ELSE orphans
  /\ UNCHANGED mode

Switch ==
  /\ mode' \in Profiles \ {mode}
  /\ IF "ppd" \in client THEN Post("ppd", "ActiveProfile", mode') ELSE UNCHANGED inbox
  /\ UNCHANGED <<bus, orphans>>

Change ==
  /\ changes < MaxChanges /\ changes' = changes + 1
  /\ \/ Switch
     \/ \E d \in Devices : Plug(d) \/ Unplug(d) \/ \E p \in Props : \E v \in Values(d, p) : Alter(d, p, v)
  /\ UNCHANGED <<client, object, cache, shown, at>>

-----------------------------------------------------------------------------
(* Setup and the callbacks                                                 *)

Raised(s) == [q \in Queries |-> IF Service(q[1]) = s THEN Due ELSE shown[q]]

(* A mutant of Renewed: a profile that is there stays. *)
RenewedOnce == IF profile = None THEN mode ELSE profile

(* The new string is never the old pointer, so it always replaces it. *)
Renewed == mode

PpdUpdate ==
  \/ profile' = Renewed /\ failed' = FALSE /\ shown' = Raised("ppd")
  \/ failed' = TRUE /\ UNCHANGED <<profile, shown>>

(* upower_init, ppd_init and mm_init, each with a service or without. *)
Setup ==
  /\ at = "setup" /\ at' = "lookups" /\ client' \in SUBSET Services
  /\ object' = [d \in Devices |-> IF d \in Modems /\ "mm" \in client' THEN bus[d] ELSE None]
  /\ IF "ppd" \in client' THEN PpdUpdate ELSE UNCHANGED <<profile, failed, shown>>
  /\ UNCHANGED <<daemons, inbox, entry, orphans>>

Compare(e, p, v) == v # e[p]

(* libmm-glib hands a signal quality out as the address of a pair, which is
   stored in a guint and in the stack beside it: the value is half of the
   address, and a build that guards its stack ends the program. *)
IsPair(d, p) == d \in Modems /\ p = "level"

(* The handler of a modem's entry is connected to the modem it was made from. *)
Hears(d) == entry[d] # None /\ (d \in Modems => d \notin orphans)

(* upower_device_callback, mm_modem_callback *)
Notify(d, p, v) ==
  \/ ~Hears(d) /\ UNCHANGED <<entry, shown, at>>
  \/ /\ Hears(d)
     /\ \E x \in IF IsPair(d, p) THEN Misread ELSE {v} :
          \/ /\ Compare(entry[d], p, x)
             /\ entry' = [entry EXCEPT ![d][p] = x] /\ shown' = Raised(Service(d))
          \/ ~Compare(entry[d], p, x) /\ UNCHANGED <<entry, shown>>
     /\ at' \in IF IsPair(d, p) THEN {at, "crashed"} ELSE {at}

(* A mutant of Tick: main's tick calls none of GLib's. *)
TickEmpty == at = "lookups" /\ UNCHANGED vars

Tick == at = "lookups" /\ at' = "tick" /\ UNCHANGED <<daemons, inbox, client, object, cache, orphans, shown>>

Dispatch ==
  /\ at = "tick" /\ inbox # <<>> /\ inbox' = Tail(inbox)
  /\ LET m == Head(inbox)
     IN  \/ m.about = "ppd" /\ PpdUpdate /\ UNCHANGED <<object, entry, orphans, at>>
         \/ /\ m.prop = "added" /\ object' = [object EXCEPT ![m.about] = m.value]
            /\ UNCHANGED <<cache, orphans, shown, at>>
         \/ /\ m.prop = "removed" /\ object' = [object EXCEPT ![m.about] = None]
            /\ orphans' = IF entry[m.about] # None THEN orphans \cup {m.about} ELSE orphans
            /\ UNCHANGED <<cache, shown, at>>
         \/ /\ m.prop \in Props
            /\ IF object[m.about] # None
               THEN /\ object' = [object EXCEPT ![m.about][m.prop] = m.value]
                    /\ Notify(m.about, m.prop, m.value)
               ELSE UNCHANGED <<object, entry, shown, at>>
            /\ UNCHANGED <<profile, failed, orphans>>
  /\ UNCHANGED <<daemons, client>>

TickDone ==
  /\ at = "tick" /\ inbox = <<>> /\ at' = "lookups"
  /\ UNCHANGED <<daemons, inbox, client, object, cache, orphans, shown>>

-----------------------------------------------------------------------------
(* The lookups of printstatus                                              *)

Steps(x, bounds) == Cardinality({b \in bounds : x >= b})

UpowerLine(e) == <<e.state = "discharging", Steps(e.level, {10 * n - 5 : n \in 1..10}), e.level>>

MmLine(e) == IF e.state = "connected" THEN Steps(e.level, {25, 50, 70}) ELSE None

Answer(d, what, e) ==
  CASE what = "perc"  -> e.level
    [] what = "state" -> e.state
    [] what = "line"  -> IF d \in Batteries THEN UpowerLine(e) ELSE MmLine(e)

(* A mutant of Kept: the array of devices is released, the found one too. *)
KeptNot(d) == None

(* Returning from the loop leaks the array, which keeps the device and its
   handler. *)
Kept(d) == bus[d]

(* A mutant of FindRaises: a new entry raises nothing. *)
FindRaisesNot(d) == shown

(* upower_find raises the signal for a new entry, mm_find does not. *)
FindRaises(d) == IF d \in Batteries THEN Raised("upower") ELSE shown

(* upower_find asks the daemon, which may fail to answer. *)
UpowerFind(d) ==
  /\ "upower" \in client
  /\ \/ at' = "crashed" /\ UNCHANGED <<entry, object>>
     \/ /\ bus[d] # None /\ entry' = [entry EXCEPT ![d] = bus[d]]
        /\ object' = [object EXCEPT ![d] = Kept(d)] /\ UNCHANGED at

(* mm_find copies what libmm-glib knows. *)
MmFind(d) ==
  \/ "mm" \notin client /\ at' = "crashed" /\ UNCHANGED <<entry, object>>
  \/ /\ object[d] # None /\ entry' = [entry EXCEPT ![d] = object[d]]
     /\ UNCHANGED <<object, at>>

NotThere(d) ==
  IF d \in Batteries THEN "upower" \notin client \/ bus[d] = None
  ELSE "mm" \in client /\ object[d] = None

Cached(d) == entry[d] # None

Lookup(d, what) ==
  /\ at = "lookups" /\ d \in Devices
  /\ \/ Cached(d) /\ UNCHANGED <<entry, object, at>>
     \/ ~Cached(d) /\ d \in Batteries /\ UpowerFind(d)
     \/ ~Cached(d) /\ d \in Modems /\ MmFind(d)
     \/ ~Cached(d) /\ NotThere(d) /\ UNCHANGED <<entry, object, at>>
  /\ LET answer == IF entry'[d] = None THEN None ELSE Answer(d, what, entry'[d])
         others == IF Cached(d) \/ entry'[d] = None THEN shown ELSE FindRaises(d)
     IN  shown' = [others EXCEPT ![<<d, what>>] = answer]
  /\ UNCHANGED <<daemons, inbox, client, profile, failed, orphans>>

PpdLine ==
  /\ at = "lookups"
  /\ shown' = [shown EXCEPT ![<<"ppd", "line">>] = profile]
  /\ UNCHANGED <<daemons, inbox, client, object, cache, orphans, at>>

Free ==
  /\ at = "lookups" /\ at' = "exited"
  /\ entry' = [d \in Devices |-> None] /\ client' = client \ {"upower", "ppd"}
  /\ UNCHANGED <<daemons, inbox, object, profile, failed, orphans, shown>>

Finished == at \in {"exited", "crashed"} /\ UNCHANGED vars

Next ==
  \/ Change \/ Setup \/ Tick \/ Dispatch \/ TickDone \/ PpdLine \/ Free \/ Finished
  \/ \E q \in Queries : Lookup(q[1], q[2])

Spec == Init /\ [][Next]_vars

(* A pass over the entries ends and is followed by a tick; a tick goes on. *)
FairSpec == Spec /\ WF_vars(Tick) /\ WF_vars(Dispatch \/ TickDone)

-----------------------------------------------------------------------------
(* Properties                                                              *)

OnItsWay(x, p) == \E n \in DOMAIN inbox : inbox[n].about = x /\ inbox[n].prop = p

(* v is what the daemon says of d, or a message that changes this waits. *)
UpToDate(d, p, v) ==
  \/ OnItsWay(d, "removed") \/ OnItsWay(d, p)
  \/ bus[d] # None /\ bus[d][p] = v

(* A cached value is that of the device it was made from while that is there,
   or a message about it waits for a tick: none is lost between the copy at
   the first lookup and the handler, nor by what happens to the object later.
   A modem's level is this up to its first notification, which misreads it. *)
CacheFollows ==
  \A d \in Devices : entry[d] # None /\ d \notin orphans =>
    \A p \in Props : UpToDate(d, p, entry[d][p]) \/ (IsPair(d, p) /\ entry[d][p] \in Misread)

(* The profile is the daemon's, or a message waits, or the last call failed:
   a message that comes before the call that answers it does no harm. *)
ProfileFollows ==
  Running /\ "ppd" \in client =>
    profile = mode \/ OnItsWay("ppd", "ActiveProfile") \/ failed

(* What an entry would answer differently from what was shown has been
   announced, but for a modem that was not there when it was asked for. *)
ChangeAnnounced ==
  Running =>
    \A q \in {r \in Queries : shown[r] # Due} :
      IF q[1] \notin Devices THEN shown[q] = profile
      ELSE \/ entry[q[1]] = None
           \/ shown[q] = Answer(q[1], q[2], entry[q[1]])
           \/ q[1] \in Modems /\ shown[q] = None

(* The entry of a device that is still there differs from what it says. *)
Behind(d) ==
  /\ Running /\ entry[d] # None /\ d \notin orphans
  /\ \E p \in Props : ~IsPair(d, p) /\ (bus[d] = None \/ entry[d][p] # bus[d][p])

(* An entry behind its device catches up, or is left without it: all but the
   signal quality of a modem. *)
CatchesUp == \A d \in Devices : Behind(d) ~> ~Behind(d)
=============================================================================
