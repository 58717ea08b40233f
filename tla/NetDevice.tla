----------------------------- MODULE NetDevice -----------------------------
(***************************************************************************)
(* components/nm.c: one cached entry per network interface, a view of the  *)
(* object that libnm has for the device.  libnm changes its objects, and   *)
(* calls the handlers connected to them, only while a tick iterates the    *)
(* main context, so a change and its handlers are one step here, and the   *)
(* lookups of printstatus come between such steps.                         *)
(***************************************************************************)
EXTENDS Naturals

CONSTANTS
  Ifaces,      \* the arguments of the nm_* entries of config.h
  Wifi,        \* those whose device is a WiFi one, the others are wired
  APs,         \* access points
  None,        \* NULL
  Ssid,        \* the name each access point tells, None for a hidden one
  Addresses,   \* addresses a device may get, of either family
  Strengths,   \* signal strengths in percent
  MaxChanges   \* bound on the changes of devices and access points

ASSUME NetConstants ==
  /\ Wifi \subseteq Ifaces
  /\ None \notin APs \cup Addresses
  /\ Strengths \subseteq 0..100
  /\ MaxChanges \in Nat

VARIABLES
  client,    \* nm_client_new succeeded
  device,    \* libnm's object of each interface
  known,     \* the access points that libnm has objects of
  strength,  \* of each access point, the last one told if it is gone
  entry,     \* nm_queue: the nm_t of each interface, or None
  since,     \* the addresses a device has had since it was last inactive
  faded,     \* history: the last strengths of the access points that went away
             \* while an entry, on another one by then, watched them
  raised,    \* queries not looked up since NM_SIGNAL was last sent
  shown,     \* the last answer to each query
  touched,   \* the operations that used an object libnm has dropped
  changes,   \* how many changes there were
  at         \* "running", "exited"

world == <<client, device, known, strength, since, changes>>
vars  == <<world, entry, faded, raised, shown, touched, at>>

Families == {"ipv4", "ipv6"}
Queries == Ifaces \X (Families \cup {"line", "mac"})
NoAddress == [f \in Families |-> None]

(* The object of a device: gen tells it from the one before a replug. *)
Objects ==
  [gen : {1}, plugged : BOOLEAN, active : BOOLEAN, ap : APs \cup {None},
   addr : [Families -> Addresses \cup {None}]]

Plausible(i, d) ==
  /\ d.plugged \/ (~d.active /\ d.ap = None)
  /\ d.ap \in (IF i \in Wifi THEN known \cup {None} ELSE {None})
  /\ d.active \/ d.addr = NoAddress

Addressed(d) == {<<f, d.addr[f]>> : f \in Families}

Init ==
  /\ client \in BOOLEAN /\ known \in SUBSET APs
  /\ device \in [Ifaces -> Objects]
  /\ \A i \in Ifaces : Plausible(i, device[i])
  /\ strength \in [APs -> Strengths]
  /\ entry = [i \in Ifaces |-> None] /\ faded = [i \in Ifaces |-> {}]
  /\ since = [i \in Ifaces |-> Addressed(device[i])]
  /\ raised = {} /\ touched = {} /\ changes = 0 /\ at = "running"
  /\ shown = [q \in Queries |-> None]

-----------------------------------------------------------------------------
(* What the functions of nm.c do to an entry                               *)

(* A mutant of Update: only the first of the two addresses is dropped. *)
UpdateDropsFirst(e, d) ==
  [e EXCEPT !.active = d.active,
            !.addr = [f \in Families |->
                        IF ~d.active /\ f = "ipv4" THEN None
                        ELSE IF d.addr[f] # None THEN d.addr[f] ELSE e.addr[f]]]

(* nm_update: an address that is not there leaves the old one in place. *)
Update(e, d) ==
  [e EXCEPT !.active = d.active,
            !.addr = [f \in Families |->
                        IF ~d.active THEN None
                        ELSE IF d.addr[f] # None THEN d.addr[f] ELSE e.addr[f]]]

(* A mutant of UpdateRaises: a signal per address and no other. *)
UpdateRaisesOnAddress(d) == \E f \in Families : d.addr[f] # None

UpdateRaises(d) == d.active => \E f \in Families : d.addr[f] # None

(* A mutant of Join: no handler is connected while there is one. *)
JoinOnce(e, a) ==
  [e EXCEPT !.ap = a, !.essid = IF Ssid[a] # None THEN Ssid[a] ELSE @,
            !.ss = strength[a], !.handlers[a] = IF e.ap = None THEN @ + 1 ELSE @]

(* A new access point: its name if it tells one, its strength, one more
   handler on it.  The handler on the one before stays connected. *)
Join(e, a) ==
  [e EXCEPT !.ap = a, !.essid = IF Ssid[a] # None THEN Ssid[a] ELSE @,
            !.ss = strength[a], !.handlers[a] = @ + 1]

(* A mutant of Leave: the name stays. *)
LeaveKeepsName(e) ==
  [e EXCEPT !.ap = None, !.ss = 0, !.handlers[e.ap] = @ - 1]

(* No access point any more: the latest handler goes. *)
Leave(e) ==
  [e EXCEPT !.ap = None, !.essid = None, !.ss = 0, !.handlers[e.ap] = @ - 1]

(* libnm drops an access point: the handlers on it go with it. *)
Forget(e, a) == [e EXCEPT !.handlers[a] = 0]

(* The entry that nm_find makes, which calloc has zeroed. *)
Created(d) ==
  LET zero == [gen |-> d.gen, active |-> d.active, addr |-> NoAddress,
               ap |-> None, essid |-> None, ss |-> 0, handlers |-> [a \in APs |-> 0]]
      e == Update(zero, d)
  IN  IF d.ap # None THEN Join(e, d.ap) ELSE e

Bound(i) == entry[i] # None /\ entry[i].gen = device[i].gen

Raise == raised' = Queries

Keep == UNCHANGED <<entry, faded, raised>>

StateCallback(i) ==
  /\ entry' = [entry EXCEPT ![i] = Update(@, device'[i])]
  /\ IF UpdateRaises(device'[i]) THEN Raise ELSE UNCHANGED raised
  /\ UNCHANGED faded

AccessPointCallback(i) ==
  LET a == device'[i].ap
  IN  \/ /\ a # None \/ entry[i].ap # None
         /\ entry' = [entry EXCEPT ![i] = IF a # None THEN Join(@, a) ELSE Leave(@)]
         /\ faded' = [faded EXCEPT ![i] = {}] /\ Raise
      \/ a = None /\ entry[i].ap = None /\ Keep

(* The handler takes the strength of the access point that emits, whether
   or not it is the one the entry is on by now. *)
StrengthCallback(a) ==
  LET heard == {i \in Ifaces : entry[i] # None /\ entry[i].handlers[a] > 0}
      news  == {i \in heard : entry[i].ss # strength'[a]}
  IN  /\ entry' = [i \in Ifaces |-> IF i \in news THEN [entry[i] EXCEPT !.ss = strength'[a]]
                                    ELSE entry[i]]
      /\ IF news # {} THEN Raise ELSE UNCHANGED raised
      /\ UNCHANGED faded

-----------------------------------------------------------------------------
(* nm_tick: libnm takes a change in and calls the handlers for it.         *)

Set(i, d) == device' = [device EXCEPT ![i] = d] /\ UNCHANGED <<known, strength>>

Safely == UNCHANGED <<touched, at>>

(* Any change of state notifies; several states are not the activated one. *)
StateChange(i) ==
  LET d == device[i]
  IN  /\ d.plugged
      /\ \E b \in BOOLEAN : ~(b /\ d.active) /\ Set(i, [d EXCEPT !.active = b])
      /\ since' = [since EXCEPT ![i] = IF device'[i].active THEN @ ELSE Addressed(d)]
      /\ IF Bound(i) THEN StateCallback(i) ELSE Keep
      /\ Safely

AccessPointChange(i) ==
  LET d == device[i]
  IN  /\ i \in Wifi /\ d.plugged
      /\ \E a \in (known \cup {None}) \ {d.ap} : Set(i, [d EXCEPT !.ap = a])
      /\ IF Bound(i) THEN AccessPointCallback(i) ELSE Keep
      /\ UNCHANGED since /\ Safely

AccessPointSeen(a) ==
  /\ a \notin known /\ known' = known \cup {a}
  /\ \E s \in Strengths : strength' = [strength EXCEPT ![a] = s]
  /\ Keep /\ UNCHANGED <<device, since>> /\ Safely

(* An access point goes out of range; a device on it has none then, and its
   handler disconnects from an object that libnm may have freed. *)
AccessPointGone(a) ==
  LET on      == {i \in Ifaces : entry[i] # None /\ entry[i].ap = a}
      watches == {i \in Ifaces : entry[i] # None /\ entry[i].handlers[a] > 0}
  IN  /\ a \in known /\ known' = known \ {a}
      /\ device' = [i \in Ifaces |-> [device[i] EXCEPT !.ap = IF @ = a THEN None ELSE @]]
      /\ entry' = [i \in Ifaces |-> IF i \in on THEN Forget(Leave(entry[i]), a)
                                    ELSE IF i \in watches THEN Forget(entry[i], a) ELSE entry[i]]
      /\ faded' = [i \in Ifaces |-> IF i \in on THEN {}
                                    ELSE IF i \in watches THEN faded[i] \cup {strength[a]} ELSE faded[i]]
      /\ IF on = {} THEN Safely /\ UNCHANGED raised
         ELSE Raise /\ touched' = touched \cup {"ap"} /\ at' \in {"running", "exited"}
      /\ UNCHANGED <<strength, since>>

StrengthChange(a) ==
  /\ a \in known
  /\ \E s \in Strengths \ {strength[a]} : strength' = [strength EXCEPT ![a] = s]
  /\ StrengthCallback(a)
  /\ UNCHANGED <<device, known, since>> /\ Safely

(* nm.c has no handler for the configuration of a device. *)
AddressChange(i) ==
  LET d == device[i]
  IN  /\ d.plugged
      /\ \E f \in Families : \E x \in (Addresses \cup {None}) \ {d.addr[f]} :
            Set(i, [d EXCEPT !.addr[f] = x])
      /\ since' = [since EXCEPT ![i] = @ \cup Addressed(device'[i])]
      /\ Keep /\ Safely

(* NetworkManager takes a device down before it drops it. *)
Unplug(i) ==
  LET d == device[i]
  IN  /\ d.plugged /\ ~d.active /\ d.ap = None
      /\ Set(i, [d EXCEPT !.plugged = FALSE, !.addr = NoAddress])
      /\ Keep /\ UNCHANGED since /\ Safely

Plug(i) ==
  /\ ~device[i].plugged
  /\ Set(i, [device[i] EXCEPT !.plugged = TRUE, !.gen = @ + 1])
  /\ Keep /\ UNCHANGED since /\ Safely

Tick ==
  /\ at = "running" /\ client
  /\ changes < MaxChanges /\ changes' = changes + 1
  /\ \/ \E i \in Ifaces : \/ StateChange(i) \/ AccessPointChange(i) \/ AddressChange(i)
                          \/ Unplug(i) \/ Plug(i)
     \/ \E a \in APs : AccessPointSeen(a) \/ AccessPointGone(a) \/ StrengthChange(a)
  /\ UNCHANGED <<client, shown>>

-----------------------------------------------------------------------------
(* printstatus: nm_line, nm_ip4, nm_ip6, nm_mac                            *)

Icon(ss) == IF ss >= 80 THEN 4 ELSE ss \div 20

Answer(i, what, e) ==
  CASE what = "mac"  -> e.gen
    [] what = "line" -> IF ~e.active THEN None
                        ELSE IF i \in Wifi THEN <<Icon(e.ss), e.essid>> ELSE "wired"
    [] OTHER         -> e.addr[what]

(* A mutant of UsesDevice: nm_line asks for the kind first. *)
UsesDeviceFirst(what, e) == what \in {"mac", "line"}

(* nm_line asks for the kind of an active device, nm_mac asks any. *)
UsesDevice(what, e) == what = "mac" \/ (what = "line" /\ e.active)

Dropped(i, e) == e.gen # device[i].gen \/ ~device[i].plugged

(* The lookup finds its entry, or makes one if libnm knows the interface. *)
Lookup(i, what) ==
  /\ at = "running"
  /\ LET old   == entry[i]
         fresh == old = None /\ client /\ device[i].plugged
         e     == IF fresh THEN Created(device[i]) ELSE old
     IN  /\ entry' = [entry EXCEPT ![i] = e]
         /\ raised' = (IF fresh /\ UpdateRaises(device[i]) THEN Queries ELSE raised) \ {<<i, what>>}
         /\ shown' = [shown EXCEPT ![<<i, what>>] = IF e = None THEN None ELSE Answer(i, what, e)]
         /\ IF e # None /\ UsesDevice(what, e) /\ Dropped(i, e)
            THEN touched' = touched \cup {what} /\ at' \in {"running", "exited"}
            ELSE Safely
  /\ UNCHANGED <<world, faded>>

(* nm_free disconnects the state handler from the device of each entry. *)
Free ==
  /\ at = "running" /\ at' = "exited"
  /\ entry' = [i \in Ifaces |-> None]
  /\ touched' = IF \E i \in Ifaces : entry[i] # None /\ Dropped(i, entry[i])
                THEN touched \cup {"free"} ELSE touched
  /\ UNCHANGED <<world, faded, raised, shown>>

Finished == at = "exited" /\ UNCHANGED vars

Next == Tick \/ Free \/ Finished \/ \E q \in Queries : Lookup(q[1], q[2])

Spec == Init /\ [][Next]_vars

-----------------------------------------------------------------------------
(* Properties                                                              *)

(* After every tick an entry says what the device says that it watches:
   the state, the access point, and its name if it tells one. *)
ViewOfDevice ==
  \A i \in Ifaces : Bound(i) =>
    LET e == entry[i]  d == device[i]
    IN  /\ e.active = d.active /\ e.ap = d.ap
        /\ d.ap = None => e.essid = None
        /\ d.ap # None /\ Ssid[d.ap] # None => e.essid = Ssid[d.ap]

(* The strength is that of the access point in use; or that of one left
   behind, whose handler stays connected; or the last one that such an
   access point told before it went away. *)
StrengthExplained ==
  \A i \in Ifaces : Bound(i) =>
    LET e == entry[i]
    IN  \/ e.ss = IF e.ap = None THEN 0 ELSE strength[e.ap]
        \/ \E a \in known \ {e.ap} : e.handlers[a] > 0 /\ e.ss = strength[a]
        \/ e.ss \in faded[i]

(* An address is never carried over from one activation to the next, nor
   shown for a device that is down or gone. *)
AddressOfActivation ==
  \A i \in Ifaces : entry[i] # None => \A f \in Families : entry[i].addr[f] # None =>
    /\ entry[i].active /\ Bound(i)
    /\ <<f, entry[i].addr[f]>> \in since[i]

(* Whatever an entry would answer differently from what was shown has been
   announced, but for a device that became active without an address. *)
ChangeAnnounced ==
  at = "running" =>
    \A q \in Queries \ raised :
      LET e == entry[q[1]]
      IN  \/ e = None
          \/ e.active /\ e.addr = NoAddress
          \/ shown[q] = Answer(q[1], q[2], e)

(* nm_line never uses the object of a device that was unplugged: the test of
   the state comes first, and NetworkManager takes a device down before. *)
LineSafe == "line" \notin touched
=============================================================================
