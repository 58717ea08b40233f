-------------------------- MODULE NetDeviceProofs --------------------------
(***************************************************************************)
(* Theorems about the cached entries of nm.c, for any interfaces, access   *)
(* points, names, addresses and strengths.                                 *)
(***************************************************************************)
EXTENDS NetDevice, TLAPS

-----------------------------------------------------------------------------
(* Types                                                                   *)

Names == {Ssid[a] : a \in APs} \cup {None}

Device ==
  [gen : Nat, plugged : BOOLEAN, active : BOOLEAN, ap : APs \cup {None},
   addr : [Families -> Addresses \cup {None}]]

Entry ==
  [gen : Nat, active : BOOLEAN, addr : [Families -> Addresses \cup {None}],
   ap : APs \cup {None}, essid : Names, ss : Nat, handlers : [APs -> Nat]]

TypeInv ==
  /\ device \in [Ifaces -> Device] /\ strength \in [APs -> Strengths]
  /\ entry \in [Ifaces -> Entry \cup {None}]
  /\ known \in SUBSET APs /\ faded \in [Ifaces -> SUBSET Strengths]
  /\ since \in [Ifaces -> SUBSET (Families \X (Addresses \cup {None}))]
  /\ DOMAIN shown = Queries

-----------------------------------------------------------------------------
(* What the functions of nm.c return                                       *)

LEMMA EntryFields ==
  ASSUME NEW e \in Entry
  PROVE  /\ e = [gen |-> e.gen, active |-> e.active, addr |-> e.addr, ap |-> e.ap,
                 essid |-> e.essid, ss |-> e.ss, handlers |-> e.handlers]
         /\ e.gen \in Nat /\ e.active \in BOOLEAN /\ e.ap \in APs \cup {None}
         /\ e.addr \in [Families -> Addresses \cup {None}]
         /\ e.essid \in Names /\ e.ss \in Nat /\ e.handlers \in [APs -> Nat]
BY Zenon DEF Entry

LEMMA UpdateFields ==
  ASSUME NEW e \in Entry, NEW d \in Device
  PROVE  LET u == Update(e, d)
         IN  /\ u \in Entry
             /\ u.active = d.active /\ u.gen = e.gen /\ u.ap = e.ap /\ u.essid = e.essid
             /\ u.ss = e.ss /\ u.handlers = e.handlers
             /\ \A f \in Families :
                  u.addr[f] = IF ~d.active THEN None
                              ELSE IF d.addr[f] # None THEN d.addr[f] ELSE e.addr[f]
<1> DEFINE new == [f \in Families |->
                    IF ~d.active THEN None ELSE IF d.addr[f] # None THEN d.addr[f] ELSE e.addr[f]]
<1>1. d.active \in BOOLEAN /\ d.addr \in [Families -> Addresses \cup {None}]
  BY DEF Device
<1>2. new \in [Families -> Addresses \cup {None}]
  BY <1>1, EntryFields
<1>3. \A f \in Families :
        new[f] = IF ~d.active THEN None ELSE IF d.addr[f] # None THEN d.addr[f] ELSE e.addr[f]
  OBVIOUS
<1>4. Update(e, d) = [e EXCEPT !.active = d.active, !.addr = new]
  BY DEF Update
<1> HIDE DEF new
<1>5. Update(e, d) = [gen |-> e.gen, active |-> d.active, addr |-> new, ap |-> e.ap,
                      essid |-> e.essid, ss |-> e.ss, handlers |-> e.handlers]
  BY <1>4, EntryFields, Zenon
<1>6. Update(e, d) \in Entry
  BY <1>1, <1>2, <1>5, EntryFields, Zenon DEF Entry
<1> QED BY <1>3, <1>5, <1>6

LEMMA JoinFields ==
  ASSUME NEW e \in Entry, NEW a \in APs, strength \in [APs -> Strengths]
  PROVE  LET u == Join(e, a)
         IN  /\ u \in Entry
             /\ u.active = e.active /\ u.gen = e.gen /\ u.ap = a /\ u.addr = e.addr
             /\ u.essid = (IF Ssid[a] # None THEN Ssid[a] ELSE e.essid)
             /\ u.ss = strength[a]
             /\ \A b \in APs : u.handlers[b] = IF b = a THEN e.handlers[b] + 1 ELSE e.handlers[b]
<1> DEFINE name == IF Ssid[a] # None THEN Ssid[a] ELSE e.essid
           more == [e.handlers EXCEPT ![a] = @ + 1]
<1>1. name \in Names
  BY EntryFields DEF Names
<1>2. more \in [APs -> Nat] /\ \A b \in APs : more[b] = IF b = a THEN e.handlers[b] + 1 ELSE e.handlers[b]
  BY EntryFields
<1>3. strength[a] \in Nat
  <2>1. Strengths \subseteq Nat
    BY NetConstants
  <2> QED BY <2>1
<1>4. Join(e, a) = [e EXCEPT !.ap = a, !.essid = name, !.ss = strength[a], !.handlers = more]
  BY EntryFields, Zenon DEF Join
<1> HIDE DEF more
<1>5. Join(e, a) = [gen |-> e.gen, active |-> e.active, addr |-> e.addr, ap |-> a,
                    essid |-> name, ss |-> strength[a], handlers |-> more]
  BY <1>4, EntryFields, Zenon
<1>6. Join(e, a) \in Entry
  <2> HIDE DEF name
  <2> QED BY <1>1, <1>2, <1>3, <1>5, EntryFields, Zenon DEF Entry
<1> QED BY <1>2, <1>5, <1>6

LEMMA LeaveFields ==
  ASSUME NEW e \in Entry, e.ap # None, e.handlers[e.ap] > 0
  PROVE  LET u == Leave(e)
         IN  /\ u \in Entry
             /\ u.active = e.active /\ u.gen = e.gen /\ u.ap = None /\ u.addr = e.addr
             /\ u.essid = None /\ u.ss = 0
             /\ \A b \in APs : b # e.ap => u.handlers[b] = e.handlers[b]
<1> DEFINE fewer == [e.handlers EXCEPT ![e.ap] = @ - 1]
<1>1. fewer \in [APs -> Nat] /\ \A b \in APs : b # e.ap => fewer[b] = e.handlers[b]
  BY EntryFields
<1>2. None \in Names
  BY DEF Names
<1>3. Leave(e) = [e EXCEPT !.ap = None, !.essid = None, !.ss = 0, !.handlers = fewer]
  BY EntryFields, Zenon DEF Leave
<1> HIDE DEF fewer
<1>4. Leave(e) = [gen |-> e.gen, active |-> e.active, addr |-> e.addr, ap |-> None,
                  essid |-> None, ss |-> 0, handlers |-> fewer]
  BY <1>3, EntryFields, Zenon
<1>5. 0 \in Nat
  OBVIOUS
<1>6. Leave(e) \in Entry
  BY <1>1, <1>2, <1>4, <1>5, EntryFields, Zenon DEF Entry
<1> QED BY <1>1, <1>4, <1>6

(* A new entry says what its device says. *)
LEMMA CreatedFields ==
  ASSUME NEW d \in Device, strength \in [APs -> Strengths]
  PROVE  LET u == Created(d)
         IN  /\ u \in Entry
             /\ u.active = d.active /\ u.gen = d.gen /\ u.ap = d.ap
             /\ \A f \in Families : u.addr[f] = IF d.active THEN d.addr[f] ELSE None
             /\ u.ap = None => u.essid = None /\ u.ss = 0
             /\ u.ap # None => /\ Ssid[u.ap] # None => u.essid = Ssid[u.ap]
                               /\ u.ss = strength[u.ap] /\ u.handlers[u.ap] > 0
<1> DEFINE zero == [gen |-> d.gen, active |-> d.active, addr |-> NoAddress,
                    ap |-> None, essid |-> None, ss |-> 0, handlers |-> [a \in APs |-> 0]]
           e == Update(zero, d)
<1>1. zero \in Entry
  BY SMT DEF Entry, Device, NoAddress, Names
<1>2. /\ e \in Entry /\ e.active = d.active /\ e.gen = d.gen /\ e.ap = None
      /\ e.essid = None /\ e.ss = 0 /\ \A a \in APs : e.handlers[a] = 0
      /\ \A f \in Families : e.addr[f] = IF d.active THEN d.addr[f] ELSE None
  <2>1. \A f \in Families : zero.addr[f] = None
    BY DEF NoAddress
  <2>2. \A a \in APs : zero.handlers[a] = 0
    OBVIOUS
  <2> HIDE DEF zero
  <2>3. /\ zero.ap = None /\ zero.essid = None /\ zero.ss = 0 /\ zero.gen = d.gen
    BY DEF zero
  <2>4. d.addr \in [Families -> Addresses \cup {None}]
    BY DEF Device
  <2> QED BY <1>1, <2>1, <2>2, <2>3, <2>4, UpdateFields, SMT
<1>3. Created(d) = IF d.ap # None THEN Join(e, d.ap) ELSE e
  BY DEF Created
<1> HIDE DEF e
<1>4. d.ap \in APs \cup {None}
  BY DEF Device
<1>5. CASE d.ap = None
  BY <1>2, <1>3, <1>5
<1>6. CASE d.ap # None
  <2>1. d.ap \in APs
    BY <1>4, <1>6
  <2> QED BY <1>2, <1>3, <1>6, <2>1, JoinFields, SMT
<1> QED BY <1>5, <1>6

-----------------------------------------------------------------------------
(* The inductive invariant                                                 *)

DeviceOk(d, s, k) ==
  /\ d.plugged \/ (~d.active /\ d.ap = None)
  /\ d.ap \in k \cup {None}
  /\ \A f \in Families : d.addr[f] # None => <<f, d.addr[f]>> \in s

NameOk(e) ==
  /\ e.ap = None => e.essid = None
  /\ e.ap # None /\ Ssid[e.ap] # None => e.essid = Ssid[e.ap]

(* fd holds what access points told last that went away. *)
StrengthOk(e, st, k, fd) ==
  \/ e.ss = IF e.ap = None THEN 0 ELSE st[e.ap]
  \/ \E a \in k \ {e.ap} : e.handlers[a] > 0 /\ e.ss = st[a]
  \/ e.ss \in fd

(* An entry that is not level with its device watches one that was dropped,
   and was inactive by then. *)
Level(e, d) ==
  /\ e.gen <= d.gen
  /\ e.active => e.gen = d.gen
  /\ e.gen = d.gen => e.active = d.active /\ e.ap = d.ap

AddressOk(e, s) ==
  \A f \in Families : e.addr[f] # None => e.active /\ <<f, e.addr[f]>> \in s

EntryOk(e, d, s, st, k, fd) ==
  /\ Level(e, d) /\ NameOk(e) /\ StrengthOk(e, st, k, fd) /\ AddressOk(e, s)
  /\ e.ap # None => e.ap \in k /\ e.handlers[e.ap] > 0

Sound(i) ==
  /\ DeviceOk(device[i], since[i], known)
  /\ entry[i] # None => EntryOk(entry[i], device[i], since[i], strength, known, faded[i])

Inv == TypeInv /\ \A i \in Ifaces : Sound(i)

(* Most steps are about one interface. *)
LEMMA OneInterface ==
  ASSUME Inv, TypeInv', strength' = strength, known' = known, NEW i \in Ifaces, Sound(i)',
         \A j \in Ifaces \ {i} : /\ device'[j] = device[j] /\ entry'[j] = entry[j]
                                 /\ since'[j] = since[j] /\ faded'[j] = faded[j]
  PROVE  Inv'
<1>1. \A j \in Ifaces \ {i} : Sound(j)'
  BY DEF Inv, Sound
<1> QED BY <1>1 DEF Inv

LEMMA DeviceFields ==
  ASSUME NEW d \in Device
  PROVE  /\ d = [gen |-> d.gen, plugged |-> d.plugged, active |-> d.active, ap |-> d.ap,
                 addr |-> d.addr]
         /\ d.gen \in Nat /\ d.plugged \in BOOLEAN /\ d.active \in BOOLEAN
         /\ d.ap \in APs \cup {None} /\ d.addr \in [Families -> Addresses \cup {None}]
BY Zenon DEF Device

(* What the changes of a device leave alone. *)
LEMMA DeviceExcept ==
  ASSUME NEW d \in Device, NEW x, NEW y
  PROVE  /\ [d EXCEPT !.active = x]
              = [gen |-> d.gen, plugged |-> d.plugged, active |-> x, ap |-> d.ap, addr |-> d.addr]
         /\ [d EXCEPT !.ap = x]
              = [gen |-> d.gen, plugged |-> d.plugged, active |-> d.active, ap |-> x, addr |-> d.addr]
         /\ [d EXCEPT !.addr = x]
              = [gen |-> d.gen, plugged |-> d.plugged, active |-> d.active, ap |-> d.ap, addr |-> x]
         /\ [d EXCEPT !.plugged = x, !.addr = y]
              = [gen |-> d.gen, plugged |-> x, active |-> d.active, ap |-> d.ap, addr |-> y]
<1>1. [d EXCEPT !.active = x]
       = [gen |-> d.gen, plugged |-> d.plugged, active |-> x, ap |-> d.ap, addr |-> d.addr]
  BY SMT DEF Device
<1>2. [d EXCEPT !.ap = x]
       = [gen |-> d.gen, plugged |-> d.plugged, active |-> d.active, ap |-> x, addr |-> d.addr]
  BY SMT DEF Device
<1>3. [d EXCEPT !.addr = x]
       = [gen |-> d.gen, plugged |-> d.plugged, active |-> d.active, ap |-> d.ap, addr |-> x]
  BY SMT DEF Device
<1>4. d = [gen |-> d.gen, plugged |-> d.plugged, active |-> d.active, ap |-> d.ap, addr |-> d.addr]
  BY DeviceFields
<1>5. ASSUME NEW n, n = [d EXCEPT !.plugged = x, !.addr = y]
     PROVE  n = [gen |-> d.gen, plugged |-> x, active |-> d.active, ap |-> d.ap, addr |-> y]
  BY <1>5, <1>4, Zenon
<1> QED BY <1>1, <1>2, <1>3, <1>5

LEMMA InitSound == Init => Inv
<1> SUFFICES ASSUME Init PROVE Inv
  OBVIOUS
<1>1. TypeInv
  <2>1. Objects \subseteq Device
    BY DEF Objects, Device
  <2>2. \A d \in Device : Addressed(d) \subseteq Families \X (Addresses \cup {None})
    BY DeviceFields DEF Addressed
  <2> QED BY <2>1, <2>2 DEF Init, TypeInv
<1>2. ASSUME NEW i \in Ifaces PROVE Sound(i)
  BY <1>2 DEF Init, Plausible, Sound, DeviceOk, Addressed
<1> QED BY <1>1, <1>2 DEF Inv

-----------------------------------------------------------------------------
(* Every change of a device keeps the invariant                            *)

(* What Set gives, with the device before and after. *)
LEMMA DeviceSet ==
  ASSUME TypeInv, NEW i \in Ifaces, NEW d \in Device, Set(i, d)
  PROVE  /\ device' \in [Ifaces -> Device] /\ device'[i] = d /\ strength' = strength
         /\ known' = known /\ \A j \in Ifaces \ {i} : device'[j] = device[j]
BY DEF TypeInv, Set

LEMMA AddressedType ==
  ASSUME NEW d \in Device
  PROVE  Addressed(d) \in SUBSET (Families \X (Addresses \cup {None}))
BY DeviceFields DEF Addressed

(* The state handler brings an entry that was level to the new state. *)
LEMMA UpdateSound ==
  ASSUME NEW e \in Entry, NEW d \in Device, NEW dd \in Device, NEW s, NEW ss, NEW fd,
         EntryOk(e, d, s, strength, known, fd), e.gen = d.gen,
         dd.gen = d.gen, dd.ap = d.ap, dd.active => ss = s,
         \A f \in Families : dd.addr[f] # None => <<f, dd.addr[f]>> \in ss
  PROVE  EntryOk(Update(e, dd), dd, ss, strength, known, fd)
<1> DEFINE u == Update(e, dd)
<1>1. /\ u.active = dd.active /\ u.gen = e.gen /\ u.ap = e.ap /\ u.essid = e.essid
      /\ u.ss = e.ss /\ u.handlers = e.handlers
      /\ \A f \in Families :
           u.addr[f] = IF ~dd.active THEN None
                       ELSE IF dd.addr[f] # None THEN dd.addr[f] ELSE e.addr[f]
  BY UpdateFields
<1>2. e.gen \in Nat /\ dd.active \in BOOLEAN
  BY EntryFields, DeviceFields
<1> HIDE DEF u
<1>3. Level(u, dd)
  BY <1>1, <1>2 DEF EntryOk, Level
<1>4. NameOk(u) /\ StrengthOk(u, strength, known, fd)
      /\ (u.ap # None => u.ap \in known /\ u.handlers[u.ap] > 0)
  BY <1>1 DEF EntryOk, NameOk, StrengthOk
<1>5. AddressOk(u, ss)
  <2> SUFFICES ASSUME NEW f \in Families, u.addr[f] # None
               PROVE  u.active /\ <<f, u.addr[f]>> \in ss
    BY DEF AddressOk
  <2>1. dd.active /\ u.active
    BY <1>1, <1>2
  <2>2. CASE dd.addr[f] # None
    BY <1>1, <2>1, <2>2
  <2>3. CASE dd.addr[f] = None
    BY <1>1, <2>1, <2>3 DEF EntryOk, AddressOk
  <2> QED BY <2>2, <2>3
<1> QED BY <1>3, <1>4, <1>5 DEF EntryOk, u

LEMMA StateKeeps ==
  ASSUME Inv, NEW i \in Ifaces, StateChange(i), shown' = shown
  PROVE  Inv'
<1> DEFINE d == device[i]
<1>1. TypeInv /\ Sound(i) /\ d \in Device
  BY DEF Inv, TypeInv
<1>2. PICK b \in BOOLEAN : ~(b /\ d.active) /\ Set(i, [d EXCEPT !.active = b])
  BY DEF StateChange
<1> DEFINE dd == [d EXCEPT !.active = b]
<1> HIDE DEF d
<1>3. dd = [gen |-> d.gen, plugged |-> d.plugged, active |-> b, ap |-> d.ap, addr |-> d.addr]
  BY <1>1, DeviceExcept
<1>4. dd \in Device /\ dd.gen = d.gen /\ dd.plugged = d.plugged /\ dd.active = b
      /\ dd.ap = d.ap /\ dd.addr = d.addr
  BY <1>1, <1>3, DeviceFields DEF Device
<1> HIDE DEF dd
<1>5. /\ device' \in [Ifaces -> Device] /\ device'[i] = dd /\ strength' = strength
      /\ known' = known /\ \A j \in Ifaces \ {i} : device'[j] = device[j]
  BY <1>1, <1>2, <1>4, DeviceSet DEF dd
<1>6. /\ since' = [since EXCEPT ![i] = IF b THEN @ ELSE Addressed(d)]
      /\ d.plugged /\ faded' = faded
  BY <1>4, <1>5 DEF StateChange, StateCallback, Keep, d
<1>7. /\ since' \in [Ifaces -> SUBSET (Families \X (Addresses \cup {None}))]
      /\ \A j \in Ifaces \ {i} : since'[j] = since[j]
      /\ since'[i] = IF b THEN since[i] ELSE Addressed(d)
  BY <1>1, <1>6, AddressedType DEF TypeInv
<1>8. \A f \in Families : d.addr[f] # None => <<f, d.addr[f]>> \in since'[i]
  BY <1>1, <1>7 DEF Sound, DeviceOk, Addressed, d
<1>9. DeviceOk(dd, since'[i], known)
  BY <1>1, <1>4, <1>6, <1>8 DEF Sound, d, DeviceOk
<1>10. CASE Bound(i)
  <2>1. entry[i] \in Entry /\ entry[i].gen = d.gen /\ EntryOk(entry[i], d, since[i], strength, known, faded[i])
    BY <1>1, <1>10 DEF Bound, TypeInv, Sound, d
  <2>2. entry' = [entry EXCEPT ![i] = Update(@, dd)]
    BY <1>5, <1>10 DEF StateChange, StateCallback
  <2>3. Update(entry[i], dd) \in Entry
    BY <1>4, <2>1, UpdateFields
  <2>4. /\ entry' \in [Ifaces -> Entry \cup {None}]
        /\ entry'[i] = Update(entry[i], dd)
        /\ \A j \in Ifaces \ {i} : entry'[j] = entry[j]
    BY <1>1, <2>2, <2>3 DEF TypeInv
  <2>5. TypeInv'
    BY <1>1, <1>5, <1>6, <1>7, <2>4 DEF TypeInv
  <2>6. b => since'[i] = since[i]
    BY <1>7
  <2>7. EntryOk(entry'[i], dd, since'[i], strength, known, faded[i])
    BY <1>1, <1>4, <1>8, <2>1, <2>4, <2>6, UpdateSound
  <2>8. Sound(i)'
    BY <1>5, <1>6, <1>9, <2>7 DEF Sound
  <2> QED BY <1>5, <1>6, <1>7, <2>4, <2>5, <2>8, OneInterface
<1>11. CASE ~Bound(i)
  <2>1. entry' = entry
    BY <1>11 DEF StateChange, Keep
  <2>2. TypeInv'
    BY <1>1, <1>5, <1>6, <1>7, <2>1 DEF TypeInv
  <2>3. ASSUME entry[i] # None PROVE EntryOk(entry[i], dd, since'[i], strength, known, faded[i])
    <3>1. EntryOk(entry[i], d, since[i], strength, known, faded[i]) /\ entry[i].gen # d.gen
      BY <1>1, <1>11, <2>3 DEF Sound, Bound, d
    <3>2. Level(entry[i], dd) /\ AddressOk(entry[i], since'[i])
      BY <1>4, <3>1 DEF EntryOk, Level, AddressOk
    <3> QED BY <3>1, <3>2 DEF EntryOk
  <2>4. Sound(i)'
    BY <1>5, <1>6, <1>9, <2>1, <2>3 DEF Sound
  <2> QED BY <1>5, <1>6, <1>7, <2>1, <2>2, <2>4, OneInterface
<1> QED BY <1>10, <1>11

(* Joining another access point, or none: the entry stays level. *)
LEMMA JoinSound ==
  ASSUME strength \in [APs -> Strengths], NEW e \in Entry, NEW d \in Device, NEW dd \in Device,
         NEW s, NEW a \in APs, NEW fd, EntryOk(e, d, s, strength, known, fd), a \in known, e.gen = d.gen,
         dd.gen = d.gen, dd.active = d.active, dd.ap = a
  PROVE  EntryOk(Join(e, a), dd, s, strength, known, {})
<1> DEFINE u == Join(e, a)
<1>1. /\ u.active = e.active /\ u.gen = e.gen /\ u.ap = a /\ u.addr = e.addr
      /\ u.essid = (IF Ssid[a] # None THEN Ssid[a] ELSE e.essid)
      /\ u.ss = strength[a]
      /\ \A b \in APs : u.handlers[b] = IF b = a THEN e.handlers[b] + 1 ELSE e.handlers[b]
  BY JoinFields
<1>2. e.gen \in Nat /\ e.handlers[a] \in Nat /\ a # None
  BY EntryFields, NetConstants
<1> HIDE DEF u
<1>3. Level(u, dd)
  BY <1>1, <1>2 DEF EntryOk, Level
<1>4. NameOk(u) /\ StrengthOk(u, strength, known, {}) /\ AddressOk(u, s)
  BY <1>1, <1>2 DEF EntryOk, NameOk, StrengthOk, AddressOk
<1>5. u.ap \in known /\ u.handlers[u.ap] > 0
  BY <1>1, <1>2
<1> QED BY <1>3, <1>4, <1>5 DEF EntryOk, u

LEMMA LeaveSound ==
  ASSUME NEW e \in Entry, NEW d \in Device, NEW dd \in Device,
         NEW s, NEW fd, EntryOk(e, d, s, strength, known, fd), e.gen = d.gen, e.ap # None,
         dd.gen = d.gen, dd.active = d.active, dd.ap = None
  PROVE  EntryOk(Leave(e), dd, s, strength, known, {})
<1> DEFINE u == Leave(e)
<1>1. /\ u.active = e.active /\ u.gen = e.gen /\ u.ap = None /\ u.addr = e.addr
      /\ u.essid = None /\ u.ss = 0
  BY LeaveFields DEF EntryOk
<1>2. e.gen \in Nat
  BY EntryFields
<1> HIDE DEF u
<1>3. Level(u, dd)
  BY <1>1, <1>2 DEF EntryOk, Level
<1>4. NameOk(u) /\ StrengthOk(u, strength, known, {}) /\ AddressOk(u, s)
  BY <1>1 DEF EntryOk, NameOk, StrengthOk, AddressOk
<1> QED BY <1>1, <1>3, <1>4 DEF EntryOk, u

LEMMA AccessPointKeeps ==
  ASSUME Inv, NEW i \in Ifaces, AccessPointChange(i), shown' = shown
  PROVE  Inv'
<1> DEFINE d == device[i]
<1>1. TypeInv /\ Sound(i) /\ d \in Device
  BY DEF Inv, TypeInv
<1>2. PICK a \in (known \cup {None}) \ {d.ap} : Set(i, [d EXCEPT !.ap = a])
  BY DEF AccessPointChange
<1> DEFINE dd == [d EXCEPT !.ap = a]
<1> HIDE DEF d
<1>3. dd = [gen |-> d.gen, plugged |-> d.plugged, active |-> d.active, ap |-> a, addr |-> d.addr]
  BY <1>1, DeviceExcept
<1>4. dd \in Device /\ dd.gen = d.gen /\ dd.plugged = d.plugged /\ dd.active = d.active
      /\ dd.ap = a /\ dd.addr = d.addr
  BY <1>1, <1>2, <1>3, DeviceFields DEF Device, TypeInv
<1> HIDE DEF dd
<1>5. /\ device' \in [Ifaces -> Device] /\ device'[i] = dd /\ strength' = strength
      /\ known' = known /\ \A j \in Ifaces \ {i} : device'[j] = device[j]
  BY <1>1, <1>2, <1>4, DeviceSet DEF dd
<1>6. since' = since /\ d.plugged
  BY DEF AccessPointChange, d
<1>7. DeviceOk(dd, since[i], known)
  BY <1>1, <1>2, <1>4, <1>6 DEF Sound, DeviceOk, d
<1>8. ASSUME NEW x \in Entry \cup {None}, NEW fd, fd \in SUBSET Strengths,
             entry' = [entry EXCEPT ![i] = x], faded' = [faded EXCEPT ![i] = fd],
             x # None => EntryOk(x, dd, since[i], strength, known, fd)
      PROVE  Inv'
  <2>1. /\ entry' \in [Ifaces -> Entry \cup {None}] /\ entry'[i] = x
        /\ faded' \in [Ifaces -> SUBSET Strengths] /\ faded'[i] = fd
        /\ \A j \in Ifaces \ {i} : entry'[j] = entry[j] /\ faded'[j] = faded[j]
    BY <1>1, <1>8 DEF TypeInv
  <2>2. TypeInv'
    BY <1>1, <1>5, <1>6, <2>1 DEF TypeInv
  <2>3. Sound(i)'
    BY <1>5, <1>6, <1>7, <1>8, <2>1 DEF Sound
  <2> QED BY <1>5, <1>6, <2>1, <2>2, <2>3, OneInterface
<1>9. entry[i] \in Entry \cup {None} /\ strength \in [APs -> Strengths]
      /\ entry = [entry EXCEPT ![i] = entry[i]] /\ known \subseteq APs
      /\ {} \in SUBSET Strengths /\ faded[i] \in SUBSET Strengths
  BY <1>1 DEF TypeInv
<1>10. CASE Bound(i)
  <2>1. entry[i] \in Entry /\ entry[i].gen = d.gen /\ EntryOk(entry[i], d, since[i], strength, known, faded[i])
    BY <1>1, <1>9, <1>10 DEF Bound, Sound, d
  <2>2. AccessPointCallback(i)
    BY <1>10 DEF AccessPointChange
  <2>3. CASE a # None
    <3>1. /\ a \in known /\ a \in APs /\ entry' = [entry EXCEPT ![i] = Join(entry[i], a)]
          /\ faded' = [faded EXCEPT ![i] = {}]
      BY <1>2, <1>4, <1>5, <1>9, <2>2, <2>3 DEF AccessPointCallback
    <3>2. Join(entry[i], a) \in Entry
      BY <1>9, <2>1, <3>1, JoinFields
    <3>3. EntryOk(Join(entry[i], a), dd, since[i], strength, known, {})
      BY <1>1, <1>4, <1>9, <2>1, <3>1, JoinSound
    <3> QED BY <1>8, <1>9, <3>1, <3>2, <3>3
  <2>4. CASE a = None
    <3>1. entry[i].ap # None
      BY <1>2, <2>1, <2>4 DEF EntryOk, Level
    <3>2. /\ entry' = [entry EXCEPT ![i] = Leave(entry[i])]
          /\ faded' = [faded EXCEPT ![i] = {}]
      BY <1>4, <1>5, <2>2, <2>4, <3>1 DEF AccessPointCallback
    <3>3. Leave(entry[i]) \in Entry
      BY <2>1, <3>1, LeaveFields DEF EntryOk
    <3>4. EntryOk(Leave(entry[i]), dd, since[i], strength, known, {})
      BY <1>1, <1>4, <2>1, <2>4, <3>1, LeaveSound
    <3> QED BY <1>8, <1>9, <3>2, <3>3, <3>4
  <2> QED BY <2>3, <2>4
<1>11. CASE ~Bound(i)
  <2>1. entry' = entry /\ faded' = [faded EXCEPT ![i] = faded[i]]
    BY <1>1, <1>11 DEF AccessPointChange, Keep, TypeInv
  <2>2. ASSUME entry[i] # None PROVE EntryOk(entry[i], dd, since[i], strength, known, faded[i])
    <3>1. EntryOk(entry[i], d, since[i], strength, known, faded[i]) /\ entry[i].gen # d.gen
      BY <1>1, <1>11, <2>2 DEF Sound, Bound, d
    <3> QED BY <1>4, <3>1 DEF EntryOk, Level
  <2> QED BY <1>8, <1>9, <2>1, <2>2
<1> QED BY <1>10, <1>11

(* A change that no handler hears of. *)
LEMMA UnheardKeeps ==
  ASSUME Inv, NEW i \in Ifaces, NEW dd \in Device, Set(i, dd), Keep, shown' = shown,
         since' \in [Ifaces -> SUBSET (Families \X (Addresses \cup {None}))],
         \A j \in Ifaces \ {i} : since'[j] = since[j],
         since[i] \subseteq since'[i], DeviceOk(dd, since'[i], known),
         \A e \in Entry : Level(e, device[i]) => Level(e, dd)
  PROVE  Inv'
<1>1. TypeInv /\ Sound(i)
  BY DEF Inv
<1>2. /\ device' \in [Ifaces -> Device] /\ device'[i] = dd /\ strength' = strength
      /\ known' = known /\ \A j \in Ifaces \ {i} : device'[j] = device[j]
  BY <1>1, DeviceSet
<1>3. entry' = entry /\ faded' = faded
  BY DEF Keep
<1>4. TypeInv'
  BY <1>1, <1>2, <1>3 DEF TypeInv
<1>5. ASSUME entry[i] # None PROVE EntryOk(entry[i], dd, since'[i], strength, known, faded[i])
  <2>1. entry[i] \in Entry /\ EntryOk(entry[i], device[i], since[i], strength, known, faded[i])
    BY <1>1, <1>5 DEF TypeInv, Sound
  <2>2. Level(entry[i], dd) /\ AddressOk(entry[i], since'[i])
    BY <2>1 DEF EntryOk, AddressOk
  <2> QED BY <2>1, <2>2 DEF EntryOk
<1>6. Sound(i)'
  BY <1>2, <1>3, <1>5 DEF Sound
<1> QED BY <1>2, <1>3, <1>4, <1>6, OneInterface

LEMMA AddressKeeps ==
  ASSUME Inv, NEW i \in Ifaces, AddressChange(i), shown' = shown
  PROVE  Inv'
<1> DEFINE d == device[i]
<1>1. TypeInv /\ Sound(i) /\ d \in Device
  BY DEF Inv, TypeInv
<1>2. PICK f \in Families, x \in Addresses \cup {None} : Set(i, [d EXCEPT !.addr[f] = x])
  BY DEF AddressChange
<1> DEFINE to == [d.addr EXCEPT ![f] = x]
           dd == [d EXCEPT !.addr[f] = x]
<1> HIDE DEF d
<1>3. to \in [Families -> Addresses \cup {None}]
  BY <1>1, DeviceFields
<1>4. dd = [d EXCEPT !.addr = to]
  OBVIOUS
<1>5. dd = [gen |-> d.gen, plugged |-> d.plugged, active |-> d.active, ap |-> d.ap, addr |-> to]
  BY <1>1, <1>4, DeviceExcept
<1> HIDE DEF to, dd
<1>6. dd \in Device /\ dd.gen = d.gen /\ dd.plugged = d.plugged /\ dd.active = d.active
      /\ dd.ap = d.ap /\ dd.addr = to
  BY <1>1, <1>3, <1>5, DeviceFields DEF Device
<1>7. device'[i] = dd /\ Set(i, dd)
  BY <1>1, <1>2, <1>6, DeviceSet DEF dd
<1>8. since' = [since EXCEPT ![i] = @ \cup Addressed(dd)] /\ Keep
  BY <1>7 DEF AddressChange
<1>9. /\ since' \in [Ifaces -> SUBSET (Families \X (Addresses \cup {None}))]
      /\ \A j \in Ifaces \ {i} : since'[j] = since[j]
      /\ since'[i] = since[i] \cup Addressed(dd)
  BY <1>1, <1>6, <1>8, AddressedType DEF TypeInv
<1>10. DeviceOk(dd, since'[i], known)
  <2>1. (dd.plugged \/ (~dd.active /\ dd.ap = None)) /\ dd.ap \in known \cup {None}
    BY <1>1, <1>6 DEF Sound, DeviceOk, d
  <2>2. \A g \in Families : <<g, dd.addr[g]>> \in since'[i]
    BY <1>9 DEF Addressed
  <2> QED BY <2>1, <2>2 DEF DeviceOk
<1>11. \A e \in Entry : Level(e, d) => Level(e, dd)
  BY <1>6 DEF Level
<1> QED BY <1>6, <1>7, <1>8, <1>9, <1>10, <1>11, UnheardKeeps DEF d

LEMMA UnplugKeeps ==
  ASSUME Inv, NEW i \in Ifaces, Unplug(i), shown' = shown
  PROVE  Inv'
<1> DEFINE d == device[i]
           dd == [d EXCEPT !.plugged = FALSE, !.addr = NoAddress]
<1>1. TypeInv /\ d \in Device
  BY DEF Inv, TypeInv
<1>2. ~d.active /\ d.ap = None /\ Set(i, dd) /\ Keep /\ since' = since
  BY DEF Unplug
<1> HIDE DEF d
<1>3. NoAddress \in [Families -> Addresses \cup {None}] /\ \A f \in Families : NoAddress[f] = None
  BY DEF NoAddress
<1>4. dd = [gen |-> d.gen, plugged |-> FALSE, active |-> d.active, ap |-> d.ap, addr |-> NoAddress]
  BY <1>1, DeviceExcept
<1> HIDE DEF dd
<1>5. dd \in Device /\ dd.gen = d.gen /\ dd.active = d.active /\ dd.ap = d.ap /\ dd.addr = NoAddress
  BY <1>1, <1>3, <1>4, DeviceFields DEF Device
<1>6. DeviceOk(dd, since[i], known)
  BY <1>2, <1>3, <1>5 DEF DeviceOk
<1>7. \A e \in Entry : Level(e, d) => Level(e, dd)
  BY <1>5 DEF Level
<1>8. since' \in [Ifaces -> SUBSET (Families \X (Addresses \cup {None}))]
  BY <1>1, <1>2 DEF TypeInv
<1> QED BY <1>2, <1>5, <1>6, <1>7, <1>8, UnheardKeeps DEF d

(* A new object: no entry is level with it. *)
LEMMA PlugKeeps ==
  ASSUME Inv, NEW i \in Ifaces, Plug(i), shown' = shown
  PROVE  Inv'
<1> DEFINE d == device[i]
           dd == [d EXCEPT !.plugged = TRUE, !.gen = @ + 1]
<1>1. TypeInv /\ Sound(i) /\ d \in Device
  BY DEF Inv, TypeInv
<1>2. ~d.plugged /\ Set(i, dd) /\ Keep /\ since' = since
  BY DEF Plug
<1> HIDE DEF d
<1>3. d = [gen |-> d.gen, plugged |-> d.plugged, active |-> d.active, ap |-> d.ap, addr |-> d.addr]
  BY <1>1, DeviceFields
<1> DEFINE n == d.gen + 1
<1>4. dd = [gen |-> n, plugged |-> TRUE, active |-> d.active, ap |-> d.ap, addr |-> d.addr]
  <2>1. dd = [d EXCEPT !.plugged = TRUE, !.gen = n]
    OBVIOUS
  <2> HIDE DEF n, dd
  <2> QED BY <1>3, <2>1, Zenon
<1> HIDE DEF dd
<1>5. d.gen \in Nat
  BY <1>1, DeviceFields
<1>6. dd \in Device /\ dd.gen = d.gen + 1 /\ dd.plugged /\ dd.active = d.active /\ dd.ap = d.ap
      /\ dd.addr = d.addr
  BY <1>1, <1>4, <1>5, DeviceFields DEF Device
<1>7. DeviceOk(dd, since[i], known) /\ ~d.active
  BY <1>1, <1>2, <1>6 DEF DeviceOk, Sound, d
<1>8. ASSUME NEW e \in Entry, Level(e, d) PROVE Level(e, dd)
  <2>1. e.gen \in Nat /\ e.active \in BOOLEAN /\ d.active \in BOOLEAN
    BY <1>1, EntryFields, DeviceFields
  <2> QED BY <1>5, <1>6, <1>7, <1>8, <2>1 DEF Level
<1>9. since' \in [Ifaces -> SUBSET (Families \X (Addresses \cup {None}))]
  BY <1>1, <1>2 DEF TypeInv
<1> QED BY <1>2, <1>6, <1>7, <1>8, <1>9, UnheardKeeps DEF d

-----------------------------------------------------------------------------
(* The other steps keep the invariant                                      *)

LEMMA StrengthFields ==
  ASSUME NEW e \in Entry, NEW x \in Nat
  PROVE  LET u == [e EXCEPT !.ss = x]
         IN  /\ u \in Entry
             /\ u.gen = e.gen /\ u.active = e.active /\ u.addr = e.addr /\ u.ap = e.ap
             /\ u.essid = e.essid /\ u.ss = x /\ u.handlers = e.handlers
<1>1. ASSUME NEW u, u = [e EXCEPT !.ss = x]
      PROVE  u = [gen |-> e.gen, active |-> e.active, addr |-> e.addr, ap |-> e.ap,
                  essid |-> e.essid, ss |-> x, handlers |-> e.handlers]
  <2>1. e = [gen |-> e.gen, active |-> e.active, addr |-> e.addr, ap |-> e.ap,
             essid |-> e.essid, ss |-> e.ss, handlers |-> e.handlers]
    BY EntryFields
  <2> QED BY <1>1, <2>1, Zenon
<1>2. ASSUME NEW u, u = [e EXCEPT !.ss = x]
      PROVE  u \in Entry
  BY <1>1, <1>2, EntryFields, Zenon DEF Entry
<1> QED BY <1>1, <1>2

(* What a change of the strength of an access point does to one entry. *)
LEMMA StrengthSound ==
  ASSUME NEW e \in Entry, NEW d, NEW s, NEW st, NEW st2, NEW fd, NEW a \in known,
         known \subseteq APs,
         EntryOk(e, d, s, st, known, fd), \A b \in APs \ {a} : st2[b] = st[b], st2[a] \in Nat,
         NEW u \in Entry,
         u = IF e.handlers[a] > 0 /\ e.ss # st2[a] THEN [e EXCEPT !.ss = st2[a]] ELSE e
  PROVE  EntryOk(u, d, s, st2, known, fd)
<1>1. /\ u.gen = e.gen /\ u.active = e.active /\ u.addr = e.addr /\ u.ap = e.ap
      /\ u.essid = e.essid /\ u.handlers = e.handlers
      /\ u.ss = IF e.handlers[a] > 0 /\ e.ss # st2[a] THEN st2[a] ELSE e.ss
  BY StrengthFields
<1>2. Level(u, d) /\ NameOk(u) /\ AddressOk(u, s)
      /\ (u.ap # None => u.ap \in known /\ u.handlers[u.ap] > 0)
  BY <1>1 DEF EntryOk, Level, NameOk, AddressOk
<1>3. u.ap \in APs \cup {None}
  BY EntryFields
<1>4. CASE e.handlers[a] > 0
  <2>1. u.ss = st2[a] /\ u.handlers[a] > 0
    BY <1>1, <1>4
  <2>2. StrengthOk(u, st2, known, fd)
    BY <1>3, <2>1, NetConstants DEF StrengthOk
  <2> QED BY <1>2, <2>2 DEF EntryOk
<1>5. CASE ~(e.handlers[a] > 0)
  <2>1. u.ss = e.ss
    BY <1>1, <1>5
  <2>2. e.ap # a
    BY <1>5, NetConstants DEF EntryOk
  <2>3. StrengthOk(u, st2, known, fd)
    <3>1. CASE e.ss = IF e.ap = None THEN 0 ELSE st[e.ap]
      BY <1>1, <1>3, <2>1, <2>2, <3>1 DEF StrengthOk
    <3>2. CASE \E b \in known \ {e.ap} : e.handlers[b] > 0 /\ e.ss = st[b]
      BY <1>1, <1>5, <2>1, <3>2 DEF StrengthOk
    <3>3. CASE e.ss \in fd
      BY <2>1, <3>3 DEF StrengthOk
    <3> QED BY <3>1, <3>2, <3>3 DEF EntryOk, StrengthOk
  <2> QED BY <1>2, <2>3 DEF EntryOk
<1> QED BY <1>4, <1>5

LEMMA StrengthKeeps ==
  ASSUME Inv, NEW a \in APs, StrengthChange(a), shown' = shown
  PROVE  Inv'
<1>1. TypeInv
  BY DEF Inv
<1>2. /\ strength' \in [APs -> Strengths] /\ device' = device /\ since' = since
      /\ known' = known /\ faded' = faded /\ a \in known /\ known \subseteq APs
      /\ \A b \in APs \ {a} : strength'[b] = strength[b]
  BY <1>1 DEF StrengthChange, StrengthCallback, TypeInv
<1>3. strength'[a] \in Nat
  <2>1. Strengths \subseteq Nat
    BY NetConstants
  <2> QED BY <1>2, <2>1
<1> DEFINE New(e) == IF e.handlers[a] > 0 /\ e.ss # strength'[a]
                     THEN [e EXCEPT !.ss = strength'[a]] ELSE e
<1>4. DOMAIN entry' = Ifaces /\ \A i \in Ifaces : entry'[i] = IF entry[i] # None THEN New(entry[i]) ELSE None
  BY DEF StrengthChange, StrengthCallback
<1>5. \A e \in Entry : New(e) \in Entry
  BY <1>3, StrengthFields
<1>6. entry' \in [Ifaces -> Entry \cup {None}]
  <2>1. \A i \in Ifaces : entry'[i] \in Entry \cup {None}
    BY <1>1, <1>4, <1>5 DEF TypeInv
  <2>2. entry' = [i \in Ifaces |-> entry'[i]]
    BY DEF StrengthChange, StrengthCallback
  <2> QED BY <2>1, <2>2
<1>7. TypeInv'
  BY <1>1, <1>2, <1>6 DEF TypeInv
<1>8. ASSUME NEW i \in Ifaces PROVE Sound(i)'
  <2>1. Sound(i)
    BY DEF Inv
  <2>2. ASSUME entry[i] # None PROVE EntryOk(New(entry[i]), device[i], since[i], strength', known, faded[i])
    <3>1. entry[i] \in Entry /\ EntryOk(entry[i], device[i], since[i], strength, known, faded[i])
      BY <1>1, <2>1, <2>2 DEF TypeInv, Sound
    <3>2. New(entry[i]) \in Entry
      BY <1>5, <3>1
    <3> QED BY <1>2, <1>3, <3>1, <3>2, StrengthSound
  <2>3. entry'[i] # None => entry[i] # None /\ entry'[i] = New(entry[i])
    BY <1>4
  <2> HIDE DEF New
  <2> QED BY <1>2, <2>1, <2>2, <2>3 DEF Sound
<1> QED BY <1>7, <1>8 DEF Inv

(* An access point that libnm learns of. *)
LEMMA SeenKeeps ==
  ASSUME Inv, NEW a \in APs, AccessPointSeen(a), shown' = shown
  PROVE  Inv'
<1>1. TypeInv /\ a \notin known /\ known' = known \cup {a}
  BY DEF Inv, AccessPointSeen
<1>2. /\ UNCHANGED <<device, since, entry, faded>>
      /\ strength' \in [APs -> Strengths] /\ \A b \in APs \ {a} : strength'[b] = strength[b]
  BY <1>1 DEF AccessPointSeen, Keep, TypeInv
<1>3. TypeInv'
  BY <1>1, <1>2 DEF TypeInv
<1>4. ASSUME NEW i \in Ifaces PROVE Sound(i)'
  <2>1. Sound(i) /\ known \subseteq APs
    BY <1>1 DEF Inv, TypeInv
  <2>2. DeviceOk(device[i], since[i], known')
    BY <1>1, <2>1 DEF Sound, DeviceOk
  <2>3. ASSUME entry[i] # None
        PROVE  EntryOk(entry[i], device[i], since[i], strength', known', faded[i])
    <3>1. EntryOk(entry[i], device[i], since[i], strength, known, faded[i])
      BY <2>1, <2>3 DEF Sound
    <3>2. \A b \in known : b \in known' /\ strength'[b] = strength[b]
      BY <1>1, <1>2, <2>1
    <3>3. StrengthOk(entry[i], strength', known', faded[i])
      BY <3>1, <3>2 DEF EntryOk, StrengthOk
    <3> QED BY <3>1, <3>2, <3>3 DEF EntryOk
  <2> QED BY <1>2, <2>2, <2>3 DEF Sound
<1> QED BY <1>3, <1>4 DEF Inv

LEMMA ForgetFields ==
  ASSUME NEW e \in Entry, NEW a \in APs
  PROVE  LET u == Forget(e, a)
         IN  /\ u \in Entry
             /\ u.active = e.active /\ u.gen = e.gen /\ u.ap = e.ap /\ u.addr = e.addr
             /\ u.essid = e.essid /\ u.ss = e.ss
             /\ \A b \in APs : u.handlers[b] = IF b = a THEN 0 ELSE e.handlers[b]
<1> DEFINE left == [e.handlers EXCEPT ![a] = 0]
<1>1. left \in [APs -> Nat] /\ \A b \in APs : left[b] = IF b = a THEN 0 ELSE e.handlers[b]
  BY EntryFields
<1>2. Forget(e, a) = [e EXCEPT !.handlers = left]
  BY Zenon DEF Forget
<1> HIDE DEF left
<1>3. Forget(e, a) = [gen |-> e.gen, active |-> e.active, addr |-> e.addr, ap |-> e.ap,
                      essid |-> e.essid, ss |-> e.ss, handlers |-> left]
  BY <1>2, EntryFields, Zenon
<1>4. Forget(e, a) \in Entry
  BY <1>1, <1>3, EntryFields, Zenon DEF Entry
<1> QED BY <1>1, <1>3, <1>4

(* What an access point that goes away leaves of an entry and of the last
   strengths that are remembered with it. *)
Without(e, a) ==
  IF e # None /\ e.ap = a THEN Forget(Leave(e), a)
  ELSE IF e # None /\ e.handlers[a] > 0 THEN Forget(e, a) ELSE e

Past(e, a, fd) ==
  IF e # None /\ e.ap = a THEN {}
  ELSE IF e # None /\ e.handlers[a] > 0 THEN fd \cup {strength[a]} ELSE fd

LEMMA WithoutSound ==
  ASSUME NEW e \in Entry, e # None, NEW d \in Device, NEW dd \in Device, NEW s, NEW fd,
         known \subseteq APs, NEW a \in known, EntryOk(e, d, s, strength, known, fd),
         dd.gen = d.gen, dd.active = d.active, dd.ap = IF d.ap = a THEN None ELSE d.ap
  PROVE  /\ Without(e, a) \in Entry
         /\ EntryOk(Without(e, a), dd, s, strength, known \ {a}, Past(e, a, fd))
<1>1. a \in APs /\ a # None /\ e.handlers \in [APs -> Nat] /\ e.gen \in Nat
  BY EntryFields, NetConstants
<1>2. CASE e.ap = a
  <2> DEFINE l == Leave(e)
             u == Forget(l, a)
  <2>1. /\ l \in Entry /\ l.active = e.active /\ l.gen = e.gen /\ l.ap = None /\ l.addr = e.addr
        /\ l.essid = None /\ l.ss = 0
    BY <1>1, <1>2, LeaveFields DEF EntryOk
  <2> HIDE DEF l
  <2>2. /\ u \in Entry /\ u.active = e.active /\ u.gen = e.gen /\ u.ap = None /\ u.addr = e.addr
        /\ u.essid = None /\ u.ss = 0
    BY <1>1, <2>1, ForgetFields
  <2>3. Without(e, a) = u /\ Past(e, a, fd) = {}
    BY <1>2 DEF Without, Past, l
  <2> HIDE DEF u
  <2>4. Level(u, dd)
    BY <1>2, <2>2 DEF EntryOk, Level
  <2>5. NameOk(u) /\ StrengthOk(u, strength, known \ {a}, {}) /\ AddressOk(u, s)
    BY <2>2 DEF EntryOk, NameOk, StrengthOk, AddressOk
  <2> QED BY <2>2, <2>3, <2>4, <2>5 DEF EntryOk
<1>3. CASE e.ap # a
  <2> DEFINE u == Without(e, a)
             p == Past(e, a, fd)
  <2>1. /\ u \in Entry /\ u.active = e.active /\ u.gen = e.gen /\ u.ap = e.ap /\ u.addr = e.addr
        /\ u.essid = e.essid /\ u.ss = e.ss
        /\ \A b \in APs \ {a} : u.handlers[b] = e.handlers[b]
    BY <1>1, <1>3, ForgetFields DEF Without
  <2>2. fd \subseteq p /\ (e.handlers[a] > 0 => strength[a] \in p)
    BY <1>3 DEF Past
  <2> HIDE DEF u, p
  <2>3. Level(u, dd) /\ NameOk(u) /\ AddressOk(u, s)
    BY <1>3, <2>1 DEF EntryOk, Level, NameOk, AddressOk
  <2>4. u.ap # None => u.ap \in known \ {a} /\ u.handlers[u.ap] > 0
    BY <1>3, <2>1 DEF EntryOk
  <2>5. StrengthOk(u, strength, known \ {a}, p)
    <3>1. CASE e.ss = IF e.ap = None THEN 0 ELSE strength[e.ap]
      BY <2>1, <3>1 DEF StrengthOk
    <3>2. CASE e.ss \in fd
      BY <2>1, <2>2, <3>2 DEF StrengthOk
    <3>3. ASSUME NEW b \in known \ {e.ap}, e.handlers[b] > 0, e.ss = strength[b]
          PROVE  StrengthOk(u, strength, known \ {a}, p)
      BY <2>1, <2>2, <3>3 DEF StrengthOk
    <3> QED BY <3>1, <3>2, <3>3 DEF EntryOk, StrengthOk
  <2> QED BY <2>1, <2>3, <2>4, <2>5 DEF EntryOk, u, p
<1> QED BY <1>2, <1>3

LEMMA GoneKeeps ==
  ASSUME Inv, NEW a \in APs, AccessPointGone(a), shown' = shown
  PROVE  Inv'
<1>1. TypeInv /\ a \in known /\ known \subseteq APs /\ known' = known \ {a}
      /\ strength' = strength /\ since' = since
  BY DEF Inv, TypeInv, AccessPointGone
<1> DEFINE to(d) == [d EXCEPT !.ap = IF @ = a THEN None ELSE @]
<1>2. device' = [i \in Ifaces |-> to(device[i])]
  BY DEF AccessPointGone
<1>3. /\ entry' = [i \in Ifaces |-> Without(entry[i], a)]
      /\ faded' = [i \in Ifaces |-> Past(entry[i], a, faded[i])]
  BY Zenon DEF AccessPointGone, Without, Past
<1>4. ASSUME NEW d \in Device
      PROVE  /\ to(d) \in Device /\ to(d).gen = d.gen /\ to(d).plugged = d.plugged
             /\ to(d).active = d.active /\ to(d).addr = d.addr
             /\ to(d).ap = IF d.ap = a THEN None ELSE d.ap
  <2> DEFINE x == IF d.ap = a THEN None ELSE d.ap
  <2>1. to(d) = [d EXCEPT !.ap = x]
    OBVIOUS
  <2>2. x \in APs \cup {None}
    BY DeviceFields
  <2> HIDE DEF x
  <2>3. to(d) = [gen |-> d.gen, plugged |-> d.plugged, active |-> d.active, ap |-> x, addr |-> d.addr]
    BY <2>1, DeviceExcept
  <2> HIDE DEF to
  <2>4. to(d) \in Device
    BY <2>2, <2>3, DeviceFields DEF Device
  <2> QED BY <2>3, <2>4 DEF x
<1> HIDE DEF to
<1>5. ASSUME NEW i \in Ifaces PROVE device[i] \in Device /\ entry[i] \in Entry \cup {None}
                                    /\ faded[i] \in SUBSET Strengths /\ strength[a] \in Strengths
  BY <1>1, <1>5 DEF TypeInv
<1>6. ASSUME NEW i \in Ifaces PROVE /\ device'[i] = to(device[i])
                                    /\ entry'[i] = Without(entry[i], a)
                                    /\ faded'[i] = Past(entry[i], a, faded[i])
  BY <1>2, <1>3
<1>7. ASSUME NEW i \in Ifaces, entry[i] # None
      PROVE  /\ Without(entry[i], a) \in Entry
             /\ EntryOk(Without(entry[i], a), to(device[i]), since[i], strength, known \ {a},
                        Past(entry[i], a, faded[i]))
  <2>1. EntryOk(entry[i], device[i], since[i], strength, known, faded[i])
    BY <1>7 DEF Inv, Sound
  <2> QED BY <1>1, <1>4, <1>5, <1>7, <2>1, WithoutSound
<1>8. TypeInv'
  <2>1. device' \in [Ifaces -> Device]
    BY <1>2, <1>4, <1>5
  <2>2. \A i \in Ifaces : Without(entry[i], a) \in Entry \cup {None}
    BY <1>7 DEF Without
  <2>3. \A i \in Ifaces : Past(entry[i], a, faded[i]) \in SUBSET Strengths
    BY <1>5 DEF Past
  <2> QED BY <1>1, <1>3, <2>1, <2>2, <2>3 DEF TypeInv
<1>9. ASSUME NEW i \in Ifaces PROVE Sound(i)'
  <2>1. DeviceOk(to(device[i]), since[i], known \ {a})
    <3>1. DeviceOk(device[i], since[i], known)
      BY DEF Inv, Sound
    <3> QED BY <1>4, <1>5, <3>1 DEF DeviceOk
  <2>2. entry[i] = None => entry'[i] = None
    BY <1>6 DEF Without
  <2> QED BY <1>1, <1>6, <1>7, <2>1, <2>2 DEF Sound
<1> QED BY <1>8, <1>9 DEF Inv

LEMMA CreatedSound ==
  ASSUME NEW d \in Device, NEW s, NEW fd, DeviceOk(d, s, known), strength \in [APs -> Strengths]
  PROVE  Created(d) \in Entry /\ EntryOk(Created(d), d, s, strength, known, fd)
<1> DEFINE u == Created(d)
<1>1. /\ u \in Entry
      /\ u.active = d.active /\ u.gen = d.gen /\ u.ap = d.ap
      /\ \A f \in Families : u.addr[f] = IF d.active THEN d.addr[f] ELSE None
      /\ u.ap = None => u.essid = None /\ u.ss = 0
      /\ u.ap # None => /\ Ssid[u.ap] # None => u.essid = Ssid[u.ap]
                        /\ u.ss = strength[u.ap] /\ u.handlers[u.ap] > 0
  BY CreatedFields
<1>2. d.gen \in Nat /\ d.active \in BOOLEAN
  BY DeviceFields
<1> HIDE DEF u
<1>3. Level(u, d) /\ NameOk(u) /\ StrengthOk(u, strength, known, fd)
  BY <1>1, <1>2 DEF Level, NameOk, StrengthOk
<1>4. AddressOk(u, s)
  BY <1>1 DEF AddressOk, DeviceOk
<1> QED BY <1>1, <1>3, <1>4 DEF DeviceOk, EntryOk, u

(* What a lookup leaves in the entry. *)
Found(i) ==
  IF entry[i] = None /\ client /\ device[i].plugged THEN Created(device[i]) ELSE entry[i]

LEMMA LookupKeeps ==
  ASSUME Inv, NEW i \in Ifaces, NEW what, Lookup(i, what)
  PROVE  /\ Inv'
         /\ Found(i) \in Entry \cup {None}
         /\ Found(i) # None => EntryOk(Found(i), device[i], since[i], strength, known, faded[i])
<1>1. TypeInv /\ Sound(i) /\ device[i] \in Device
  BY DEF Inv, TypeInv
<1>2. entry' = [entry EXCEPT ![i] = Found(i)] /\ DOMAIN shown' = DOMAIN shown
  BY DEF Lookup, Found
<1>3. device' = device /\ strength' = strength /\ since' = since /\ known' = known /\ faded' = faded
  BY DEF Lookup, world
<1>4. /\ Found(i) \in Entry \cup {None}
      /\ Found(i) # None => EntryOk(Found(i), device[i], since[i], strength, known, faded[i])
  BY <1>1, CreatedSound DEF TypeInv, Sound, Found
<1>5. /\ entry' \in [Ifaces -> Entry \cup {None}] /\ entry'[i] = Found(i)
      /\ \A j \in Ifaces \ {i} : entry'[j] = entry[j]
  BY <1>1, <1>2, <1>4 DEF TypeInv
<1>6. TypeInv'
  BY <1>1, <1>2, <1>3, <1>5 DEF TypeInv
<1>7. Sound(i)'
  BY <1>1, <1>3, <1>4, <1>5 DEF Sound
<1> QED BY <1>3, <1>4, <1>5, <1>6, <1>7, OneInterface

LEMMA FreeKeeps ==
  ASSUME Inv, Free
  PROVE  Inv'
<1>1. TypeInv /\ entry' = [i \in Ifaces |-> None] /\ UNCHANGED <<device, strength, since, known, faded, shown>>
  BY DEF Inv, Free, world
<1>2. TypeInv'
  BY <1>1 DEF TypeInv
<1>3. ASSUME NEW i \in Ifaces PROVE Sound(i)'
  BY <1>1 DEF Inv, Sound
<1> QED BY <1>2, <1>3 DEF Inv

LEMMA TickKeeps ==
  ASSUME Inv, Tick
  PROVE  Inv'
<1>1. shown' = shown
  BY DEF Tick
<1>2. CASE \E i \in Ifaces : \/ StateChange(i) \/ AccessPointChange(i) \/ AddressChange(i)
                             \/ Unplug(i) \/ Plug(i)
  BY <1>1, <1>2, StateKeeps, AccessPointKeeps, AddressKeeps, UnplugKeeps, PlugKeeps
<1>3. CASE \E a \in APs : AccessPointSeen(a) \/ AccessPointGone(a) \/ StrengthChange(a)
  BY <1>1, <1>3, SeenKeeps, GoneKeeps, StrengthKeeps
<1> QED BY <1>2, <1>3 DEF Tick

LEMMA NextSound == Inv /\ [Next]_vars => Inv'
<1> SUFFICES ASSUME Inv, [Next]_vars PROVE Inv'
  OBVIOUS
<1>1. CASE Tick
  BY <1>1, TickKeeps
<1>2. CASE Free
  BY <1>2, FreeKeeps
<1>3. ASSUME NEW q \in Queries, Lookup(q[1], q[2]) PROVE Inv'
  <2>1. q[1] \in Ifaces
    BY DEF Queries
  <2> QED BY <1>3, <2>1, LookupKeeps
<1>4. CASE Finished \/ UNCHANGED vars
  <2>1. UNCHANGED <<device, strength, known, faded, entry, since, shown>>
    BY <1>4 DEF Finished, vars, world
  <2> QED BY <2>1 DEF Inv, TypeInv, Sound
<1> QED BY <1>1, <1>2, <1>3, <1>4 DEF Next

LEMMA AlwaysSound == Spec => []Inv
BY InitSound, NextSound, PTL DEF Spec

-----------------------------------------------------------------------------
(* The theorems                                                            *)

(* After every tick the entry of every device that is plugged in, or was and
   is not replaced, has the state, the access point and the name that libnm
   tells: nm_update and nm_access_point_callback miss nothing (nm.c). *)
THEOREM EntryIsView == Spec => []ViewOfDevice
<1>1. Inv => ViewOfDevice
  BY DEF Inv, Sound, EntryOk, Level, NameOk, ViewOfDevice, Bound
<1> QED BY <1>1, AlwaysSound, PTL

(* Where the strength in an entry comes from: the access point in use; or one
   left behind that is still in range, whose handler nm_access_point_callback
   never disconnects; or the last word of one that went out of range after it
   was left behind, which nothing corrects until the next change of access
   point (nm_signal_strength_callback, nm_access_point_callback). *)
THEOREM StrengthHasASource == Spec => []StrengthExplained
<1>1. Inv => StrengthExplained
  BY DEF Inv, Sound, EntryOk, StrengthOk, StrengthExplained, Bound
<1> QED BY <1>1, AlwaysSound, PTL

(* No address survives a deactivation: whatever nm_ip4 and nm_ip6 return was an
   address of the device in its present activation (nm_update). *)
THEOREM NoAddressCarriedOver == Spec => []AddressOfActivation
<1>1. Inv => AddressOfActivation
  BY DEF Inv, Sound, EntryOk, Level, AddressOk, AddressOfActivation, Bound
<1> QED BY <1>1, AlwaysSound, PTL

LEMMA LineStep == Inv /\ LineSafe /\ [Next]_vars => LineSafe'
<1> SUFFICES ASSUME Inv, LineSafe, [Next]_vars PROVE LineSafe'
  OBVIOUS
<1>1. CASE Tick
  <2>1. UNCHANGED touched \/ touched' = touched \cup {"ap"}
    BY <1>1 DEF Tick, StateChange, AccessPointChange, AddressChange, Unplug, Plug, AccessPointSeen,
                AccessPointGone, StrengthChange, Safely
  <2> QED BY <2>1 DEF LineSafe
<1>2. CASE Free
  BY <1>2 DEF Free, LineSafe
<1>3. ASSUME NEW i \in Ifaces, NEW what, Lookup(i, what) PROVE LineSafe'
  <2>1. TypeInv /\ Sound(i) /\ device[i] \in Device
    BY DEF Inv, TypeInv
  <2>2. Found(i) # None /\ what = "line" /\ Found(i).active => ~Dropped(i, Found(i))
    <3>1. Found(i) # None => Level(Found(i), device[i])
      BY <1>3, LookupKeeps DEF EntryOk
    <3> QED BY <2>1, <3>1 DEF Sound, DeviceOk, Level, Dropped
  <2>3. \/ touched' = touched
        \/ /\ touched' = touched \cup {what}
           /\ Found(i) # None /\ UsesDevice(what, Found(i)) /\ Dropped(i, Found(i))
    BY <1>3 DEF Lookup, Found, Safely
  <2>4. "line" = what => touched' = touched
    BY <2>2, <2>3 DEF UsesDevice
  <2> QED BY <2>3, <2>4 DEF LineSafe
<1>4. CASE \E q \in Queries : Lookup(q[1], q[2])
  BY <1>3, <1>4 DEF Queries
<1>5. CASE Finished \/ UNCHANGED vars
  BY <1>5 DEF Finished, vars, LineSafe
<1> QED BY <1>1, <1>2, <1>4, <1>5 DEF Next

(* nm_line never asks libnm about an object that was dropped: an entry says
   "active" only while the device it watches is plugged in (nm_line). *)
THEOREM LineNeverDangles == Spec => []LineSafe
<1>1. Init => LineSafe
  BY DEF Init, LineSafe
<1> QED BY <1>1, LineStep, AlwaysSound, PTL DEF Spec

-----------------------------------------------------------------------------
(* Changes are announced                                                   *)

(* The answer to q that was shown is the one its entry x gives. *)
UpToDate(q, x, said) ==
  x = None \/ (x.active /\ x.addr = NoAddress) \/ said = Answer(q[1], q[2], x)

LEMMA AnnouncedForm ==
  ChangeAnnounced <=> (at = "running" => \A q \in Queries \ raised : UpToDate(q, entry[q[1]], shown[q]))
BY Zenon DEF ChangeAnnounced, UpToDate

LEMMA AnnouncedFormNext ==
  ASSUME at' = "running" => \A q \in Queries \ raised' : UpToDate(q, entry'[q[1]], shown'[q])
  PROVE  ChangeAnnounced'
BY Zenon DEF ChangeAnnounced, UpToDate

(* An address that cannot be there: the entry shows none. *)
LEMMA QuietUpdate ==
  ASSUME NEW e \in Entry, NEW d \in Device, d.active, ~UpdateRaises(d),
         \A f \in Families : e.addr[f] = None
  PROVE  Update(e, d).active /\ Update(e, d).addr = NoAddress
<1> DEFINE u == Update(e, d)
<1>1. u \in Entry /\ u.active /\ \A f \in Families : u.addr[f] = None
  BY UpdateFields DEF UpdateRaises
<1>2. u.addr \in [Families -> Addresses \cup {None}]
  BY <1>1, EntryFields
<1> HIDE DEF u
<1>3. u.addr = NoAddress
  BY <1>1, <1>2 DEF NoAddress
<1> QED BY <1>1, <1>3 DEF u

LEMMA QuietCreated ==
  ASSUME NEW d \in Device, strength \in [APs -> Strengths], d.active, ~UpdateRaises(d)
  PROVE  Created(d).active /\ Created(d).addr = NoAddress
<1> DEFINE u == Created(d)
<1>1. u \in Entry /\ u.active /\ \A f \in Families : u.addr[f] = None
  BY CreatedFields DEF UpdateRaises
<1>2. u.addr \in [Families -> Addresses \cup {None}]
  BY <1>1, EntryFields
<1> HIDE DEF u
<1>3. u.addr = NoAddress
  BY <1>1, <1>2 DEF NoAddress
<1> QED BY <1>1, <1>3 DEF u

(* A step that touches no entry, or one that raises the signal. *)
LEMMA UntouchedOrRaised ==
  ASSUME ChangeAnnounced, at = "running", shown' = shown,
         raised' = Queries \/ (raised' = raised /\ \A i \in Ifaces : entry'[i] = entry[i])
  PROVE  ChangeAnnounced'
<1>1. \A q \in Queries \ raised : UpToDate(q, entry[q[1]], shown[q])
  BY AnnouncedForm
<1>2. \A q \in Queries : q[1] \in Ifaces
  BY DEF Queries
<1>3. \A q \in Queries \ raised' : UpToDate(q, entry'[q[1]], shown'[q])
  BY <1>1, <1>2
<1> QED BY <1>3, AnnouncedFormNext

(* An access point that goes away under an entry raises the signal; to an
   entry that only watches it nothing changes that is shown. *)
LEMMA GoneAnnounces ==
  ASSUME Inv, ChangeAnnounced, NEW a \in APs, AccessPointGone(a), shown' = shown, at = "running"
  PROVE  ChangeAnnounced'
<1> DEFINE on == {i \in Ifaces : entry[i] # None /\ entry[i].ap = a}
<1>1. CASE on # {}
  BY <1>1, AnnouncedFormNext DEF AccessPointGone, Raise
<1>2. CASE on = {}
  <2>1. raised' = raised /\ TypeInv
    BY <1>2 DEF AccessPointGone, Inv
  <2>2. ASSUME NEW q \in Queries \ raised PROVE UpToDate(q, entry'[q[1]], shown'[q])
    <3>1. q[1] \in Ifaces /\ UpToDate(q, entry[q[1]], shown[q])
      BY AnnouncedForm DEF Queries
    <3> DEFINE e == entry[q[1]]
    <3>2. entry'[q[1]] = e \/ (e # None /\ entry'[q[1]] = Forget(e, a))
      BY <1>2, <3>1 DEF AccessPointGone
    <3>3. CASE e # None /\ entry'[q[1]] = Forget(e, a)
      <4>1. e \in Entry
        BY <2>1, <3>1, <3>3 DEF TypeInv
      <4> HIDE DEF e
      <4> DEFINE u == Forget(e, a)
      <4>2. u.active = e.active /\ u.gen = e.gen /\ u.addr = e.addr /\ u.essid = e.essid /\ u.ss = e.ss
        BY <4>1, ForgetFields
      <4> HIDE DEF u
      <4>3. Answer(q[1], q[2], u) = Answer(q[1], q[2], e)
        BY <4>2 DEF Answer
      <4> QED BY <3>1, <3>3, <4>2, <4>3 DEF UpToDate, u, e
    <3> QED BY <3>1, <3>2, <3>3
  <2> QED BY <2>1, <2>2, AnnouncedFormNext
<1> QED BY <1>1, <1>2

LEMMA TickAnnounces ==
  ASSUME Inv, ChangeAnnounced, Tick
  PROVE  ChangeAnnounced'
<1>1. at = "running" /\ shown' = shown /\ TypeInv
  BY DEF Tick, Inv
<1>2. ASSUME NEW i \in Ifaces, StateChange(i) PROVE ChangeAnnounced'
  <2>1. CASE ~Bound(i) \/ UpdateRaises(device'[i])
    BY <1>1, <1>2, <2>1, UntouchedOrRaised DEF StateChange, StateCallback, Keep, Raise
  <2>2. CASE Bound(i) /\ ~UpdateRaises(device'[i])
    <3>1. Inv' /\ device'[i] \in Device /\ device'[i].active
      BY <1>1, <1>2, <2>2, StateKeeps DEF Inv, TypeInv, UpdateRaises
    <3>2. ~device[i].active
      <4>1. PICK b \in BOOLEAN : ~(b /\ device[i].active) /\ Set(i, [device[i] EXCEPT !.active = b])
        BY <1>2 DEF StateChange
      <4>2. device[i] \in Device
        BY <1>1 DEF TypeInv
      <4>3. [device[i] EXCEPT !.active = b].active = b
        BY <4>2 DEF Device
      <4>4. device'[i] = [device[i] EXCEPT !.active = b]
        BY <1>1, <4>1 DEF TypeInv, Set
      <4> QED BY <3>1, <4>1, <4>3, <4>4
    <3>3. entry[i] \in Entry /\ \A f \in Families : entry[i].addr[f] = None
      BY <1>1, <2>2, <3>2 DEF Inv, TypeInv, Sound, EntryOk, Level, AddressOk, Bound
    <3>4. /\ entry' = [entry EXCEPT ![i] = Update(@, device'[i])] /\ raised' = raised
      BY <1>2, <2>2 DEF StateChange, StateCallback
    <3>5. /\ entry'[i].active /\ entry'[i].addr = NoAddress
          /\ \A j \in Ifaces \ {i} : entry'[j] = entry[j]
      BY <1>1, <2>2, <3>1, <3>3, <3>4, QuietUpdate DEF TypeInv
    <3>6. ASSUME NEW q \in Queries \ raised' PROVE UpToDate(q, entry'[q[1]], shown'[q])
      <4>1. UpToDate(q, entry[q[1]], shown[q]) /\ q[1] \in Ifaces
        BY <1>1, <3>4, AnnouncedForm DEF Queries
      <4> QED BY <1>1, <3>5, <4>1 DEF UpToDate
    <3> QED BY <3>6, AnnouncedFormNext
  <2> QED BY <2>1, <2>2
<1>3. ASSUME NEW i \in Ifaces, AccessPointChange(i) PROVE ChangeAnnounced'
  BY <1>1, <1>3, UntouchedOrRaised DEF AccessPointChange, AccessPointCallback, Keep, Raise
<1>4. ASSUME NEW i \in Ifaces, AddressChange(i) \/ Unplug(i) \/ Plug(i) PROVE ChangeAnnounced'
  BY <1>1, <1>4, UntouchedOrRaised DEF AddressChange, Unplug, Plug, Keep
<1>5. ASSUME NEW a \in APs, AccessPointSeen(a) PROVE ChangeAnnounced'
  BY <1>1, <1>5, UntouchedOrRaised DEF AccessPointSeen, Keep
<1>6. ASSUME NEW a \in APs, AccessPointGone(a) PROVE ChangeAnnounced'
  BY <1>1, <1>6, GoneAnnounces
<1>7. ASSUME NEW a \in APs, StrengthChange(a) PROVE ChangeAnnounced'
  <2>1. raised' = Queries \/ (raised' = raised /\ \A i \in Ifaces : entry'[i] = entry[i])
    BY <1>7 DEF StrengthChange, StrengthCallback, Raise
  <2> QED BY <1>1, <2>1, UntouchedOrRaised
<1> QED BY <1>2, <1>3, <1>4, <1>5, <1>6, <1>7 DEF Tick

LEMMA LookupAnnounces ==
  ASSUME Inv, ChangeAnnounced, NEW i \in Ifaces, NEW what \in Families \cup {"line", "mac"},
         Lookup(i, what)
  PROVE  ChangeAnnounced'
<1>1. at = "running" /\ TypeInv /\ device[i] \in Device /\ <<i, what>> \in Queries
  BY DEF Lookup, Inv, TypeInv, Queries
<1> DEFINE fresh == entry[i] = None /\ client /\ device[i].plugged
           e == Found(i)
<1>2. /\ entry' = [entry EXCEPT ![i] = e]
      /\ raised' = (IF fresh /\ UpdateRaises(device[i]) THEN Queries ELSE raised) \ {<<i, what>>}
      /\ shown' = [shown EXCEPT ![<<i, what>>] = IF e = None THEN None ELSE Answer(i, what, e)]
  BY DEF Lookup, Found
<1>3. ~fresh => e = entry[i]
  BY DEF Found
<1>4. fresh /\ ~UpdateRaises(device[i]) => e.active /\ e.addr = NoAddress
  <2>1. fresh => e = Created(device[i])
    BY DEF Found
  <2>2. ~UpdateRaises(device[i]) => device[i].active
    BY DEF UpdateRaises
  <2> QED BY <1>1, <2>1, <2>2, QuietCreated DEF TypeInv
<1> HIDE DEF e, fresh
<1>5. entry'[i] = e /\ \A j \in Ifaces \ {i} : entry'[j] = entry[j]
  BY <1>1, <1>2 DEF TypeInv
<1>6. /\ shown'[<<i, what>>] = IF e = None THEN None ELSE Answer(i, what, e)
      /\ \A q \in Queries \ {<<i, what>>} : shown'[q] = shown[q]
  BY <1>1, <1>2 DEF TypeInv
<1>7. ASSUME NEW q \in Queries \ raised' PROVE UpToDate(q, entry'[q[1]], shown'[q])
  <2>1. CASE q = <<i, what>>
    BY <1>5, <1>6, <2>1 DEF UpToDate
  <2>2. CASE q # <<i, what>>
    <3>1. ~(fresh /\ UpdateRaises(device[i]))
      BY <1>2, <2>2
    <3>2. q \notin raised /\ q[1] \in Ifaces /\ shown'[q] = shown[q]
      BY <1>2, <1>6, <2>2 DEF Queries
    <3>3. UpToDate(q, entry[q[1]], shown[q])
      BY <1>1, <3>2, AnnouncedForm
    <3>4. CASE q[1] = i
      BY <1>3, <1>4, <1>5, <3>1, <3>2, <3>3, <3>4 DEF UpToDate
    <3>5. CASE q[1] # i
      BY <1>5, <3>2, <3>3, <3>5
    <3> QED BY <3>4, <3>5
  <2> QED BY <2>1, <2>2
<1> QED BY <1>7, AnnouncedFormNext

LEMMA AnnounceStep == Inv /\ ChangeAnnounced /\ [Next]_vars => ChangeAnnounced'
<1> SUFFICES ASSUME Inv, ChangeAnnounced, [Next]_vars PROVE ChangeAnnounced'
  OBVIOUS
<1>1. CASE Tick
  BY <1>1, TickAnnounces
<1>2. CASE Free
  <2>1. at' # "running"
    BY <1>2 DEF Free
  <2> QED BY <2>1, AnnouncedFormNext
<1>3. CASE \E q \in Queries : Lookup(q[1], q[2])
  BY <1>3, LookupAnnounces DEF Queries
<1>4. CASE Finished \/ UNCHANGED vars
  <2>1. UNCHANGED <<entry, raised, shown, at>>
    BY <1>4 DEF Finished, vars
  <2> QED BY <2>1, AnnouncedForm, AnnouncedFormNext
<1> QED BY <1>1, <1>2, <1>3, <1>4 DEF Next

(* Whatever an entry would say differently from what printstatus was told last
   has been announced by NM_SIGNAL since, but for a device that became active
   without an address (nm_update, the handlers of nm.c). *)
THEOREM ChangesAreAnnounced == Spec => []ChangeAnnounced
<1>1. Init => ChangeAnnounced
  <2>1. ASSUME Init PROVE \A q \in Queries : entry[q[1]] = None
    BY <2>1 DEF Init, Queries
  <2> QED BY <2>1, AnnouncedForm DEF UpToDate
<1> QED BY <1>1, AnnounceStep, AlwaysSound, PTL DEF Spec
=============================================================================
