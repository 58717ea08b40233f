------------------------------ MODULE Netlink ------------------------------
(***************************************************************************)
(* components/wifi.c on Linux: wifi_essid and wifi_perc talk to the kernel *)
(* over one generic netlink socket, without matching replies to requests.  *)
(* The kernel answers inside send, so a reply is there when recv is        *)
(* called; a recv for which there is none blocks until a signal, which     *)
(* main's handlers do not restart it after.                                *)
(*                                                                         *)
(* A datagram is a sequence of messages.  The answer to a dump is one      *)
(* message per station and a last one, cut into datagrams anywhere: the    *)
(* kernel fills the first inside send and one more inside each recv, for   *)
(* which it may be out of memory.                                          *)
(***************************************************************************)
EXTENDS Integers, Sequences, SequencesExt

CONSTANTS
  Ifaces,      \* the arguments of the wifi_* entries of config.h
  None,        \* NULL
  Ssids,       \* names of networks
  Signals,     \* average signals of stations in dBm
  MaxStations, \* bound on the stations of an interface
  MaxIndex,    \* bound on the interface indexes given out
  MaxChanges,  \* bound on the changes in the kernel
  MaxFaults,   \* bound on the receptions that fail
  MaxLeft      \* bound on the datagrams that may be left when a call begins

ASSUME NetlinkConstants ==
  /\ None \notin Ifaces \cup Ssids \cup (0..100)
  /\ Signals \subseteq -128..127
  /\ MaxStations \in Nat /\ MaxIndex \in Nat /\ MaxChanges \in Nat
  /\ MaxFaults \in Nat /\ MaxLeft \in Nat

VARIABLES
  loaded,      \* the kernel has the family nl80211
  index,       \* of each interface, 0 when there is none of that name
  ssid,        \* the network each interface is in, or None
  stations,    \* the signals of the stations of each interface
  given,       \* the largest index given out
  changes,     \* how many changes there were
  dump,        \* what the kernel has not yet put into a datagram of a dump
  fault,       \* the socket's pending error: the next recv fails
  faults,      \* how many there were
  sock, inbox, \* nlsock is open, the datagrams it holds
  id,          \* the static id of nl80211fam, 0 when not known
  ifr,         \* the static ifreq of ifindex: name and index
  strength,    \* the static buffer of wifi_perc, None when empty
  at,          \* where main is
  query,       \* the function and the argument of the current call
  ret,         \* what the last call returned
  truth,       \* what it should have said
  stable       \* no ioctl has failed and no index has changed

kernel == <<loaded, index, ssid, stations, given, changes, stable>>
socket == <<dump, fault, faults, inbox>>
memory == <<sock, id, ifr, strength>>
call   == <<at, query, ret, truth>>
vars   == <<kernel, socket, memory, call>>

Init ==
  /\ loaded \in BOOLEAN /\ changes = 0 /\ stable = TRUE
  /\ index \in [Ifaces -> 0..MaxIndex]
  /\ \A i, j \in Ifaces : index[i] = index[j] => i = j \/ index[i] = 0
  /\ given = MaxIndex - 1 /\ \A i \in Ifaces : index[i] <= given
  /\ ssid = [i \in Ifaces |-> None]
  /\ stations = [i \in Ifaces |-> <<>>]
  /\ dump = <<>> /\ fault = FALSE /\ faults = 0
  /\ sock = FALSE /\ inbox = <<>> /\ id = 0 /\ ifr = [name |-> None, index |-> 0]
  /\ strength = None
  /\ at = "idle" /\ query = <<None, None>> /\ ret = None /\ truth = None

-----------------------------------------------------------------------------
(* The kernel                                                              *)

Plug(i) ==
  /\ index' = [index EXCEPT ![i] = IF @ # 0 THEN 0 ELSE given + 1]
  /\ given' = (IF index[i] = 0 THEN given + 1 ELSE given) /\ given' <= MaxIndex
  /\ stable' = FALSE /\ UNCHANGED <<loaded, ssid, stations>>

Roam(i) ==
  /\ \/ ssid' \in {[ssid EXCEPT ![i] = s] : s \in Ssids \cup {None}} /\ UNCHANGED stations
     \/ /\ \E q \in BoundedSeq(Signals, MaxStations) : stations' = [stations EXCEPT ![i] = q]
        /\ UNCHANGED ssid
  /\ UNCHANGED <<loaded, index, given, stable>>

Load == loaded' = ~loaded /\ UNCHANGED <<index, ssid, stations, given, stable>>

Change ==
  /\ changes < MaxChanges /\ changes' = changes + 1
  /\ Load \/ \E i \in Ifaces : Plug(i) \/ Roam(i)
  /\ UNCHANGED <<socket, memory, call>>

Message(t, x) == [type |-> t, value |-> x]
Error == Message("error", None)
Done  == Message("done", None)

With(k) == {i \in Ifaces : index[i] = k /\ k # 0}

(* What the kernel answers: an error for a family it does not have. *)
GetFamily == IF loaded THEN Message("family", 1) ELSE Error

GetInterface(k) ==
  IF ~loaded \/ With(k) = {} THEN {Error} ELSE {Message("interface", ssid[i]) : i \in With(k)}

Dump(i) == Append([n \in DOMAIN stations[i] |-> Message("station", stations[i][n])], Done)

Dumps(k) == IF With(k) = {} THEN {<<Done>>} ELSE {Dump(i) : i \in With(k)}

Answer(m) == inbox' = Append(inbox, <<m>>) /\ UNCHANGED <<dump, fault, faults>>

(* The next datagram of a dump that has ms left. *)
Fill(ms, datagrams) ==
  \E n \in 1..Len(ms) :
    /\ inbox' = Append(datagrams, SubSeq(ms, 1, n)) /\ dump' = SubSeq(ms, n + 1, Len(ms))
    /\ UNCHANGED <<fault, faults>>

(* Without memory for its first datagram a dump begins with an error.  A
   message of type 0 is passed over; while a dump goes on there is no other. *)
GetStation(fam, k) ==
  IF fam = 0 THEN UNCHANGED socket
  ELSE IF ~loaded \/ dump # <<>> THEN Answer(Error)
  ELSE \E ms \in Dumps(k) :
         \/ Fill(ms, inbox)
         \/ inbox' = Append(inbox, <<Error>>) /\ dump' = ms /\ UNCHANGED <<fault, faults>>

(* recv takes a datagram and has the kernel fill the next one. *)
Receive ==
  /\ inbox # <<>> /\ ~fault
  /\ \/ dump = <<>> /\ inbox' = Tail(inbox) /\ UNCHANGED <<dump, fault, faults>>
     \/ Fill(dump, Tail(inbox))
     \/ /\ dump # <<>> /\ faults < MaxFaults /\ faults' = faults + 1 /\ fault' = TRUE
        /\ inbox' = Tail(inbox) /\ UNCHANGED dump

-----------------------------------------------------------------------------
(* Main                                                                    *)

RSSI_TO_PERC(rssi) ==
  IF rssi >= -50 THEN 100 ELSE IF rssi <= -100 THEN 0 ELSE 2 * (rssi + 100)

Truth(f, i) ==
  IF index[i] = 0 \/ ~loaded THEN None
  ELSE IF f = "essid" THEN ssid[i]
  ELSE IF stations[i] = <<>> THEN None ELSE RSSI_TO_PERC(stations[i][1])

NoQuery == <<None, None>>

Return(x) == at' = "idle" /\ ret' = x /\ query' = NoQuery /\ UNCHANGED truth

Goto(p) == at' = p /\ UNCHANGED <<query, ret, truth>>

Call(f, i) ==
  /\ at = "idle" /\ Len(inbox) <= MaxLeft /\ query' = <<f, i>> /\ at' = (IF id # 0 THEN "index" ELSE "family")
  /\ ret' = None /\ truth' = None /\ UNCHANGED <<kernel, socket, memory>>

(* nl80211fam: the socket, the request *)
AskFamily ==
  /\ at = "family"
  /\ \/ sock' = TRUE /\ Answer(GetFamily) /\ Goto("family_recv")
     \/ sock' = TRUE /\ Goto("index") /\ UNCHANGED socket           \* send failed
     \/ ~sock /\ Goto("index") /\ UNCHANGED <<sock, socket>>        \* socket failed
  /\ UNCHANGED <<kernel, id, ifr, strength>>

(* The attributes of the error that says there is no such family begin with
   one of length 0, which findattr does not get past. *)
ReceiveFamily ==
  /\ at = "family_recv" /\ Receive
  /\ LET m == Head(inbox)[1]
     IN  IF m = Error THEN Goto("findattr") /\ UNCHANGED id
         ELSE Goto("index") /\ id' = IF m.type = "family" THEN m.value ELSE 0
  /\ UNCHANGED <<kernel, sock, ifr, strength>>

(* A mutant of Cached: any name will do. *)
CachedAny(i) == ifr.name # None

Cached(i) == ifr.name = i

(* The name is there before the ioctl is known to succeed, and the ioctl
   leaves the index alone when it fails. *)
Ifr(i) ==
  IF Cached(i) THEN ifr
  ELSE [name |-> i, index |-> IF index[i] # 0 THEN index[i] ELSE ifr.index]

Ifindex ==
  LET f == query[1]  i == query[2]
      fails == ~Cached(i) /\ index[i] = 0
  IN  /\ at = "index" /\ ifr' = Ifr(i)
      /\ stable' = (stable /\ ~fails)
      /\ IF fails \/ (f = "essid" /\ id = 0) \/ (f = "perc" /\ ~sock)
         THEN Return(None) ELSE Goto("send")
      /\ UNCHANGED <<loaded, index, ssid, stations, given, changes, socket, sock, id, strength>>

(* A mutant of Emptied: the strength of the last call stays. *)
EmptiedNot == strength

Emptied == None

Asked ==
  /\ at = "send" /\ at' = "recv" /\ truth' = Truth(query[1], query[2])
  /\ UNCHANGED <<kernel, sock, id, ifr, query, ret>>

SendEssid ==
  /\ query[1] = "essid" /\ Asked /\ UNCHANGED strength
  /\ \E m \in GetInterface(ifr.index) : Answer(m)

SendPerc == query[1] = "perc" /\ Asked /\ GetStation(id, ifr.index) /\ strength' = Emptied

SendFails == at = "send" /\ Return(None) /\ UNCHANGED <<kernel, socket, memory>>

ReceiveEssid ==
  /\ at = "recv" /\ query[1] = "essid" /\ Receive
  /\ LET m == Head(inbox)[1] IN Return(IF m.type = "interface" THEN m.value ELSE None)
  /\ UNCHANGED <<kernel, memory>>

(* The strength after a datagram: the first signal of all. *)
First(ms) ==
  LET n == SelectInSeq(ms, LAMBDA m : m.type = "station")
  IN  IF strength # None THEN strength
      ELSE IF n = 0 THEN None ELSE RSSI_TO_PERC(ms[n].value)

(* A mutant of Ends: a strength is enough. *)
EndsKnown(ms) == First(ms) # None \/ Contains(ms, Done)

(* A mutant of Ends: the end counts only if there was a strength. *)
EndsWithStrength(ms) == First(ms) # None /\ Contains(ms, Done)

Ends(ms) == Contains(ms, Done)

ReceivePerc ==
  /\ at = "recv" /\ query[1] = "perc" /\ Receive
  /\ strength' = First(Head(inbox))
  /\ IF Ends(Head(inbox)) THEN Return(strength') ELSE UNCHANGED call
  /\ UNCHANGED <<kernel, sock, id, ifr>>

(* A pending error is told instead of a datagram, which stays. *)
ReceiveFails ==
  /\ at = "recv" /\ fault /\ fault' = FALSE /\ Return(None)
  /\ UNCHANGED <<kernel, dump, faults, inbox, memory>>

(* A signal ends a recv that has nothing to return. *)
Interrupt ==
  /\ at = "recv" /\ inbox = <<>> /\ ~fault /\ Return(None)
  /\ UNCHANGED <<kernel, socket, memory>>

Main ==
  \/ AskFamily \/ ReceiveFamily \/ Ifindex
  \/ SendEssid \/ SendPerc \/ SendFails \/ ReceiveEssid \/ ReceivePerc \/ ReceiveFails

Findattr == at = "findattr" /\ UNCHANGED vars

(* Nothing is called any more: the bound on what is left. *)
Full == at = "idle" /\ Len(inbox) > MaxLeft /\ UNCHANGED vars

Next ==
  \/ Change \/ Main \/ Interrupt \/ Findattr \/ Full
  \/ \E f \in {"essid", "perc"}, i \in Ifaces : Call(f, i)

Spec == Init /\ [][Next]_vars

(* Main runs; signals owe nothing. *)
FairSpec == Spec /\ WF_vars(Main)

-----------------------------------------------------------------------------
(* Properties                                                              *)

(* A call leaves nothing for the next one to take for its answer: this is
   what makes up for sequence numbers nobody looks at.  A recv that failed
   may leave the rest of a dump. *)
NothingLeftOver ==
  at \in {"idle", "family", "index", "send"} /\ faults = 0 => inbox = <<>> /\ dump = <<>>

(* An answer is what the kernel knew of the interface asked about when it
   was asked, unless an interface came, went or was missing before, or the
   rest of a dump was left over. *)
AnswersAsked == at = "idle" /\ stable /\ faults = 0 /\ ret # None => ret = truth

(* nl80211fam has found the family if it had a socket to ask with. *)
FamilyFound == at = "index" /\ sock => id # 0

(* As long as the kernel has the family, and nl80211fam finds it, every call
   returns, without a signal to help it, also after a recv that failed. *)
CallsReturn == [](loaded /\ FamilyFound) => (at # "idle" ~> at = "idle")
=============================================================================
