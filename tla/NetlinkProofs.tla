---------------------------- MODULE NetlinkProofs ----------------------------
(***************************************************************************)
(* Theorems about the generic netlink socket of wifi.c, for any interfaces *)
(* and stations, dumps cut anywhere, any changes in the kernel and calls   *)
(* on the socket that fail.                                                *)
(***************************************************************************)
EXTENDS Netlink, TLAPS

-----------------------------------------------------------------------------
(* The inductive invariant                                                 *)

Messages ==
  [type : {"family", "interface", "station", "error", "done"},
   value : Ssids \cup Signals \cup {None, 1}]

TypeInv ==
  /\ given \in Int /\ index \in [Ifaces -> Int] /\ ssid \in [Ifaces -> Ssids \cup {None}]
  /\ stations \in [Ifaces -> Seq(Signals)]
  /\ inbox \in Seq(Seq(Messages)) /\ dump \in Seq(Messages)
  /\ faults \in Nat /\ (faults = 0 => ~fault)
  /\ at # "idle" => query \in {"essid", "perc"} \X Ifaces

(* Before an ioctl fails or an index changes, the buffer of ifindex names an
   interface by its index, and no other has it. *)
NameInv ==
  /\ at = "send" => ifr.name = query[2]
  /\ ifr.name # None => ifr.name \in Ifaces
  /\ stable => /\ ifr.name # None => ifr.index = index[ifr.name] /\ ifr.index # 0
               /\ \A i, j \in Ifaces : index[i] = index[j] => i = j \/ index[i] = 0

(* The end of a dump is its last message. *)
EndIsLast(ms) == \A k \in 1..Len(ms) - 1 : ms[k] # Done

(* Messages that begin with the station that gives t, or have none. *)
Starts(ms, t) ==
  ms # <<>> => IF ms[1].type = "station" THEN ms[1].value \in Signals /\ RSSI_TO_PERC(ms[1].value) = t
               ELSE Len(ms) = 1

(* What follows a strength s that is not there yet, the datagrams ds and what
   is left of the dump, ms, begins with the station that gives it, or has none. *)
Tells(ds, ms, s, t) ==
  /\ s # None => s = t
  /\ s = None /\ ds # <<>> =>
       ds[1] # <<>> /\ Starts(ds[1], t) /\ (ds[1][1].type # "station" => Starts(ms, t))

(* An essid's answer is one datagram with one message. *)
Single(ds, t) == Len(ds) = 1 /\ (ds[1][1].type = "interface" => ds[1][1].value = t)

(* A dump comes one datagram at a time, the last one with its end. *)
OneByOne ==
  Len(inbox) <= 1 /\ (dump # <<>> => Len(inbox) = 1 /\ ~Contains(inbox[1], Done))

WaitInv ==
  faults = 0 =>
    /\ at = "findattr" => inbox = <<>> /\ dump = <<>>
    /\ at = "family_recv" => Len(inbox) = 1 /\ dump = <<>>
    /\ at = "recv" /\ query[1] = "essid" =>
         Len(inbox) = 1 /\ dump = <<>> /\ (stable => Single(inbox, truth))
    /\ at = "recv" /\ query[1] = "perc" =>
         OneByOne /\ (stable => Tells(inbox, dump, strength, truth))

Quiet == NothingLeftOver /\ AnswersAsked

NetInv == TypeInv /\ EndIsLast(dump) /\ NameInv /\ WaitInv /\ Quiet

-----------------------------------------------------------------------------
(* Messages and dumps                                                      *)

LEMMA EmptyIsShort ==
  ASSUME NEW S, NEW s \in Seq(S)
  PROVE  s = <<>> <=> Len(s) = 0
OBVIOUS

LEMMA TailOfOne ==
  ASSUME NEW S, NEW s \in Seq(S), Len(s) = 1
  PROVE  Tail(s) = <<>>
<1>1. Tail(s) \in Seq(S) /\ Len(Tail(s)) = 0
  OBVIOUS
<1> QED BY <1>1, EmptyIsShort

LEMMA RssiRange ==
  ASSUME NEW r \in Signals
  PROVE  RSSI_TO_PERC(r) \in 0..100 /\ RSSI_TO_PERC(r) # None
BY NetlinkConstants DEF RSSI_TO_PERC

LEMMA MessageTypes ==
  /\ Error \in Messages /\ Done \in Messages
  /\ \A x \in Ssids \cup {None} : Message("interface", x) \in Messages
  /\ \A x \in Signals : Message("station", x) \in Messages
  /\ Message("family", 1) \in Messages
  /\ \A x : Message("station", x) # Done
BY DEF Error, Done, Message, Messages

(* A dump has a message per station and a last one. *)
LEMMA DumpProps ==
  ASSUME NEW i \in Ifaces, stations[i] \in Seq(Signals)
  PROVE  /\ Dump(i) \in Seq(Messages) /\ Len(Dump(i)) = Len(stations[i]) + 1
         /\ \A n \in 1..Len(stations[i]) : Dump(i)[n] = Message("station", stations[i][n])
         /\ Dump(i)[Len(stations[i]) + 1] = Done
<1>1. PICK s : s = [n \in DOMAIN stations[i] |-> Message("station", stations[i][n])]
  OBVIOUS
<1>2. Len(stations[i]) \in Nat /\ DOMAIN stations[i] = 1..Len(stations[i])
  OBVIOUS
<1>3. \A n \in DOMAIN stations[i] : stations[i][n] \in Signals
  OBVIOUS
<1>4. s \in [1..Len(stations[i]) -> Messages]
  BY <1>1, <1>2, <1>3, MessageTypes
<1>5. s \in Seq(Messages) /\ Len(s) = Len(stations[i])
  BY <1>2, <1>4
<1>6. Dump(i) = Append(s, Done)
  BY <1>1 DEF Dump
<1> QED BY <1>1, <1>2, <1>5, <1>6, MessageTypes

LEMMA DumpsProps ==
  ASSUME TypeInv, NEW k, NEW ms \in Dumps(k)
  PROVE  /\ ms \in Seq(Messages) /\ EndIsLast(ms)
         /\ loaded => \A j \in Ifaces : With(k) = {j} => Starts(ms, Truth("perc", j))
<1>1. CASE With(k) = {} /\ ms = <<Done>>
  <2>1. ms \in Seq(Messages) /\ Len(ms) = 1
    BY <1>1, MessageTypes
  <2> QED BY <1>1, <2>1 DEF EndIsLast
<1>2. ASSUME NEW i \in With(k), ms = Dump(i) 
      PROVE  /\ ms \in Seq(Messages) /\ EndIsLast(ms)
             /\ loaded => \A j \in Ifaces : With(k) = {j} => Starts(ms, Truth("perc", j))
  <2>1. i \in Ifaces /\ index[i] # 0 /\ stations[i] \in Seq(Signals)
    BY DEF With, TypeInv
  <2>2. /\ ms \in Seq(Messages) /\ Len(ms) = Len(stations[i]) + 1
        /\ \A n \in 1..Len(stations[i]) : ms[n] = Message("station", stations[i][n])
    BY <1>2, <2>1, DumpProps
  <2>3. Len(stations[i]) \in Nat
    BY <2>1
  <2>4. EndIsLast(ms)
    BY <2>2, <2>3, MessageTypes DEF EndIsLast
  <2>5. loaded => Starts(ms, Truth("perc", i))
    <3>1. CASE stations[i] = <<>>
      <4>1. Len(stations[i]) = 0
        BY <2>1, <3>1, EmptyIsShort
      <4>2. Len(ms) = 1
        BY <2>2, <4>1
      <4>3. ms[1] = Done
        BY <1>2, <2>1, <4>1, DumpProps
      <4>4. Done.type # "station"
        BY DEF Done, Message
      <4> QED BY <4>2, <4>3, <4>4 DEF Starts
    <3>2. CASE stations[i] # <<>>
      <4>1. 1 \in 1..Len(stations[i]) /\ stations[i][1] \in Signals
        BY <2>1, <3>2
      <4>2. PICK m : m = ms[1] /\ m = Message("station", stations[i][1])
        BY <2>2, <4>1
      <4>3. m.type = "station" /\ m.value = stations[i][1]
        BY <4>2 DEF Message
      <4>4. loaded => Truth("perc", i) = RSSI_TO_PERC(stations[i][1])
        BY <2>1, <3>2 DEF Truth
      <4> QED BY <4>1, <4>2, <4>3, <4>4 DEF Starts
    <3> QED BY <3>1, <3>2
  <2> QED BY <2>2, <2>4, <2>5
<1> QED BY <1>1, <1>2 DEF Dumps

(* A dump that is cut keeps its first message first and its last one last. *)
LEMMA FillProps ==
  ASSUME NEW ms \in Seq(Messages), NEW ds \in Seq(Seq(Messages)), Fill(ms, ds), EndIsLast(ms)
  PROVE  /\ UNCHANGED <<fault, faults>>
         /\ inbox' \in Seq(Seq(Messages)) /\ dump' \in Seq(Messages) /\ EndIsLast(dump')
         /\ ds = <<>> =>
              /\ Len(inbox') = 1 /\ inbox'[1] # <<>>
              /\ dump' # <<>> => ~Contains(inbox'[1], Done)
              /\ \A t : Starts(ms, t) =>
                   Starts(inbox'[1], t) /\ (inbox'[1][1].type # "station" => Starts(dump', t))
<1>1. PICK n \in 1..Len(ms) : /\ inbox' = Append(ds, SubSeq(ms, 1, n))
                              /\ dump' = SubSeq(ms, n + 1, Len(ms))
  BY DEF Fill
<1>2. PICK a, b : a = SubSeq(ms, 1, n) /\ b = SubSeq(ms, n + 1, Len(ms))
  OBVIOUS
<1>3. Len(ms) \in Nat /\ n \in Nat /\ 1 <= n /\ n <= Len(ms)
  OBVIOUS
<1>4. a \in Seq(Messages) /\ Len(a) = n /\ \A k \in 1..n : a[k] = ms[k]
  BY <1>2, <1>3
<1>5. b \in Seq(Messages) /\ Len(b) = Len(ms) - n /\ \A k \in 1..Len(ms) - n : b[k] = ms[n + k]
  BY <1>2, <1>3
<1>6. inbox' = Append(ds, a) /\ dump' = b /\ inbox' \in Seq(Seq(Messages))
  BY <1>1, <1>2, <1>4
<1>7. EndIsLast(b)
  <2> SUFFICES ASSUME NEW k \in 1..Len(b) - 1 PROVE b[k] # Done
    BY DEF EndIsLast
  <2>1. k \in 1..Len(ms) - n /\ n + k \in 1..Len(ms) - 1
    BY <1>3, <1>5
  <2> QED BY <1>5, <2>1 DEF EndIsLast
<1>8. ASSUME b # <<>> PROVE ~Contains(a, Done)
  <2>1. n <= Len(ms) - 1
    BY <1>3, <1>5, <1>8, EmptyIsShort
  <2>2. \A k \in 1..n : k \in 1..Len(ms) - 1
    BY <1>3, <2>1
  <2> QED BY <1>4, <2>2 DEF Contains, EndIsLast
<1>9. ASSUME NEW t, Starts(ms, t)
      PROVE  Starts(a, t) /\ (a[1].type # "station" => Starts(b, t))
  <2>1. a[1] = ms[1] /\ ms # <<>>
    BY <1>3, <1>4
  <2>2. CASE ms[1].type = "station"
    BY <1>9, <2>1, <2>2 DEF Starts
  <2>3. CASE ms[1].type # "station"
    <3>1. Len(ms) = 1
      BY <1>9, <2>1, <2>3 DEF Starts
    <3>2. Len(a) = 1 /\ Len(b) = 0
      BY <1>3, <1>4, <1>5, <3>1
    <3>3. b = <<>>
      BY <1>5, <3>2, EmptyIsShort
    <3> QED BY <2>1, <2>3, <3>2, <3>3 DEF Starts
  <2> QED BY <2>2, <2>3
<1>10. a # <<>>
  BY <1>3, <1>4
<1>11. ds = <<>> => Len(inbox') = 1 /\ inbox'[1] = a
  BY <1>4, <1>6
<1>12. ASSUME ds = <<>>
       PROVE  /\ Len(inbox') = 1 /\ inbox'[1] # <<>>
              /\ dump' # <<>> => ~Contains(inbox'[1], Done)
              /\ \A t : Starts(ms, t) =>
                   Starts(inbox'[1], t) /\ (inbox'[1][1].type # "station" => Starts(dump', t))
  <2>1. inbox'[1] = a /\ Len(inbox') = 1 /\ dump' = b
    BY <1>6, <1>11, <1>12
  <2> QED BY <1>8, <1>9, <1>10, <2>1
<1>13. UNCHANGED <<fault, faults>>
  BY DEF Fill
<1>14. dump' \in Seq(Messages) /\ EndIsLast(dump')
  BY <1>5, <1>6, <1>7
<1> QED BY <1>6, <1>12, <1>13, <1>14

-----------------------------------------------------------------------------
(* Answers                                                                 *)

LEMMA AnswerProps ==
  ASSUME TypeInv, NEW m \in Messages, Answer(m)
  PROVE  /\ inbox' \in Seq(Seq(Messages)) /\ UNCHANGED <<dump, fault, faults>>
         /\ inbox = <<>> => inbox' = << <<m>> >>
<1>1. PICK d : d = <<m>>
  OBVIOUS
<1>2. d \in Seq(Messages) /\ inbox \in Seq(Seq(Messages))
  BY <1>1 DEF TypeInv
<1>3. inbox' = Append(inbox, d) /\ UNCHANGED <<dump, fault, faults>>
  BY <1>1 DEF Answer
<1>4. inbox' \in Seq(Seq(Messages))
  BY <1>2, <1>3
<1>5. Append(<<>>, d) = <<d>>
  OBVIOUS
<1> QED BY <1>1, <1>3, <1>4, <1>5

(* An error in front of a dump, or without one, says nothing. *)
LEMMA ErrorTells ==
  ASSUME NEW e, e = << <<Error>> >>, NEW ms, NEW t, Starts(ms, t)
  PROVE  Len(e) = 1 /\ ~Contains(e[1], Done) /\ Tells(e, ms, None, t)
<1>1. Error.type # "station" /\ Error # Done
  BY DEF Error, Done, Message
<1>2. e[1] = <<Error>> /\ Len(e) = 1
  OBVIOUS
<1>3. e[1] # <<>> /\ Len(e[1]) = 1 /\ e[1][1] = Error
  BY <1>2
<1>4. ~Contains(e[1], Done)
  BY <1>1, <1>2 DEF Contains
<1>5. Starts(e[1], t)
  BY <1>1, <1>3 DEF Starts
<1> QED BY <1>2, <1>3, <1>4, <1>5 DEF Tells

(* The first datagram, if the kernel is asked by a call that finds nothing. *)
LEMMA StationAnswer ==
  ASSUME TypeInv, EndIsLast(dump), NEW fam, NEW k, GetStation(fam, k)
  PROVE  /\ inbox' \in Seq(Seq(Messages)) /\ dump' \in Seq(Messages) /\ EndIsLast(dump')
         /\ UNCHANGED <<fault, faults>>
         /\ inbox = <<>> /\ dump = <<>> =>
              OneByOne' /\ \A i \in Ifaces : With(k) = {i} => Tells(inbox', dump', None, Truth("perc", i))
<1> USE DEF TypeInv
<1> DEFINE Typed == /\ inbox' \in Seq(Seq(Messages)) /\ dump' \in Seq(Messages) /\ EndIsLast(dump')
                    /\ UNCHANGED <<fault, faults>>
           True(i) == With(k) = {i} => Tells(inbox', dump', None, Truth("perc", i))
<1>1. <<>> \in Seq(Seq(Messages)) /\ Len(<<>>) = 0 /\ \A t : Starts(<<>>, t)
  BY DEF Starts
<1>2. <<Error>> \in Seq(Messages)
  BY MessageTypes
<1>3. CASE UNCHANGED socket
  <2>1. UNCHANGED <<dump, fault, faults, inbox>>
    BY <1>3 DEF socket
  <2>2. ASSUME inbox = <<>>, dump = <<>>, NEW i \in Ifaces
        PROVE  OneByOne' /\ True(i)
    BY <1>1, <2>1, <2>2 DEF OneByOne, Tells
  <2>3. inbox = <<>> /\ dump = <<>> => OneByOne'
    BY <1>1, <2>1 DEF OneByOne
  <2> QED BY <2>1, <2>2, <2>3
<1>4. CASE Answer(Error) /\ (~loaded \/ dump # <<>>)
  <2>1. /\ inbox' \in Seq(Seq(Messages)) /\ UNCHANGED <<dump, fault, faults>>
        /\ inbox = <<>> => inbox' = << <<Error>> >>
    BY <1>4, AnswerProps, MessageTypes
  <2>2. ASSUME inbox = <<>>, dump = <<>>, NEW i \in Ifaces
        PROVE  True(i)
    BY <1>1, <2>1, <2>2, ErrorTells
  <2>3. ASSUME inbox = <<>>, dump = <<>>
        PROVE  OneByOne'
    <3>1. Len(inbox') = 1 /\ dump' = <<>>
      BY <1>1, <2>1, <2>3, ErrorTells
    <3> QED BY <3>1 DEF OneByOne
  <2> QED BY <2>1, <2>2, <2>3
<1>5. ASSUME loaded, dump = <<>>, NEW ms \in Dumps(k), Fill(ms, inbox)
      PROVE  Typed /\ (inbox = <<>> /\ dump = <<>> => OneByOne' /\ \A i \in Ifaces : True(i))
  <2>1. ms \in Seq(Messages) /\ EndIsLast(ms)
    BY DumpsProps
  <2>2. Typed
    BY <1>5, <2>1, FillProps
  <2>3. ASSUME inbox = <<>>
        PROVE  /\ Len(inbox') = 1 /\ inbox'[1] # <<>>
               /\ dump' # <<>> => ~Contains(inbox'[1], Done)
               /\ \A t : Starts(ms, t) =>
                    Starts(inbox'[1], t) /\ (inbox'[1][1].type # "station" => Starts(dump', t))
    BY <1>5, <2>1, <2>3, FillProps
  <2>4. ASSUME inbox = <<>>, NEW i \in Ifaces, With(k) = {i}
        PROVE  Tells(inbox', dump', None, Truth("perc", i))
    <3>1. Starts(ms, Truth("perc", i))
      BY <1>5, <2>4, DumpsProps
    <3> QED BY <2>3, <2>4, <3>1 DEF Tells
  <2>5. ASSUME inbox = <<>>
        PROVE  OneByOne'
    <3>1. Len(inbox') = 1
      BY <2>3, <2>5
    <3>2. dump' # <<>> => ~Contains(inbox'[1], Done)
      BY <2>3, <2>5
    <3> QED BY <3>1, <3>2 DEF OneByOne
  <2> QED BY <2>2, <2>4, <2>5
<1>6. ASSUME loaded, dump = <<>>, NEW ms \in Dumps(k), inbox' = Append(inbox, <<Error>>), dump' = ms,
             UNCHANGED <<fault, faults>>
      PROVE  Typed /\ (inbox = <<>> /\ dump = <<>> => OneByOne' /\ \A i \in Ifaces : True(i))
  <2>1. inbox' \in Seq(Seq(Messages)) /\ (inbox = <<>> => inbox' = << <<Error>> >>)
    <3>1. PICK d : d = <<Error>>
      OBVIOUS
    <3>2. d \in Seq(Messages) /\ inbox' = Append(inbox, d)
      BY <1>2, <1>6, <3>1
    <3>3. Append(<<>>, d) = <<d>>
      OBVIOUS
    <3>4. inbox' \in Seq(Seq(Messages))
      BY <3>2
    <3> QED BY <3>1, <3>2, <3>3, <3>4
  <2>2. Typed
    BY <1>6, <2>1, DumpsProps
  <2>3. ASSUME inbox = <<>>, NEW i \in Ifaces, With(k) = {i}
        PROVE  Tells(inbox', dump', None, Truth("perc", i))
    <3>1. Starts(dump', Truth("perc", i))
      BY <1>6, <2>3, DumpsProps
    <3> QED BY <2>1, <2>3, <3>1, ErrorTells
  <2>4. ASSUME inbox = <<>>
        PROVE  OneByOne'
    <3>1. Starts(<<>>, None)
      BY <1>1
    <3>2. Len(inbox') = 1 /\ ~Contains(inbox'[1], Done)
      BY <2>1, <2>4, <3>1, ErrorTells
    <3> QED BY <3>2 DEF OneByOne
  <2> QED BY <2>2, <2>3, <2>4
<1> QED BY <1>3, <1>4, <1>5, <1>6 DEF GetStation

LEMMA InterfaceAnswer ==
  ASSUME TypeInv, NEW k, NEW m \in GetInterface(k)
  PROVE  /\ m \in Messages
         /\ \A i \in Ifaces : With(k) = {i} => Single(<< <<m>> >>, Truth("essid", i))
<1>1. CASE m = Error
  <2>1. Error.type # "interface"
    BY DEF Error, Message
  <2> QED BY <1>1, <2>1, MessageTypes DEF Single
<1>2. ASSUME loaded, NEW i \in With(k), m = Message("interface", ssid[i])
      PROVE  /\ m \in Messages
             /\ \A j \in Ifaces : With(k) = {j} => Single(<< <<m>> >>, Truth("essid", j))
  <2>1. i \in Ifaces /\ index[i] # 0 /\ ssid[i] \in Ssids \cup {None}
    BY DEF With, TypeInv
  <2>2. Truth("essid", i) = ssid[i]
    BY <1>2, <2>1 DEF Truth
  <2>3. m \in Messages /\ m.value = ssid[i]
    BY <1>2, <2>1, MessageTypes DEF Message
  <2> QED BY <2>2, <2>3 DEF Single
<1> QED BY <1>1, <1>2 DEF GetInterface

(* What a recv leaves, as long as none has failed. *)
LEMMA ReceiveProps ==
  ASSUME TypeInv, EndIsLast(dump), Receive
  PROVE  /\ inbox # <<>> /\ inbox' \in Seq(Seq(Messages)) /\ dump' \in Seq(Messages) /\ EndIsLast(dump')
         /\ faults' \in Nat /\ (faults' = 0 => faults = 0 /\ ~fault')
         /\ faults' = 0 /\ Len(inbox) = 1 =>
              \/ dump = <<>> /\ inbox' = <<>> /\ dump' = <<>>
              \/ dump # <<>> /\ Fill(dump, <<>>)
<1> USE DEF TypeInv
<1>1. Tail(inbox) \in Seq(Seq(Messages)) /\ (Len(inbox) = 1 => Tail(inbox) = <<>>)
  BY TailOfOne DEF Receive
<1>2. CASE dump = <<>> /\ inbox' = Tail(inbox) /\ UNCHANGED <<dump, fault, faults>>
  BY <1>1, <1>2 DEF Receive
<1>3. CASE Fill(dump, Tail(inbox))
  <2>1. dump # <<>>
    BY <1>3 DEF Fill
  <2> QED BY <1>1, <1>3, <2>1, FillProps DEF Receive
<1>4. CASE dump # <<>> /\ faults' = faults + 1 /\ inbox' = Tail(inbox) /\ UNCHANGED dump
  BY <1>1, <1>4 DEF Receive
<1> QED BY <1>2, <1>3, <1>4 DEF Receive

LEMMA FirstProps ==
  ASSUME NEW ms \in Seq(Messages), strength = None, ms # <<>>
  PROVE  /\ ms[1].type = "station" => First(ms) = RSSI_TO_PERC(ms[1].value)
         /\ ms[1].type # "station" /\ Len(ms) = 1 => First(ms) = None
<1> DEFINE I == {n \in 1..Len(ms) : ms[n].type = "station"}
<1>1. CASE ms[1].type = "station"
  <2>1. 1 \in I /\ \A y \in I : 1 <= y
    BY <1>1
  <2>2. Min(I) = 1
    BY <2>1 DEF Min
  <2> QED BY <1>1, <2>1, <2>2 DEF First, SelectInSeq
<1>2. CASE ms[1].type # "station" /\ Len(ms) = 1
  <2>1. I = {}
    BY <1>2
  <2> QED BY <1>2, <2>1 DEF First, SelectInSeq
<1> QED BY <1>1, <1>2

LEMMA OneDatagram ==
  ASSUME NEW ds \in Seq(Seq(Messages)), ds # <<>>, Len(ds) <= 1
  PROVE  Len(ds) = 1 /\ Head(ds) = ds[1] /\ ds[1] \in Seq(Messages)
<1>1. PICK n \in Nat : n = Len(ds)
  OBVIOUS
<1>2. n # 0 /\ n <= 1
  BY <1>1, EmptyIsShort
<1>3. n = 1
  BY <1>2
<1> QED BY <1>1, <1>3

(* A datagram of a dump is taken, and the next one is there. *)
LEMMA ReceiveOne ==
  ASSUME TypeInv, EndIsLast(dump), Receive, OneByOne, faults' = 0
  PROVE  /\ Len(inbox) = 1 /\ Head(inbox) = inbox[1] /\ inbox[1] \in Seq(Messages) /\ OneByOne'
         /\ \/ dump = <<>> /\ inbox' = <<>> /\ dump' = <<>>
            \/ /\ dump # <<>> /\ Len(inbox') = 1 /\ inbox'[1] # <<>>
               /\ \A u : Starts(dump, u) =>
                    Starts(inbox'[1], u) /\ (inbox'[1][1].type # "station" => Starts(dump', u))
<1>1. Len(inbox) = 1 /\ Head(inbox) = inbox[1] /\ inbox[1] \in Seq(Messages)
  BY ReceiveProps, OneDatagram DEF TypeInv, OneByOne
<1>2. \/ dump = <<>> /\ inbox' = <<>> /\ dump' = <<>>
      \/ dump # <<>> /\ Fill(dump, <<>>)
  BY <1>1, ReceiveProps
<1>3. CASE dump = <<>> /\ inbox' = <<>> /\ dump' = <<>>
  <2>1. Len(<<>>) = 0
    OBVIOUS
  <2> QED BY <1>1, <1>3, <2>1 DEF OneByOne
<1>4. CASE dump # <<>> /\ Fill(dump, <<>>)
  <2>1. <<>> \in Seq(Seq(Messages)) /\ dump \in Seq(Messages)
    BY DEF TypeInv
  <2>2. /\ Len(inbox') = 1 /\ inbox'[1] # <<>> /\ (dump' # <<>> => ~Contains(inbox'[1], Done))
        /\ \A u : Starts(dump, u) =>
             Starts(inbox'[1], u) /\ (inbox'[1][1].type # "station" => Starts(dump', u))
    BY <1>4, <2>1, FillProps
  <2>3. OneByOne'
    BY <2>2 DEF OneByOne
  <2> QED BY <1>1, <1>4, <2>2, <2>3
<1> QED BY <1>2, <1>3, <1>4

(* The strength becomes the first signal. *)
LEMMA FirstTells ==
  ASSUME TypeInv, EndIsLast(dump), Receive, OneByOne, faults' = 0, NEW t,
         Tells(inbox, dump, strength, t)
  PROVE  Tells(inbox', dump', First(Head(inbox)), t)
<1>1. PICK ms : ms = Head(inbox)
  OBVIOUS
<1>2. ms \in Seq(Messages) /\ ms = inbox[1]
  BY <1>1, ReceiveOne
<1>6. strength = None => ms # <<>> /\ Starts(ms, t) /\ (ms[1].type # "station" => Starts(dump, t))
  <2>1. inbox # <<>>
    BY ReceiveProps
  <2> QED BY <1>2, <2>1 DEF Tells
<1>7. /\ First(ms) # None => First(ms) = t
      /\ First(ms) = None => Starts(dump, t)
  <2>1. CASE strength # None
    BY <2>1 DEF Tells, First
  <2>2. CASE strength = None /\ ms[1].type = "station"
    <3>1. ms # <<>> /\ ms[1].value \in Signals /\ RSSI_TO_PERC(ms[1].value) = t
      BY <1>2, <1>6, <2>2 DEF Starts
    <3> QED BY <1>2, <2>2, <3>1, FirstProps, RssiRange
  <2>3. CASE strength = None /\ ms[1].type # "station"
    <3>1. ms # <<>> /\ Len(ms) = 1 /\ Starts(dump, t)
      BY <1>2, <1>6, <2>3 DEF Starts
    <3> QED BY <1>2, <2>3, <3>1, FirstProps
  <2> QED BY <2>1, <2>2, <2>3
<1>8. CASE dump = <<>> /\ inbox' = <<>>
  BY <1>1, <1>7, <1>8 DEF Tells
<1>9. CASE dump # <<>>
  <2>1. /\ inbox'[1] # <<>>
        /\ Starts(dump, t) => Starts(inbox'[1], t) /\ (inbox'[1][1].type # "station" => Starts(dump', t))
    BY <1>9, ReceiveOne
  <2> QED BY <1>1, <1>7, <2>1 DEF Tells
<1> QED BY <1>8, <1>9, ReceiveOne

-----------------------------------------------------------------------------
(* Steps                                                                   *)

LEMMA InitNet == Init => NetInv
<1> SUFFICES ASSUME Init PROVE NetInv
  OBVIOUS
<1>1. TypeInv
  <2>1. inbox \in Seq(Seq(Messages)) /\ stations \in [Ifaces -> Seq(Signals)]
    BY DEF Init
  <2> QED BY <2>1, NetlinkConstants DEF TypeInv, Init
<1>2. NameInv /\ WaitInv /\ Quiet
  BY DEF Init, NameInv, WaitInv, Quiet, NothingLeftOver, AnswersAsked
<1>3. EndIsLast(dump)
  <2>1. dump = <<>> /\ Len(<<>>) = 0
    BY DEF Init
  <2> QED BY <2>1 DEF EndIsLast
<1> QED BY <1>1, <1>2, <1>3 DEF NetInv

(* Once a recv has failed, the invariant is one of the types and the name. *)
LEMMA FaultsAside ==
  ASSUME TypeInv', EndIsLast(dump)', NameInv', faults' # 0
  PROVE  NetInv'
BY DEF NetInv, WaitInv, Quiet, NothingLeftOver, AnswersAsked

LEMMA ChangeKeeps == ASSUME NetInv, Change PROVE NetInv'
<1> USE DEF NetInv, Quiet
<1>1. UNCHANGED <<dump, fault, faults, inbox, sock, id, ifr, strength, at, query, ret, truth>>
  BY DEF Change, socket, memory, call
<1>2. TypeInv' /\ (stable' => stable /\ index' = index)
  <2>1. CASE Load
    BY <1>1, <2>1 DEF Load, TypeInv
  <2>2. ASSUME NEW i \in Ifaces, Plug(i)
        PROVE  TypeInv' /\ (stable' => stable /\ index' = index)
    BY <1>1, <2>2 DEF Plug, TypeInv
  <2>3. ASSUME NEW i \in Ifaces, Roam(i)
        PROVE  TypeInv' /\ (stable' => stable /\ index' = index)
    <3>1. BoundedSeq(Signals, MaxStations) \subseteq Seq(Signals)
      <4> SUFFICES ASSUME NEW m \in 0..MaxStations, NEW q \in [1..m -> Signals]
                   PROVE  q \in Seq(Signals)
        BY DEF BoundedSeq, SeqOf
      <4>1. m \in Nat
        BY NetlinkConstants
      <4> QED BY <4>1
    <3> QED BY <1>1, <2>3, <3>1 DEF Roam, TypeInv
  <2> QED BY <2>1, <2>2, <2>3 DEF Change
<1>3. NameInv'
  BY <1>1, <1>2 DEF NameInv
<1>4. WaitInv'
  BY <1>1, <1>2 DEF WaitInv, OneByOne
<1>5. Quiet'
  BY <1>1, <1>2 DEF NothingLeftOver, AnswersAsked
<1>6. EndIsLast(dump)'
  BY <1>1
<1> QED BY <1>2, <1>3, <1>4, <1>5, <1>6

LEMMA CallKeeps ==
  ASSUME NetInv, NEW f \in {"essid", "perc"}, NEW i \in Ifaces, Call(f, i) PROVE NetInv'
<1> USE DEF NetInv, Quiet, kernel, socket, memory
<1>1. TypeInv' /\ EndIsLast(dump)'
  BY DEF Call, TypeInv
<1>2. NameInv' /\ WaitInv'
  BY DEF Call, NameInv, WaitInv
<1>3. Quiet'
  BY DEF Call, NothingLeftOver, AnswersAsked
<1> QED BY <1>1, <1>2, <1>3

LEMMA AskFamilyKeeps == ASSUME NetInv, AskFamily PROVE NetInv'
<1> USE DEF NetInv, Quiet, kernel, Goto
<1>1. /\ at = "family" /\ (faults = 0 => inbox = <<>> /\ dump = <<>>)
      /\ UNCHANGED <<loaded, index, ssid, stations, given, stable, ifr, query, ret, truth>>
  BY DEF AskFamily, NothingLeftOver
<1>2. NameInv'
  BY <1>1 DEF NameInv, AskFamily
<1>3. CASE at' = "family_recv" /\ Answer(GetFamily)
  <2>1. GetFamily \in Messages
    BY MessageTypes DEF GetFamily
  <2>2. PICK d : d = <<GetFamily>>
    OBVIOUS
  <2>3. /\ inbox' \in Seq(Seq(Messages)) /\ UNCHANGED <<dump, fault, faults>>
        /\ inbox = <<>> => inbox' = <<d>>
    BY <1>3, <2>1, <2>2, AnswerProps
  <2>4. Len(<<d>>) = 1
    OBVIOUS
  <2>5. TypeInv' /\ EndIsLast(dump)'
    BY <1>1, <1>3, <2>3 DEF TypeInv
  <2>6. WaitInv'
    BY <1>1, <1>3, <2>3, <2>4 DEF WaitInv
  <2> QED BY <1>2, <1>3, <2>5, <2>6 DEF NothingLeftOver, AnswersAsked
<1>4. CASE at' = "index" /\ UNCHANGED socket
  <2>1. TypeInv' /\ EndIsLast(dump)' /\ WaitInv'
    BY <1>1, <1>4 DEF TypeInv, WaitInv, socket
  <2> QED BY <1>1, <1>2, <1>4, <2>1 DEF NothingLeftOver, AnswersAsked, socket
<1> QED BY <1>3, <1>4 DEF AskFamily

LEMMA ReceiveFamilyKeeps == ASSUME NetInv, ReceiveFamily PROVE NetInv'
<1> USE DEF NetInv, Quiet, kernel, Goto
<1>1. /\ at = "family_recv" /\ at' \in {"findattr", "index"}
      /\ UNCHANGED <<loaded, index, ssid, stations, given, stable, ifr, query, truth, ret>>
  BY DEF ReceiveFamily
<1>2. /\ inbox' \in Seq(Seq(Messages)) /\ dump' \in Seq(Messages) /\ EndIsLast(dump)'
      /\ faults' \in Nat /\ (faults' = 0 => faults = 0 /\ ~fault')
  BY ReceiveProps DEF ReceiveFamily
<1>3. TypeInv' /\ NameInv'
  BY <1>1, <1>2 DEF TypeInv, NameInv
<1>4. CASE faults' = 0
  <2>1. Len(inbox) = 1 /\ dump = <<>>
    BY <1>1, <1>2, <1>4 DEF WaitInv
  <2>2. inbox' = <<>> /\ dump' = <<>>
    BY <1>4, <2>1, ReceiveProps DEF ReceiveFamily
  <2> QED BY <1>1, <1>2, <1>3, <2>2 DEF WaitInv, NothingLeftOver, AnswersAsked
<1> QED BY <1>2, <1>3, <1>4, FaultsAside

LEMMA IfindexKeeps == ASSUME NetInv, Ifindex PROVE NetInv'
<1> USE DEF NetInv, Quiet
<1>1. PICK i \in Ifaces : i = query[2]
  BY DEF Ifindex, TypeInv
<1>2. /\ at = "index" /\ ifr' = Ifr(i)
      /\ (at' = "idle" /\ ret' = None) \/ (at' = "send" /\ query' = query)
      /\ stable' => stable /\ (Cached(i) \/ index[i] # 0)
      /\ UNCHANGED <<index, ssid, stations, given, socket>>
  BY <1>1 DEF Ifindex, Return, Goto
<1>3. /\ ifr'.name = i
      /\ ifr'.index = IF Cached(i) \/ index[i] = 0 THEN ifr.index ELSE index[i]
  BY <1>2 DEF Ifr, Cached
<1>4. TypeInv' /\ EndIsLast(dump)'
  BY <1>2 DEF TypeInv, socket
<1>5. NameInv'
  BY <1>1, <1>2, <1>3 DEF NameInv, Cached
<1>6. WaitInv' /\ Quiet'
  BY <1>2 DEF WaitInv, NothingLeftOver, AnswersAsked, socket
<1> QED BY <1>4, <1>5, <1>6

(* A call asks about the interface of its name, the only one of its index. *)
LEMMA AsksFor ==
  ASSUME NetInv, at = "send", stable
  PROVE  query[2] \in Ifaces /\ With(ifr.index) = {query[2]}
<1>1. PICK i \in Ifaces : i = query[2]
  BY DEF NetInv, TypeInv
<1>2. i # None
  BY NetlinkConstants
<1>3. /\ ifr.index = index[i] /\ ifr.index # 0
      /\ \A j \in Ifaces : index[i] = index[j] => i = j \/ index[i] = 0
  BY <1>1, <1>2 DEF NetInv, NameInv
<1> QED BY <1>1, <1>3 DEF With

LEMMA SendEssidKeeps == ASSUME NetInv, SendEssid PROVE NetInv'
<1> USE DEF NetInv, Quiet, kernel
<1>1. /\ at = "send" /\ at' = "recv" /\ truth' = Truth("essid", query[2])
      /\ query[1] = "essid" /\ (faults = 0 => inbox = <<>> /\ dump = <<>>)
      /\ UNCHANGED <<loaded, index, ssid, stations, given, stable, ifr, query>>
  BY DEF SendEssid, Asked, NothingLeftOver
<1>2. PICK m \in GetInterface(ifr.index) : Answer(m)
  BY DEF SendEssid
<1>3. m \in Messages
  BY InterfaceAnswer
<1>4. /\ inbox' \in Seq(Seq(Messages)) /\ UNCHANGED <<dump, fault, faults>>
      /\ inbox = <<>> => inbox' = << <<m>> >>
  BY <1>2, <1>3, AnswerProps
<1>5. TypeInv' /\ NameInv' /\ EndIsLast(dump)'
  BY <1>1, <1>4 DEF TypeInv, NameInv
<1>6. stable => Single(<< <<m>> >>, truth')
  BY <1>1, AsksFor, InterfaceAnswer
<1>7. Len(<< <<m>> >>) = 1
  OBVIOUS
<1>8. WaitInv'
  BY <1>1, <1>4, <1>6, <1>7 DEF WaitInv
<1> QED BY <1>1, <1>5, <1>8 DEF NothingLeftOver, AnswersAsked

LEMMA SendPercKeeps == ASSUME NetInv, SendPerc PROVE NetInv'
<1> USE DEF NetInv, Quiet, kernel
<1>1. /\ at = "send" /\ at' = "recv" /\ truth' = Truth("perc", query[2])
      /\ query[1] = "perc" /\ strength' = None /\ (faults = 0 => inbox = <<>> /\ dump = <<>>)
      /\ UNCHANGED <<loaded, index, ssid, stations, given, stable, ifr, query>>
  BY DEF SendPerc, Asked, Emptied, NothingLeftOver
<1>2. /\ inbox' \in Seq(Seq(Messages)) /\ dump' \in Seq(Messages) /\ EndIsLast(dump)'
      /\ UNCHANGED <<fault, faults>>
  BY StationAnswer DEF SendPerc
<1>3. TypeInv' /\ NameInv'
  BY <1>1, <1>2 DEF TypeInv, NameInv
<1>4. faults = 0 => OneByOne'
  BY <1>1, StationAnswer DEF SendPerc
<1>5. faults = 0 /\ stable => Tells(inbox', dump', None, Truth("perc", query[2]))
  BY <1>1, AsksFor, StationAnswer DEF SendPerc
<1>6. WaitInv'
  BY <1>1, <1>2, <1>4, <1>5 DEF WaitInv
<1> QED BY <1>1, <1>2, <1>3, <1>6 DEF NothingLeftOver, AnswersAsked

(* A send or a recv that fails ends the call with no answer. *)
LEMMA FailsKeeps == ASSUME NetInv, SendFails \/ ReceiveFails PROVE NetInv'
<1> USE DEF NetInv, Quiet, kernel, memory, Return
<1>1. CASE SendFails
  BY <1>1 DEF SendFails, TypeInv, NameInv, WaitInv, NothingLeftOver, AnswersAsked, socket
<1>2. CASE ReceiveFails
  <2>1. faults' # 0 /\ TypeInv'
    BY <1>2 DEF ReceiveFails, TypeInv
  <2>2. NameInv' /\ EndIsLast(dump)'
    BY <1>2 DEF ReceiveFails, NameInv
  <2> QED BY <2>1, <2>2, FaultsAside
<1> QED BY <1>1, <1>2

LEMMA ReceiveEssidKeeps == ASSUME NetInv, ReceiveEssid PROVE NetInv'
<1> USE DEF NetInv, Quiet, kernel, memory, Return
<1>1. /\ at = "recv" /\ at' = "idle" /\ query[1] = "essid" /\ Receive
      /\ UNCHANGED <<loaded, index, ssid, stations, given, stable, ifr, truth>>
  BY DEF ReceiveEssid
<1>2. /\ inbox' \in Seq(Seq(Messages)) /\ dump' \in Seq(Messages) /\ EndIsLast(dump)'
      /\ faults' \in Nat /\ (faults' = 0 => faults = 0 /\ ~fault')
  BY <1>1, ReceiveProps
<1>3. TypeInv' /\ NameInv'
  BY <1>1, <1>2 DEF TypeInv, NameInv
<1>4. CASE faults' = 0
  <2>1. Len(inbox) = 1 /\ dump = <<>> /\ (stable => Single(inbox, truth))
    BY <1>1, <1>2, <1>4 DEF WaitInv
  <2>2. inbox' = <<>> /\ dump' = <<>>
    BY <1>1, <1>4, <2>1, ReceiveProps
  <2>3. Head(inbox) = inbox[1]
    BY <2>1 DEF TypeInv
  <2>4. stable /\ ret' # None => ret' = truth
    BY <2>1, <2>3 DEF ReceiveEssid, Single
  <2> QED BY <1>1, <1>2, <1>3, <2>2, <2>4 DEF WaitInv, NothingLeftOver, AnswersAsked
<1> QED BY <1>2, <1>3, <1>4, FaultsAside

LEMMA ReceivePercKeeps == ASSUME NetInv, ReceivePerc PROVE NetInv'
<1> USE DEF NetInv, Quiet, kernel
<1>1. /\ at = "recv" /\ query[1] = "perc" /\ Receive /\ strength' = First(Head(inbox))
      /\ UNCHANGED <<loaded, index, ssid, stations, given, stable, ifr, truth>>
      /\ \/ Ends(Head(inbox)) /\ at' = "idle" /\ ret' = strength' /\ query' = NoQuery
         \/ ~Ends(Head(inbox)) /\ UNCHANGED <<at, query, ret>>
  BY DEF ReceivePerc, Return, call
<1>2. /\ inbox' \in Seq(Seq(Messages)) /\ dump' \in Seq(Messages) /\ EndIsLast(dump)'
      /\ faults' \in Nat /\ (faults' = 0 => faults = 0 /\ ~fault') /\ inbox # <<>>
  BY <1>1, ReceiveProps
<1>3. TypeInv'
  BY <1>1, <1>2 DEF TypeInv
<1>4. NameInv'
  BY <1>1 DEF NameInv
<1>5. CASE faults' = 0
  <2>1. OneByOne /\ (stable => Tells(inbox, dump, strength, truth))
    BY <1>1, <1>2, <1>5 DEF WaitInv
  <2>2. OneByOne'
    BY <1>1, <1>5, <2>1, ReceiveOne
  <2>3. stable => Tells(inbox', dump', strength', truth)
    BY <1>1, <1>5, <2>1, FirstTells
  <2>4. CASE Ends(Head(inbox)) /\ at' = "idle" /\ ret' = strength' /\ query' = NoQuery
    <3>1. Len(inbox) = 1 /\ Head(inbox) = inbox[1]
      BY <2>1, <1>2, OneDatagram DEF TypeInv, OneByOne
    <3>2. dump = <<>>
      BY <2>1, <2>4, <3>1 DEF OneByOne, Ends
    <3>3. inbox' = <<>> /\ dump' = <<>>
      BY <1>1, <1>5, <3>1, <3>2, ReceiveProps
    <3>4. stable /\ ret' # None => ret' = truth
      BY <2>3, <2>4 DEF Tells
    <3> QED BY <1>1, <1>2, <1>3, <1>4, <2>4, <3>3, <3>4 DEF WaitInv, NothingLeftOver, AnswersAsked
  <2>5. CASE UNCHANGED <<at, query, ret>>
    BY <1>1, <1>2, <1>3, <1>4, <2>2, <2>3, <2>5 DEF WaitInv, NothingLeftOver, AnswersAsked
  <2> QED BY <1>1, <2>4, <2>5
<1> QED BY <1>2, <1>3, <1>4, <1>5, FaultsAside

LEMMA NextNet == NetInv /\ [Next]_vars => NetInv'
<1> SUFFICES ASSUME NetInv, [Next]_vars PROVE NetInv'
  OBVIOUS
<1>1. CASE Interrupt
  <2> USE <1>1 DEF Interrupt, Return, kernel, socket, memory, NetInv, Quiet
  <2>1. TypeInv' /\ EndIsLast(dump)' /\ NameInv'
    BY DEF TypeInv, NameInv
  <2>2. CASE faults = 0
    <3>1. query[1] = "perc" /\ OneByOne
      BY <2>2, EmptyIsShort DEF WaitInv, TypeInv
    <3>2. inbox = <<>> /\ dump = <<>>
      BY <3>1 DEF OneByOne
    <3> QED BY <2>1, <3>2 DEF WaitInv, NothingLeftOver, AnswersAsked
  <2>3. CASE faults # 0
    BY <2>1, <2>3, FaultsAside
  <2> QED BY <2>2, <2>3
<1>2. CASE UNCHANGED vars
  BY <1>2 DEF vars, kernel, socket, memory, call, NetInv, Quiet, TypeInv, NameInv, WaitInv, OneByOne,
              NothingLeftOver, AnswersAsked
<1>3. CASE Main
  BY <1>3, AskFamilyKeeps, ReceiveFamilyKeeps, IfindexKeeps, SendEssidKeeps, SendPercKeeps,
     FailsKeeps, ReceiveEssidKeeps, ReceivePercKeeps DEF Main
<1> QED BY <1>1, <1>2, <1>3, ChangeKeeps, CallKeeps DEF Next, Findattr, Full

(* wifi_essid and wifi_perc: as long as no recv failed, a call that returned
   has left nothing of a reply behind, wherever the kernel cuts a dump and
   whenever a send fails or a signal ends a recv. *)
THEOREM NoReplyLeft == Spec => []NothingLeftOver
<1>1. NetInv => NothingLeftOver
  BY DEF NetInv, Quiet
<1> QED BY <1>1, InitNet, NextNet, PTL DEF Spec

(* wifi_essid and wifi_perc: an answer is the kernel's of the interface that
   was asked about, as long as no ioctl or recv failed and no index changed. *)
THEOREM OwnAnswer == Spec => []AnswersAsked
<1>1. NetInv => AnswersAsked
  BY DEF NetInv, Quiet
<1> QED BY <1>1, InitNet, NextNet, PTL DEF Spec
=============================================================================
