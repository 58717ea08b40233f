---------------------------- MODULE ReadersProofs ----------------------------
(***************************************************************************)
(* Theorems about netspeeds.c, cpu.c, volume.c and the sleep of main, for  *)
(* any interfaces, any width of a counter, any controls of the audio       *)
(* server, any interval and any number of changes between two calls.       *)
(***************************************************************************)
EXTENDS Readers, Sequences, SequenceTheorems, FiniteSetTheorems, TLAPS

LoopProofs == INSTANCE ClockProofs

-----------------------------------------------------------------------------
(* Arithmetic                                                              *)

LEMMA Modulus ==
  ASSUME NEW W \in Nat \ {0}, NEW x \in Int
  PROVE  x % W \in 0..W - 1 /\ x \div W \in Int /\ x = (x \div W) * W + (x % W)
OBVIOUS

LEMMA SmallMultiple ==
  ASSUME NEW W \in Nat \ {0}, NEW m \in Int, m * W < W, -W < m * W
  PROVE  m = 0
<1>1. m >= 1 => (m - 1) * W >= 0
  OBVIOUS
<1>2. m <= -1 => (-1 - m) * W >= 0
  OBVIOUS
<1>3. (m - 1) * W = m * W - W /\ (-1 - m) * W = -W - m * W /\ m * W \in Int
  OBVIOUS
<1> QED BY <1>1, <1>2, <1>3

(* Whole turns of a counter do not show. *)
LEMMA Turns ==
  ASSUME NEW W \in Nat \ {0}, NEW x \in Int, NEW k \in Int
  PROVE  (x + k * W) % W = x % W
<1> PICK y \in Int : y = x + k * W
  OBVIOUS
<1> PICK q, r : q = x \div W /\ r = x % W
  OBVIOUS
<1> PICK p, s : p = y \div W /\ s = y % W
  OBVIOUS
<1>1. /\ q \in Int /\ r \in 0..W - 1 /\ x = q * W + r
      /\ p \in Int /\ s \in 0..W - 1 /\ y = p * W + s
  BY Modulus
<1>2. PICK m \in Int : m = q + k - p
  BY <1>1
<1>3. m * W = q * W + k * W - p * W
  BY <1>1, <1>2
<1>4. m * W = s - r
  BY <1>1, <1>3
<1>5. m = 0
  BY <1>1, <1>4, SmallMultiple
<1>6. s = r
  BY <1>1, <1>4, <1>5
<1> QED BY <1>6

(* A part of a whole in percent *)
LEMMA PercentOfPart ==
  ASSUME NEW s \in Nat \ {0}, NEW u \in 0..s
  PROVE  (100 * u) \div s \in 0..100
<1> PICK x \in Int : x = 100 * u
  OBVIOUS
<1> PICK q, r : q = x \div s /\ r = x % s
  OBVIOUS
<1>1. q \in Int /\ r \in 0..s - 1 /\ 100 * u = q * s + r
  BY Modulus
<1>2. q >= 101 => (q - 101) * s >= 0
  BY <1>1
<1>3. q <= -1 => (-1 - q) * s >= 0
  BY <1>1
<1>4. (q - 101) * s = q * s - 101 * s /\ (-1 - q) * s = -s - q * s /\ q * s \in Int
  BY <1>1
<1> QED BY <1>1, <1>2, <1>3, <1>4

-----------------------------------------------------------------------------
(* Bytes                                                                   *)

(* What has been reported differs from what was counted by whole turns. *)
Level(d) == \E k \in Int : reported[d] = old[d] - from[d] + k * Wrap

BytesInv ==
  /\ bytes \in [Directions -> [Ifaces -> 0..Wrap - 1]] /\ old \in [Directions -> 0..Wrap - 1]
  /\ from \in [Directions -> Int] /\ reported \in [Directions -> Int]
  /\ asked \in [Directions -> SUBSET Ifaces]
  /\ \A d \in Directions : asked[d] = {} => old[d] = 0
  /\ \A d \in Directions, i \in Ifaces : asked[d] = {i} /\ ~restarted /\ old[d] # 0 => Level(d)

LEMMA NetspeedKeeps ==
  ASSUME BytesInv, NEW d \in Directions, NEW i \in Ifaces, Counters!Netspeed(d, i)
  PROVE  BytesInv'
<1> PICK result, remembered, alone :
      /\ result = Counters!Difference(d, i) /\ remembered = Counters!Remembered(d, i)
      /\ alone = (asked[d] \subseteq {i} /\ ~restarted)
  OBVIOUS
<1>1. /\ bytes' = bytes /\ restarted' = restarted
      /\ old' = [old EXCEPT ![d] = remembered]
      /\ asked' = [asked EXCEPT ![d] = asked[d] \cup {i}]
      /\ from' = [from EXCEPT ![d] = IF alone /\ old[d] = 0 THEN remembered - reported[d] ELSE from[d]]
      /\ reported' = [reported EXCEPT ![d] = IF alone /\ result # None THEN reported[d] + result
                                             ELSE reported[d]]
  <2>1. old' = [old EXCEPT ![d] = remembered] /\ old'[d] = remembered
    BY DEF Counters!Netspeed, BytesInv
  <2> QED BY <2>1 DEF Counters!Netspeed, Counters!counters
<1>2. Wrap \in Nat \ {0} /\ None \notin 0..Wrap - 1
  BY ReadersConstants
<1>3. remembered \in 0..Wrap - 1
  BY <1>2 DEF BytesInv, Counters!Remembered
<1>4. result \in {None} \cup 0..Wrap - 1
  <2> PICK x \in Int : x = bytes[d][i] - old[d]
    BY DEF BytesInv
  <2>1. x % Wrap \in 0..Wrap - 1
    BY <1>2, Modulus
  <2> QED BY <2>1 DEF Counters!Difference
<1>5. /\ old' \in [Directions -> 0..Wrap - 1] /\ from' \in [Directions -> Int]
      /\ reported' \in [Directions -> Int] /\ asked' \in [Directions -> SUBSET Ifaces]
  BY <1>1, <1>3, <1>4 DEF BytesInv
<1>6. /\ old'[d] = remembered /\ asked'[d] = asked[d] \cup {i}
      /\ from'[d] = IF alone /\ old[d] = 0 THEN remembered - reported[d] ELSE from[d]
      /\ reported'[d] = IF alone /\ result # None THEN reported[d] + result ELSE reported[d]
      /\ \A e \in Directions \ {d} : /\ old'[e] = old[e] /\ asked'[e] = asked[e]
                                     /\ from'[e] = from[e] /\ reported'[e] = reported[e]
  BY <1>1 DEF BytesInv
<1>7. ASSUME alone, remembered # 0 PROVE Level(d)'
  <2>1. old[d] \in Int /\ from[d] \in Int /\ reported[d] \in Int
    BY DEF BytesInv
  <2>2. CASE old[d] = 0
    <3>1. result = None
      BY <2>2 DEF Counters!Difference
    <3>2. reported'[d] = old'[d] - from'[d] + 0 * Wrap
      BY <1>2, <1>3, <1>6, <1>7, <2>1, <2>2, <3>1
    <3> QED BY <3>2 DEF Level
  <2>3. CASE old[d] # 0
    <3>1. asked[d] = {i} /\ ~restarted
      BY <1>7, <2>3 DEF BytesInv
    <3>2. PICK k \in Int : reported[d] = old[d] - from[d] + k * Wrap
      BY <2>3, <3>1 DEF BytesInv, Level
    <3>3. CASE i \in present
      <4>1. PICK b \in 0..Wrap - 1 : b = bytes[d][i] /\ remembered = b
        BY <3>3 DEF BytesInv, Counters!Remembered
      <4>2. PICK x \in Int : x = b - old[d] /\ result = x % Wrap
        BY <2>1, <2>3, <3>3, <4>1 DEF Counters!Difference
      <4>3. PICK j \in Int : b - old[d] = j * Wrap + result
        BY <1>2, <4>2, Modulus
      <4>4. result \in Int /\ result # None
        BY <1>2, <4>2, Modulus
      <4>5. reported'[d] = reported[d] + result /\ old'[d] = b /\ from'[d] = from[d]
        BY <1>6, <1>7, <2>3, <4>1, <4>4
      <4>6. (k - j) * Wrap = k * Wrap - j * Wrap
        BY <1>2
      <4>7. reported'[d] = old'[d] - from'[d] + (k - j) * Wrap
        BY <1>2, <2>1, <3>2, <4>1, <4>3, <4>4, <4>5, <4>6
      <4> QED BY <4>7 DEF Level
    <3>4. CASE i \notin present
      <4>1. result = None /\ remembered = old[d]
        BY <1>7, <3>4 DEF Counters!Difference, Counters!Remembered
      <4> QED BY <1>6, <2>3, <3>2, <4>1 DEF Level
    <3> QED BY <3>3, <3>4
  <2> QED BY <2>2, <2>3
<1>8. ASSUME NEW e \in Directions, NEW j \in Ifaces, asked'[e] = {j}, ~restarted', old'[e] # 0
      PROVE  Level(e)'
  <2>1. CASE e = d
    <3>1. alone
      BY <1>1, <1>6, <1>8, <2>1
    <3> QED BY <1>6, <1>7, <1>8, <2>1, <3>1 DEF Level
  <2>2. CASE e # d
    BY <1>1, <1>6, <1>8, <2>2 DEF Level, BytesInv
  <2> QED BY <2>1, <2>2
<1>9. \A e \in Directions : asked'[e] = {} => old'[e] = 0
  BY <1>6 DEF BytesInv
<1> QED BY <1>1, <1>5, <1>8, <1>9 DEF BytesInv

LEMMA NetspeedFailsKeeps ==
  ASSUME BytesInv, NEW d \in Directions, NEW i \in Ifaces, Counters!NetspeedFails(d, i)
  PROVE  BytesInv'
<1>1. /\ asked' = [asked EXCEPT ![d] = asked[d] \cup {i}]
      /\ UNCHANGED <<bytes, restarted, old, from, reported>>
  BY DEF Counters!NetspeedFails, Counters!counters
<1>2. asked' \in [Directions -> SUBSET Ifaces]
  BY <1>1 DEF BytesInv
<1>3. ASSUME NEW e \in Directions, NEW j \in Ifaces, asked'[e] = {j}, ~restarted', old'[e] # 0
      PROVE  Level(e)'
  <2>1. asked[e] = {j}
    BY <1>1, <1>3 DEF BytesInv
  <2> QED BY <1>1, <1>3, <2>1 DEF BytesInv, Level
<1>4. \A e \in Directions : asked'[e] = {} => old'[e] = 0
  BY <1>1 DEF BytesInv
<1> QED BY <1>1, <1>2, <1>3, <1>4 DEF BytesInv

LEMMA NetChangeKeeps ==
  ASSUME BytesInv, Counters!NetChange
  PROVE  BytesInv'
<1>1. UNCHANGED <<old, asked, from, reported>>
  BY DEF Counters!NetChange, Counters!speeds
<1>2. Wrap \in Nat \ {0}
  BY ReadersConstants
<1>3. ASSUME NEW d \in Directions, NEW i \in Ifaces, Counters!Traffic(d, i)
      PROVE  bytes' \in [Directions -> [Ifaces -> 0..Wrap - 1]] /\ restarted' = restarted
  <2>1. bytes[d][i] \in Int
    BY DEF BytesInv
  <2>2. PICK x \in Int : x = bytes[d][i] + 1
    BY <2>1
  <2>3. x % Wrap \in 0..Wrap - 1
    BY <1>2, Modulus
  <2> QED BY <1>3, <2>2, <2>3 DEF Counters!Traffic, BytesInv
<1>4. ASSUME NEW i \in Ifaces, Counters!Plug(i)
      PROVE  bytes' \in [Directions -> [Ifaces -> 0..Wrap - 1]] /\ (~restarted' => ~restarted)
  <2>1. \A d \in Directions : bytes[d] \in [Ifaces -> 0..Wrap - 1]
    BY DEF BytesInv
  <2>2. 0 \in 0..Wrap - 1
    BY <1>2
  <2>3. \A d \in Directions : \A v \in 0..Wrap - 1 : [bytes[d] EXCEPT ![i] = v] \in [Ifaces -> 0..Wrap - 1]
    BY <2>1
  <2>4. ASSUME NEW d \in Directions
        PROVE  [bytes[d] EXCEPT ![i] = IF i \in present THEN bytes[d][i] ELSE 0] \in [Ifaces -> 0..Wrap - 1]
    <3>1. bytes[d][i] \in 0..Wrap - 1
      BY <2>1
    <3>2. PICK v \in 0..Wrap - 1 : v = IF i \in present THEN bytes[d][i] ELSE 0
      BY <2>2, <3>1
    <3> QED BY <2>3, <3>2
  <2>5. bytes' = [d \in Directions |-> [bytes[d] EXCEPT ![i] = IF i \in present THEN bytes[d][i] ELSE 0]]
    BY <1>4 DEF Counters!Plug
  <2>6. bytes' \in [Directions -> [Ifaces -> 0..Wrap - 1]]
    BY <2>4, <2>5
  <2>7. ~restarted' => ~restarted
    BY <1>4, Zenon DEF Counters!Plug
  <2> QED BY <2>6, <2>7
<1>5. bytes' \in [Directions -> [Ifaces -> 0..Wrap - 1]] /\ (~restarted' => ~restarted)
  BY <1>3, <1>4 DEF Counters!NetChange
<1>6. \A d \in Directions : Level(d)' <=> Level(d)
  BY <1>1 DEF Level
<1> QED BY <1>1, <1>5, <1>6 DEF BytesInv

-----------------------------------------------------------------------------
(* The CPU                                                                 *)

Field == {"user", "idle", "iowait"}

(* No field of a sample is later than the kernel's counter. *)
CpuInv ==
  /\ ticks \in [Field -> Nat] /\ a \in [Field -> Nat] /\ \A f \in Field : a[f] <= ticks[f]
  /\ PercentInRange

LEMMA FieldIs == Counters!Field = Field
<1>1. DOMAIN <<"user", "idle", "iowait">> = {1, 2, 3}
  OBVIOUS
<1> QED BY <1>1 DEF Counters!Field, Counters!Fields, Field

LEMMA CpuKeeps ==
  ASSUME CpuInv, Counters!CpuNext
  PROVE  CpuInv'
<1>1. CASE Counters!CpuChange
  <2>1. PICK f \in Field : ticks' = [ticks EXCEPT ![f] = ticks[f] + 1]
    BY <1>1, FieldIs DEF Counters!CpuChange
  <2>2. UNCHANGED <<a, perc>>
    BY <1>1 DEF Counters!CpuChange, Counters!cpu
  <2> QED BY <2>1, <2>2 DEF CpuInv, PercentInRange, Counters!PercentInRange
<1>2. ASSUME NEW n, Counters!Cpu(n)
      PROVE  CpuInv'
  <2>1. /\ ticks' = ticks
        /\ a' = [f \in Field |-> IF \E k \in 1..n : Counters!Fields[k] = f THEN ticks[f] ELSE a[f]]
        /\ perc' = None \/ perc' = Counters!Percent(ticks, a)
    BY <1>2, FieldIs DEF Counters!Cpu, Counters!Read, Counters!counters
  <2>2. a' \in [Field -> Nat] /\ \A f \in Field : a'[f] <= ticks[f]
    BY <2>1 DEF CpuInv
  <2>3. Counters!Percent(ticks, a) \in {None} \cup 0..100
    <3>1. /\ \A f \in Field : ticks[f] \in Nat /\ a[f] \in Nat /\ a[f] <= ticks[f]
          /\ "user" \in Field /\ "idle" \in Field /\ "iowait" \in Field
      BY DEF CpuInv, Field
    <3>2. PICK s, u : /\ s = Counters!Total(ticks) - Counters!Total(a)
                      /\ u = Counters!Used(ticks) - Counters!Used(a)
      OBVIOUS
    <3>3. s \in Nat /\ u \in 0..s
      BY <3>1, <3>2 DEF Counters!Total, Counters!Used
    <3>4. s # 0 => (100 * u) \div s \in 0..100
      BY <3>3, PercentOfPart
    <3> QED BY <3>2, <3>4 DEF Counters!Percent
  <2> QED BY <2>1, <2>2, <2>3 DEF CpuInv, PercentInRange, Counters!PercentInRange
<1> QED BY <1>1, <1>2 DEF Counters!CpuNext

-----------------------------------------------------------------------------
(* The audio server: what the list and the messages in front of it say.    *)

Message ==
  [t : {"desc"}, addr : Addrs, desc : Mixer!Controls \cup {None}]
    \cup [t : {"val"}, addr : Addrs, val : {0, 1, MaxVal}]

Entry == [addr : Addrs, type : {"level", "mute"}, val : {0, 1, MaxVal}]

Kinds == {"level", "mute", "none"}

(* As what ondesc lists a control. *)
Kind(r) == IF r # None /\ r.type # "other" THEN r.type ELSE "none"

ListedAs(cs, x, k) ==
  IF k = "none" THEN \A n \in DOMAIN cs : cs[n].addr # x
  ELSE \E n \in DOMAIN cs : cs[n].addr = x /\ cs[n].type = k

Describes(m, x) == m.t = "desc" /\ m.addr = x

(* As what it is listed when the first n messages are handled. *)
Told(box, cs, x, n, k) ==
  \/ \E j \in 1..n : /\ Describes(box[j], x) /\ Kind(box[j].desc) = k
                     /\ \A i \in j + 1..n : ~Describes(box[i], x)
  \/ (\A j \in 1..n : ~Describes(box[j], x)) /\ ListedAs(cs, x, k)

Says(m, x, v) ==
  m.addr = x /\ \/ m.t = "desc" /\ m.desc # None /\ m.desc.val = v
                \/ m.t = "val" /\ m.val = v

Valid(cs, x, v) == \A n \in DOMAIN cs : cs[n].addr = x => cs[n].val = v

(* With which value it is listed, if at all, when all are handled. *)
Valued(box, cs, x, v) ==
  \/ \E j \in DOMAIN box : /\ Says(box[j], x, v)
                           /\ \A i \in DOMAIN box : i > j => box[i].addr # x
  \/ /\ \A j \in DOMAIN box : box[j].addr # x
     /\ Valid(cs, x, v)

Once(cs) == \A i, j \in DOMAIN cs : cs[i].addr = cs[j].addr => i = j

(* The list from cs to after, by the message m. *)
Handles(m, cs, after) ==
  /\ after \in Seq(Entry) /\ Once(after)
  /\ \A x \in Addrs, k \in Kinds : ListedAs(cs, x, k) /\ ~Describes(m, x) => ListedAs(after, x, k)
  /\ m.t = "desc" => ListedAs(after, m.addr, Kind(m.desc))
  /\ \A x \in Addrs \ {m.addr} : \A v : Valid(cs, x, v) => Valid(after, x, v)
  /\ \A v : Says(m, m.addr, v) => Valid(after, m.addr, v)

MixerTypes ==
  /\ control \in [Addrs -> Mixer!Controls \cup {None}] /\ inbox \in Seq(Message)
  /\ hup \in BOOLEAN /\ foreign \in BOOLEAN /\ initialized \in BOOLEAN
  /\ controls \in Seq(Entry) /\ Once(controls)
  /\ doing \in {"idle", "revents", "value", "crashed"}
  /\ c \in Nat \ {0} /\ value \in Nat
  /\ ~initialized => controls = <<>> /\ inbox = <<>> /\ ~hup /\ doing = "idle"

(* When all messages are handled, the list is the server's. *)
ListFollows ==
  initialized /\ ~hup /\ doing # "crashed" =>
    \A x \in Addrs : /\ Told(inbox, controls, x, Len(inbox), Kind(control[x]))
                     /\ control[x] # None => Valued(inbox, controls, x, control[x].val)

(* A value comes when the control is listed. *)
ValuesListed ==
  ~foreign =>
    /\ doing # "crashed"
    /\ \A n \in DOMAIN inbox :
         inbox[n].t = "val" => \E k \in {"level", "mute"} : Told(inbox, controls, inbox[n].addr, n - 1, k)

Mutes(e) == e.type = "mute" /\ e.val = 1

(* v is the sum over the first n controls. *)
Weighed(n, v) ==
  /\ v \in 0..100
  /\ \A i \in 1..n : /\ Mutes(controls[i]) => v = 0
                     /\ controls[i].type = "level" => v <= Mixer!Percent(controls[i].val)
  /\ \/ v = 100
     \/ \E i \in 1..n : \/ Mutes(controls[i]) /\ v = 0
                        \/ controls[i].type = "level" /\ v = Mixer!Percent(controls[i].val)

SumInv ==
  /\ doing = "value" => c - 1 <= Len(controls) /\ Weighed(c - 1, value)
  /\ doing = "idle" /\ initialized => Weighed(Len(controls), volume)

MixerInv == MixerTypes /\ ListFollows /\ ValuesListed /\ SumInv

LEMMA QuotientIsNat ==
  ASSUME NEW W \in Nat \ {0}, NEW x \in Nat
  PROVE  x \div W \in Nat
<1> PICK q, r : q = x \div W /\ r = x % W
  OBVIOUS
<1>1. q \in Int /\ r \in 0..W - 1 /\ x = q * W + r
  BY Modulus
<1>2. q <= -1 => (-1 - q) * W >= 0
  BY <1>1
<1>3. (-1 - q) * W = -W - q * W /\ q * W \in Int
  BY <1>1
<1> QED BY <1>1, <1>2, <1>3

LEMMA PercentIsNat ==
  ASSUME NEW v \in Nat
  PROVE  Mixer!Percent(v) \in Nat
<1>1. MaxVal \in Nat \ {0}
  BY ReadersConstants
<1>2. MaxVal \div 2 \in Nat
  BY <1>1, QuotientIsNat
<1>3. v * 100 + MaxVal \div 2 \in Nat
  BY <1>2
<1> QED BY <1>1, <1>3, QuotientIsNat DEF Mixer!Percent

LEMMA OthersStay ==
  ASSUME NEW cs \in Seq(Entry), Once(cs), NEW x
  PROVE  LET rest == Mixer!Others(x, cs)
         IN  /\ rest \in Seq(Entry) /\ Once(rest)
             /\ \A i \in DOMAIN rest : rest[i].addr # x /\ \E n \in DOMAIN cs : cs[n] = rest[i]
             /\ \A n \in DOMAIN cs : cs[n].addr # x => \E i \in DOMAIN rest : rest[i] = cs[n]
<1> PICK rest : rest = Mixer!Others(x, cs)
  OBVIOUS
<1>1. CASE Mixer!At(x, cs) = {}
  <2>1. rest = cs /\ \A n \in DOMAIN cs : cs[n].addr # x
    BY <1>1 DEF Mixer!Others, Mixer!At
  <2> QED BY <2>1
<1>2. CASE Mixer!At(x, cs) # {}
  <2>1. PICK p \in DOMAIN cs : cs[p].addr = x
    BY <1>2 DEF Mixer!At
  <2>2. p \in 1..Len(cs) /\ DOMAIN cs = 1..Len(cs) /\ Len(cs) \in Nat
    OBVIOUS
  <2>3. Mixer!At(x, cs) = {p}
    BY <2>1 DEF Mixer!At, Once
  <2>4. p = CHOOSE n \in Mixer!At(x, cs) : \A k \in Mixer!At(x, cs) : n <= k
    BY <2>2, <2>3
  <2>5. rest = SubSeq(cs, 1, p - 1) \o SubSeq(cs, p + 1, Len(cs))
    BY <1>2, <2>4, Zenon DEF Mixer!Others, Mixer!RemoveAt
  <2> PICK front, back : front = SubSeq(cs, 1, p - 1) /\ back = SubSeq(cs, p + 1, Len(cs))
    OBVIOUS
  <2>6. /\ front \in Seq(Entry) /\ Len(front) = p - 1 /\ \A i \in 1..p - 1 : front[i] = cs[i]
        /\ back \in Seq(Entry) /\ Len(back) = Len(cs) - p /\ \A i \in 1..Len(cs) - p : back[i] = cs[p + i]
    <3>1. /\ front \in Seq(Entry) /\ Len(front) = IF 1 <= p - 1 THEN p - 1 - 1 + 1 ELSE 0
          /\ \A i \in 1..p - 1 - 1 + 1 : front[i] = cs[1 + i - 1]
      <4>1. 1 \in Int /\ p - 1 \in Int /\ \A i \in 1..p - 1 : cs[i] \in Entry
        BY <2>2
      <4> QED BY <4>1, SubSeqProperties
    <3>2. /\ back \in Seq(Entry) /\ Len(back) = IF p + 1 <= Len(cs) THEN Len(cs) - (p + 1) + 1 ELSE 0
          /\ \A i \in 1..Len(cs) - (p + 1) + 1 : back[i] = cs[p + 1 + i - 1]
      <4>1. p + 1 \in Int /\ Len(cs) \in Int /\ \A i \in p + 1..Len(cs) : cs[i] \in Entry
        BY <2>2
      <4> QED BY <4>1, SubSeqProperties
    <3>3. \A i \in 1..p - 1 : front[i] = cs[i]
      BY <2>2, <3>1
    <3>4. \A i \in 1..Len(cs) - p : back[i] = cs[p + i]
      BY <2>2, <3>2
    <3> QED BY <2>2, <3>1, <3>2, <3>3, <3>4
  <2>7. /\ rest \in Seq(Entry) /\ DOMAIN rest = 1..Len(cs) - 1
        /\ \A i \in 1..Len(cs) - 1 : rest[i] = IF i < p THEN cs[i] ELSE cs[i + 1]
    <3>1. rest = front \o back
      BY <2>5
    <3>2. /\ rest \in Seq(Entry) /\ Len(rest) = p - 1 + (Len(cs) - p)
          /\ \A i \in 1..p - 1 + (Len(cs) - p) : rest[i] = IF i <= p - 1 THEN front[i] ELSE back[i - (p - 1)]
      <4>1. front \in Seq(Entry) /\ back \in Seq(Entry)
        BY <2>6
      <4>2. /\ front \o back \in Seq(Entry) /\ Len(front \o back) = Len(front) + Len(back)
            /\ \A i \in 1..Len(front) + Len(back) :
                 (front \o back)[i] = IF i <= Len(front) THEN front[i] ELSE back[i - Len(front)]
        BY <4>1, ConcatProperties
      <4>3. Len(front) = p - 1 /\ Len(back) = Len(cs) - p
        BY <2>6
      <4> QED BY <3>1, <4>2, <4>3
    <3>3. DOMAIN rest = 1..Len(cs) - 1
      BY <2>2, <3>2
    <3>4. ASSUME NEW i \in 1..Len(cs) - 1
          PROVE  rest[i] = IF i < p THEN cs[i] ELSE cs[i + 1]
      <4>1. CASE i < p
        <5>1. i \in 1..p - 1 /\ rest[i] = front[i]
          BY <2>2, <3>2, <4>1
        <5> QED BY <2>6, <4>1, <5>1
      <4>2. CASE i >= p
        <5> PICK d : d = i - (p - 1)
          OBVIOUS
        <5>1. rest[i] = back[d]
          BY <2>2, <3>2, <4>2
        <5>2. d \in 1..Len(cs) - p /\ p + d = i + 1 /\ ~(i < p)
          BY <2>2, <4>2
        <5>3. back[d] = cs[p + d]
          BY <2>6, <5>2
        <5> QED BY <5>1, <5>2, <5>3
      <4> QED BY <2>2, <4>1, <4>2
    <3> QED BY <3>2, <3>3, <3>4
  <2>8. \A i \in DOMAIN rest :
          /\ rest[i].addr # x
          /\ \E k \in DOMAIN cs : cs[k] = rest[i] /\ k = IF i < p THEN i ELSE i + 1
    <3> SUFFICES ASSUME NEW i \in DOMAIN rest
                 PROVE  /\ rest[i].addr # x
                        /\ \E k \in DOMAIN cs : cs[k] = rest[i] /\ k = IF i < p THEN i ELSE i + 1
      OBVIOUS
    <3> PICK k : k = IF i < p THEN i ELSE i + 1
      OBVIOUS
    <3>1. k \in DOMAIN cs /\ k # p /\ cs[k] = rest[i]
      BY <2>2, <2>7
    <3>2. cs[k].addr # x
      BY <2>1, <3>1 DEF Once
    <3> QED BY <3>1, <3>2
  <2>9. Once(rest)
    <3> SUFFICES ASSUME NEW i \in DOMAIN rest, NEW j \in DOMAIN rest, rest[i].addr = rest[j].addr
                 PROVE  i = j
      BY DEF Once
    <3>1. PICK k \in DOMAIN cs : cs[k] = rest[i] /\ k = IF i < p THEN i ELSE i + 1
      BY <2>8
    <3>2. PICK l \in DOMAIN cs : cs[l] = rest[j] /\ l = IF j < p THEN j ELSE j + 1
      BY <2>8
    <3>3. k = l
      BY <3>1, <3>2 DEF Once
    <3>4. i \in Int /\ j \in Int /\ p \in Int
      BY <2>2, <2>7
    <3>5. (IF i < p THEN i ELSE i + 1) = IF j < p THEN j ELSE j + 1
      BY <3>1, <3>2, <3>3
    <3> QED BY <3>4, <3>5
  <2>10. ASSUME NEW k \in DOMAIN cs, cs[k].addr # x
         PROVE  \E i \in DOMAIN rest : rest[i] = cs[k]
    <3>1. k # p
      BY <2>1, <2>10
    <3>2. CASE k < p
      <4>1. k \in DOMAIN rest /\ rest[k] = cs[k]
        BY <2>2, <2>7, <3>2
      <4> QED BY <4>1
    <3>3. CASE k > p
      <4>1. k - 1 \in DOMAIN rest /\ rest[k - 1] = cs[k]
        BY <2>2, <2>7, <3>3
      <4> QED BY <4>1
    <3> QED BY <2>2, <3>1, <3>2, <3>3
  <2> QED BY <2>7, <2>8, <2>9, <2>10
<1> QED BY <1>1, <1>2

LEMMA KindIs ==
  ASSUME NEW r \in Mixer!Controls \cup {None}
  PROVE  /\ Kind(r) \in Kinds
         /\ Kind(r) = "none" <=> ~(r # None /\ r.type # "other")
<1>1. r # None => r.type \in {"level", "mute", "other"}
  BY DEF Mixer!Controls, Mixer!Types
<1> QED BY <1>1 DEF Kind, Kinds

LEMMA OndescHandles ==
  ASSUME controls \in Seq(Entry), Once(controls), NEW m \in Message, m.t = "desc", Mixer!Ondesc(m)
  PROVE  Handles(m, controls, controls')
<1> PICK rest, after : rest = Mixer!Others(m.addr, controls) /\ after = controls'
  OBVIOUS
<1>1. /\ rest \in Seq(Entry) /\ Once(rest)
      /\ \A i \in DOMAIN rest : rest[i].addr # m.addr /\ \E n \in DOMAIN controls : controls[n] = rest[i]
      /\ \A n \in DOMAIN controls : controls[n].addr # m.addr => \E i \in DOMAIN rest : rest[i] = controls[n]
  BY OthersStay
<1>2. m.addr \in Addrs /\ m.desc \in Mixer!Controls \cup {None}
  BY DEF Message
<1>3. CASE m.desc # None /\ m.desc.type # "other"
  <2> PICK e : e = Mixer!Listed(m)
    OBVIOUS
  <2>1. e.addr = m.addr /\ e.type = Kind(m.desc) /\ e.val = m.desc.val
    BY <1>3 DEF Mixer!Listed, Kind
  <2>2. e \in Entry /\ Kind(m.desc) # "none"
    <3>1. m.desc.type \in {"level", "mute"} /\ m.desc.val \in {0, 1, MaxVal}
      BY <1>2, <1>3 DEF Mixer!Controls, Mixer!Types
    <3> QED BY <1>2, <1>3, <3>1 DEF Mixer!Listed, Entry, Kind
  <2>3. after = <<e>> \o rest
    BY <1>3 DEF Mixer!Ondesc
  <2>4. /\ after \in Seq(Entry) /\ DOMAIN after = 1..Len(rest) + 1 /\ DOMAIN rest = 1..Len(rest)
        /\ Len(rest) \in Nat /\ after[1] = e /\ \A i \in 2..Len(rest) + 1 : after[i] = rest[i - 1]
    BY <1>1, <2>2, <2>3
  <2>5. \A i \in DOMAIN after : i # 1 => i - 1 \in DOMAIN rest /\ after[i] = rest[i - 1]
    BY <2>4
  <2>6. \A i \in DOMAIN rest : i + 1 \in DOMAIN after /\ after[i + 1] = rest[i] /\ i + 1 # 1
    <3> SUFFICES ASSUME NEW i \in DOMAIN rest
                 PROVE  i + 1 \in DOMAIN after /\ after[i + 1] = rest[i] /\ i + 1 # 1
      OBVIOUS
    <3>1. i + 1 \in 2..Len(rest) + 1 /\ i = i + 1 - 1
      BY <2>4
    <3> QED BY <2>4, <3>1
  <2>7. \A i \in DOMAIN after : after[i].addr = m.addr <=> i = 1
    <3> SUFFICES ASSUME NEW i \in DOMAIN after
                 PROVE  after[i].addr = m.addr <=> i = 1
      OBVIOUS
    <3>1. CASE i = 1
      BY <2>1, <2>4, <3>1
    <3>2. CASE i # 1
      <4>1. i - 1 \in DOMAIN rest /\ after[i] = rest[i - 1]
        BY <2>5, <3>2
      <4>2. rest[i - 1].addr # m.addr
        BY <1>1, <4>1
      <4> QED BY <3>2, <4>1, <4>2
    <3> QED BY <3>1, <3>2
  <2>8. Once(after)
    <3> SUFFICES ASSUME NEW i \in DOMAIN after, NEW j \in DOMAIN after, after[i].addr = after[j].addr
                 PROVE  i = j
      BY DEF Once
    <3>1. i # 1 /\ j # 1 => i - 1 = j - 1
      BY <1>1, <2>5 DEF Once
    <3> QED BY <2>4, <2>7, <3>1
  <2>9. /\ \A i \in DOMAIN after : after[i].addr # m.addr => \E n \in DOMAIN controls : controls[n] = after[i]
        /\ \A n \in DOMAIN controls : controls[n].addr # m.addr => \E i \in DOMAIN after : after[i] = controls[n]
    <3>1. \A i \in DOMAIN after : after[i].addr # m.addr => \E n \in DOMAIN controls : controls[n] = after[i]
      BY <1>1, <2>5, <2>7
    <3>2. \A n \in DOMAIN controls : controls[n].addr # m.addr => \E i \in DOMAIN after : after[i] = controls[n]
      BY <1>1, <2>6
    <3> QED BY <3>1, <3>2
  <2>10. ListedAs(after, m.addr, Kind(m.desc))
    <3>1. 1 \in DOMAIN after /\ after[1].addr = m.addr /\ after[1].type = Kind(m.desc)
      BY <2>1, <2>4
    <3> QED BY <2>2, <3>1 DEF ListedAs
  <2>11. \A x \in Addrs, k \in Kinds : ListedAs(controls, x, k) /\ ~Describes(m, x) => ListedAs(after, x, k)
    BY <2>9 DEF ListedAs, Describes
  <2>12. \A x \in Addrs \ {m.addr} : \A v : Valid(controls, x, v) => Valid(after, x, v)
    BY <2>9 DEF Valid
  <2>13. \A v : Says(m, m.addr, v) => Valid(after, m.addr, v)
    BY <2>1, <2>4, <2>7 DEF Says, Valid
  <2> QED BY <2>4, <2>8, <2>10, <2>11, <2>12, <2>13 DEF Handles
<1>4. CASE ~(m.desc # None /\ m.desc.type # "other")
  <2>1. after = rest
    BY <1>4 DEF Mixer!Ondesc
  <2>2. Kind(m.desc) = "none"
    BY <1>4 DEF Kind
  <2>3. ListedAs(after, m.addr, Kind(m.desc))
    BY <1>1, <2>1, <2>2 DEF ListedAs
  <2>4. \A x \in Addrs, k \in Kinds : ListedAs(controls, x, k) /\ ~Describes(m, x) => ListedAs(after, x, k)
    BY <1>1, <2>1 DEF ListedAs, Describes
  <2>5. \A x \in Addrs \ {m.addr} : \A v : Valid(controls, x, v) => Valid(after, x, v)
    BY <1>1, <2>1 DEF Valid
  <2>6. \A v : Valid(after, m.addr, v)
    BY <1>1, <2>1 DEF Valid
  <2> QED BY <1>1, <2>1, <2>3, <2>4, <2>5, <2>6 DEF Handles
<1> QED BY <1>3, <1>4

LEMMA OnvalHandles ==
  ASSUME controls \in Seq(Entry), Once(controls), NEW m \in Message, m.t = "val", Mixer!Onval(m)
  PROVE  Handles(m, controls, controls')
<1> PICK after : after = controls'
  OBVIOUS
<1>1. m.val \in {0, 1, MaxVal}
  BY DEF Message
<1>2. /\ DOMAIN after = DOMAIN controls
      /\ \A n \in DOMAIN controls :
           after[n] = IF controls[n].addr = m.addr THEN [controls[n] EXCEPT !.val = m.val] ELSE controls[n]
  BY DEF Mixer!Onval, Mixer!At
<1>3. \A n \in DOMAIN controls :
        /\ after[n] \in Entry /\ after[n].addr = controls[n].addr /\ after[n].type = controls[n].type
        /\ after[n].val = IF controls[n].addr = m.addr THEN m.val ELSE controls[n].val
  <2> SUFFICES ASSUME NEW n \in DOMAIN controls
               PROVE  /\ after[n] \in Entry /\ after[n].addr = controls[n].addr
                      /\ after[n].type = controls[n].type
                      /\ after[n].val = IF controls[n].addr = m.addr THEN m.val ELSE controls[n].val
    OBVIOUS
  <2>1. controls[n] \in Entry
    OBVIOUS
  <2> QED BY <1>1, <1>2, <2>1 DEF Entry
<1>4. after \in Seq(Entry)
  <2>1. after = [n \in 1..Len(controls) |-> after[n]] /\ Len(controls) \in Nat
    BY DEF Mixer!Onval
  <2>2. \A n \in 1..Len(controls) : after[n] \in Entry
    BY <1>3
  <2> QED BY <2>1, <2>2
<1>5. Once(after)
  BY <1>2, <1>3 DEF Once
<1>6. \A x \in Addrs, k \in Kinds : ListedAs(controls, x, k) => ListedAs(after, x, k)
  BY <1>2, <1>3 DEF ListedAs
<1>7. \A x \in Addrs \ {m.addr} : \A v : Valid(controls, x, v) => Valid(after, x, v)
  BY <1>2, <1>3 DEF Valid
<1>8. \A v : Says(m, m.addr, v) => Valid(after, m.addr, v)
  BY <1>2, <1>3 DEF Says, Valid
<1> QED BY <1>4, <1>5, <1>6, <1>7, <1>8 DEF Handles

(* A message is taken in. *)
LEMMA TailIs ==
  ASSUME NEW box \in Seq(Message), box # <<>>
  PROVE  /\ Tail(box) \in Seq(Message) /\ Len(box) \in Nat \ {0} /\ Len(Tail(box)) = Len(box) - 1
         /\ DOMAIN box = 1..Len(box) /\ DOMAIN Tail(box) = 1..Len(box) - 1
         /\ Head(box) = box[1] /\ \A i \in 1..Len(box) : box[i] \in Message
         /\ \A i \in 1..Len(box) - 1 : Tail(box)[i] = box[i + 1]
OBVIOUS

LEMMA ToldTail ==
  ASSUME NEW box \in Seq(Message), box # <<>>, NEW cs, NEW after, Handles(Head(box), cs, after),
         NEW x \in Addrs, NEW n \in 1..Len(box), NEW k \in Kinds, Told(box, cs, x, n, k)
  PROVE  Told(Tail(box), after, x, n - 1, k)
<1> PICK tail, m : tail = Tail(box) /\ m = Head(box)
  OBVIOUS
<1>1. /\ Len(box) \in Nat \ {0} /\ m = box[1]
      /\ \A i \in 1..Len(box) - 1 : tail[i] = box[i + 1]
  BY TailIs
<1>2. n \in Nat \ {0} /\ \A i \in 1..n - 1 : i + 1 \in 2..n /\ tail[i] = box[i + 1]
  BY <1>1
<1>3. CASE /\ \A j \in 1..n : ~Describes(box[j], x)
           /\ ListedAs(cs, x, k)
  <2>1. ~Describes(m, x)
    BY <1>1, <1>2, <1>3
  <2>2. ListedAs(after, x, k)
    BY <1>3, <2>1 DEF Handles
  <2>3. \A j \in 1..n - 1 : ~Describes(tail[j], x)
    BY <1>2, <1>3
  <2> QED BY <2>2, <2>3 DEF Told
<1>4. CASE \E j \in 1..n : /\ Describes(box[j], x) /\ Kind(box[j].desc) = k
                           /\ \A i \in j + 1..n : ~Describes(box[i], x)
  <2>1. PICK j \in 1..n : /\ Describes(box[j], x) /\ Kind(box[j].desc) = k
                          /\ \A i \in j + 1..n : ~Describes(box[i], x)
    BY <1>4
  <2>2. CASE j = 1
    <3>1. ListedAs(after, x, k)
      BY <1>1, <2>1, <2>2 DEF Handles, Describes
    <3>2. \A i \in 1..n - 1 : ~Describes(tail[i], x)
      BY <1>2, <2>1, <2>2
    <3> QED BY <3>1, <3>2 DEF Told
  <2>3. CASE j > 1
    <3>1. j - 1 \in 1..n - 1 /\ tail[j - 1] = box[j]
      BY <1>2, <2>3
    <3>2. \A i \in (j - 1) + 1..n - 1 : i + 1 \in j + 1..n /\ tail[i] = box[i + 1]
      BY <1>2, <2>3
    <3>3. \A i \in (j - 1) + 1..n - 1 : ~Describes(tail[i], x)
      BY <2>1, <3>2
    <3> QED BY <2>1, <3>1, <3>3 DEF Told
  <2> QED BY <1>2, <2>2, <2>3
<1> QED BY <1>3, <1>4 DEF Told

LEMMA ValuedTail ==
  ASSUME NEW box \in Seq(Message), box # <<>>, NEW cs, NEW after, Handles(Head(box), cs, after),
         NEW x \in Addrs, NEW v, Valued(box, cs, x, v)
  PROVE  Valued(Tail(box), after, x, v)
<1> PICK tail, m : tail = Tail(box) /\ m = Head(box)
  OBVIOUS
<1>1. /\ Len(box) \in Nat \ {0} /\ m = box[1]
      /\ DOMAIN box = 1..Len(box) /\ DOMAIN tail = 1..Len(box) - 1
      /\ \A i \in 1..Len(box) - 1 : tail[i] = box[i + 1]
  BY TailIs
<1>2. \A i \in DOMAIN tail : i + 1 \in DOMAIN box /\ i + 1 > 1 /\ tail[i] = box[i + 1]
  BY <1>1
<1>3. CASE (\A j \in DOMAIN box : box[j].addr # x) /\ Valid(cs, x, v)
  <2>1. m.addr # x
    BY <1>1, <1>3
  <2>2. Valid(after, x, v)
    BY <1>3, <2>1 DEF Handles
  <2>3. \A j \in DOMAIN tail : tail[j].addr # x
    BY <1>2, <1>3
  <2> QED BY <2>2, <2>3 DEF Valued
<1>4. CASE \E j \in DOMAIN box : /\ Says(box[j], x, v)
                                 /\ \A i \in DOMAIN box : i > j => box[i].addr # x
  <2>1. PICK j \in DOMAIN box : /\ Says(box[j], x, v)
                                /\ \A i \in DOMAIN box : i > j => box[i].addr # x
    BY <1>4
  <2>2. CASE j = 1
    <3>1. m.addr = x /\ Says(m, x, v)
      BY <1>1, <2>1, <2>2 DEF Says
    <3>2. Valid(after, x, v)
      BY <3>1 DEF Handles
    <3>3. \A i \in DOMAIN tail : tail[i].addr # x
      BY <1>2, <2>1, <2>2
    <3> QED BY <3>2, <3>3 DEF Valued
  <2>3. CASE j > 1
    <3>1. j - 1 \in DOMAIN tail /\ tail[j - 1] = box[j]
      BY <1>1, <2>3
    <3>2. \A i \in DOMAIN tail : i > j - 1 => i + 1 \in DOMAIN box /\ i + 1 > j /\ tail[i] = box[i + 1]
      BY <1>1, <2>3
    <3>3. \A i \in DOMAIN tail : i > j - 1 => tail[i].addr # x
      BY <2>1, <3>2
    <3> QED BY <2>1, <3>1, <3>3 DEF Valued
  <2> QED BY <1>1, <2>2, <2>3
<1> QED BY <1>3, <1>4 DEF Valued

(* A message comes. *)
LEMMA AppendIs ==
  ASSUME NEW box \in Seq(Message), NEW m \in Message
  PROVE  /\ Append(box, m) \in Seq(Message) /\ Len(box) \in Nat
         /\ Len(Append(box, m)) = Len(box) + 1
         /\ DOMAIN box = 1..Len(box) /\ DOMAIN Append(box, m) = 1..Len(box) + 1
         /\ Append(box, m)[Len(box) + 1] = m
         /\ \A i \in 1..Len(box) : Append(box, m)[i] = box[i]
OBVIOUS

LEMMA ToldAppend ==
  ASSUME NEW box \in Seq(Message), NEW m \in Message, NEW cs, NEW x, NEW k, NEW n \in 0..Len(box),
         Told(box, cs, x, n, k)
  PROVE  /\ Told(Append(box, m), cs, x, n, k)
         /\ n = Len(box) /\ ~Describes(m, x) => Told(Append(box, m), cs, x, n + 1, k)
<1> PICK b : b = Append(box, m)
  OBVIOUS
<1>1. Len(box) \in Nat /\ b[Len(box) + 1] = m /\ \A i \in 1..Len(box) : b[i] = box[i]
  BY AppendIs
<1>2. \A i \in 1..n : b[i] = box[i]
  BY <1>1
<1>3. \A j \in 1..n : \A i \in j + 1..n : i \in 1..n
  BY <1>1
<1>4. Told(b, cs, x, n, k)
  BY <1>2, <1>3 DEF Told
<1>5. ASSUME n = Len(box), ~Describes(m, x)
      PROVE  Told(b, cs, x, n + 1, k)
  <2>1. n \in Nat /\ b[n + 1] = m
    BY <1>1, <1>5
  <2>2. \A i \in 1..n + 1 : i \in 1..n \/ i = n + 1
    BY <2>1
  <2>3. CASE (\A j \in 1..n : ~Describes(b[j], x)) /\ ListedAs(cs, x, k)
    BY <1>5, <2>1, <2>2, <2>3 DEF Told
  <2>4. CASE \E j \in 1..n : /\ Describes(b[j], x) /\ Kind(b[j].desc) = k
                             /\ \A i \in j + 1..n : ~Describes(b[i], x)
    <3>1. PICK j \in 1..n : /\ Describes(b[j], x) /\ Kind(b[j].desc) = k
                            /\ \A i \in j + 1..n : ~Describes(b[i], x)
      BY <2>4
    <3>2. j \in 1..n + 1 /\ \A i \in j + 1..n + 1 : i \in j + 1..n \/ i = n + 1
      BY <2>1
    <3>3. \A i \in j + 1..n + 1 : ~Describes(b[i], x)
      BY <1>5, <2>1, <3>1, <3>2
    <3> QED BY <3>1, <3>2, <3>3 DEF Told
  <2> QED BY <1>4, <2>3, <2>4 DEF Told
<1> QED BY <1>4, <1>5

LEMMA ToldLast ==
  ASSUME NEW box \in Seq(Message), NEW m \in Message, NEW cs, NEW x, Describes(m, x)
  PROVE  Told(Append(box, m), cs, x, Len(box) + 1, Kind(m.desc))
<1> PICK b, n : b = Append(box, m) /\ n = Len(box) + 1
  OBVIOUS
<1>1. n \in 1..n /\ b[n] = m /\ \A i \in n + 1..n : FALSE
  BY AppendIs
<1> QED BY <1>1 DEF Told

LEMMA ValuedAppend ==
  ASSUME NEW box \in Seq(Message), NEW m \in Message, NEW cs, NEW x, NEW v
  PROVE  /\ Says(m, x, v) => Valued(Append(box, m), cs, x, v)
         /\ m.addr # x /\ Valued(box, cs, x, v) => Valued(Append(box, m), cs, x, v)
<1> PICK b, n : b = Append(box, m) /\ n = Len(box) + 1
  OBVIOUS
<1>1. /\ n \in Nat \ {0} /\ b[n] = m /\ DOMAIN box = 1..n - 1 /\ DOMAIN b = 1..n
      /\ \A i \in 1..n - 1 : b[i] = box[i]
  BY AppendIs
<1>2. ASSUME Says(m, x, v) PROVE Valued(b, cs, x, v)
  <2>1. n \in DOMAIN b /\ \A i \in DOMAIN b : ~(i > n)
    BY <1>1
  <2> QED BY <1>1, <1>2, <2>1 DEF Valued
<1>3. ASSUME m.addr # x, Valued(box, cs, x, v) PROVE Valued(b, cs, x, v)
  <2>1. \A i \in DOMAIN b : i = n \/ i \in DOMAIN box
    BY <1>1
  <2>2. \A i \in DOMAIN box : i \in DOMAIN b /\ b[i] = box[i]
    BY <1>1
  <2> QED BY <1>1, <1>3, <2>1, <2>2 DEF Valued
<1> QED BY <1>2, <1>3

-----------------------------------------------------------------------------
(* The audio server: the steps                                             *)

LEMMA MixerConstants ==
  /\ MaxVal \in Nat \ {0} /\ IsFiniteSet(Addrs) /\ None \notin Mixer!Controls
  /\ \A r \in Mixer!Controls : /\ r.type \in {"level", "mute", "other"} /\ r.val \in {0, 1, MaxVal}
                               /\ r = [type |-> r.type, val |-> r.val]
BY ReadersConstants DEF Mixer!Controls, Mixer!Types

LEMMA SumStays ==
  ASSUME SumInv, UNCHANGED <<initialized, controls, doing, c, value, volume>>
  PROVE  SumInv'
BY DEF SumInv, Weighed, Mutes, Mixer!Percent

LEMMA InitMixer == Mixer!Init => MixerInv
<1> SUFFICES ASSUME Mixer!Init PROVE MixerInv
  OBVIOUS
<1>1. /\ inbox = <<>> /\ ~hup /\ ~foreign /\ initialized = FALSE /\ controls = <<>>
      /\ hup \in BOOLEAN /\ foreign \in BOOLEAN
      /\ doing = "idle" /\ c = 1 /\ value = 0
  BY DEF Mixer!Init
<1>2. control \in [Addrs -> Mixer!Controls \cup {None}]
  <2>1. /\ [type |-> "level", val |-> MaxVal] \in Mixer!Controls
        /\ [type |-> "mute", val |-> 1] \in Mixer!Controls
    BY DEF Mixer!Controls, Mixer!Types
  <2> QED BY <2>1 DEF Mixer!Init
<1>3. MixerTypes
  <2>1. <<>> \in Seq(Message) /\ <<>> \in Seq(Entry) /\ Once(<<>>) /\ 1 \in Nat \ {0} /\ 0 \in Nat
    BY DEF Once
  <2> QED BY <1>1, <1>2, <2>1 DEF MixerTypes
<1>4. ListFollows /\ SumInv
  BY <1>1 DEF ListFollows, SumInv
<1>5. ValuesListed
  BY <1>1 DEF ValuesListed
<1> QED BY <1>3, <1>4, <1>5 DEF MixerInv

LEMMA SetKeeps ==
  ASSUME MixerInv, NEW x \in Addrs, NEW r \in Mixer!Controls \cup {None}, NEW m \in Message,
         Mixer!Set(x, r, m), Mixer!client' = Mixer!client, doing # "crashed",
         \/ m = Mixer!Desc(x, r) /\ foreign' = foreign
         \/ /\ m = Mixer!Val(x, r.val) /\ r # None /\ control[x] # None /\ r.type = control[x].type
            /\ foreign' = (foreign \/ r.type = "other")
  PROVE  MixerInv'
<1> PICK there : there = (initialized /\ ~hup)
  OBVIOUS
<1>1. /\ control' = [control EXCEPT ![x] = r] /\ hup' = hup
      /\ inbox' = IF there THEN Append(inbox, m) ELSE inbox
  BY DEF Mixer!Set
<1>2. UNCHANGED <<initialized, controls, doing, c, value, volume>>
  BY DEF Mixer!client
<1>3. /\ control \in [Addrs -> Mixer!Controls \cup {None}] /\ inbox \in Seq(Message)
      /\ foreign \in BOOLEAN
  BY DEF MixerInv, MixerTypes
<1>4. /\ control'[x] = r /\ \A y \in Addrs : y # x => control'[y] = control[y]
      /\ control' \in [Addrs -> Mixer!Controls \cup {None}]
  BY <1>1, <1>3
<1>5. inbox' \in Seq(Message) /\ foreign' \in BOOLEAN /\ (~foreign' => ~foreign)
  BY <1>1, <1>3, AppendIs DEF Mixer!Desc, Mixer!Val
<1>6. MixerTypes'
  BY <1>1, <1>2, <1>4, <1>5 DEF MixerInv, MixerTypes, Once
<1>7. m.addr = x
  BY DEF Mixer!Desc, Mixer!Val
<1>8. ListFollows'
  <2> SUFFICES ASSUME there, NEW y \in Addrs
               PROVE  /\ Told(inbox', controls, y, Len(inbox'), Kind(control'[y]))
                      /\ control'[y] # None => Valued(inbox', controls, y, control'[y].val)
    BY <1>1, <1>2 DEF ListFollows
  <2>1. inbox' = Append(inbox, m) /\ Len(inbox') = Len(inbox) + 1 /\ Len(inbox) \in 0..Len(inbox)
    BY <1>1, <1>3, AppendIs
  <2>2. /\ Told(inbox, controls, y, Len(inbox), Kind(control[y]))
        /\ control[y] # None => Valued(inbox, controls, y, control[y].val)
    BY DEF MixerInv, ListFollows
  <2>3. CASE y # x
    <3>1. ~Describes(m, y) /\ m.addr # y
      BY <1>7, <2>3 DEF Describes
    <3> QED BY <1>3, <1>4, <2>1, <2>2, <2>3, <3>1, ToldAppend, ValuedAppend
  <2>4. CASE y = x /\ m = Mixer!Desc(x, r)
    <3>1. Describes(m, x) /\ m.desc = r /\ (r # None => Says(m, x, r.val))
      BY <2>4 DEF Mixer!Desc, Describes, Says
    <3> QED BY <1>3, <1>4, <2>1, <2>4, <3>1, ToldLast, ValuedAppend
  <2>5. CASE y = x /\ m = Mixer!Val(x, r.val) /\ r # None /\ control[x] # None /\ r.type = control[x].type
    <3>1. ~Describes(m, x) /\ Says(m, x, r.val)
      BY <2>5 DEF Mixer!Val, Describes, Says
    <3>2. Kind(r) = Kind(control[x])
      BY <2>5 DEF Kind
    <3>3. Told(inbox', controls, x, Len(inbox) + 1, Kind(r))
      BY <1>3, <2>1, <2>2, <2>5, <3>1, <3>2, ToldAppend
    <3> QED BY <1>3, <1>4, <2>1, <2>5, <3>1, <3>3, ValuedAppend
  <2> QED BY <2>3, <2>4, <2>5
<1>9. ValuesListed'
  <2> SUFFICES ASSUME ~foreign', NEW n \in DOMAIN inbox', inbox'[n].t = "val"
               PROVE  \E k \in {"level", "mute"} : Told(inbox', controls, inbox'[n].addr, n - 1, k)
    BY <1>2 DEF ValuesListed
  <2>1. \A i \in DOMAIN inbox : inbox[i].t = "val" =>
          \E k \in {"level", "mute"} : Told(inbox, controls, inbox[i].addr, i - 1, k)
    BY <1>5 DEF MixerInv, ValuesListed
  <2>2. CASE ~there
    BY <1>1, <2>1, <2>2
  <2>3. CASE there
    <3>1. /\ inbox' = Append(inbox, m) /\ Len(inbox) \in Nat /\ DOMAIN inbox = 1..Len(inbox)
          /\ DOMAIN inbox' = 1..Len(inbox) + 1 /\ inbox'[Len(inbox) + 1] = m
          /\ \A i \in 1..Len(inbox) : inbox'[i] = inbox[i]
      BY <1>1, <1>3, <2>3, AppendIs
    <3>2. CASE n \in DOMAIN inbox
      <4>1. n - 1 \in 0..Len(inbox) /\ inbox'[n] = inbox[n]
        BY <3>1, <3>2
      <4>2. PICK k \in {"level", "mute"} : Told(inbox, controls, inbox[n].addr, n - 1, k)
        BY <2>1, <3>2, <4>1
      <4>3. Told(Append(inbox, m), controls, inbox[n].addr, n - 1, k)
        BY <1>3, <4>1, <4>2, ToldAppend
      <4> QED BY <3>1, <4>1, <4>3
    <3>3. CASE n = Len(inbox) + 1
      <4>1. m.t = "val"
        BY <3>1, <3>3
      <4>2. /\ m = Mixer!Val(x, r.val) /\ control[x] # None /\ r.type = control[x].type
            /\ r.type # "other"
        BY <1>5, <4>1 DEF Mixer!Desc
      <4>3. control[x] \in Mixer!Controls /\ control[x].type \in {"level", "mute"}
        BY <1>3, <4>2, MixerConstants
      <4>4. Kind(control[x]) = control[x].type
        BY <4>2 DEF Kind
      <4>5. Told(inbox, controls, x, Len(inbox), control[x].type)
        BY <2>3, <4>4 DEF MixerInv, ListFollows
      <4>6. Len(inbox) \in 0..Len(inbox) /\ n - 1 = Len(inbox) /\ inbox'[n].addr = x
        BY <1>7, <3>1, <3>3
      <4>7. Told(Append(inbox, m), controls, x, Len(inbox), control[x].type)
        BY <1>3, <4>5, <4>6, ToldAppend
      <4> QED BY <3>1, <4>3, <4>6, <4>7
    <3> QED BY <3>1, <3>2, <3>3
  <2> QED BY <2>2, <2>3
<1>10. SumInv'
  BY <1>2, SumStays DEF MixerInv
<1> QED BY <1>6, <1>8, <1>9, <1>10 DEF MixerInv

LEMMA EventKeeps == MixerInv /\ Mixer!Event => MixerInv'
<1> SUFFICES ASSUME MixerInv, Mixer!Event PROVE MixerInv'
  OBVIOUS
<1>1. Mixer!client' = Mixer!client /\ doing # "crashed"
  BY DEF Mixer!Event, Mixer!client
<1>2. CASE Mixer!HangUp
  <2>1. /\ UNCHANGED <<control, inbox, foreign>> /\ hup' = TRUE /\ initialized
        /\ UNCHANGED <<initialized, controls, doing, c, value, volume>>
    BY <1>1, <1>2 DEF Mixer!HangUp, Mixer!client
  <2>2. MixerTypes' /\ ListFollows'
    BY <2>1 DEF MixerInv, MixerTypes, ListFollows
  <2>3. ValuesListed'
    BY <2>1 DEF MixerInv, ValuesListed
  <2> QED BY <2>1, <2>2, <2>3, SumStays DEF MixerInv
<1>3. ASSUME NEW x \in Addrs, Mixer!Redescribe(x)
      PROVE  MixerInv'
  <2>1. PICK r \in Mixer!Controls \cup {None} : Mixer!Set(x, r, Mixer!Desc(x, r)) /\ UNCHANGED foreign
    BY <1>3 DEF Mixer!Redescribe
  <2>2. Mixer!Desc(x, r) \in Message
    BY DEF Mixer!Desc, Message
  <2> QED BY <1>1, <2>1, <2>2, SetKeeps
<1>4. ASSUME NEW x \in Addrs, Mixer!Change(x)
      PROVE  MixerInv'
  <2>1. PICK r \in Mixer!Controls :
          /\ control[x] # None /\ r.type = control[x].type
          /\ Mixer!Set(x, r, Mixer!Val(x, r.val))
          /\ foreign' = (foreign \/ r.type = "other")
    BY <1>4 DEF Mixer!Change
  <2>2. Mixer!Val(x, r.val) \in Message /\ r # None
    BY MixerConstants DEF Mixer!Val, Message
  <2> QED BY <1>1, <2>1, <2>2, SetKeeps
<1> QED BY <1>2, <1>3, <1>4 DEF Mixer!Event

LEMMA FunctionIsSeq ==
  ASSUME NEW S, NEW N \in Nat, NEW b, b = [n \in 1..N |-> b[n]], \A n \in 1..N : b[n] \in S
  PROVE  b \in Seq(S) /\ Len(b) = N /\ DOMAIN b = 1..N
OBVIOUS

(* Cardinality as the instance sees it. *)
LEMMA SameCardinality == \A T : Mixer!Cardinality(T) = Cardinality(T)
BY Zenon DEF Mixer!Cardinality, Cardinality

LEMMA DescriptionsAre ==
  ASSUME NEW box \in Mixer!Descriptions, NEW T, T = {x \in Addrs : control[x] # None}
  PROVE  \E f \in Mixer!Bijection(1..Cardinality(T), T) :
           box = [n \in DOMAIN f |-> Mixer!Desc(f[n], control[f[n]])]
<1>1. Mixer!Descriptions =
        {[n \in DOMAIN f |-> Mixer!Desc(f[n], control[f[n]])] : f \in Mixer!Bijection(1..Cardinality(T), T)}
  BY SameCardinality DEF Mixer!Descriptions
<1>2. PICK D : D = Mixer!Bijection(1..Cardinality(T), T)
  OBVIOUS
<1>3. box \in {[n \in DOMAIN f |-> Mixer!Desc(f[n], control[f[n]])] : f \in D}
  BY <1>1, <1>2
<1>4. \E f \in D : box = [n \in DOMAIN f |-> Mixer!Desc(f[n], control[f[n]])]
  BY <1>3
<1> QED BY <1>2, <1>4

LEMMA OpenKeeps == MixerInv /\ Mixer!Open => MixerInv'
<1> SUFFICES ASSUME MixerInv, Mixer!Open PROVE MixerInv'
  OBVIOUS
<1>1. /\ UNCHANGED <<control, hup, foreign, events, controls, c, value, volume>>
      /\ doing = "idle" /\ doing' = "revents" /\ initialized' = TRUE
      /\ IF initialized THEN UNCHANGED inbox ELSE inbox' \in Mixer!Descriptions
  BY DEF Mixer!Open
<1>2. SumInv'
  BY <1>1 DEF SumInv
<1>3. CASE initialized
  <2>1. MixerTypes' /\ ListFollows'
    BY <1>1, <1>3 DEF MixerInv, MixerTypes, ListFollows
  <2>2. ValuesListed'
    BY <1>1, <1>3 DEF MixerInv, ValuesListed
  <2> QED BY <1>2, <2>1, <2>2 DEF MixerInv
<1>4. CASE ~initialized
  <2>1. controls = <<>> /\ ~hup /\ control \in [Addrs -> Mixer!Controls \cup {None}]
    BY <1>4 DEF MixerInv, MixerTypes
  <2> PICK there, N : there = {x \in Addrs : control[x] # None} /\ N = Cardinality(there)
    OBVIOUS
  <2>2. N \in Nat
    <3>1. IsFiniteSet(Addrs)
      BY MixerConstants
    <3>2. IsFiniteSet(there)
      BY <3>1, FS_Subset
    <3> QED BY <3>2, FS_CardinalityType
  <2>3. PICK f \in Mixer!Bijection(1..N, there) :
          inbox' = [n \in DOMAIN f |-> Mixer!Desc(f[n], control[f[n]])]
    <3>1. inbox' \in Mixer!Descriptions
      BY <1>1, <1>4
    <3>2. PICK f \in Mixer!Bijection(1..N, there) :
            inbox' = [n \in DOMAIN f |-> Mixer!Desc(f[n], control[f[n]])]
      BY <3>1, DescriptionsAre
    <3> QED BY <3>2
  <2>4. /\ f \in [1..N -> there] /\ \A i, j \in 1..N : f[i] = f[j] => i = j
        /\ \A x \in there : \E i \in 1..N : f[i] = x
    BY <2>3 DEF Mixer!Bijection, Mixer!Injection, Mixer!Surjection, Mixer!IsInjective
  <2>5. inbox' = [n \in 1..N |-> Mixer!Desc(f[n], control[f[n]])]
    BY <2>3, <2>4
  <2>6. \A n \in 1..N : f[n] \in Addrs /\ control[f[n]] \in Mixer!Controls /\ control[f[n]] # None
    BY <2>1, <2>4, MixerConstants
  <2>7. \A n \in 1..N : /\ inbox'[n] = Mixer!Desc(f[n], control[f[n]]) /\ inbox'[n] \in Message
                        /\ inbox'[n].t = "desc" /\ inbox'[n].addr = f[n] /\ inbox'[n].desc = control[f[n]]
    BY <2>5, <2>6 DEF Mixer!Desc, Message
  <2>8. inbox' \in Seq(Message) /\ Len(inbox') = N /\ DOMAIN inbox' = 1..N
    <3> PICK b : b = inbox'
      OBVIOUS
    <3>1. b = [n \in 1..N |-> b[n]] /\ \A n \in 1..N : b[n] \in Message
      BY <2>5, <2>7
    <3> QED BY <2>2, <3>1, FunctionIsSeq
  <2>9. MixerTypes'
    BY <1>1, <2>8 DEF MixerInv, MixerTypes, Once
  <2>10. ValuesListed'
    <3>1. ~foreign' => doing' # "crashed"
      BY <1>1
    <3> QED BY <2>7, <2>8, <3>1 DEF ValuesListed
  <2>11. ASSUME NEW x \in Addrs
         PROVE  /\ Told(inbox', controls', x, N, Kind(control[x]))
                /\ control[x] # None => Valued(inbox', controls', x, control[x].val)
    <3>1. CASE control[x] = None
      <4>1. \A n \in 1..N : inbox'[n].addr # x
        BY <2>4, <2>7, <3>1
      <4>2. ListedAs(controls', x, Kind(control[x]))
        BY <1>1, <2>1, <3>1 DEF ListedAs, Kind
      <4> QED BY <3>1, <4>1, <4>2 DEF Told, Describes
    <3>2. CASE control[x] # None
      <4>1. PICK j \in 1..N : f[j] = x
        BY <2>4, <3>2
      <4>2. \A i \in 1..N : inbox'[i].addr = x => i = j
        BY <2>4, <2>7, <4>1
      <4>3. Describes(inbox'[j], x) /\ inbox'[j].desc = control[x] /\ Says(inbox'[j], x, control[x].val)
        BY <2>7, <3>2, <4>1 DEF Describes, Says
      <4>4. \A i \in j + 1..N : i \in 1..N /\ i # j
        BY <2>2
      <4>5. Told(inbox', controls', x, N, Kind(control[x]))
        BY <4>2, <4>3, <4>4 DEF Told, Describes
      <4>6. \A i \in DOMAIN inbox' : i > j => inbox'[i].addr # x
        BY <2>8, <4>2
      <4>7. Valued(inbox', controls', x, control[x].val)
        BY <2>8, <4>3, <4>6 DEF Valued
      <4> QED BY <4>5, <4>7
    <3> QED BY <3>1, <3>2
  <2>12. ListFollows'
    BY <1>1, <2>8, <2>11 DEF ListFollows
  <2> QED BY <1>2, <2>9, <2>10, <2>12 DEF MixerInv
<1> QED BY <1>3, <1>4

LEMMA CallbackKeeps == MixerInv /\ Mixer!Callback => MixerInv'
<1> SUFFICES ASSUME MixerInv, Mixer!Callback PROVE MixerInv'
  OBVIOUS
<1> PICK m : m = Head(inbox)
  OBVIOUS
<1>1. /\ UNCHANGED <<control, hup, foreign, events, initialized, c, value, volume>>
      /\ doing = "revents" /\ inbox # <<>> /\ inbox' = Tail(inbox)
  BY DEF Mixer!Callback
<1>2. /\ inbox \in Seq(Message) /\ controls \in Seq(Entry) /\ Once(controls) /\ initialized
      /\ control \in [Addrs -> Mixer!Controls \cup {None}]
  BY <1>1 DEF MixerInv, MixerTypes
<1>3. /\ inbox' \in Seq(Message) /\ Len(inbox) \in Nat \ {0} /\ Len(inbox') = Len(inbox) - 1
      /\ DOMAIN inbox = 1..Len(inbox) /\ DOMAIN inbox' = 1..Len(inbox) - 1
      /\ m = inbox[1] /\ m \in Message /\ \A i \in 1..Len(inbox) - 1 : inbox'[i] = inbox[i + 1]
  <2>1. 1 \in 1..Len(inbox)
    BY <1>1, <1>2, TailIs
  <2> QED BY <1>1, <1>2, <2>1, TailIs
<1>4. ASSUME UNCHANGED doing, Handles(m, controls, controls')
      PROVE  MixerInv'
  <2>1. MixerTypes'
    BY <1>1, <1>2, <1>3, <1>4 DEF MixerInv, MixerTypes, Handles
  <2>2. SumInv'
    BY <1>1, <1>4 DEF SumInv
  <2>3. ASSUME NEW x \in Addrs, NEW k \in Kinds, NEW n \in 1..Len(inbox), Told(inbox, controls, x, n, k)
        PROVE  Told(inbox', controls', x, n - 1, k)
    BY <1>1, <1>2, <1>4, <2>3, ToldTail
  <2>4. ASSUME NEW x \in Addrs, NEW v, Valued(inbox, controls, x, v)
        PROVE  Valued(inbox', controls', x, v)
    BY <1>1, <1>2, <1>4, <2>4, ValuedTail
  <2>5. ListFollows'
    <3> SUFFICES ASSUME ~hup, NEW x \in Addrs
                 PROVE  /\ Told(inbox', controls', x, Len(inbox'), Kind(control[x]))
                        /\ control[x] # None => Valued(inbox', controls', x, control[x].val)
      BY <1>1 DEF ListFollows
    <3>1. /\ Told(inbox, controls, x, Len(inbox), Kind(control[x]))
          /\ control[x] # None => Valued(inbox, controls, x, control[x].val)
      BY <1>1, <1>2 DEF MixerInv, ListFollows
    <3>2. Kind(control[x]) \in Kinds
      BY <1>2, KindIs
    <3>3. Len(inbox) \in 1..Len(inbox) /\ Len(inbox') = Len(inbox) - 1
      BY <1>3
    <3> QED BY <2>3, <2>4, <3>1, <3>2, <3>3
  <2>6. ValuesListed'
    <3> SUFFICES ASSUME ~foreign, NEW n \in DOMAIN inbox', inbox'[n].t = "val"
                 PROVE  \E k \in {"level", "mute"} : Told(inbox', controls', inbox'[n].addr, n - 1, k)
      BY <1>1, <1>4 DEF ValuesListed
    <3>1. n + 1 \in DOMAIN inbox /\ inbox'[n] = inbox[n + 1] /\ n \in 1..Len(inbox) /\ n + 1 - 1 = n
      BY <1>3
    <3>2. PICK k \in {"level", "mute"} : Told(inbox, controls, inbox[n + 1].addr, n, k)
      BY <3>1 DEF MixerInv, ValuesListed
    <3>3. inbox[n + 1].addr \in Addrs /\ k \in Kinds
      <4>1. inbox[n + 1] \in Message
        BY <1>2, <3>1
      <4> QED BY <4>1 DEF Message, Kinds
    <3> QED BY <2>3, <3>1, <3>2, <3>3
  <2> QED BY <2>1, <2>2, <2>5, <2>6 DEF MixerInv
<1>5. CASE m.t = "desc" /\ Mixer!Ondesc(m) /\ UNCHANGED doing
  BY <1>2, <1>3, <1>4, <1>5, OndescHandles
<1>6. CASE m.t = "val" /\ Mixer!Onval(m) /\ UNCHANGED doing
  BY <1>2, <1>3, <1>4, <1>6, OnvalHandles
<1>7. CASE m.t = "val" /\ Mixer!At(m.addr, controls) = {} /\ doing' = "crashed" /\ UNCHANGED controls
  <2>1. foreign
    <3> SUFFICES ASSUME ~foreign PROVE FALSE
      BY DEF MixerInv, MixerTypes
    <3>1. 1 \in DOMAIN inbox
      BY <1>3
    <3>2. PICK k \in {"level", "mute"} : Told(inbox, controls, m.addr, 1 - 1, k)
      BY <1>3, <1>7, <3>1 DEF MixerInv, ValuesListed
    <3>3. ListedAs(controls, m.addr, k)
      BY <3>2 DEF Told
    <3> QED BY <1>7, <3>3 DEF ListedAs, Mixer!At
  <2>2. MixerTypes'
    BY <1>1, <1>2, <1>3, <1>7 DEF MixerInv, MixerTypes
  <2>3. ListFollows' /\ ValuesListed' /\ SumInv'
    BY <1>1, <1>7, <2>1 DEF ListFollows, ValuesListed, SumInv
  <2> QED BY <2>2, <2>3 DEF MixerInv
<1> QED BY <1>5, <1>6, <1>7 DEF Mixer!Callback

LEMMA ClosedKeeps ==
  ASSUME MixerInv, Mixer!Fail \/ Mixer!Disconnected
  PROVE  MixerInv'
<1>1. /\ initialized' = FALSE /\ controls' = <<>> /\ inbox' = <<>> /\ hup' = FALSE /\ doing' = "idle"
      /\ UNCHANGED <<control, foreign, c, value>>
  <2>1. CASE Mixer!Fail
    <3>1. inbox = <<>> /\ hup = FALSE /\ doing = "idle"
      BY <2>1 DEF MixerInv, MixerTypes, Mixer!Fail
    <3> QED BY <2>1, <3>1 DEF Mixer!Fail, Mixer!Cleanup, Mixer!server
  <2>2. CASE Mixer!Disconnected
    BY <2>2 DEF Mixer!Disconnected, Mixer!Cleanup
  <2> QED BY <2>1, <2>2
<1>2. MixerTypes'
  <2>1. <<>> \in Seq(Message) /\ <<>> \in Seq(Entry) /\ Once(<<>>)
    BY DEF Once
  <2> QED BY <1>1, <2>1, Zenon DEF MixerInv, MixerTypes
<1>3. ListFollows' /\ SumInv'
  BY <1>1 DEF ListFollows, SumInv
<1>4. ValuesListed'
  BY <1>1 DEF ValuesListed
<1> QED BY <1>2, <1>3, <1>4 DEF MixerInv

(* The sum goes on: the list and the messages stay. *)
LEMMA SummingKeeps ==
  ASSUME MixerInv, UNCHANGED <<control, inbox, hup, foreign, initialized, controls>>, initialized,
         doing \in {"revents", "value"}, doing' \in {"idle", "value"}, c' \in Nat \ {0}, value' \in Nat
  PROVE  MixerTypes' /\ ListFollows' /\ ValuesListed'
<1>1. MixerTypes'
  BY DEF MixerInv, MixerTypes
<1>2. ListFollows'
  BY DEF MixerInv, ListFollows
<1>3. ValuesListed'
  BY DEF MixerInv, ValuesListed
<1> QED BY <1>1, <1>2, <1>3

LEMMA SumKeeps ==
  ASSUME MixerInv, Mixer!Handled \/ Mixer!Weigh \/ Mixer!Return
  PROVE  MixerInv'
<1>1. /\ UNCHANGED <<control, inbox, hup, foreign, initialized, controls>>
      /\ doing \in {"revents", "value"} /\ initialized
      /\ controls \in Seq(Entry) /\ c \in Nat \ {0} /\ value \in Nat
      /\ Len(controls) \in Nat /\ DOMAIN controls = 1..Len(controls)
  BY DEF MixerInv, MixerTypes, Mixer!Handled, Mixer!Weigh, Mixer!Return, Mixer!server
<1>2. ASSUME doing' \in {"idle", "value"}, c' \in Nat \ {0}, value' \in Nat, SumInv'
      PROVE  MixerInv'
  BY <1>1, <1>2, SummingKeeps DEF MixerInv
<1>3. CASE Mixer!Handled
  <2>1. doing' = "value" /\ value' = 100 /\ c' = 1
    BY <1>3 DEF Mixer!Handled
  <2>2. Weighed(0, 100)'
    BY DEF Weighed
  <2>3. SumInv'
    BY <1>1, <2>1, <2>2 DEF SumInv, Weighed
  <2> QED BY <1>2, <2>1, <2>3
<1>4. CASE Mixer!Weigh
  <2> PICK v, e : v = Mixer!Percent(controls[c].val) /\ e = controls[c]
    OBVIOUS
  <2>1. /\ doing = "value" /\ doing' = "value" /\ c \in DOMAIN controls /\ c' = c + 1
        /\ value' = IF Mutes(e) THEN 0 ELSE IF e.type = "level" /\ v < value THEN v ELSE value
    BY <1>4 DEF Mixer!Weigh, Mutes
  <2>2. e \in Entry /\ v \in Nat
    <3>1. controls[c] \in Entry
      BY <1>1, <2>1
    <3>2. controls[c].val \in Nat
      BY <3>1, MixerConstants DEF Entry
    <3> QED BY <3>1, <3>2, PercentIsNat
  <2>3. Weighed(c - 1, value)
    BY <2>1 DEF MixerInv, SumInv
  <2>4. value' \in Nat /\ value' \in 0..100
    <3>1. value \in 0..100
      BY <2>3, Zenon DEF Weighed
    <3>2. value' = 0 \/ (value' = v /\ v < value) \/ value' = value
      BY <2>1
    <3> QED BY <2>2, <3>1, <3>2
  <2>5. \A i \in 1..c : i = c \/ i \in 1..c - 1
    BY <1>1
  <2>6. /\ \A i \in 1..c - 1 : controls[i].type = "level" => Mixer!Percent(controls[i].val) \in Nat
        /\ \A i \in 1..c - 1 : i \in 1..c
        /\ c \in 1..c
    <3>1. \A i \in 1..c - 1 : i \in 1..c /\ controls[i] \in Entry
      BY <1>1, <2>1
    <3>2. ASSUME NEW i \in 1..c - 1 PROVE Mixer!Percent(controls[i].val) \in Nat
      <4>1. controls[i].val \in {0, 1, MaxVal}
        BY <3>1 DEF Entry
      <4>2. controls[i].val \in Nat
        BY <4>1, MixerConstants
      <4> QED BY <4>2, PercentIsNat
    <3> QED BY <1>1, <3>1, <3>2
  <2>7. Weighed(c, value')
    <3>1. CASE Mutes(e)
      <4>1. value' = 0
        BY <2>1, <3>1
      <4>2. ~(controls[c].type = "level")
        BY <3>1 DEF Mutes
      <4> QED BY <2>4, <2>5, <2>6, <3>1, <4>1, <4>2 DEF Weighed
    <3>2. CASE ~Mutes(e) /\ e.type = "level" /\ v < value
      <4>1. value' = v
        BY <2>1, <3>2
      <4>2. \A i \in 1..c - 1 : ~Mutes(controls[i])
        BY <1>1, <2>2, <2>3, <3>2 DEF Weighed
      <4>3. \A i \in 1..c - 1 : controls[i].type = "level" => v <= Mixer!Percent(controls[i].val)
        BY <1>1, <2>2, <2>3, <2>6, <3>2 DEF Weighed
      <4> QED BY <2>2, <2>4, <2>5, <2>6, <3>2, <4>1, <4>2, <4>3 DEF Weighed
    <3>3. CASE ~Mutes(e) /\ ~(e.type = "level" /\ v < value)
      <4>1. value' = value
        BY <2>1, <3>3
      <4>2. e.type = "level" => value <= v
        BY <1>1, <2>2, <3>3
      <4> QED BY <2>3, <2>5, <2>6, <3>3, <4>1, <4>2 DEF Weighed
    <3> QED BY <3>1, <3>2, <3>3
  <2>8. SumInv'
    <3>1. c' - 1 = c /\ c <= Len(controls)
      BY <1>1, <2>1
    <3> QED BY <1>1, <2>1, <2>7, <3>1 DEF SumInv, Weighed, Mutes, Mixer!Percent
  <2> QED BY <1>1, <1>2, <2>1, <2>4, <2>8
<1>5. CASE Mixer!Return
  <2>1. doing = "value" /\ doing' = "idle" /\ c \notin DOMAIN controls /\ volume' = value /\ c' = 1 /\ value' = 0
    BY <1>5 DEF Mixer!Return
  <2>2. c - 1 <= Len(controls) /\ Weighed(c - 1, value)
    BY <2>1 DEF MixerInv, SumInv
  <2>3. c - 1 = Len(controls)
    BY <1>1, <2>1, <2>2
  <2>4. Weighed(Len(controls), value)
    BY <2>2, <2>3
  <2>5. SumInv'
    BY <1>1, <2>1, <2>4 DEF SumInv, Weighed, Mutes, Mixer!Percent
  <2> QED BY <1>2, <2>1, <2>5
<1> QED BY <1>3, <1>4, <1>5

LEMMA NextMixer == MixerInv /\ (Mixer!Next \/ UNCHANGED mixer) => MixerInv'
<1> SUFFICES ASSUME MixerInv, Mixer!Next \/ UNCHANGED mixer PROVE MixerInv'
  OBVIOUS
<1>1. CASE Mixer!VolPerc
  BY <1>1, OpenKeeps, CallbackKeeps, ClosedKeeps, SumKeeps DEF Mixer!VolPerc
<1>2. CASE UNCHANGED mixer
  <2>1. /\ UNCHANGED <<control, inbox, hup, foreign>>
        /\ UNCHANGED <<initialized, controls, doing, c, value, volume>>
    BY <1>2 DEF mixer
  <2>2. MixerTypes' /\ ListFollows'
    BY <2>1 DEF MixerInv, MixerTypes, ListFollows
  <2>3. ValuesListed'
    BY <2>1 DEF MixerInv, ValuesListed
  <2> QED BY <2>1, <2>2, <2>3, SumStays DEF MixerInv
<1>3. Mixer!Crashed => UNCHANGED mixer
  BY DEF Mixer!Crashed, Mixer!vars, Mixer!server, Mixer!client, mixer
<1> QED BY <1>1, <1>2, <1>3, EventKeeps DEF Mixer!Next

(* What the sum over the server's controls comes to. *)
LEMMA LowestIs ==
  ASSUME MixerInv, NEW S, S = {Mixer!Percent(control[x].val) :
                                 x \in {y \in Addrs : control[y] # None /\ control[y].type = "level"}},
         NEW v \in S \cup {100}, \A l \in S \cup {100} : v <= l
  PROVE  Mixer!Lowest = v
<1>1. control \in [Addrs -> Mixer!Controls \cup {None}]
  BY DEF MixerInv, MixerTypes
<1>2. \A l \in S \cup {100} : l \in Nat
  <2> SUFFICES ASSUME NEW x \in Addrs, control[x] # None PROVE Mixer!Percent(control[x].val) \in Nat
    OBVIOUS
  <2>1. control[x].val \in {0, 1, MaxVal}
    BY <1>1, MixerConstants
  <2>2. control[x].val \in Nat
    BY <2>1, MixerConstants
  <2> QED BY <2>2, PercentIsNat
<1>3. \A w \in S \cup {100} : (\A l \in S \cup {100} : w <= l) => w = v
  <2> SUFFICES ASSUME NEW w \in S \cup {100}, \A l \in S \cup {100} : w <= l PROVE w = v
    OBVIOUS
  <2>1. w <= v /\ v <= w
    OBVIOUS
  <2>2. w \in Nat /\ v \in Nat
    BY <1>2
  <2> QED BY <2>1, <2>2
<1>4. Mixer!Lowest = CHOOSE m \in S \cup {100} : \A l \in S \cup {100} : m <= l
  BY Zenon DEF Mixer!Lowest
<1> QED BY <1>3, <1>4

LEMMA SumIsServers == MixerInv => VolumeIsServers
<1> SUFFICES ASSUME MixerInv, doing = "idle", initialized, inbox = <<>>, ~hup
             PROVE  volume = IF Mixer!Muted THEN 0 ELSE Mixer!Lowest
  BY DEF VolumeIsServers, Mixer!VolumeIsServers
<1>1. Weighed(Len(controls), volume)
  BY DEF MixerInv, SumInv
<1>2. /\ control \in [Addrs -> Mixer!Controls \cup {None}]
      /\ controls \in Seq(Entry) /\ Len(controls) \in Nat /\ DOMAIN controls = 1..Len(controls)
      /\ Len(inbox) = 0 /\ DOMAIN inbox = {}
  BY DEF MixerInv, MixerTypes
<1>3. ASSUME NEW x \in Addrs
      PROVE  /\ ListedAs(controls, x, Kind(control[x]))
             /\ control[x] # None => Valid(controls, x, control[x].val)
  <2>1. /\ Told(inbox, controls, x, Len(inbox), Kind(control[x]))
        /\ control[x] # None => Valued(inbox, controls, x, control[x].val)
    BY DEF MixerInv, ListFollows
  <2>2. \A j \in 1..Len(inbox) : FALSE
    BY <1>2
  <2> QED BY <1>2, <2>1, <2>2 DEF Told, Valued
(* What is listed is the server's. *)
<1>4. ASSUME NEW i \in DOMAIN controls
      PROVE  /\ controls[i].addr \in Addrs /\ control[controls[i].addr] # None
             /\ control[controls[i].addr].type = controls[i].type
             /\ control[controls[i].addr].val = controls[i].val
  <2> PICK x : x = controls[i].addr
    OBVIOUS
  <2>1. x \in Addrs /\ controls[i].type \in {"level", "mute"}
    <3>1. controls[i] \in Entry
      BY <1>2
    <3> QED BY <3>1 DEF Entry
  <2>2. ListedAs(controls, x, Kind(control[x]))
    BY <1>3, <2>1
  <2>3. Kind(control[x]) # "none"
    BY <2>2 DEF ListedAs
  <2>4. control[x] # None /\ Kind(control[x]) = control[x].type
    BY <2>3 DEF Kind
  <2>5. PICK n \in DOMAIN controls : controls[n].addr = x /\ controls[n].type = control[x].type
    BY <2>2, <2>3, <2>4 DEF ListedAs
  <2>6. n = i
    BY <2>5 DEF MixerInv, MixerTypes, Once
  <2>7. controls[i].val = control[x].val
    BY <1>3, <2>1, <2>4 DEF Valid
  <2> QED BY <2>1, <2>4, <2>5, <2>6, <2>7
(* The server's levels and switches are listed. *)
<1>5. ASSUME NEW x \in Addrs, control[x] # None, control[x].type \in {"level", "mute"}
      PROVE  \E i \in DOMAIN controls : controls[i].type = control[x].type /\ controls[i].val = control[x].val
  <2>1. Kind(control[x]) = control[x].type /\ Kind(control[x]) # "none"
    BY <1>5 DEF Kind
  <2>2. PICK i \in DOMAIN controls : controls[i].addr = x /\ controls[i].type = control[x].type
    BY <1>3, <2>1 DEF ListedAs
  <2>3. controls[i].val = control[x].val
    BY <1>3, <1>5, <2>2 DEF Valid
  <2> QED BY <2>2, <2>3
<1>6. CASE Mixer!Muted
  <2>1. PICK x \in Addrs : control[x] = [type |-> "mute", val |-> 1]
    BY <1>6 DEF Mixer!Muted
  <2>2. control[x] # None
    <3>1. [type |-> "mute", val |-> 1] \in Mixer!Controls
      BY DEF Mixer!Controls, Mixer!Types
    <3> QED BY <2>1, <3>1, MixerConstants
  <2>3. PICK i \in DOMAIN controls : Mutes(controls[i])
    BY <1>5, <2>1, <2>2 DEF Mutes
  <2> QED BY <1>1, <1>2, <1>6, <2>3 DEF Weighed
<1>7. CASE ~Mixer!Muted
  <2>1. ASSUME NEW i \in DOMAIN controls PROVE ~Mutes(controls[i])
    <3> SUFFICES ASSUME Mutes(controls[i]) PROVE FALSE
      OBVIOUS
    <3> PICK r : r = control[controls[i].addr]
      OBVIOUS
    <3>1. r \in Mixer!Controls /\ r.type = "mute" /\ r.val = 1
      BY <1>2, <1>4 DEF Mutes
    <3>2. r = [type |-> "mute", val |-> 1]
      BY <3>1, MixerConstants
    <3> QED BY <1>4, <1>7, <3>2 DEF Mixer!Muted
  <2> PICK S : S = {Mixer!Percent(control[x].val) :
                      x \in {y \in Addrs : control[y] # None /\ control[y].type = "level"}}
    OBVIOUS
  <2>2. volume \in S \cup {100}
    <3>1. CASE volume = 100
      BY <3>1
    <3>2. ASSUME NEW i \in DOMAIN controls, controls[i].type = "level",
                 volume = Mixer!Percent(controls[i].val)
          PROVE  volume \in S
      BY <1>4, <3>2
    <3> QED BY <1>1, <1>2, <2>1, <3>1, <3>2 DEF Weighed
  <2>3. \A l \in S : volume <= l
    <3> SUFFICES ASSUME NEW x \in Addrs, control[x] # None, control[x].type = "level"
                 PROVE  volume <= Mixer!Percent(control[x].val)
      OBVIOUS
    <3>1. PICK i \in DOMAIN controls : controls[i].type = "level" /\ controls[i].val = control[x].val
      BY <1>5
    <3>2. volume <= Mixer!Percent(controls[i].val)
      BY <1>1, <1>2, <3>1 DEF Weighed
    <3> QED BY <3>1, <3>2
  <2>4. volume <= 100
    <3>1. volume \in 0..100
      BY <1>1, Zenon DEF Weighed
    <3> QED BY <3>1
  <2>5. \A l \in S \cup {100} : volume <= l
    BY <2>3, <2>4
  <2> QED BY <1>7, <2>2, <2>5, LowestIs
<1> QED BY <1>6, <1>7

-----------------------------------------------------------------------------
(* The readers together                                                    *)

ReadersInv == BytesInv /\ CpuInv

LEMMA InitReaders == Init => ReadersInv
<1> SUFFICES ASSUME Init PROVE ReadersInv
  OBVIOUS
<1>1. Wrap \in Nat \ {0}
  BY ReadersConstants
<1>2. BytesInv
  BY <1>1 DEF Init, Counters!Init, BytesInv
<1>3. ticks \in [Field -> Nat] /\ a = [f \in Field |-> 0] /\ perc = None
  BY FieldIs DEF Init, Counters!Init
<1>4. CpuInv
  BY <1>3 DEF CpuInv, PercentInRange, Counters!PercentInRange
<1> QED BY <1>2, <1>4 DEF ReadersInv

LEMMA NextReaders == ReadersInv /\ [Next]_vars => ReadersInv'
<1> SUFFICES ASSUME ReadersInv, [Next]_vars PROVE ReadersInv'
  OBVIOUS
<1>1. ASSUME UNCHANGED <<bytes, old, asked, from, reported, restarted>> PROVE BytesInv'
  BY <1>1 DEF ReadersInv, BytesInv, Level
<1>2. ASSUME UNCHANGED <<ticks, a, perc>> PROVE CpuInv'
  BY <1>2 DEF ReadersInv, CpuInv, PercentInRange, Counters!PercentInRange
<1>3. CASE Counters!NetNext
  <2>1. BytesInv'
    BY <1>3, NetspeedKeeps, NetspeedFailsKeeps, NetChangeKeeps DEF Counters!NetNext, ReadersInv
  <2>2. UNCHANGED <<ticks, a, perc>>
    BY <1>3 DEF Counters!NetNext, Counters!NetChange, Counters!Netspeed, Counters!NetspeedFails,
                Counters!counters, Counters!cpu
  <2> QED BY <1>2, <2>1, <2>2 DEF ReadersInv
<1>4. CASE Counters!CpuNext
  <2>1. UNCHANGED <<bytes, old, asked, from, reported, restarted>>
    BY <1>4 DEF Counters!CpuNext, Counters!CpuChange, Counters!Cpu, Counters!counters, Counters!speeds
  <2> QED BY <1>1, <1>4, <2>1, CpuKeeps DEF ReadersInv
<1>5. CASE UNCHANGED rates
  <2>1. UNCHANGED <<bytes, old, asked, from, reported, restarted, ticks, a, perc>>
    BY <1>5 DEF rates
  <2> QED BY <1>1, <1>2, <2>1 DEF ReadersInv
<1> QED BY <1>3, <1>4, <1>5 DEF Next, vars

(* netspeeds.c: the bytes shown for the only interface a function is asked
   about add up to those counted, also when counters of any width wrap. *)
THEOREM NoByteLost == Spec => []Conserved
<1>1. ReadersInv => Conserved
  <2> SUFFICES ASSUME ReadersInv, NEW d \in Directions, NEW i \in Ifaces,
                      asked[d] = {i}, ~restarted, old[d] # 0
               PROVE  reported[d] % Wrap = (old[d] - from[d]) % Wrap
    BY DEF Conserved, Counters!Conserved
  <2>1. PICK k \in Int : reported[d] = old[d] - from[d] + k * Wrap
    BY DEF ReadersInv, BytesInv, Level
  <2>2. old[d] - from[d] \in Int /\ Wrap \in Nat \ {0}
    BY ReadersConstants DEF ReadersInv, BytesInv
  <2> QED BY <2>1, <2>2, Turns
<1> QED BY <1>1, InitReaders, NextReaders, PTL DEF Spec

(* cpu.c: the percentage lies between 0 and 100, also when a reading that
   failed half way has left a sample of two moments. *)
THEOREM PercentIsOne == Spec => []PercentInRange
<1>1. ReadersInv => PercentInRange
  BY DEF ReadersInv, CpuInv
<1> QED BY <1>1, InitReaders, NextReaders, PTL DEF Spec

(* The audio server's part *)
LEMMA MixerAlways == Spec => []MixerInv
<1>1. Init => MixerInv
  BY InitMixer DEF Init
<1>2. MixerInv /\ [Next]_vars => MixerInv'
  BY NextMixer DEF Next, vars
<1> QED BY <1>1, <1>2, PTL DEF Spec

(* volume.c: between two calls, once all messages are taken in, the volume
   shown is what the server's controls say, in whatever order they came,
   were described again or were lost with an earlier connection. *)
THEOREM VolumeIsRight == Spec => []VolumeIsServers
BY MixerAlways, SumIsServers, PTL

(* volume.c: onval finds the control of every value it is called with, as
   long as the server sends those of output levels and mute switches. *)
THEOREM ValuesFindControls == Spec => []CrashOnlyByOthers
<1>1. MixerInv => CrashOnlyByOthers
  BY DEF MixerInv, ValuesListed, CrashOnlyByOthers, Mixer!CrashOnlyByOthers
<1> QED BY <1>1, MixerAlways, PTL

-----------------------------------------------------------------------------
(* The clock                                                               *)

(* A step of the readers is one of the clock's, or leaves the clock alone. *)
LEMMA ClockSteps ==
  /\ Init => LoopProofs!Init
  /\ [Next]_vars => [LoopProofs!Next]_(LoopProofs!vars)
<1>1. Init => LoopProofs!Init
  BY DEF Init, Loop!Init, LoopProofs!Init, Loop!PerSecond, LoopProofs!PerSecond,
         Loop!Timespec, LoopProofs!Timespec
<1>2. Loop!Next => LoopProofs!Next
  BY DEF Loop!Next, Loop!Elapse, Loop!Begin, Loop!Measure, Loop!Sleep, Loop!Skip, Loop!Wake,
         Loop!Interrupted, Loop!PerSecond, Loop!Units, Loop!Timespec, Loop!intspec, Loop!difftimespec,
         LoopProofs!Next, LoopProofs!Elapse, LoopProofs!Begin, LoopProofs!Measure, LoopProofs!Sleep,
         LoopProofs!Skip, LoopProofs!Wake, LoopProofs!Interrupted, LoopProofs!PerSecond,
         LoopProofs!Units, LoopProofs!Timespec, LoopProofs!intspec, LoopProofs!difftimespec
<1>3. UNCHANGED clock => UNCHANGED LoopProofs!vars
  BY DEF clock, LoopProofs!vars
<1> QED BY <1>1, <1>2, <1>3 DEF Next, vars

LEMMA ClockInv ==
  /\ Init => LoopProofs!Inv
  /\ LoopProofs!Inv /\ [Next]_vars => LoopProofs!Inv'
  /\ LoopProofs!Inv => ValidSleep /\ Punctual
<1>1. LoopProofs!ClockConstants
  BY ReadersConstants DEF Loop!ClockConstants, LoopProofs!ClockConstants
<1>2. Init => LoopProofs!Inv
  BY <1>1, ClockSteps, LoopProofs!InitInv
<1>3. LoopProofs!Inv /\ [Next]_vars => LoopProofs!Inv'
  BY <1>1, ClockSteps, LoopProofs!NextInv
<1>4. LoopProofs!Inv => ValidSleep /\ Punctual
  BY DEF LoopProofs!Inv, LoopProofs!Ends, LoopProofs!Units, LoopProofs!PerSecond,
         ValidSleep, Loop!ValidSleep, Punctual, Loop!Punctual, Loop!Units, Loop!PerSecond
<1> QED BY <1>2, <1>3, <1>4

(* slstatus.c: among the readers too, main never dies of a time that
   nanosleep refuses. *)
THEOREM ReadersSleep == Spec => []ValidSleep
BY ClockInv, PTL DEF Spec

(* slstatus.c: a pass begins an interval after the last one, and the time
   that serving signals took, but not earlier. *)
THEOREM ReadersOnTime == Spec => []Punctual
BY ClockInv, PTL DEF Spec
=============================================================================
