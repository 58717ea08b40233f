------------------------------- MODULE Rates -------------------------------
(***************************************************************************)
(* components/netspeeds.c and cpu.c: functions that remember the counters  *)
(* of their last call in static variables and show what was added since.   *)
(*                                                                         *)
(* The counters of the CPU's fields are in clock ticks, those of the       *)
(* interfaces in bytes; rates are left as differences, without the factor  *)
(* 1000 / interval and the formatting.                                     *)
(***************************************************************************)
EXTENDS Integers, Sequences, FiniteSets

CONSTANTS
  Ifaces,      \* the arguments of the netspeed_* entries of config.h
  Directions,  \* "rx", "tx": functions with a static variable each
  None,        \* NULL
  Wrap,        \* how many values uintmax_t has
  MaxChanges   \* bound on the changes of counters

VARIABLES
  os,          \* "linux" or "bsd", which the code was built for
  bytes,       \* the kernel's counter of each direction and interface
  present,     \* the interfaces there are
  ticks,       \* the kernel's counter of each field of the CPU
  changes,     \* how many changes there were
  old,         \* static rxbytes and txbytes
  a,           \* static a[] of cpu_perc
  speed, perc, \* the last results, None for NULL
  asked,       \* the interfaces each direction was asked about
  restarted,   \* an interface came back, its counter began again
  from,        \* the bytes counted when a function learnt its first counter
  reported     \* the sum of the results, while about that interface alone

counters == <<bytes, present, ticks, restarted>>
speeds   == <<old, speed, asked, from, reported>>
cpu      == <<a, perc>>
vars     == <<os, counters, changes, speeds, cpu>>

Fields == <<"user", "idle", "iowait">>
Field == {Fields[n] : n \in DOMAIN Fields}

Init ==
  /\ os \in {"linux", "bsd"}
  /\ bytes \in [Directions -> [Ifaces -> 0..Wrap - 1]]
  /\ present \in SUBSET Ifaces
  /\ ticks \in [Field -> 0..1] /\ ticks["idle"] = 1 /\ changes = 0
  /\ old = [d \in Directions |-> 0] /\ a = [f \in Field |-> 0]
  /\ speed = [d \in Directions |-> None] /\ perc = None
  /\ asked = [d \in Directions |-> {}] /\ restarted = FALSE
  /\ from = [d \in Directions |-> 0] /\ reported = [d \in Directions |-> 0]

-----------------------------------------------------------------------------
(* The kernel                                                              *)

Traffic(d, i) ==
  /\ i \in present /\ bytes' = [bytes EXCEPT ![d][i] = (@ + 1) % Wrap]
  /\ UNCHANGED <<present, restarted>>

Plug(i) ==
  /\ present' = IF i \in present THEN present \ {i} ELSE present \cup {i}
  /\ bytes' = [d \in Directions |-> [bytes[d] EXCEPT ![i] = IF i \in present THEN @ ELSE 0]]
  /\ restarted' = (restarted \/ i \notin present)

Bounded == changes < MaxChanges /\ changes' = changes + 1

NetChange ==
  /\ Bounded /\ \E i \in Ifaces : Plug(i) \/ \E d \in Directions : Traffic(d, i)
  /\ UNCHANGED <<os, ticks, speeds, cpu>>

CpuChange ==
  /\ Bounded /\ \E f \in Field : ticks' = [ticks EXCEPT ![f] = @ + 1]
  /\ UNCHANGED <<os, bytes, present, restarted, speeds, cpu>>

-----------------------------------------------------------------------------
(* netspeed_rx, netspeed_tx                                                *)

(* What is in the static variable after the call: the counter, for an
   interface that is not there the old value or, on the BSDs, the sum of
   no addresses. *)
Remembered(d, i) ==
  IF i \in present THEN bytes[d][i] ELSE IF os = "linux" THEN old[d] ELSE 0

(* A mutant of Difference: the counter itself when there is no old one. *)
DifferenceSinceBoot(d, i) ==
  IF i \notin present THEN None ELSE (bytes[d][i] - old[d]) % Wrap

Difference(d, i) ==
  IF i \notin present \/ old[d] = 0 THEN None ELSE (bytes[d][i] - old[d]) % Wrap

Netspeed(d, i) ==
  LET result == Difference(d, i)
      alone  == asked[d] \subseteq {i} /\ ~restarted
  IN  /\ old' = [old EXCEPT ![d] = Remembered(d, i)]
      /\ speed' = [speed EXCEPT ![d] = result]
      /\ asked' = [asked EXCEPT ![d] = @ \cup {i}]
      /\ from' = [from EXCEPT ![d] = IF alone /\ old[d] = 0 THEN old'[d] - reported[d] ELSE @]
      /\ reported' = [reported EXCEPT ![d] = IF alone /\ result # None THEN @ + result ELSE @]
      /\ UNCHANGED <<os, counters, changes, cpu>>

(* The file cannot be read, or getifaddrs fails, with the interface there or
   not: the static variable keeps its counter. *)
NetspeedFails(d, i) ==
  /\ speed' = [speed EXCEPT ![d] = None] /\ asked' = [asked EXCEPT ![d] = @ \cup {i}]
  /\ UNCHANGED <<os, counters, changes, old, from, reported, cpu>>

-----------------------------------------------------------------------------
(* cpu_perc                                                                *)

Total(t) == t["user"] + t["idle"] + t["iowait"]

Used(t) == t["user"]

(* A mutant of Percent: the time waited for disks is left out of one sum. *)
PercentWithoutWait(t, b) ==
  LET sum == Total([t EXCEPT !["iowait"] = 0]) - Total(b)
  IN  IF b["user"] = 0 \/ sum = 0 THEN None
      ELSE (100 * (Used(t) - Used(b))) \div sum

Percent(t, b) ==
  LET sum == Total(t) - Total(b)
  IN  IF b["user"] = 0 \/ sum = 0 THEN None
      ELSE (100 * (Used(t) - Used(b))) \div sum

(* A reading that fails after n fields has overwritten those. *)
Read(n) == [f \in Field |-> IF \E k \in 1..n : Fields[k] = f THEN ticks[f] ELSE a[f]]

Cpu(n) ==
  /\ os = "linux" \/ n \in {0, Len(Fields)}
  /\ a' = Read(n)
  /\ perc' = IF n = Len(Fields) THEN Percent(ticks, a) ELSE None
  /\ UNCHANGED <<os, counters, changes, speeds>>

NetNext ==
  NetChange \/ \E d \in Directions, i \in Ifaces : Netspeed(d, i) \/ NetspeedFails(d, i)

CpuNext == CpuChange \/ \E n \in 0..Len(Fields) : Cpu(n)

Next == NetNext \/ CpuNext

Spec == Init /\ [][Next]_vars

-----------------------------------------------------------------------------
(* Properties                                                              *)

(* A function asked about one interface only, whose counter never began
   again, reports every byte once, also when the counter wraps: its results
   add up to what was counted since the first counter it learnt.  A counter
   that reads 0 is taken for none, and learnt anew. *)
Conserved ==
  \A d \in Directions : \A i \in Ifaces :
    asked[d] = {i} /\ ~restarted /\ old[d] # 0 =>
      reported[d] % Wrap = (old[d] - from[d]) % Wrap

(* The percentage is one, also after readings that failed half way: the
   sample they leave mixes two moments, none of them later than the next. *)
PercentInRange == perc # None => perc \in 0..100
=============================================================================
