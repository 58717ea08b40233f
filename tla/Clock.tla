------------------------------- MODULE Clock -------------------------------
(***************************************************************************)
(* slstatus.c: the arithmetic with which main sleeps away the rest of an   *)
(* interval.  Slstatus leaves it as a choice between time left and none;   *)
(* signals that end the program, and errno, are described there.           *)
(***************************************************************************)
EXTENDS Integers

CONSTANTS
  Interval,          \* interval of config.h, in milliseconds
  Thousand, Million, \* milliseconds of a second, units of a millisecond
  MaxTime            \* bound on the clock

(* What Readers assumes of them. *)
ClockConstants ==
  /\ Thousand \in Nat \ {0} /\ Million \in Nat \ {0}
  /\ Interval \in Nat /\ MaxTime \in Nat

VARIABLES
  now,     \* CLOCK_MONOTONIC, in the units of tv_nsec
  start,   \* of the pass
  wait,    \* what is left to sleep
  due,     \* when nanosleep returns
  aside,   \* the time since the pass that no sleep made up for
  at       \* "setup", "pass", "awake", "asleep", "tick", "died"

vars == <<now, start, wait, due, aside, at>>

PerSecond == Thousand * Million
Units(t) == t.sec * PerSecond + t.nsec
Timespec(n) == [sec |-> n \div PerSecond, nsec |-> n % PerSecond]

intspec == [sec |-> Interval \div Thousand, nsec |-> (Interval % Thousand) * Million]

(* A mutant of difftimespec: the second is not borrowed. *)
difftimespecUnborrowed(a, b) ==
  [sec  |-> a.sec - b.sec,
   nsec |-> a.nsec - b.nsec + IF a.nsec < b.nsec THEN PerSecond ELSE 0]

(* A mutant of difftimespec: the second is borrowed and not used. *)
difftimespecUncarried(a, b) ==
  [sec |-> a.sec - b.sec - (IF a.nsec < b.nsec THEN 1 ELSE 0), nsec |-> a.nsec - b.nsec]

difftimespec(a, b) ==
  [sec  |-> a.sec - b.sec - (IF a.nsec < b.nsec THEN 1 ELSE 0),
   nsec |-> a.nsec - b.nsec + IF a.nsec < b.nsec THEN PerSecond ELSE 0]

Init ==
  /\ now \in 0..PerSecond - 1 /\ at = "setup" /\ due = 0 /\ aside = 0
  /\ start = Timespec(0) /\ wait = Timespec(0)

(* Time passes anywhere: in tick, in either printstatus, in the sleep and
   after it.  Awake is from the reading of current on. *)
Elapse ==
  /\ now < MaxTime /\ now' = now + 1
  /\ aside' = IF at = "awake" THEN aside + 1 ELSE aside
  /\ UNCHANGED <<start, wait, due, at>>

Begin ==
  /\ at \in {"setup", "tick"} /\ at' = "pass"
  /\ start' = Timespec(now) /\ aside' = 0
  /\ UNCHANGED <<now, wait, due>>

(* After printstatus(iter++): diff and wait *)
Measure ==
  /\ at = "pass" /\ at' = "awake"
  /\ wait' = difftimespec(intspec, difftimespec(Timespec(now), start))
  /\ UNCHANGED <<now, start, due, aside>>

(* nanosleep refuses a tv_nsec that is none, and main dies. *)
Sleep ==
  /\ at = "awake" /\ wait.sec >= 0
  /\ at' = IF wait.nsec \in 0..PerSecond - 1 THEN "asleep" ELSE "died"
  /\ due' = now + Units(wait)
  /\ UNCHANGED <<now, start, wait, aside>>

(* The pass took longer than the interval. *)
Skip == at = "awake" /\ wait.sec < 0 /\ at' = "tick" /\ UNCHANGED <<now, start, wait, due, aside>>

Wake == at = "asleep" /\ now >= due /\ at' = "tick" /\ UNCHANGED <<now, start, wait, due, aside>>

(* A signal: nanosleep tells what is left, printstatus(0) serves it. *)
Interrupted ==
  /\ at = "asleep" /\ now < due /\ at' = "awake"
  /\ wait' = Timespec(due - now)
  /\ UNCHANGED <<now, start, due, aside>>

Next == Elapse \/ Begin \/ Measure \/ Sleep \/ Skip \/ Wake \/ Interrupted

Spec == Init /\ [][Next]_vars

-----------------------------------------------------------------------------
(* Properties                                                              *)

(* nanosleep never gets a time that is none, whatever was borrowed. *)
ValidSleep == at # "died"

(* A sleep ends an interval after the start of the pass, plus the time that
   serving signals took; the next pass never begins earlier than that. *)
Punctual ==
  /\ at = "asleep" => due = Units(start) + Interval * Million + aside
  /\ at = "tick" => now >= Units(start) + Interval * Million
=============================================================================
