---------------------------- MODULE ClockProofs ----------------------------
(***************************************************************************)
(* Theorems about the sleep of the main loop, for any interval and any     *)
(* number of units in a second.                                            *)
(***************************************************************************)
EXTENDS Clock, TLAPS

(* A time with a proper tv_nsec, possibly negative as a whole. *)
Times == [sec : Int, nsec : 0..PerSecond - 1]

LEMMA PerSecondPositive == ClockConstants => PerSecond \in Nat \ {0}
BY DEF ClockConstants, PerSecond

(* Timespec tells the units of a time, with a proper tv_nsec. *)
LEMMA TimespecUnits ==
  ASSUME ClockConstants, NEW n \in Nat
  PROVE  Timespec(n) \in Times /\ Timespec(n).sec >= 0 /\ Units(Timespec(n)) = n
<1> DEFINE p == PerSecond
<1>1. p \in Nat \ {0}
  BY PerSecondPositive
<1> HIDE DEF p
<1>2. n \div p \in Nat /\ n % p \in 0..p - 1 /\ (n \div p) * p + (n % p) = n
  BY <1>1
<1> QED BY <1>2 DEF Timespec, Times, Units, p

LEMMA IntspecUnits ==
  ASSUME ClockConstants
  PROVE  intspec \in Times /\ Units(intspec) = Interval * Million
<1>1. Interval \div Thousand \in Nat /\ Interval % Thousand \in 0..Thousand - 1
      /\ (Interval \div Thousand) * Thousand + (Interval % Thousand) = Interval
  BY DEF ClockConstants
<1> DEFINE q == Interval \div Thousand
           r == Interval % Thousand
<1> HIDE DEF q, r
<1>2. r * Million \in 0..Thousand * Million - 1
  BY <1>1 DEF ClockConstants, q, r
<1>3. q * (Thousand * Million) + r * Million = Interval * Million
  BY <1>1 DEF ClockConstants, q, r
<1> QED BY <1>1, <1>2, <1>3 DEF intspec, Times, Units, PerSecond, q, r

(* difftimespec subtracts, and borrows rightly. *)
LEMMA Difference ==
  ASSUME ClockConstants, NEW x \in Times, NEW y \in Times
  PROVE  difftimespec(x, y) \in Times /\ Units(difftimespec(x, y)) = Units(x) - Units(y)
<1> DEFINE p == PerSecond
<1>1. p \in Nat \ {0}
  BY PerSecondPositive
<1>2. /\ x.sec \in Int /\ y.sec \in Int /\ x.nsec \in 0..p - 1 /\ y.nsec \in 0..p - 1
  BY DEF Times
<1> HIDE DEF p
<1>3. CASE x.nsec < y.nsec
  <2>1. difftimespec(x, y) = [sec |-> x.sec - y.sec - 1, nsec |-> x.nsec - y.nsec + p]
    BY <1>3 DEF difftimespec, p
  <2>2. (x.sec - y.sec - 1) * p + (x.nsec - y.nsec + p) = (x.sec * p + x.nsec) - (y.sec * p + y.nsec)
    BY <1>1, <1>2
  <2> QED BY <1>1, <1>2, <1>3, <2>1, <2>2 DEF Times, Units, p
<1>4. CASE ~(x.nsec < y.nsec)
  <2>1. difftimespec(x, y) = [sec |-> x.sec - y.sec, nsec |-> x.nsec - y.nsec]
    BY <1>2, <1>4 DEF difftimespec
  <2>2. (x.sec - y.sec) * p + (x.nsec - y.nsec) = (x.sec * p + x.nsec) - (y.sec * p + y.nsec)
    BY <1>1, <1>2
  <2> QED BY <1>1, <1>2, <1>4, <2>1, <2>2 DEF Times, Units, p
<1> QED BY <1>3, <1>4

LEMMA UnitsSign ==
  ASSUME ClockConstants, NEW t \in Times
  PROVE  Units(t) \in Int /\ (t.sec >= 0 => Units(t) >= 0) /\ (t.sec < 0 => Units(t) < 0)
<1> DEFINE p == PerSecond
           s == t.sec
           n == t.nsec
<1>1. p \in Nat \ {0} /\ s \in Int /\ n \in 0..p - 1
  BY PerSecondPositive DEF Times
<1> HIDE DEF p, s, n
<1>2. s * p + n \in Int
  BY <1>1
<1>3. s >= 0 => s * p + n >= 0
  BY <1>1
<1>4. s < 0 => s * p + n < 0
  <2>1. s < 0 => s * p <= (-1) * p
    BY <1>1
  <2> QED BY <1>1, <2>1
<1> QED BY <1>2, <1>3, <1>4 DEF Units, p, s, n

-----------------------------------------------------------------------------
(* The inductive invariant: what is left to sleep, counted from now, ends an
   interval after the pass began, plus what was set aside. *)

Ends == Units(start) + Interval * Million

Inv ==
  /\ now \in Nat /\ due \in Nat /\ aside \in Nat /\ start \in Times /\ wait \in Times
  /\ at \in {"setup", "pass", "awake", "asleep", "tick"}
  /\ at = "pass" => aside = 0
  /\ at = "awake" => now + Units(wait) = Ends + aside
  /\ at = "asleep" => due = Ends + aside
  /\ at = "tick" => now >= Ends

LEMMA InitInv == ClockConstants /\ Init => Inv
<1> SUFFICES ASSUME ClockConstants, Init PROVE Inv
  OBVIOUS
<1>1. Timespec(0) \in Times /\ PerSecond \in Nat
  BY TimespecUnits, PerSecondPositive
<1> QED BY <1>1 DEF Init, Inv

LEMMA NextInv == ClockConstants /\ Inv /\ [Next]_vars => Inv'
<1> SUFFICES ASSUME ClockConstants, Inv, [Next]_vars PROVE Inv'
  OBVIOUS
<1>1. Interval * Million \in Nat /\ Ends \in Int /\ Units(wait) \in Int /\ Units(start) \in Int
  <2>1. Interval * Million \in Nat
    BY DEF ClockConstants
  <2> QED BY <2>1, UnitsSign DEF Inv, Ends
<1>2. start' = start => Ends' = Ends
  BY DEF Ends, Units
<1>3. wait' = wait => Units(wait)' = Units(wait)
  BY DEF Units
<1>4. CASE Elapse
  BY <1>1, <1>2, <1>3, <1>4 DEF Elapse, Inv
<1>5. CASE Begin
  BY <1>5, TimespecUnits DEF Begin, Inv
<1>6. CASE Measure
  <2> DEFINE diff == difftimespec(Timespec(now), start)
  <2>1. now \in Nat /\ start \in Times
    BY DEF Inv
  <2>2. diff \in Times /\ Units(diff) = now - Units(start)
    BY <2>1, TimespecUnits, Difference
  <2>3. wait' \in Times /\ wait' = difftimespec(intspec, diff)
    BY <1>6, <2>2, IntspecUnits, Difference DEF Measure
  <2>4. Units(difftimespec(intspec, diff)) = Interval * Million - (now - Units(start))
    BY <2>2, IntspecUnits, Difference
  <2>5. Units(wait)' = Interval * Million - (now - Units(start))
    <3> HIDE DEF diff
    <3> QED BY <2>3, <2>4 DEF Units
  <2> QED BY <1>1, <1>2, <1>6, <2>1, <2>3, <2>5 DEF Measure, Inv, Ends
<1>7. CASE Sleep
  <2>1. wait \in Times /\ wait.sec >= 0 /\ wait.nsec \in 0..PerSecond - 1
    BY <1>7 DEF Sleep, Inv, Times
  <2>2. Units(wait) >= 0
    BY <2>1, UnitsSign
  <2> QED BY <1>1, <1>2, <1>7, <2>1, <2>2 DEF Sleep, Inv
<1>8. CASE Skip
  <2>1. Units(wait) < 0
    BY <1>8, UnitsSign DEF Skip, Inv
  <2> QED BY <1>1, <1>2, <1>8, <2>1 DEF Skip, Inv
<1>9. CASE Wake
  BY <1>1, <1>2, <1>9 DEF Wake, Inv
<1>10. CASE Interrupted
  <2>1. due - now \in Nat
    BY <1>10 DEF Interrupted, Inv
  <2>2. Timespec(due - now) \in Times /\ Units(Timespec(due - now)) = due - now
    BY <2>1, TimespecUnits
  <2>3. wait' = Timespec(due - now)
    BY <1>10 DEF Interrupted
  <2>4. Units(wait)' = due - now
    BY <2>2, <2>3 DEF Units
  <2> QED BY <1>1, <1>2, <1>10, <2>2, <2>3, <2>4 DEF Interrupted, Inv
<1>11. CASE UNCHANGED vars
  BY <1>2, <1>3, <1>11 DEF vars, Inv
<1> QED BY <1>4, <1>5, <1>6, <1>7, <1>8, <1>9, <1>10, <1>11 DEF Next

-----------------------------------------------------------------------------
(* The theorems                                                            *)

(* main never dies of a time that nanosleep refuses, whatever the interval:
   the two subtractions of main borrow rightly (difftimespec). *)
THEOREM SleepIsValid ==
  ASSUME ClockConstants
  PROVE  Spec => []ValidSleep
<1>1. Init => Inv
  BY InitInv
<1>2. Inv /\ [Next]_vars => Inv'
  BY NextInv
<1>3. Inv => ValidSleep
  BY DEF Inv, ValidSleep
<1> QED BY <1>1, <1>2, <1>3, PTL DEF Spec

(* Every sleep ends an interval after its pass began plus the time spent on
   signals, and no pass begins before an interval is over (main). *)
THEOREM PassesOnTime ==
  ASSUME ClockConstants
  PROVE  Spec => []Punctual
<1>1. Init => Inv
  BY InitInv
<1>2. Inv /\ [Next]_vars => Inv'
  BY NextInv
<1>3. Inv => Punctual
  BY DEF Inv, Punctual, Ends
<1> QED BY <1>1, <1>2, <1>3, PTL DEF Spec
=============================================================================
