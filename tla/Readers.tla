------------------------------ MODULE Readers ------------------------------
(***************************************************************************)
(* The parts that compute with what they read on the spot: the components  *)
(* of Rates and Volume, which printstatus calls, and the Clock of the main *)
(* loop, with what they read changing between any two calls.  They share   *)
(* no state, so one of them at a time is looked at.                        *)
(***************************************************************************)
EXTENDS Integers, FiniteSets

CONSTANTS
  Ifaces, Directions, Addrs, None, Wrap, MaxVal, Interval, Thousand, Million, MaxTime,
  MaxEvents    \* bound on all changes together

VARIABLES
  os, bytes, present, ticks, old, a, speed, perc, asked, restarted, from, reported,
  control, inbox, hup, foreign, initialized, controls, doing, c, value, volume,
  events,      \* how many changes there were
  now, start, wait, due, aside, at,
  args         \* which function of the table, or the clock

Counters == INSTANCE Rates WITH changes <- events, MaxChanges <- MaxEvents
Mixer    == INSTANCE Volume WITH perc <- volume
Loop     == INSTANCE Clock

ASSUME ReadersConstants ==
  /\ Wrap \in Nat \ {0} /\ None \notin Ifaces \cup Addrs \cup (0..Wrap - 1)
  /\ MaxVal \in Nat \ {0} /\ MaxEvents \in Nat
  /\ IsFiniteSet(Addrs) /\ None \notin Mixer!Controls
  /\ Loop!ClockConstants

rates == <<os, bytes, present, ticks, old, a, speed, perc, asked, restarted, from, reported>>
mixer == <<control, inbox, hup, foreign, initialized, controls, doing, c, value, volume>>
clock == <<now, start, wait, due, aside, at>>
vars  == <<rates, mixer, events, clock, args>>

(* What no entry reads stands still. *)
Init ==
  /\ args \in {"netspeed", "cpu", "volume", "clock"}
  /\ Counters!Init /\ Mixer!Init /\ Loop!Init
  /\ args # "clock" => now = 0
  /\ args # "volume" => control = [x \in Addrs |-> None]
  /\ args # "cpu" => ticks = [user |-> 0, idle |-> 1, iowait |-> 0]
  /\ args # "netspeed" => present = {} /\ \A d \in Directions, i \in Ifaces : bytes[d][i] = 0

Next ==
  \/ args = "netspeed" /\ Counters!NetNext /\ UNCHANGED <<mixer, clock, args>>
  \/ args = "cpu" /\ Counters!CpuNext /\ UNCHANGED <<mixer, clock, args>>
  \/ args = "volume" /\ Mixer!Next /\ UNCHANGED <<rates, clock, args>>
  \/ args = "clock" /\ Loop!Next /\ UNCHANGED <<rates, mixer, events, args>>

Spec == Init /\ [][Next]_vars

Conserved == Counters!Conserved
PercentInRange == Counters!PercentInRange
VolumeIsServers == Mixer!VolumeIsServers
CrashOnlyByOthers == Mixer!CrashOnlyByOthers
ValidSleep == Loop!ValidSleep
Punctual == Loop!Punctual
=============================================================================
