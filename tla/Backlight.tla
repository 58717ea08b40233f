----------------------------- MODULE Backlight -----------------------------
(***************************************************************************)
(* components/backlight.c: main looks entries up and appends new ones to a *)
(* tail queue, a thread of its own receives udev's events, walks the same  *)
(* queue without a lock and keeps the entries current.                     *)
(*                                                                         *)
(* An event carries a name; the thread reads the brightness from sysfs     *)
(* when it handles the event.  Stores become visible in program order.     *)
(***************************************************************************)
EXTENDS Naturals, Sequences

CONSTANTS
  Devices,     \* the backlights in /sys/class/backlight
  Wanted,      \* the arguments of the backlight_line entries of config.h
  None,        \* NULL
  Top,         \* the queue's head: its tqh_first is written like a tqe_next
  MaxLevel,    \* bound on the brightness
  MaxChanges   \* bound on the changes of brightness

ASSUME BacklightConstants ==
  /\ None \notin Devices \cup Wanted /\ Top \notin Devices \cup {None}
  /\ MaxLevel \in Nat /\ MaxChanges \in Nat

VARIABLES
  actual,      \* the brightness of each device
  changes,     \* how many changes there were
  udev,        \* udev_new succeeded
  monitor,     \* "none", "receiving", "freed"
  events,      \* what the monitor's socket holds: names
  next,        \* tqe_next of each entry, tqh_first of the head
  last,        \* whose field tqh_last points to, None before TAILQ_INIT
  brightness,  \* of each entry
  at, arg, mine,          \* main: where it is, the name, the value it read
  tat, name, pos, read,   \* the thread: where it is, the name of its event,
                          \* where its walk is, the value it read
  raised,      \* names not looked up since BACKLIGHT_SIGNAL was last sent
  shown,       \* the last brightness put into a text
  known, met   \* the entries when the walk began, those the thread ever found

kernel == <<actual, changes>>
queue  == <<next, last>>
main   == <<at, arg, mine>>
thread == <<tat, name, pos, read, known, met>>
text   == <<raised, shown>>
vars   == <<kernel, udev, monitor, events, queue, brightness, main, thread, text>>

Final == {"exited", "crashed", "corrupted"}
Running == at \notin Final

Init ==
  /\ actual = [d \in Devices |-> MaxLevel] /\ changes = 0
  /\ udev = FALSE /\ monitor = "none" /\ events = <<>>
  /\ next = [x \in Devices \cup {Top} |-> None] /\ last = None
  /\ brightness = [d \in Devices |-> 0]
  /\ at = "init" /\ arg = None /\ mine = 0
  /\ tat = "none" /\ name = None /\ pos = None /\ read = 0
  /\ known = {} /\ met = {}
  /\ raised = {} /\ shown = [w \in Wanted |-> None]

-----------------------------------------------------------------------------
(* The brightness changes; udev tells the monitors that receive by then.   *)

Change(d) ==
  /\ Running /\ changes < MaxChanges /\ changes' = changes + 1
  /\ \E l \in 0..MaxLevel \ {actual[d]} : actual' = [actual EXCEPT ![d] = l]
  /\ events' = IF monitor = "receiving" THEN Append(events, d) ELSE events
  /\ UNCHANGED <<udev, monitor, queue, brightness, main, thread, text>>

-----------------------------------------------------------------------------
(* Main                                                                    *)

(* TAILQ_FOREACH by main, the only one to write the queue: the entries it
   reaches from tqh_first. *)
InQueue(d) == \E x \in DOMAIN next : next[x] = d

(* A mutant of BacklightInit: the queue is left as the loader zeroed it. *)
BacklightInitNoQueue ==
  /\ at = "init" /\ at' = "idle"
  /\ udev' \in BOOLEAN /\ UNCHANGED last
  /\ tat' = IF udev' THEN "start" ELSE "none"

BacklightInit ==
  /\ at = "init" /\ at' = "idle"
  /\ udev' \in BOOLEAN
  /\ last' = IF udev' THEN Top ELSE last
  /\ tat' = IF udev' THEN "start" ELSE "none"

Show(w, l) ==
  /\ shown' = [shown EXCEPT ![w] = l] /\ raised' = raised \ {w}

(* udev_device_new_from_syspath: main hands it NULL when udev_new failed, and
   only libudev's own test of that makes it find nothing.  A libudev without
   the test would find the device, and main would append to a queue that was
   not initialised. *)
NewFromSyspath(w) == udev /\ w \in Devices

(* backlight_find(name, 1): the entry, nothing, or the brightness for a new
   entry. *)
Lookup(w) ==
  /\ at = "idle"
  /\ IF InQueue(w) THEN Show(w, brightness[w]) /\ UNCHANGED main
     ELSE IF NewFromSyspath(w)
     THEN at' = "insert" /\ arg' = w /\ mine' = actual[w] /\ UNCHANGED text
     ELSE Show(w, None) /\ UNCHANGED main
  /\ UNCHANGED <<udev, tat, queue, brightness>>

(* A mutant of InsertTail: tqh_last moves before the store through it. *)
InsertTailLate ==
  \/ at = "insert" /\ at' = "move" /\ last' = arg /\ UNCHANGED next
  \/ at = "move" /\ at' = "inserted" /\ next' = [next EXCEPT ![last] = arg] /\ UNCHANGED last

(* TAILQ_INSERT_TAIL: the store that links the entry, whose tqe_next is NULL
   by then, and the one that moves tqh_last. *)
InsertTail ==
  \/ /\ at = "insert" /\ at' = IF last = None THEN "crashed" ELSE "move"
     /\ next' = IF last = None THEN next ELSE [next EXCEPT ![last] = arg]
     /\ UNCHANGED last
  \/ at = "move" /\ at' = "inserted" /\ last' = arg /\ UNCHANGED next

(* The value is in the entry before the entry is linked. *)
Insert ==
  /\ InsertTail
  /\ brightness' = IF at = "insert" THEN [brightness EXCEPT ![arg] = mine] ELSE brightness
  /\ UNCHANGED <<arg, mine, udev, tat, text>>

Inserted ==
  /\ at = "inserted" /\ at' = "idle" /\ Show(arg, brightness[arg])
  /\ UNCHANGED <<arg, mine, udev, tat, queue, brightness>>

(* backlight_free: pthread_kill only makes the thread run the handler, and
   is given no thread at all when udev_new failed. *)
FreeBegins ==
  /\ at = "idle" /\ at' \in IF udev THEN {"unref"} ELSE {"unref", "corrupted"}
  /\ UNCHANGED <<arg, mine, monitor, udev>>

FreeMonitor ==
  /\ at = "unref" /\ at' = "exit"
  /\ monitor' = IF monitor = "receiving" THEN "freed" ELSE monitor
  /\ udev' = FALSE
  /\ UNCHANGED <<arg, mine>>

Exit == at = "exit" /\ at' = "exited" /\ UNCHANGED <<arg, mine, monitor, udev>>

Main ==
  \/ /\ \/ BacklightInit /\ UNCHANGED <<arg, mine, next, brightness, text>>
        \/ \E w \in Wanted : Lookup(w)
        \/ Insert \/ Inserted
     /\ UNCHANGED <<kernel, monitor, events, name, pos, read, known, met>>
  \/ /\ FreeBegins \/ FreeMonitor \/ Exit
     /\ UNCHANGED <<kernel, events, queue, brightness, thread, text>>

-----------------------------------------------------------------------------
(* The thread: backlight_loop                                              *)

(* A monitor made without a context is NULL: receiving from it fails at
   once, for good. *)
StartMonitor ==
  /\ tat = "start" /\ tat' = IF udev THEN "receive" ELSE "spin"
  /\ monitor' = IF udev THEN "receiving" ELSE monitor
  /\ UNCHANGED <<at, events, name, pos, read, known, met, brightness, raised>>

Receive ==
  /\ tat = "receive" /\ monitor = "receiving" /\ events # <<>>
  /\ tat' = "walk" /\ pos' = Top
  /\ name' = Head(events) /\ events' = Tail(events)
  /\ known' = {d \in Devices : InQueue(d)}
  /\ UNCHANGED <<at, monitor, read, met, brightness, raised>>

(* Main has freed the monitor the thread receives from: it goes on reading
   freed memory, or finds the pointer NULL. *)
ReceiveFreed ==
  /\ tat = "receive" /\ monitor = "freed"
  /\ tat' = "spin" /\ at' \in {at, "corrupted"}
  /\ UNCHANGED <<monitor, events, name, pos, read, known, met, brightness, raised>>

(* backlight_find(name, 0), one pointer at a time. *)
Walk ==
  /\ tat = "walk" /\ pos' = next[pos]
  /\ tat' = IF pos' = None THEN "missed" ELSE IF pos' = name THEN "found" ELSE "walk"
  /\ UNCHANGED <<at, monitor, events, name, read, known, met, brightness, raised>>

ReadLevel ==
  /\ tat = "found" /\ tat' = "compare" /\ read' = actual[name] /\ met' = met \cup {name}
  /\ UNCHANGED <<at, monitor, events, name, pos, known, brightness, raised>>

(* A mutant of Compare: the signal is left out. *)
CompareSilently ==
  /\ tat = "compare" /\ brightness' = [brightness EXCEPT ![name] = read]
  /\ tat' = "receive"

(* A mutant of Compare: only a brighter screen is news. *)
CompareBrighter ==
  /\ tat = "compare"
  /\ IF read > brightness[name]
     THEN brightness' = [brightness EXCEPT ![name] = read] /\ tat' = "signal"
     ELSE tat' = "receive" /\ UNCHANGED brightness

Compare ==
  /\ tat = "compare"
  /\ IF read # brightness[name]
     THEN brightness' = [brightness EXCEPT ![name] = read] /\ tat' = "signal"
     ELSE tat' = "receive" /\ UNCHANGED brightness

(* A mutant of Unref: an event about another backlight ends the loop. *)
UnrefEnds ==
  /\ tat \in {"missed", "signal"} /\ tat' = IF tat = "signal" THEN "receive" ELSE "spin"
  /\ raised' = IF tat = "signal" THEN Wanted ELSE raised
  /\ UNCHANGED <<at, monitor, events, name, pos, read, known, met, brightness>>

Unref ==
  /\ tat \in {"missed", "signal"} /\ tat' = "receive"
  /\ raised' = IF tat = "signal" THEN Wanted ELSE raised
  /\ UNCHANGED <<at, monitor, events, name, pos, read, known, met, brightness>>

Thread ==
  /\ Running
  /\ \/ StartMonitor \/ Receive \/ ReceiveFreed \/ Walk \/ ReadLevel \/ Unref
     \/ Compare /\ UNCHANGED <<at, monitor, events, name, pos, read, known, met, raised>>
  /\ UNCHANGED <<kernel, udev, queue, arg, mine, shown>>

-----------------------------------------------------------------------------

Finished == ~Running /\ UNCHANGED vars

Next == Main \/ Thread \/ Finished \/ \E d \in Devices : Change(d)

Spec == Init /\ [][Next]_vars

(* The scheduler runs both threads; main comes back for a signal, which
   interrupts its sleep, and otherwise owes nothing once it is idle. *)
FairSpec ==
  Spec /\ WF_vars(Thread) /\ WF_vars(Main /\ at # "idle")

-----------------------------------------------------------------------------
(* Properties                                                              *)

(* A walk of the thread that finds nothing has missed no entry that was
   linked when it began, however main's insertion interleaves with it. *)
WalkFindsLinked == tat = "missed" => name \notin known

OnItsWay(d) ==
  \/ \E k \in DOMAIN events : events[k] = d
  \/ name = d /\ (tat \in {"walk", "found"} \/ (tat = "compare" /\ read = actual[d]))

(* An entry may be born stale, an event handled before it was linked is
   lost: but once the thread has found it, it never falls behind again. *)
NeverBehindOnceMet ==
  Running /\ monitor = "receiving" =>
    \A d \in met : brightness[d] = actual[d] \/ OnItsWay(d)

(* Once the changes stop, every entry the thread has met shows its device. *)
MetCatchesUp ==
  \A d \in Devices :
    <>[](Running /\ monitor = "receiving" /\ d \in met => brightness[d] = actual[d])

(* A text that is no longer what its entry says has been announced, or the
   thread is about to raise the signal. *)
ShownOrRaised ==
  at = "idle" =>
    \A w \in Wanted \ raised :
      shown[w] # None /\ tat # "signal" => shown[w] = brightness[w]

(* Main never appends to a queue that was not initialised, whether udev_new
   succeeds or not and whatever the entries are called, with a libudev that
   tests the context. *)
QueueReady == at # "crashed"
=============================================================================
