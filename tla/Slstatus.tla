------------------------------ MODULE Slstatus ------------------------------
(***************************************************************************)
(* The main loop of slstatus.c: setup, then tick / printstatus / sleep     *)
(* until a termination signal, then teardown; and the signal handler that  *)
(* interrupts all of it.                                                   *)
(*                                                                         *)
(* The text of an entry is abstracted to a version number: value[e] is the *)
(* version of what the component behind args[e] would return now,          *)
(* statuses[e] the version printstatus last stored in the array of the     *)
(* same name, screen[e] the version in the text last written to the root   *)
(* window or to stdout.  0 is "never sampled" (the empty string).          *)
(***************************************************************************)
EXTENDS Integers

CONSTANTS
  N,              \* LEN(args): the number of entries of the table in config.h
  Turn,           \* args[e].turn
  Signal,         \* args[e].signal, -1 for none
  Feed,           \* how the component behind e learns of a change
  Long,           \* the <<entry, version>> whose text esnprintf truncates
  IterMax,        \* the largest value of the counter iter ...
  IterFold,       \* ... and the value that follows it (0 for a C unsigned)
  MaxVersion,     \* bound on the versions of a value
  MaxUserSignals, \* bound on the signals sent by the user
  StrayHandler    \* another thread may run the handler of a process signal

Entries == 1..N

(***************************************************************************)
(* The kinds of Feed.  "poll": the function reads the source when called   *)
(* (datetime, keymap).  "lookup": found at the first call that finds the   *)
(* device, updated afterwards by GLib callbacks, which only tick() runs    *)
(* (nm, upower).  "proxy": the same, but connected in setup (ppd).         *)
(* "thread": updated by a thread of its own at any time (pa, backlight).   *)
(* All but "poll" raise the entry's signal when the value changes.         *)
(***************************************************************************)
Feeds == {"poll", "lookup", "proxy", "thread"}

(***************************************************************************)
(* iter is read only for "is it 0" and for its residue modulo the turns.   *)
(* So a finite instance may fold the counter back to a nonzero value with  *)
(* the residues that IterMax + 1 would have.                               *)
(***************************************************************************)
ASSUME ConstantsAssumption ==
  /\ N \in Nat \ {0}
  /\ Turn \in [Entries -> Nat]
  /\ Signal \in [Entries -> Nat \cup {-1}]
  /\ Feed \in [Entries -> Feeds]
  /\ \A e \in Entries : Feed[e] # "poll" => Signal[e] >= 0
  /\ Long \subseteq Entries \X Nat
  /\ IterMax \in Nat
  /\ IterFold \in 0..IterMax
  /\ MaxVersion \in Nat
  /\ MaxUserSignals \in Nat
  /\ StrayHandler \in BOOLEAN

ASSUME FoldAssumption ==
  IterFold # 0 => \A e \in Entries :
    Turn[e] > 0 => (IterMax + 1 - IterFold) % Turn[e] = 0

EINTR == 4
SIGUSR1 == 10
SIGTERM == 15     \* stands for SIGINT too: the handler treats them alike
SIGRTMIN == 34

Signo(e) == SIGRTMIN + Signal[e]
RefreshSignos == {SIGUSR1} \cup {Signo(e) : e \in {f \in Entries : Signal[f] >= 0}}
Signos == RefreshSignos \cup {SIGTERM}

VARIABLES
  pc,         \* where the main thread is
  opt,        \* the command line: [s, S, one] for -s, -S and -1
  iter,       \* the static counter of main's loop
  pass,       \* printstatus's parameter, which is named iter too
  i,          \* printstatus's loop index
  service,    \* whether printstatus returns into the nanosleep loop
  ret,        \* what nanosleep returned
  errno,      \* the main thread's errno (0 or EINTR)
  upsigno, done,      \* written by the handler
  value, statuses, screen,
  attached,   \* for a "lookup" entry: its device was found and is watched
  pending,    \* how often each signal is pending for the process
  asked,      \* how many signals the user has sent
  lateWrites  \* history: the texts written while done was set, 2 for more

display == <<value, statuses, screen, attached>>
control == <<opt, iter, pass, i, service, ret>>
flags   == <<errno, upsigno, done>>
outside == <<pending, asked, lateWrites>>
vars    == <<pc, control, flags, display, outside>>

Final == {"exited", "diedWriting", "diedSleeping"}
Running == pc \notin Final

Labels == Final \cup
  {"setup", "tick", "readUsr1", "readTurn", "readSignal", "sample", "reset",
   "emit", "check", "presleep", "sleep", "eintr", "readErrno", "readDone",
   "rearm", "readRet", "loopend", "teardown"}

Blank == [e \in Entries |-> 0]

Init ==
  /\ pc = "setup"
  /\ opt \in {o \in [s : BOOLEAN, S : BOOLEAN, one : BOOLEAN] : o.one => o.s}
  /\ iter = 0 /\ pass = 0 /\ i = 1 /\ service = FALSE
  /\ ret = 0 /\ errno = 0 /\ upsigno = 0
  /\ done = opt.one
  /\ value = [e \in Entries |-> 1]
  /\ statuses = Blank /\ screen = Blank
  /\ attached = [e \in Entries |-> FALSE]
  /\ pending = [s \in Signos |-> 0]
  /\ asked = 0 /\ lateWrites = 0

-----------------------------------------------------------------------------
(* Signals                                                                 *)

(* Mutant: the real-time range without its lower end. *)
HandleAboveMin(s) ==
  IF s > SIGRTMIN \/ s = SIGUSR1
  THEN upsigno' = s /\ UNCHANGED done
  ELSE done' = TRUE /\ UNCHANGED upsigno

(* What the handler does to the globals. *)
Handle(s) ==
  IF s \in RefreshSignos
  THEN upsigno' = s /\ UNCHANGED done
  ELSE done' = TRUE /\ UNCHANGED upsigno

(* A real-time signal queues, an ordinary one that is already pending is
   merged with it. *)
Send(s) ==
  pending' = [pending EXCEPT ![s] = IF s < SIGRTMIN THEN 1 ELSE @ + 1]

Take(s) ==
  /\ Running /\ pending[s] > 0
  /\ pending' = [pending EXCEPT ![s] = @ - 1]
  /\ Handle(s)
  /\ UNCHANGED <<control, display, asked, lateWrites>>

(* The handler runs on the main thread between any two of its steps, and
   cuts a nanosleep in progress short. *)
Deliver(s) ==
  /\ Take(s)
  /\ errno' = IF s \in RefreshSignos THEN 0 ELSE errno
  /\ pc' = IF pc = "sleep" THEN "eintr" ELSE pc

(* The handler runs on a thread that did not block the signal (backlight's,
   say): main's errno is not touched and main sleeps on. *)
DeliverElsewhere(s) ==
  /\ StrayHandler
  /\ Take(s)
  /\ UNCHANGED <<pc, errno>>

UserSignal(s) ==
  /\ Running /\ asked < MaxUserSignals
  /\ asked' = asked + 1
  /\ Send(s)
  /\ UNCHANGED <<pc, control, flags, display, lateWrites>>

-----------------------------------------------------------------------------
(* The components, as far as the main loop can tell                        *)

NewVersion(e) ==
  /\ value[e] < MaxVersion
  /\ value' = [value EXCEPT ![e] = @ + 1]

(* The source of a polled entry changes: nobody is told. *)
SourceChange(e) ==
  /\ Running /\ Feed[e] = "poll"
  /\ NewVersion(e)
  /\ UNCHANGED <<pc, control, flags, statuses, screen, attached, outside>>

(* A component's own thread updates its cache and calls kill(getpid()). *)
ThreadChange(e) ==
  /\ Running /\ Feed[e] = "thread"
  /\ NewVersion(e)
  /\ Send(Signo(e))
  /\ UNCHANGED <<pc, control, flags, statuses, screen, attached, asked,
                 lateWrites>>

(* kill(getpid()) on the main thread: the handler runs before it returns. *)
RaiseHere(e) == upsigno' = Signo(e) /\ errno' = 0

Watched(e) == Feed[e] = "proxy" \/ (Feed[e] = "lookup" /\ attached[e])

(* A callback that g_main_context_iteration dispatches inside tick(). *)
Dispatch(e) ==
  /\ pc = "tick" /\ Watched(e)
  /\ NewVersion(e)
  /\ RaiseHere(e)
  /\ UNCHANGED <<pc, control, done, statuses, screen, attached, outside>>

-----------------------------------------------------------------------------
(* main                                                                    *)

(* A step of the main thread that changes nothing but its place. *)
Goto(l) == pc' = l /\ UNCHANGED <<control, flags, display, outside>>

(* setup(): a component that reads its value here (ppd_init) may already
   raise its signal. *)
Setup ==
  /\ pc = "setup"
  /\ pc' = "tick"
  /\ \/ \E e \in Entries : Feed[e] = "proxy" /\ RaiseHere(e)
     \/ UNCHANGED <<upsigno, errno>>
  /\ UNCHANGED <<control, done, display, outside>>

(* Mutant: line 85 without "iter &&". *)
EnterTested(p) == "readUsr1"

(* A full pass samples every entry; the others test upsigno first. *)
Enter(p) == IF p = 0 THEN "sample" ELSE "readUsr1"

Printstatus(p, nested) ==
  /\ pass' = p /\ service' = nested /\ i' = 1
  /\ pc' = Enter(p)
  /\ UNCHANGED <<opt, ret, flags, display, outside>>

(* tick() ends and printstatus(iter++) begins. *)
TickDone ==
  /\ pc = "tick"
  /\ Printstatus(iter, FALSE)
  /\ iter' = IF iter = IterMax THEN IterFold ELSE iter + 1

(* if (!done): with time left the thread goes to sleep, after an overlong
   pass it does not (wait.tv_sec < 0). *)
Check ==
  /\ pc = "check"
  /\ \E l \in IF done THEN {"loopend"} ELSE {"presleep", "readRet"} : Goto(l)

EnterSleep == pc = "presleep" /\ Goto("sleep")

SleepTimeout ==
  /\ pc = "sleep"
  /\ pc' = "readRet" /\ ret' = 0
  /\ UNCHANGED <<opt, iter, pass, i, service, flags, display, outside>>

(* The C library reports the interruption after the handlers have run. *)
SleepInterrupted ==
  /\ pc = "eintr"
  /\ pc' = "readErrno" /\ ret' = -1 /\ errno' = EINTR
  /\ UNCHANGED <<opt, iter, pass, i, service, upsigno, done, display, outside>>

ReadErrno ==
  /\ pc = "readErrno"
  /\ Goto(IF errno = EINTR THEN "readDone" ELSE "readRet")

LeaveSleepLoop == pc = "readDone" /\ done /\ Goto("readRet")

(* Mutant: the nanosleep loop without "!done". *)
ServeAlways ==
  /\ pc = "readDone"
  /\ Printstatus(0, TRUE)
  /\ UNCHANGED iter

ServeWakeup ==
  /\ pc = "readDone" /\ ~done
  /\ Printstatus(0, TRUE)
  /\ UNCHANGED iter

(* errno = upsigno = 0, then nanosleep again with what is left. *)
Rearm ==
  /\ pc = "rearm"
  /\ pc' = "presleep" /\ errno' = 0 /\ upsigno' = 0
  /\ UNCHANGED <<control, done, display, outside>>

ReadRet ==
  /\ pc = "readRet"
  /\ Goto(IF ret < 0 /\ errno # EINTR THEN "diedSleeping" ELSE "loopend")

(* Mutant: done is not volatile, the loop goes on with the value it began with. *)
LoopEndCached == pc = "loopend" /\ Goto(IF opt.one THEN "teardown" ELSE "tick")

LoopEnd == pc = "loopend" /\ Goto(IF done THEN "teardown" ELSE "tick")

(* In X mode the root window's name is removed. *)
Teardown ==
  /\ pc = "teardown"
  /\ pc' = "exited"
  /\ screen' = IF opt.s THEN screen ELSE Blank
  /\ UNCHANGED <<control, flags, value, statuses, attached, outside>>

-----------------------------------------------------------------------------
(* printstatus(pass)                                                       *)

Advance ==
  \/ i < N /\ i' = i + 1 /\ pc' = Enter(pass)
  \/ i = N /\ i' = i /\ pc' = "reset"

(* The condition of line 85 reads the volatile upsigno up to three times. *)
ReadUsr1 ==
  /\ pc = "readUsr1"
  /\ Goto(IF upsigno = SIGUSR1 THEN "sample" ELSE "readTurn")

Due(e) == Turn[e] > 0 /\ pass % Turn[e] = 0

ReadTurn ==
  /\ pc = "readTurn"
  /\ Goto(IF upsigno = 0 /\ Due(i) THEN "sample" ELSE "readSignal")

Matches(e) == Signal[e] >= 0 /\ upsigno = Signo(e)

ReadSignal ==
  /\ pc = "readSignal"
  /\ \/ Matches(i) /\ Goto("sample")
     \/ /\ ~Matches(i) /\ Advance
        /\ UNCHANGED <<opt, iter, pass, service, ret, flags, display, outside>>

(* nm_find, upower_find: the call that finds the device creates the cached
   object, fills it and (in most states of the device) raises the signal. *)
Attach(e) ==
  /\ Feed[e] = "lookup" /\ ~attached[e]
  /\ attached' = [attached EXCEPT ![e] = TRUE]
  /\ NewVersion(e)
  /\ RaiseHere(e) \/ UNCHANGED <<upsigno, errno>>

(* Mutant: a text that does not fit is dropped. *)
StoreIfFits(e) ==
  statuses' = [statuses EXCEPT ![e] = IF <<e, value'[e]>> \in Long THEN 0
                                      ELSE value'[e]]

(* What esnprintf leaves in statuses[e]: a text that does not fit is stored
   truncated, it still is the new one. *)
Store(e) == statuses' = [statuses EXCEPT ![e] = value'[e]]

(* args[i].func() and esnprintf; a text that does not fit ends the loop. *)
Sample ==
  /\ pc = "sample"
  /\ Attach(i) \/ UNCHANGED <<attached, value, upsigno, errno>>
  /\ Store(i)
  /\ \/ <<i, value'[i]>> \in Long /\ pc' = "reset" /\ i' = i
     \/ <<i, value'[i]>> \notin Long /\ Advance
  /\ UNCHANGED <<opt, iter, pass, service, ret, done, screen, outside>>

(* Mutant: upsigno is left as it is. *)
ResetNothing ==
  /\ pc = "reset"
  /\ pc' = "emit"
  /\ UNCHANGED <<control, flags, display, outside>>

Reset ==
  /\ pc = "reset"
  /\ pc' = "emit" /\ upsigno' = 0
  /\ UNCHANGED <<control, errno, done, display, outside>>

Return == IF service THEN "rearm" ELSE "check"

(* Mutant: only the passes that -S asks for are written. *)
WantedByFlag == opt.S

Wanted == opt.S \/ pass # 0

(* The texts are concatenated and written. *)
Emit ==
  /\ pc = "emit" /\ Wanted
  /\ pc' = Return
  /\ screen' = statuses
  /\ lateWrites' = IF done /\ lateWrites < 2 THEN lateWrites + 1 ELSE lateWrites
  /\ UNCHANGED <<control, flags, value, statuses, attached, pending, asked>>

EmitFails == pc = "emit" /\ Wanted /\ Goto("diedWriting")

EmitNothing == pc = "emit" /\ ~Wanted /\ Goto(Return)

-----------------------------------------------------------------------------
Main ==
  \/ Setup \/ TickDone \/ Check \/ EnterSleep \/ SleepTimeout
  \/ SleepInterrupted \/ ReadErrno \/ LeaveSleepLoop \/ ServeWakeup \/ Rearm
  \/ ReadRet \/ LoopEnd \/ Teardown
  \/ ReadUsr1 \/ ReadTurn \/ ReadSignal \/ Sample \/ Reset
  \/ Emit \/ EmitFails \/ EmitNothing

Environment ==
  \/ \E s \in Signos : Deliver(s) \/ DeliverElsewhere(s) \/ UserSignal(s)
  \/ \E e \in Entries : SourceChange(e) \/ ThreadChange(e) \/ Dispatch(e)

(* A process that has ended stays so. *)
Finished == ~Running /\ UNCHANGED vars

Next == Main \/ Environment \/ Finished

Spec == Init /\ [][Next]_vars

(***************************************************************************)
(* The main thread is never stopped for good between two of its steps,     *)
(* nanosleep returns, and a pending signal is delivered to some thread.    *)
(* Sources and users owe nobody anything.                                  *)
(***************************************************************************)
FairSpec ==
  /\ Spec
  /\ WF_vars(Main)
  /\ \A s \in Signos : WF_vars(Deliver(s) \/ DeliverElsewhere(s))
-----------------------------------------------------------------------------
(* Properties                                                              *)

(* Every variable stays in its C type: printstatus's index inside args, the
   counters inside their width, upsigno a refresh signal or none. *)
TypeOK ==
  /\ pc \in Labels
  /\ opt \in [s : BOOLEAN, S : BOOLEAN, one : BOOLEAN]
  /\ iter \in 0..IterMax /\ pass \in 0..IterMax
  /\ i \in Entries /\ service \in BOOLEAN
  /\ ret \in {-1, 0} /\ errno \in {0, EINTR}
  /\ upsigno \in {0} \cup RefreshSignos /\ done \in BOOLEAN
  /\ value \in [Entries -> Nat]
  /\ statuses \in [Entries -> Nat] /\ screen \in [Entries -> Nat]
  /\ attached \in [Entries -> BOOLEAN]
  /\ pending \in [Signos -> Nat]
  /\ asked \in 0..MaxUserSignals /\ lateWrites \in 0..2

(* An overlong text of an entry before e may have ended the loop before e. *)
CutBefore(e) ==
  \E f \in Entries : f < e /\ \E v \in 1..statuses[f] : <<f, v>> \in Long

(* The text on display never has a gap where an entry was not sampled yet:
   the first printstatus samples every entry, whatever signals have come in
   by then, and only an overlong text excuses a missing one. *)
NothingUnsampledShown ==
  screen # Blank => \A e \in Entries : screen[e] = 0 => CutBefore(e)

(* After a termination signal, or with -1, printstatus writes at most once
   more, however many refresh signals are still being served. *)
OneLateWrite == lateWrites <= 1

(* An entry whose component announces its changes does not silently fall
   behind: as long as its text is current, or its signal is pending, or
   upsigno will refresh it, the next step keeps it so, unless that step
   writes upsigno.  So a refresh is lost only by one signal overwriting
   another in that variable, or by printstatus and main clearing it. *)
Informed(e) ==
  \/ statuses[e] = value[e]
  \/ pending[Signo(e)] > 0
  \/ upsigno \in {Signo(e), SIGUSR1}

LostOnlyByCollision ==
  [][ \A e \in Entries : Feed[e] # "poll" /\ Informed(e) =>
        Informed(e)' \/ upsigno' # upsigno ]_vars

(* The display is the one of an abstract status bar: it shows versions that
   existed, never goes back to an older one, and is left or removed as a
   whole at the end (printstatus, the end of main). *)
Bar == INSTANCE StatusBar WITH running <- Running
BarSpec == Bar!Spec

(* A termination signal ends the program, whatever main was doing. *)
Terminates == done ~> ~Running

(* What printstatus has sampled is written in the end: a pass that writes
   nothing, of a sleep without -S, is followed by one that does. *)
SampledIsShown == <>[](screen = statuses \/ ~Running)

(* Once sources and signals are quiet, an entry with a turn shows its
   current value for good, unless the text of an earlier entry that is due
   in all of its passes is overlong. *)
Shadowed(e) ==
  \E f \in Entries : /\ f < e /\ Turn[f] > 0 /\ Turn[e] % Turn[f] = 0
                     /\ <<f, value[f]>> \in Long

PolledCatchesUp ==
  <>[](\A e \in Entries :
         Turn[e] > 0 => screen[e] = value[e] \/ Shadowed(e) \/ ~Running)

(* A wakeup from nanosleep refreshes every entry, those whose own signal was
   lost included: what an entry was when the pass began is in statuses
   after it, unless an overlong text cut the pass short. *)
WakeupRefreshesAll ==
  \A e \in Entries, v \in 2..MaxVersion :
    (service /\ pc = "sample" /\ i = 1 /\ value[e] >= v)
      ~> (statuses[e] >= v \/ CutBefore(e) \/ ~Running)

-----------------------------------------------------------------------------
(* What the manual says of the program, and the code does not do           *)

(* slstatus.1: USR1 "Triggers an instant redraw".  When the pass that serves
   a wakeup goes back to sleep the text it collected is on display. *)
WakeupRedraws == pc = "rearm" => screen = statuses

(* slstatus.1: -1 means "Write once to stdout and quit". *)
WritesOnce == opt.one /\ pc = "teardown" => screen # Blank

(* slstatus.1: the program "responds to" its signals; responding to USR1 is
   a redraw, never an exit with "nanosleep: Success". *)
SignalsDoNotKill == pc # "diedSleeping"
=============================================================================
