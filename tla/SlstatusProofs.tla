--------------------------- MODULE SlstatusProofs ---------------------------
(* Theorems about the main loop, for every table of entries. *)
EXTENDS Slstatus, TLAPS

-----------------------------------------------------------------------------
(* Types                                                                   *)

LEMMA SignalNumbers ==
  /\ RefreshSignos \subseteq Int /\ SIGUSR1 \in RefreshSignos
  /\ Signos = RefreshSignos \cup {SIGTERM}
  /\ \A e \in Entries : Feed[e] # "poll" => Signo(e) \in RefreshSignos
<1>1. \A e \in Entries : Signo(e) \in Int
  BY ConstantsAssumption, SMT DEF Signo, SIGRTMIN
<1>2. RefreshSignos \subseteq Int /\ SIGUSR1 \in RefreshSignos
  BY <1>1, SMT DEF RefreshSignos, SIGUSR1
<1>3. \A e \in Entries : Feed[e] # "poll" => Signo(e) \in RefreshSignos
  BY ConstantsAssumption, Zenon DEF RefreshSignos
<1> QED BY <1>2, <1>3 DEF Signos

LEMMA InitTypeOK == Init => TypeOK
<1> SUFFICES ASSUME Init PROVE TypeOK
  OBVIOUS
<1>1. opt \in [s : BOOLEAN, S : BOOLEAN, one : BOOLEAN] /\ done \in BOOLEAN
  BY Zenon DEF Init
<1>2. 1 \in Entries
  BY ConstantsAssumption, SMT DEF Entries
<1>3. pending \in [Signos -> Nat] /\ asked \in 0..MaxUserSignals
  BY ConstantsAssumption, SMT DEF Init
<1>4. iter \in 0..IterMax /\ pass \in 0..IterMax
  BY ConstantsAssumption, SMT DEF Init
<1>5. /\ pc \in Labels /\ i \in Entries /\ service \in BOOLEAN
      /\ ret \in {-1, 0} /\ errno \in {0, EINTR} /\ upsigno \in {0}
  BY <1>2 DEF Init, Labels
<1>7. lateWrites \in 0..2
  BY SMT DEF Init
<1>6. /\ value \in [Entries -> Nat] /\ statuses \in [Entries -> Nat]
      /\ screen \in [Entries -> Nat] /\ attached \in [Entries -> BOOLEAN]
  BY SMT DEF Init, Blank
<1> QED BY <1>1, <1>3, <1>4, <1>5, <1>6, <1>7 DEF TypeOK

LEMMA EnterLabel == \A p : Enter(p) \in {"sample", "readUsr1"}
BY DEF Enter

(* The loop index stays inside args. *)
LEMMA AdvanceType ==
  ASSUME TypeOK, Advance
  PROVE  i' \in Entries /\ pc' \in {"sample", "readUsr1", "reset"}
BY ConstantsAssumption, EnterLabel, SMT DEF TypeOK, Advance, Entries

LEMMA NewVersionType ==
  ASSUME TypeOK, NEW e \in Entries, NewVersion(e)
  PROVE  value' \in [Entries -> Nat]
BY SMT DEF TypeOK, NewVersion

LEMMA SendType ==
  ASSUME TypeOK, NEW s \in Signos, Send(s)
  PROVE  pending' \in [Signos -> Nat]
BY SMT DEF TypeOK, Send

LEMMA TakeType ==
  ASSUME TypeOK, NEW s \in Signos, Take(s)
  PROVE  /\ pending' \in [Signos -> Nat]
         /\ upsigno' \in {0} \cup RefreshSignos /\ done' \in BOOLEAN
<1>1. pending' \in [Signos -> Nat]
  BY SMT DEF TypeOK, Take
<1>2. upsigno' \in {0} \cup RefreshSignos /\ done' \in BOOLEAN
  BY Zenon DEF TypeOK, Take, Handle
<1> QED BY <1>1, <1>2

LEMMA GotoType ==
  ASSUME TypeOK, NEW l \in Labels, Goto(l)
  PROVE  TypeOK'
BY SMT DEF TypeOK, Goto, control, flags, display, outside

LEMMA PrintstatusType ==
  ASSUME TypeOK, NEW p \in 0..IterMax, NEW b \in BOOLEAN, Printstatus(p, b),
         iter' \in 0..IterMax
  PROVE  TypeOK'
BY ConstantsAssumption, EnterLabel, SMTT(30)
DEF TypeOK, Printstatus, flags, display, outside, Labels, Final, Entries

LEMMA EnvironmentType == ASSUME TypeOK, Environment PROVE TypeOK'
<1>1. ASSUME NEW s \in Signos, Deliver(s) PROVE TypeOK'
  <2>1. Take(s) BY <1>1 DEF Deliver
  <2>2. UNCHANGED <<control, display, asked, lateWrites>> BY <2>1 DEF Take
  <2>3. pc' \in Labels BY <1>1, SMT DEF TypeOK, Deliver, Labels
  <2>4. errno' \in {0, EINTR} BY <1>1, SMT DEF TypeOK, Deliver
  <2>5. /\ pending' \in [Signos -> Nat]
        /\ upsigno' \in {0} \cup RefreshSignos /\ done' \in BOOLEAN
    BY <2>1, TakeType
  <2> QED BY <2>2, <2>3, <2>4, <2>5, SMT DEF TypeOK, control, display
<1>2. ASSUME NEW s \in Signos, DeliverElsewhere(s) PROVE TypeOK'
  <2>1. Take(s) BY <1>2 DEF DeliverElsewhere
  <2>2. UNCHANGED <<control, display, asked, lateWrites>> BY <2>1 DEF Take
  <2>3. UNCHANGED <<pc, errno>> BY <1>2 DEF DeliverElsewhere
  <2>4. /\ pending' \in [Signos -> Nat]
        /\ upsigno' \in {0} \cup RefreshSignos /\ done' \in BOOLEAN
    BY <2>1, TakeType
  <2> QED BY <2>2, <2>3, <2>4, SMT DEF TypeOK, control, display
<1>3. ASSUME NEW s \in Signos, UserSignal(s) PROVE TypeOK'
  <2>1. Send(s) BY <1>3 DEF UserSignal
  <2> QED BY <1>3, <2>1, SendType, ConstantsAssumption, SMT
    DEF TypeOK, UserSignal, control, display, flags
<1>4. ASSUME NEW e \in Entries, SourceChange(e) PROVE TypeOK'
  BY <1>4, NewVersionType, SMT
  DEF TypeOK, SourceChange, control, flags, outside
<1>5. ASSUME NEW e \in Entries, ThreadChange(e) PROVE TypeOK'
  <2>1. Signo(e) \in Signos /\ Send(Signo(e))
    BY <1>5, SignalNumbers DEF ThreadChange
  <2>2. NewVersion(e) BY <1>5 DEF ThreadChange
  <2> QED BY <1>5, <2>1, <2>2, SendType, NewVersionType, SMT
    DEF TypeOK, ThreadChange, control, flags
<1>6. ASSUME NEW e \in Entries, Dispatch(e) PROVE TypeOK'
  <2>1. Signo(e) \in RefreshSignos
    BY <1>6, SignalNumbers DEF Dispatch, Watched
  <2>2. NewVersion(e) BY <1>6 DEF Dispatch
  <2> QED BY <1>6, <2>1, <2>2, NewVersionType, SMT
    DEF TypeOK, Dispatch, RaiseHere, control, outside
<1> QED BY <1>1, <1>2, <1>3, <1>4, <1>5, <1>6 DEF Environment

(* One lemma for the steps of the main thread; those that only move it are
   instances of GotoType. *)
LEMMA MainType == ASSUME TypeOK, Main PROVE TypeOK'
<1> USE ConstantsAssumption
<1>1. ASSUME Setup PROVE TypeOK'
  <2>1. upsigno' \in {0} \cup RefreshSignos /\ errno' \in {0, EINTR}
    BY <1>1, SignalNumbers, Zenon DEF TypeOK, Setup, RaiseHere, Feeds
  <2> QED BY <1>1, <2>1, SMT
    DEF TypeOK, Setup, control, display, outside, Labels
<1>2. ASSUME TickDone PROVE TypeOK'
  <2>1. iter' \in 0..IterMax BY <1>2, SMT DEF TypeOK, TickDone
  <2> QED BY <1>2, <2>1, PrintstatusType DEF TypeOK, TickDone
<1>3. ASSUME ServeWakeup PROVE TypeOK'
  <2>1. iter' \in 0..IterMax /\ 0 \in 0..IterMax
    BY <1>3, SMT DEF TypeOK, ServeWakeup
  <2> QED BY <1>3, <2>1, PrintstatusType DEF ServeWakeup
<1>4. ASSUME Check PROVE TypeOK'
  <2>1. PICK l \in {"loopend", "presleep", "readRet"} : Goto(l)
    BY <1>4 DEF Check
  <2> QED BY <2>1, GotoType DEF Labels
<1>5. ASSUME EnterSleep PROVE TypeOK'
  BY <1>5, GotoType DEF EnterSleep, Labels
<1>6. ASSUME ReadErrno PROVE TypeOK'
  BY <1>6, GotoType DEF ReadErrno, Labels
<1>7. ASSUME LeaveSleepLoop PROVE TypeOK'
  BY <1>7, GotoType DEF LeaveSleepLoop, Labels
<1>8. ASSUME ReadRet PROVE TypeOK'
  BY <1>8, GotoType DEF ReadRet, Labels, Final
<1>9. ASSUME LoopEnd PROVE TypeOK'
  BY <1>9, GotoType DEF LoopEnd, Labels
<1>10. ASSUME ReadUsr1 PROVE TypeOK'
  BY <1>10, GotoType DEF ReadUsr1, Labels
<1>11. ASSUME ReadTurn PROVE TypeOK'
  BY <1>11, GotoType DEF ReadTurn, Labels
<1>12. ASSUME ReadSignal PROVE TypeOK'
  <2>1. CASE Goto("sample") BY <2>1, GotoType DEF Labels
  <2>2. CASE Advance /\ UNCHANGED <<opt, iter, pass, service, ret, flags, display, outside>>
    BY <2>2, AdvanceType, SMT DEF TypeOK, flags, display, outside, Labels
  <2> QED BY <1>12, <2>1, <2>2 DEF ReadSignal
<1>13. ASSUME SleepTimeout PROVE TypeOK'
  BY <1>13, SMT DEF TypeOK, SleepTimeout, flags, display, outside, Labels
<1>14. ASSUME SleepInterrupted PROVE TypeOK'
  BY <1>14, SMT DEF TypeOK, SleepInterrupted, display, outside, Labels
<1>15. ASSUME Rearm PROVE TypeOK'
  BY <1>15, SMT DEF TypeOK, Rearm, control, display, outside, Labels
<1>16. ASSUME Teardown PROVE TypeOK'
  <2>1. screen' \in [Entries -> Nat] BY <1>16, SMT DEF TypeOK, Teardown, Blank
  <2> QED BY <1>16, <2>1, SMT
    DEF TypeOK, Teardown, control, flags, outside, Labels, Final
<1>17. ASSUME Reset PROVE TypeOK'
  BY <1>17, SMT DEF TypeOK, Reset, control, display, outside, Labels
<1>18. ASSUME EmitFails PROVE TypeOK'
  BY <1>18, GotoType DEF EmitFails, Labels, Final
<1>19. ASSUME EmitNothing PROVE TypeOK'
  BY <1>19, GotoType DEF EmitNothing, Return, Labels
<1>20. ASSUME Emit PROVE TypeOK'
  BY <1>20, SMT
  DEF TypeOK, Emit, Return, control, flags, Labels
<1>21. ASSUME Sample PROVE TypeOK'
  <2>1. /\ value' \in [Entries -> Nat] /\ attached' \in [Entries -> BOOLEAN]
        /\ upsigno' \in {0} \cup RefreshSignos /\ errno' \in {0, EINTR}
    <3>1. CASE Attach(i)
      <4>1. i \in Entries /\ NewVersion(i) /\ Signo(i) \in RefreshSignos
        BY <3>1, SignalNumbers DEF Attach, TypeOK
      <4>2. value' \in [Entries -> Nat] BY <4>1, NewVersionType
      <4>3. attached' \in [Entries -> BOOLEAN]
        BY <3>1, SMT DEF Attach, TypeOK
      <4> QED BY <3>1, <4>1, <4>2, <4>3, Zenon DEF Attach, RaiseHere, TypeOK
    <3>2. CASE UNCHANGED <<attached, value, upsigno, errno>>
      BY <3>2 DEF TypeOK
    <3> QED BY <1>21, <3>1, <3>2 DEF Sample
  <2>2. statuses' \in [Entries -> Nat]
    <3>1. i \in Entries /\ statuses \in [Entries -> Nat] BY DEF TypeOK
    <3>2. value'[i] \in Nat BY <2>1, <3>1
    <3>3. statuses' = [statuses EXCEPT ![i] = value'[i]]
      BY <1>21 DEF Sample, Store
    <3> QED BY <3>1, <3>2, <3>3
  <2>3. i' \in Entries /\ pc' \in Labels
    BY <1>21, AdvanceType DEF TypeOK, Sample, Labels
  <2> QED BY <1>21, <2>1, <2>2, <2>3, SMT DEF TypeOK, Sample, outside
<1> QED BY <1>1, <1>2, <1>3, <1>4, <1>5, <1>6, <1>7, <1>8, <1>9, <1>10, <1>11,
  <1>12, <1>13, <1>14, <1>15, <1>16, <1>17, <1>18, <1>19, <1>20, <1>21 DEF Main

LEMMA NextType == TypeOK /\ [Next]_vars => TypeOK'
<1> SUFFICES ASSUME TypeOK, [Next]_vars PROVE TypeOK'
  OBVIOUS
<1>1. CASE UNCHANGED vars
  BY <1>1, SMT DEF vars, control, flags, display, outside, TypeOK
<1> QED BY <1>1, MainType, EnvironmentType DEF Next, Finished

(* Type correctness of the main loop, for every table of entries, whatever
   signals arrive between any two of its steps. *)
THEOREM TypeCorrect == Spec => []TypeOK
BY InitTypeOK, NextType, PTL DEF Spec

-----------------------------------------------------------------------------
(* At most one write after a termination signal                            *)

AfterWrite == Final \cup
  {"check", "rearm", "presleep", "sleep", "eintr", "readErrno", "readDone",
   "readRet", "loopend", "teardown"}

(* The strengthening: once the late write has happened, done is set for good
   and no test of it lets main back into printstatus. *)
LateInv == lateWrites = 0 \/ (lateWrites = 1 /\ done /\ pc \in AfterWrite)

LEMMA LateGoto ==
  ASSUME LateInv, NEW l, Goto(l), pc \in AfterWrite => l \in AfterWrite
  PROVE  LateInv'
BY SMT DEF LateInv, Goto, outside, flags

LEMMA LateNext == TypeOK /\ LateInv /\ [Next]_vars => LateInv'
<1> SUFFICES ASSUME TypeOK, LateInv, [Next]_vars PROVE LateInv'
  OBVIOUS
<1> USE DEF AfterWrite, Final
<1>1. ASSUME UNCHANGED <<pc, done, lateWrites>> PROVE LateInv'
  BY <1>1 DEF LateInv
<1>2. ASSUME NEW s \in Signos, Take(s), pc' = pc \/ pc' = "eintr" PROVE LateInv'
  <2>1. done => done' BY <1>2 DEF Take, Handle, TypeOK
  <2>2. lateWrites' = lateWrites BY <1>2 DEF Take
  <2> QED BY <1>2, <2>1, <2>2, SMT DEF LateInv
<1>3. CASE Environment
  <2>1. ASSUME NEW s \in Signos, Deliver(s) PROVE LateInv'
    BY <2>1, <1>2 DEF Deliver
  <2>2. ASSUME NEW s \in Signos, DeliverElsewhere(s) PROVE LateInv'
    BY <2>2, <1>2 DEF DeliverElsewhere
  <2>3. ASSUME NEW s \in Signos, UserSignal(s) PROVE LateInv'
    BY <2>3, <1>1 DEF UserSignal, flags
  <2>4. ASSUME NEW e \in Entries, SourceChange(e) \/ ThreadChange(e) \/ Dispatch(e)
        PROVE  LateInv'
    BY <2>4, <1>1 DEF SourceChange, ThreadChange, Dispatch, flags, outside
  <2> QED BY <1>3, <2>1, <2>2, <2>3, <2>4 DEF Environment
<1>4. CASE Main
  <2>1. ASSUME Setup \/ TickDone PROVE LateInv'
    BY <2>1, SMT DEF LateInv, Setup, TickDone, Printstatus, outside
  <2>2. ASSUME ServeWakeup PROVE LateInv'
    BY <2>2, SMT DEF LateInv, ServeWakeup, Printstatus, outside
  <2>3. ASSUME Check PROVE LateInv'
    BY <2>3, LateGoto DEF Check
  <2>4. ASSUME EnterSleep \/ ReadErrno \/ LeaveSleepLoop \/ ReadRet PROVE LateInv'
    BY <2>4, LateGoto DEF EnterSleep, ReadErrno, LeaveSleepLoop, ReadRet
  <2>5. ASSUME LoopEnd PROVE LateInv'
    <3>1. CASE done BY <2>5, <3>1, LateGoto DEF LoopEnd
    <3>2. CASE ~done
      BY <2>5, <3>2, SMT DEF LateInv, LoopEnd, Goto, outside
    <3> QED BY <3>1, <3>2
  <2>6. ASSUME SleepTimeout \/ SleepInterrupted \/ Rearm \/ Teardown PROVE LateInv'
    BY <2>6, SMT
    DEF LateInv, SleepTimeout, SleepInterrupted, Rearm, Teardown, outside, flags
  <2>7. ASSUME ReadUsr1 \/ ReadTurn \/ ReadSignal \/ Sample \/ Reset PROVE LateInv'
    BY <2>7, SMT
    DEF LateInv, ReadUsr1, ReadTurn, ReadSignal, Sample, Reset, Goto, outside
  <2>8. ASSUME Emit PROVE LateInv'
    BY <2>8, SMT DEF LateInv, TypeOK, Emit, Return, flags
  <2>9. ASSUME EmitFails \/ EmitNothing PROVE LateInv'
    BY <2>9, LateGoto DEF EmitFails, EmitNothing, Return
  <2> QED BY <1>4, <2>1, <2>2, <2>3, <2>4, <2>5, <2>6, <2>7, <2>8, <2>9 DEF Main
<1>5. CASE Finished \/ UNCHANGED vars
  BY <1>5, <1>1 DEF Finished, vars, flags, outside
<1> QED BY <1>3, <1>4, <1>5 DEF Next

(* After a termination signal the display is written at most once more,
   however many refresh signals there are and whoever handles them. *)
THEOREM LateWriteBound == Spec => []OneLateWrite
<1>1. Init => LateInv
  BY DEF Init, LateInv
<1>2. LateInv => OneLateWrite
  BY SMT DEF LateInv, OneLateWrite
<1> QED BY <1>1, <1>2, LateNext, TypeCorrect, PTL DEF Spec

-----------------------------------------------------------------------------
(* Refinement of StatusBar                                                 *)

(* What is displayed was stored, what is stored was current, and a source
   has a first version. *)
Ordered ==
  \A e \in Entries : screen[e] <= statuses[e] /\ statuses[e] <= value[e]
                     /\ 1 <= value[e]

LEMMA OrderedNext == TypeOK /\ Ordered /\ [Next]_vars => Ordered'
<1> SUFFICES ASSUME TypeOK, Ordered, [Next]_vars PROVE Ordered'
  OBVIOUS
<1>1. ASSUME UNCHANGED <<value, statuses, screen>> PROVE Ordered'
  BY <1>1 DEF Ordered
<1>2. ASSUME NEW e \in Entries, NewVersion(e), UNCHANGED <<statuses, screen>>
      PROVE  Ordered'
  BY <1>2, SMT DEF Ordered, NewVersion, TypeOK
<1>3. CASE Environment
  <2>1. ASSUME NEW s \in Signos, Deliver(s) \/ DeliverElsewhere(s) \/ UserSignal(s)
        PROVE  Ordered'
    BY <2>1, <1>1 DEF Deliver, DeliverElsewhere, UserSignal, Take, display
  <2>2. ASSUME NEW e \in Entries, SourceChange(e) \/ ThreadChange(e) \/ Dispatch(e)
        PROVE  Ordered'
    BY <2>2, <1>2 DEF SourceChange, ThreadChange, Dispatch
  <2> QED BY <1>3, <2>1, <2>2 DEF Environment
<1>4. CASE Main
  <2>1. ASSUME Setup \/ TickDone \/ ServeWakeup \/ SleepTimeout
               \/ SleepInterrupted \/ Rearm \/ Reset
        PROVE  Ordered'
    BY <2>1, <1>1 DEF Setup, TickDone, ServeWakeup, SleepTimeout,
      SleepInterrupted, Rearm, Reset, Printstatus, display
  <2>2. ASSUME Check \/ EnterSleep \/ ReadErrno \/ LeaveSleepLoop \/ ReadRet
               \/ LoopEnd \/ ReadUsr1 \/ ReadTurn \/ EmitFails \/ EmitNothing
               \/ ReadSignal
        PROVE  Ordered'
    BY <2>2, <1>1 DEF Check, EnterSleep, ReadErrno, LeaveSleepLoop, ReadRet,
      LoopEnd, ReadUsr1, ReadTurn, EmitFails, EmitNothing, ReadSignal, Goto,
      display
  <2>3. ASSUME Teardown PROVE Ordered'
    BY <2>3, SMT DEF Ordered, Teardown, Blank, TypeOK
  <2>4. ASSUME Emit PROVE Ordered'
    BY <2>4, SMT DEF Ordered, Emit, TypeOK
  <2>5. ASSUME Sample PROVE Ordered'
    <3>1. i \in Entries /\ screen' = screen BY <2>5 DEF Sample, TypeOK
    <3>2. \A e \in Entries : value'[e] \in Nat /\ value[e] <= value'[e]
      BY <2>5, <3>1, SMT DEF Sample, Attach, NewVersion, TypeOK
    <3>3. statuses' = [statuses EXCEPT ![i] = value'[i]]
      BY <2>5 DEF Sample, Store
    <3>4. \A e \in Entries :
            screen[e] \in Nat /\ statuses[e] \in Nat /\ value[e] \in Nat
      BY DEF TypeOK
    <3>5. \A e \in Entries : statuses'[e] = IF e = i THEN value'[e] ELSE statuses[e]
      BY <3>1, <3>3 DEF TypeOK
    <3> QED BY <3>1, <3>2, <3>4, <3>5, SMT DEF Ordered
  <2> QED BY <1>4, <2>1, <2>2, <2>3, <2>4, <2>5 DEF Main
<1>5. CASE Finished \/ UNCHANGED vars
  BY <1>5, <1>1 DEF Finished, vars, display
<1> QED BY <1>3, <1>4, <1>5 DEF Next

THEOREM OrderedAlways == Spec => []Ordered
<1>1. Init => Ordered
  BY SMT DEF Init, Ordered, Blank
<1> QED BY <1>1, OrderedNext, TypeCorrect, PTL DEF Spec

(* The steps of slstatus as steps of the status bar. *)
LEMMA BarStep ==
  ASSUME TypeOK, Ordered, Ordered', TypeOK', [Next]_vars
  PROVE  [Bar!Next]_(Bar!bar)
<1> USE DEF Bar!bar
<1>1. ASSUME UNCHANGED <<value, screen, pc>> PROVE UNCHANGED Bar!bar
  BY <1>1 DEF Running
<1>2. ASSUME UNCHANGED <<value, screen>>, Running, Running'
      PROVE  UNCHANGED Bar!bar
  BY <1>2
<1>3. ASSUME NEW e \in Entries, NewVersion(e), Running, Running',
             UNCHANGED screen
      PROVE  Bar!Next
  BY <1>3 DEF NewVersion, Bar!Next, Bar!Change
<1>4. ASSUME NEW l, Goto(l), Running, l \notin {"diedWriting", "diedSleeping"} => l \notin Final
      PROVE  Bar!Next \/ UNCHANGED Bar!bar
  <2>1. UNCHANGED <<value, screen>> /\ pc' = l BY <1>4 DEF Goto, display
  <2>2. CASE l \in Final
    BY <1>4, <2>1, <2>2 DEF Running, Bar!Next, Bar!Stop
  <2>3. CASE l \notin Final
    BY <1>4, <2>1, <2>3, <1>2 DEF Running
  <2> QED BY <2>2, <2>3
<1>5. CASE Environment
  <2>1. ASSUME NEW s \in Signos, Deliver(s) PROVE UNCHANGED Bar!bar
    <3>1. Running /\ Running' /\ UNCHANGED <<value, screen>>
      BY <2>1 DEF Deliver, Take, Running, Final, display
    <3> QED BY <3>1, <1>2
  <2>2. ASSUME NEW s \in Signos, DeliverElsewhere(s) \/ UserSignal(s)
        PROVE  UNCHANGED Bar!bar
    BY <2>2, <1>1 DEF DeliverElsewhere, UserSignal, Take, display
  <2>3. ASSUME NEW e \in Entries, SourceChange(e) \/ ThreadChange(e) \/ Dispatch(e)
        PROVE  Bar!Next
    BY <2>3, <1>3 DEF SourceChange, ThreadChange, Dispatch, Running, Final
  <2> QED BY <1>5, <2>1, <2>2, <2>3 DEF Environment
<1>6. CASE Main
  <2> USE DEF Running, Final
  <2>1. ASSUME Setup \/ TickDone \/ ServeWakeup \/ SleepTimeout
               \/ SleepInterrupted \/ Rearm \/ Reset
        PROVE  UNCHANGED Bar!bar
    BY <2>1, <1>2 DEF Setup, TickDone, ServeWakeup, SleepTimeout,
      SleepInterrupted, Rearm, Reset, Printstatus, Enter, display
  <2>2. ASSUME Check PROVE Bar!Next \/ UNCHANGED Bar!bar
    BY <2>2, <1>4 DEF Check
  <2>3. ASSUME EnterSleep \/ ReadErrno \/ LeaveSleepLoop \/ ReadRet \/ LoopEnd
               \/ ReadUsr1 \/ ReadTurn \/ EmitFails \/ EmitNothing
        PROVE  Bar!Next \/ UNCHANGED Bar!bar
    BY <2>3, <1>4 DEF EnterSleep, ReadErrno, LeaveSleepLoop, ReadRet, LoopEnd,
      ReadUsr1, ReadTurn, EmitFails, EmitNothing, Return
  <2>4. ASSUME ReadSignal PROVE UNCHANGED Bar!bar
    BY <2>4, <1>2 DEF ReadSignal, Advance, Enter, Goto, display
  <2>5. ASSUME Sample PROVE Bar!Next \/ UNCHANGED Bar!bar
    <3>1. i \in Entries /\ screen' = screen /\ Running /\ Running'
      BY <2>5 DEF Sample, TypeOK, Advance, Enter
    <3>2. CASE Attach(i) BY <3>1, <3>2, <1>3 DEF Attach
    <3>3. CASE UNCHANGED value BY <3>1, <3>3, <1>2
    <3> QED BY <2>5, <3>2, <3>3 DEF Sample
  <2>6. ASSUME Emit PROVE Bar!Next
    <3>1. Running /\ Running' /\ screen' = statuses /\ value' = value
      BY <2>6 DEF Emit, Return
    <3>2. screen' \in [Entries -> Int] BY SMT DEF TypeOK
    <3>3. \A e \in Entries : screen[e] <= screen'[e] /\ screen'[e] <= value[e]
      BY <3>1 DEF Ordered
    <3> QED BY <3>1, <3>2, <3>3 DEF Bar!Next, Bar!Show
  <2>7. ASSUME Teardown PROVE Bar!Next
    BY <2>7 DEF Teardown, Blank, Bar!Next, Bar!Stop, Bar!None
  <2> QED BY <1>6, <2>1, <2>2, <2>3, <2>4, <2>5, <2>6, <2>7 DEF Main
<1>7. CASE Finished \/ UNCHANGED vars
  BY <1>7, <1>1 DEF Finished, vars, display
<1> QED BY <1>5, <1>6, <1>7 DEF Next

(* The display of slstatus is that of the abstract status bar. *)
THEOREM ImplementsStatusBar == Spec => BarSpec
<1>1. Init => Bar!Init
  BY DEF Init, Bar!Init, Bar!None, Blank, Running, Final
<1> QED BY <1>1, BarStep, OrderedAlways, TypeCorrect, PTL
  DEF Spec, BarSpec, Bar!Spec

-----------------------------------------------------------------------------
(* Nothing unsampled is shown                                              *)

(* Every entry was sampled, or an overlong text came before it. *)
Primed == \A e \in Entries : statuses[e] > 0 \/ CutBefore(e)

(* Until then main is in its first pass, which is a full one: it tests
   neither upsigno nor the turns, and nothing is on display. *)
FirstPass ==
  /\ screen = Blank
  /\ \/ pc \in {"setup", "tick"} /\ iter = 0
     \/ /\ pc = "sample" /\ pass = 0
        /\ \A e \in Entries : e < i => statuses[e] > 0

PrimedInv == NothingUnsampledShown /\ (Primed \/ FirstPass)

(* Texts are never taken back, so what excused a gap still does. *)
LEMMA CutStays ==
  ASSUME TypeOK, TypeOK', NEW e \in Entries, CutBefore(e),
         \A f \in Entries : statuses[f] <= statuses'[f]
  PROVE  CutBefore(e)'
<1>1. PICK f \in Entries : f < e /\ \E v \in 1..statuses[f] : <<f, v>> \in Long
  BY DEF CutBefore
<1>2. PICK v \in 1..statuses[f] : <<f, v>> \in Long
  BY <1>1
<1>3. v \in 1..statuses'[f]
  BY <1>2, SMT DEF TypeOK
<1> QED BY <1>1, <1>2, <1>3 DEF CutBefore

LEMMA PrimedStays ==
  ASSUME TypeOK, TypeOK', \A f \in Entries : statuses[f] <= statuses'[f]
  PROVE  /\ Primed => Primed'
         /\ NothingUnsampledShown /\ screen' = screen => NothingUnsampledShown'
<1>1. \A e \in Entries : CutBefore(e) => CutBefore(e)'
  BY CutStays
<1>2. Primed => Primed'
  BY <1>1, SMT DEF Primed, TypeOK
<1>3. NothingUnsampledShown /\ screen' = screen => NothingUnsampledShown'
  BY <1>1 DEF NothingUnsampledShown, Blank
<1> QED BY <1>2, <1>3

LEMMA PrimedNext ==
  ASSUME TypeOK, TypeOK', Ordered, Ordered', PrimedInv, [Next]_vars
  PROVE  PrimedInv'
<1> USE DEF Final
<1>1. ASSUME UNCHANGED <<statuses, screen>>,
             Primed \/ (UNCHANGED <<pc, iter, pass, i>>)
      PROVE  PrimedInv'
  <2>1. \A f \in Entries : statuses[f] <= statuses'[f]
    BY <1>1, SMT DEF TypeOK
  <2>2. FirstPass /\ UNCHANGED <<pc, iter, pass, i>> => FirstPass'
    BY <1>1 DEF FirstPass, Blank
  <2> QED BY <1>1, <2>1, <2>2, PrimedStays DEF PrimedInv
<1>2. ASSUME pc \notin {"setup", "tick", "sample"} PROVE Primed
  BY <1>2 DEF PrimedInv, FirstPass
<1>3. CASE Environment
  <2>1. ASSUME NEW s \in Signos, Deliver(s) PROVE PrimedInv'
    <3>1. UNCHANGED <<statuses, screen, iter, pass, i>>
      BY <2>1 DEF Deliver, Take, control, display
    <3>2. pc' = pc \/ pc = "sleep" BY <2>1 DEF Deliver
    <3> QED BY <3>1, <3>2, <1>1, <1>2
  <2>2. ASSUME NEW s \in Signos, DeliverElsewhere(s) \/ UserSignal(s)
        PROVE  PrimedInv'
    BY <2>2, <1>1 DEF DeliverElsewhere, UserSignal, Take, control, display
  <2>3. ASSUME NEW e \in Entries, SourceChange(e) \/ ThreadChange(e) \/ Dispatch(e)
        PROVE  PrimedInv'
    BY <2>3, <1>1 DEF SourceChange, ThreadChange, Dispatch, control
  <2> QED BY <1>3, <2>1, <2>2, <2>3 DEF Environment
<1>4. CASE Main
  <2>1. ASSUME Setup PROVE PrimedInv'
    <3>1. UNCHANGED <<statuses, screen, iter>> /\ pc = "setup" /\ pc' = "tick"
      BY <2>1 DEF Setup, control, display
    <3>2. CASE Primed BY <3>1, <3>2, <1>1
    <3>3. CASE FirstPass
      BY <3>1, <3>3 DEF PrimedInv, FirstPass, Blank, NothingUnsampledShown
    <3> QED BY <3>2, <3>3 DEF PrimedInv
  <2>2. ASSUME TickDone PROVE PrimedInv'
    <3>1. UNCHANGED <<statuses, screen>> /\ pc = "tick"
      BY <2>2 DEF TickDone, Printstatus, display
    <3>2. CASE Primed BY <3>1, <3>2, <1>1
    <3>3. CASE FirstPass
      <4>1. iter = 0 /\ screen = Blank BY <3>1, <3>3 DEF FirstPass
      <4>2. pc' = "sample" /\ pass' = 0 /\ i' = 1
        BY <2>2, <4>1 DEF TickDone, Printstatus, Enter
      <4>3. \A e \in Entries : ~(e < 1)
        BY ConstantsAssumption, SMT DEF Entries
      <4>4. FirstPass'
        BY <3>1, <4>1, <4>2, <4>3 DEF FirstPass, Blank
      <4> QED BY <4>4 DEF PrimedInv, FirstPass, NothingUnsampledShown
    <3> QED BY <3>2, <3>3 DEF PrimedInv
  <2>3. ASSUME ServeWakeup \/ SleepTimeout \/ SleepInterrupted \/ Rearm \/ Reset
        PROVE  PrimedInv'
    BY <2>3, <1>1, <1>2 DEF ServeWakeup, SleepTimeout, SleepInterrupted, Rearm,
      Reset, Printstatus, display
  <2>4. ASSUME Check \/ EnterSleep \/ ReadErrno \/ LeaveSleepLoop \/ ReadRet
               \/ LoopEnd \/ ReadUsr1 \/ ReadTurn \/ EmitFails \/ EmitNothing
               \/ ReadSignal
        PROVE  PrimedInv'
    BY <2>4, <1>1, <1>2 DEF Check, EnterSleep, ReadErrno, LeaveSleepLoop,
      ReadRet, LoopEnd, ReadUsr1, ReadTurn, EmitFails, EmitNothing, ReadSignal,
      Goto, display
  <2>5. ASSUME Emit PROVE PrimedInv'
    <3>1. Primed /\ screen' = statuses /\ statuses' = statuses
      BY <2>5, <1>2 DEF Emit
    <3>2. \A e \in Entries : CutBefore(e)' <=> CutBefore(e)
      BY <3>1 DEF CutBefore
    <3> QED BY <3>1, <3>2, SMT DEF Primed, PrimedInv, NothingUnsampledShown, TypeOK
  <2>6. ASSUME Teardown PROVE PrimedInv'
    <3>1. Primed /\ statuses' = statuses /\ screen' \in {screen, Blank}
      BY <2>6, <1>2 DEF Teardown
    <3>2. \A e \in Entries : CutBefore(e)' <=> CutBefore(e)
      BY <3>1 DEF CutBefore
    <3> QED BY <3>1, <3>2, SMT DEF Primed, PrimedInv, NothingUnsampledShown, Blank
  <2>7. ASSUME Sample PROVE PrimedInv'
    <3>1. /\ i \in Entries /\ pc = "sample" /\ screen' = screen /\ pass' = pass
          /\ statuses' = [statuses EXCEPT ![i] = value'[i]]
      BY <2>7 DEF Sample, Store, TypeOK
    <3>2. \A e \in Entries : /\ value[e] \in Nat /\ statuses[e] \in Nat
                             /\ value'[e] \in Nat /\ value'[e] >= 1
      BY DEF TypeOK, Ordered
    <3>3. \A e \in Entries :
            statuses'[e] = IF e = i THEN value'[e] ELSE statuses[e]
      BY <3>1 DEF TypeOK
    <3>4. \A e \in Entries : value[e] <= value'[e]
      BY <2>7, <3>1, SMT DEF Sample, Attach, NewVersion, TypeOK
    <3>5. \A e \in Entries : statuses[e] <= statuses'[e]
      BY <3>2, <3>3, <3>4, SMT DEF Ordered
    <3>6. NothingUnsampledShown' BY <3>1, <3>5, PrimedStays DEF PrimedInv
    <3>7. CASE Primed BY <3>5, <3>6, <3>7, PrimedStays DEF PrimedInv
    <3>8. CASE FirstPass
      <4>1. /\ screen' = Blank /\ pass = 0
            /\ \A e \in Entries : e < i => statuses[e] > 0
        BY <3>1, <3>8 DEF FirstPass
      <4>2. \A e \in Entries : e < i \/ e = i => statuses'[e] > 0
        BY <3>2, <3>3, <4>1, SMT
      <4>3. CASE <<i, value'[i]>> \in Long
        <5>1. value'[i] \in 1..statuses'[i]
          BY <3>1, <3>2, <3>3, SMT
        <5>2. \A e \in Entries : i < e => CutBefore(e)'
          BY <3>1, <5>1, <4>3 DEF CutBefore
        <5>3. Primed' BY <3>1, <4>2, <5>2, SMT DEF Primed, Entries
        <5> QED BY <5>3, <3>6 DEF PrimedInv
      <4>4. CASE i < N /\ i' = i + 1 /\ pc' = Enter(pass)
        <5>1. FirstPass'
          BY <3>1, <4>1, <4>2, <4>4, SMT DEF FirstPass, Blank, Enter, Entries
        <5> QED BY <5>1, <3>6 DEF PrimedInv
      <4>5. CASE i = N
        <5>1. Primed'
          BY <4>2, <4>5, ConstantsAssumption, SMT DEF Primed, Entries
        <5> QED BY <5>1, <3>6 DEF PrimedInv
      <4> QED BY <2>7, <4>3, <4>4, <4>5 DEF Sample, Advance
    <3> QED BY <3>7, <3>8 DEF PrimedInv
  <2> QED BY <1>4, <2>1, <2>2, <2>3, <2>4, <2>5, <2>6, <2>7 DEF Main
<1>5. CASE Finished \/ UNCHANGED vars
  BY <1>5, <1>1 DEF Finished, vars, display, control
<1> QED BY <1>3, <1>4, <1>5 DEF Next

(* Whatever signals came in before the first printstatus, the first text on
   display has every entry that no overlong text cut off. *)
THEOREM NoGapShown == Spec => []NothingUnsampledShown
<1>1. Init => PrimedInv
  BY DEF Init, PrimedInv, FirstPass, NothingUnsampledShown
<1>2. PrimedInv => NothingUnsampledShown
  BY DEF PrimedInv
<1> QED BY <1>1, <1>2, PrimedNext, OrderedAlways, TypeCorrect, PTL DEF Spec

-----------------------------------------------------------------------------
(* A refresh is lost only where upsigno is written                         *)

LEMMA SendKeeps ==
  ASSUME TypeOK, NEW s \in Signos, NEW t \in Signos, Send(s)
  PROVE  pending'[s] > 0 /\ (pending[t] > 0 => pending'[t] > 0)
<1>1. pending[s] \in Nat /\ pending[t] \in Nat
  BY DEF TypeOK
<1>2. pending'[s] = IF s < SIGRTMIN THEN 1 ELSE pending[s] + 1
  BY DEF TypeOK, Send
<1>3. t # s => pending'[t] = pending[t]
  BY DEF TypeOK, Send
<1> QED BY <1>1, <1>2, <1>3, SMT

LEMMA CollisionStep ==
  ASSUME TypeOK, [Next]_vars, NEW e \in Entries, Feed[e] # "poll", Informed(e)
  PROVE  Informed(e)' \/ upsigno' # upsigno
<1>1. ASSUME UNCHANGED <<value, statuses, pending>>, upsigno' = upsigno
      PROVE  Informed(e)'
  BY <1>1 DEF Informed
<1>2. ASSUME NEW f \in Entries, NewVersion(f), f # e,
             UNCHANGED <<statuses, pending, upsigno>>
      PROVE  Informed(e)'
  BY <1>2 DEF NewVersion, Informed, TypeOK
<1>3. ASSUME NEW s \in Signos, Take(s) PROVE Informed(e)' \/ upsigno' # upsigno
  <2>1. Signo(e) \in RefreshSignos BY SignalNumbers
  <2>2. CASE s = Signo(e)
    BY <1>3, <2>1, <2>2 DEF Take, Handle, Informed
  <2>3. CASE s # Signo(e)
    <3>1. pending'[Signo(e)] = pending[Signo(e)]
      BY <1>3, <2>3 DEF Take, TypeOK
    <3> QED BY <1>3, <3>1 DEF Take, Informed, display
  <2> QED BY <2>2, <2>3
<1>4. ASSUME NEW s \in Signos, Send(s), UNCHANGED <<value, statuses, upsigno>>
      PROVE  Informed(e)'
  <2>1. Signo(e) \in Signos BY SignalNumbers
  <2>2. pending[Signo(e)] > 0 => pending'[Signo(e)] > 0
    BY <1>4, <2>1, SendKeeps
  <2> QED BY <1>4, <2>2 DEF Informed
<1>5. CASE Environment
  <2>1. ASSUME NEW s \in Signos, Deliver(s) \/ DeliverElsewhere(s)
        PROVE  Informed(e)' \/ upsigno' # upsigno
    BY <2>1, <1>3 DEF Deliver, DeliverElsewhere
  <2>2. ASSUME NEW s \in Signos, UserSignal(s) PROVE Informed(e)'
    BY <2>2, <1>4 DEF UserSignal, flags, display
  <2>3. ASSUME NEW f \in Entries, SourceChange(f) PROVE Informed(e)'
    BY <2>3, <1>2 DEF SourceChange, flags, outside
  <2>4. ASSUME NEW f \in Entries, ThreadChange(f) PROVE Informed(e)'
    <3>1. Signo(f) \in Signos /\ Signo(e) \in Signos
      BY <2>4, SignalNumbers DEF ThreadChange
    <3>2. /\ pending'[Signo(f)] > 0
          /\ pending[Signo(e)] > 0 => pending'[Signo(e)] > 0
      BY <2>4, <3>1, SendKeeps DEF ThreadChange
    <3>3. CASE f = e BY <3>2, <3>3 DEF Informed
    <3>4. CASE f # e
      <4>1. value'[e] = value[e] /\ UNCHANGED <<statuses, upsigno>>
        BY <2>4, <3>4 DEF ThreadChange, NewVersion, TypeOK, flags
      <4> QED BY <3>2, <4>1 DEF Informed
    <3> QED BY <3>3, <3>4
  <2>5. ASSUME NEW f \in Entries, Dispatch(f)
        PROVE  Informed(e)' \/ upsigno' # upsigno
    <3>1. CASE f = e BY <2>5, <3>1 DEF Dispatch, RaiseHere, Informed
    <3>2. CASE f # e BY <2>5, <3>2, <1>2 DEF Dispatch, outside
    <3> QED BY <3>1, <3>2
  <2> QED BY <1>5, <2>1, <2>2, <2>3, <2>4, <2>5 DEF Environment
<1>6. CASE Main
  <2>1. ASSUME Setup \/ TickDone \/ ServeWakeup \/ SleepTimeout
               \/ SleepInterrupted \/ Rearm \/ Reset \/ Teardown \/ Emit
        PROVE  Informed(e)' \/ upsigno' # upsigno
    BY <2>1, <1>1 DEF Setup, TickDone, ServeWakeup, SleepTimeout, Teardown,
      SleepInterrupted, Rearm, Reset, Emit, Printstatus, display, outside, flags
  <2>2. ASSUME Check \/ EnterSleep \/ ReadErrno \/ LeaveSleepLoop \/ ReadRet
               \/ LoopEnd \/ ReadUsr1 \/ ReadTurn \/ EmitFails \/ EmitNothing
               \/ ReadSignal
        PROVE  Informed(e)'
    BY <2>2, <1>1 DEF Check, EnterSleep, ReadErrno, LeaveSleepLoop, ReadRet,
      LoopEnd, ReadUsr1, ReadTurn, EmitFails, EmitNothing, ReadSignal, Goto,
      display, outside, flags
  <2>3. ASSUME Sample PROVE Informed(e)' \/ upsigno' # upsigno
    <3>1. i \in Entries /\ statuses' = [statuses EXCEPT ![i] = value'[i]]
          /\ pending' = pending
      BY <2>3 DEF Sample, Store, TypeOK, outside
    <3>2. CASE i = e BY <3>1, <3>2 DEF Informed, TypeOK
    <3>3. CASE i # e
      <4>1. statuses'[e] = statuses[e] BY <3>1, <3>3 DEF TypeOK
      <4>2. value'[e] = value[e]
        BY <2>3, <3>3 DEF Sample, Attach, NewVersion, TypeOK
      <4> QED BY <3>1, <4>1, <4>2 DEF Informed
    <3> QED BY <3>2, <3>3
  <2> QED BY <1>6, <2>1, <2>2, <2>3 DEF Main
<1>7. CASE Finished \/ UNCHANGED vars
  BY <1>7, <1>1 DEF Finished, vars, display, outside, flags
<1> QED BY <1>5, <1>6, <1>7 DEF Next

(* For every table: an announced change is lost only by a write to upsigno. *)
THEOREM LossIsCollision == Spec => LostOnlyByCollision
<1>1. TypeOK /\ [Next]_vars =>
        [ \A e \in Entries : Feed[e] # "poll" /\ Informed(e) =>
            Informed(e)' \/ upsigno' # upsigno ]_vars
  BY CollisionStep
<1> QED BY <1>1, TypeCorrect, PTL DEF Spec, LostOnlyByCollision
=============================================================================
