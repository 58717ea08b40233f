------------------------------ MODULE Volume -------------------------------
(***************************************************************************)
(* components/volume.c on the BSDs: vol_perc keeps a list of the audio     *)
(* server's output controls, which two callbacks build from the messages   *)
(* that each call takes in, and forgets everything when the server hangs   *)
(* up.  A step is one message or one control of the sum.                   *)
(***************************************************************************)
EXTENDS Integers, FiniteSets, Sequences, SequencesExt

CONSTANTS
  Addrs,      \* addresses of the server's controls
  None,       \* NULL
  MaxVal,     \* the maxval of every level
  MaxEvents   \* bound on the changes at the server

VARIABLES
  control,     \* the server's control at each address, or None
  inbox,       \* messages for this client
  hup,         \* the server has hung up
  foreign,     \* the value of a control that is no output's one was sent
  events,      \* how many changes there were
  initialized, \* static initialized; hdl is open exactly when it is set
  controls,    \* the static list: address, type, value
  doing,       \* where vol_perc is, or that onval has dereferenced NULL
  c,           \* the place of LIST_FOREACH in the list
  value,       \* the local variable
  perc         \* the last result of vol_perc

server == <<control, inbox, hup, foreign, events>>
client == <<initialized, controls, doing, c, value, perc>>
vars   == <<server, client>>

(* "other": anything that is not output.level or output.mute *)
Types == {"level", "mute", "other"}
Controls == {r \in [type : Types, val : {0, 1, MaxVal}] : r.type = "mute" => r.val <= 1}

Init ==
  /\ control \in [Addrs -> {None, [type |-> "level", val |-> MaxVal], [type |-> "mute", val |-> 1]}]
  /\ inbox = <<>> /\ hup = FALSE /\ foreign = FALSE /\ events = 0
  /\ initialized = FALSE /\ controls = <<>> /\ perc = None
  /\ doing = "idle" /\ c = 1 /\ value = 0

-----------------------------------------------------------------------------
(* The server: a description of each control to a new client, then one of  *)
(* each that comes or goes, and the value of each that changes.            *)

Desc(x, r) == [t |-> "desc", addr |-> x, desc |-> r]
Val(x, v) == [t |-> "val", addr |-> x, val |-> v]

Set(x, r, m) ==
  /\ r # control[x] /\ control' = [control EXCEPT ![x] = r]
  /\ inbox' = IF initialized /\ ~hup THEN Append(inbox, m) ELSE inbox
  /\ UNCHANGED hup

Redescribe(x) ==
  \E r \in Controls \cup {None} : Set(x, r, Desc(x, r)) /\ UNCHANGED foreign

Change(x) ==
  \E r \in Controls :
    /\ control[x] # None /\ r.type = control[x].type
    /\ Set(x, r, Val(x, r.val))
    /\ foreign' = (foreign \/ r.type = "other")

HangUp ==
  /\ initialized /\ ~hup /\ hup' = TRUE
  /\ UNCHANGED <<control, inbox, foreign>>

Event ==
  /\ doing # "crashed" /\ events < MaxEvents /\ events' = events + 1
  /\ HangUp \/ \E x \in Addrs : Redescribe(x) \/ Change(x)
  /\ UNCHANGED client

(* What the server sends a client that has opened it: what there is, in
   any order. *)
Descriptions ==
  LET there == {x \in Addrs : control[x] # None}
  IN  {[n \in DOMAIN f |-> Desc(f[n], control[f[n]])] : f \in Bijection(1..Cardinality(there), there)}

-----------------------------------------------------------------------------
(* The client                                                              *)

At(x, cs) == {n \in DOMAIN cs : cs[n].addr = x}

(* The first control of that address goes. *)
Others(x, cs) ==
  IF At(x, cs) = {} THEN cs
  ELSE RemoveAt(cs, CHOOSE n \in At(x, cs) : \A k \in At(x, cs) : n <= k)

Listed(m) == [addr |-> m.addr, type |-> m.desc.type, val |-> m.desc.val]

(* A mutant of Ondesc: the mute switch is not matched. *)
OndescLevel(m) ==
  controls' = IF m.desc # None /\ m.desc.type = "level"
              THEN <<Listed(m)>> \o Others(m.addr, controls)
              ELSE Others(m.addr, controls)

(* An output's control comes first in the list, others are not in it. *)
Ondesc(m) ==
  controls' = IF m.desc # None /\ m.desc.type # "other"
              THEN <<Listed(m)>> \o Others(m.addr, controls)
              ELSE Others(m.addr, controls)

Onval(m) ==
  controls' = [n \in DOMAIN controls |->
                 IF n \in At(m.addr, controls) THEN [controls[n] EXCEPT !.val = m.val] ELSE controls[n]]

(* A mutant of Cleanup: the list outlives the connection. *)
CleanupKeeps ==
  initialized' = FALSE /\ UNCHANGED controls

Cleanup ==
  initialized' = FALSE /\ controls' = <<>>

(* init fails: cannot open, no callbacks, no memory *)
Fail ==
  /\ doing = "idle" /\ ~initialized
  /\ Cleanup /\ perc' = None
  /\ UNCHANGED <<server, doing, c, value>>

(* init succeeds, or was done before *)
Open ==
  /\ doing = "idle" /\ doing' = "revents"
  /\ IF initialized THEN UNCHANGED inbox ELSE inbox' \in Descriptions
  /\ initialized' = TRUE
  /\ UNCHANGED <<control, hup, foreign, events, controls, c, value, perc>>

(* sioctl_revents: the callback of one message *)
Callback ==
  /\ doing = "revents" /\ inbox # <<>> /\ inbox' = Tail(inbox)
  /\ LET m == Head(inbox)
     IN  \/ m.t = "desc" /\ Ondesc(m) /\ UNCHANGED doing
         \/ m.t = "val" /\ At(m.addr, controls) # {} /\ Onval(m) /\ UNCHANGED doing
         \/ /\ m.t = "val" /\ At(m.addr, controls) = {}
            /\ doing' = "crashed" /\ UNCHANGED controls
  /\ UNCHANGED <<control, hup, foreign, events, initialized, c, value, perc>>

(* sioctl_revents is done: POLLHUP *)
Disconnected ==
  /\ doing = "revents" /\ hup
  /\ hup' = FALSE /\ inbox' = <<>>
  /\ Cleanup /\ perc' = None /\ doing' = "idle"
  /\ UNCHANGED <<control, foreign, events, c, value>>

(* All that has come by then is handled; what comes later stays. *)
Handled ==
  /\ doing = "revents" /\ ~hup
  /\ doing' = "value" /\ value' = 100 /\ c' = 1
  /\ UNCHANGED <<server, initialized, controls, perc>>

Percent(v) == (v * 100 + MaxVal \div 2) \div MaxVal

(* One control: a switch mutes, a level may be the least. *)
Weigh ==
  /\ doing = "value" /\ c \in DOMAIN controls /\ c' = c + 1
  /\ LET v == Percent(controls[c].val)
     IN  value' = IF controls[c].type = "mute" /\ controls[c].val = 1 THEN 0
                  ELSE IF controls[c].type = "level" /\ v < value THEN v ELSE value
  /\ UNCHANGED <<server, initialized, controls, doing, perc>>

(* The local variables end here. *)
Return ==
  /\ doing = "value" /\ c \notin DOMAIN controls
  /\ perc' = value /\ doing' = "idle"
  /\ c' = 1 /\ value' = 0
  /\ UNCHANGED <<server, initialized, controls>>

VolPerc == Fail \/ Open \/ Callback \/ Disconnected \/ Handled \/ Weigh \/ Return

Crashed == doing = "crashed" /\ UNCHANGED vars

Next == Event \/ VolPerc \/ Crashed

Spec == Init /\ [][Next]_vars

-----------------------------------------------------------------------------
(* Properties                                                              *)

Lowest ==
  LET levels == {Percent(control[x].val) : x \in {y \in Addrs : control[y] # None /\ control[y].type = "level"}}
  IN  CHOOSE m \in levels \cup {100} : \A l \in levels \cup {100} : m <= l

Muted == \E x \in Addrs : control[x] = [type |-> "mute", val |-> 1]

(* Between two calls, with no message left and the server there, the volume
   shown is what its controls say, in whatever order they came, were described again or lost
   with an earlier connection: 0 if muted, else the lowest level. *)
VolumeIsServers ==
  doing = "idle" /\ initialized /\ inbox = <<>> /\ ~hup =>
    perc = IF Muted THEN 0 ELSE Lowest

(* vol_perc does not bring the bar down as long as the values the server
   sends are those of output levels and mute switches. *)
CrashOnlyByOthers == doing = "crashed" => foreign
=============================================================================
