----------------------------- MODULE StatusBar -----------------------------
(***************************************************************************)
(* What slstatus promises whoever reads the bar, whatever its loop, its    *)
(* signals and its components do: each part of the text on display is a    *)
(* version of its source that existed, a part is never replaced by an      *)
(* older version, and after the program has ended the text is left alone   *)
(* or removed as a whole.                                                  *)
(***************************************************************************)
EXTENDS Integers

CONSTANT Entries

VARIABLES
  value,    \* the current version of what each entry shows
  screen,   \* the version of each entry in the text on display, 0 for none
  running

bar == <<value, screen, running>>

None == [e \in Entries |-> 0]

Init ==
  /\ value = [e \in Entries |-> 1]
  /\ screen = None
  /\ running = TRUE

(* The source of one entry changes. *)
Change ==
  /\ running
  /\ \E e \in Entries : value' = [value EXCEPT ![e] = @ + 1]
  /\ UNCHANGED <<screen, running>>

(* A text is put on display: nothing in it is older than before, nothing
   comes out of nowhere. *)
Show ==
  /\ running
  /\ screen' \in [Entries -> Int]
  /\ \A e \in Entries : screen[e] <= screen'[e] /\ screen'[e] <= value[e]
  /\ UNCHANGED <<value, running>>

Stop ==
  /\ running /\ ~running'
  /\ screen' \in {screen, None}
  /\ UNCHANGED value

Next == Change \/ Show \/ Stop

Spec == Init /\ [][Next]_bar
=============================================================================
