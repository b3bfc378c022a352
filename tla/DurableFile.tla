----------------------------- MODULE DurableFile -----------------------------
(***************************************************************************)
(* What the callers of atomic_write_bytes (util.py) rely on: a file that   *)
(* holds one whole value at a time.  AtomicFile is shown to implement it.  *)
(*                                                                         *)
(* `visible' is what a program reads.  `survivors' are the values one of   *)
(* which is found after the host has gone down: a write that returned has  *)
(* no survivor but itself, a write that raised may have happened or not.   *)
(***************************************************************************)
CONSTANTS
  Values,      \* whole contents
  Missing,     \* there is no file
  Nothing      \* no write is under way

VARIABLES visible, survivors, asked

vars == <<visible, survivors, asked>>

Init ==
  /\ visible \in Values \cup {Missing}
  /\ survivors = {visible}
  /\ asked = Nothing

Ask(v) ==
  /\ asked = Nothing
  /\ asked' = v
  /\ UNCHANGED <<visible, survivors>>

(* The file is replaced, not yet for good.                                 *)
Happen ==
  /\ asked # Nothing
  /\ visible' = asked
  /\ survivors' = survivors \cup {asked}
  /\ UNCHANGED asked

(* The write returns.                                                      *)
Confirm ==
  /\ asked # Nothing
  /\ visible = asked
  /\ survivors' = {visible}
  /\ asked' = Nothing
  /\ UNCHANGED visible

(* It raises, or its process dies.                                         *)
GiveUp ==
  /\ asked # Nothing
  /\ asked' = Nothing
  /\ UNCHANGED <<visible, survivors>>

Remove ==
  /\ asked = Nothing
  /\ visible' = Missing
  /\ survivors' = survivors \cup {Missing}
  /\ UNCHANGED asked

(* The system writes back on its own.                                      *)
Settle ==
  /\ survivors' = {visible}
  /\ UNCHANGED <<visible, asked>>

GoDown ==
  /\ visible' \in survivors
  /\ survivors' = {visible'}
  /\ asked' = Nothing

Next ==
  \/ \E v \in Values : Ask(v)
  \/ Happen \/ Confirm \/ GiveUp \/ Remove \/ Settle \/ GoDown

Spec == Init /\ [][Next]_vars
=============================================================================
