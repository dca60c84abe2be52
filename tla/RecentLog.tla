----------------------------- MODULE RecentLog ------------------------------
(***************************************************************************)
(* What the message store promises to the chat (message_store.h): the last *)
(* Window messages whose append returned survive a loss of power, in the   *)
(* order they were appended, and a cut-off append leaves all or nothing.   *)
(***************************************************************************)
EXTENDS Integers, Sequences

CONSTANTS Message, None, Window

VARIABLES
  kept,     \* the last messages, on flash
  pending,  \* the message append() is working on, or None
  done,     \* it is on flash
  view      \* what the last power-up loaded

vars == <<kept, pending, done, view>>

LastOf(s, n) ==
  LET k == IF Len(s) <= n THEN 0 ELSE Len(s) - n
  IN  [i \in 1..(Len(s) - k) |-> s[i + k]]

Init ==
  /\ kept = <<>>
  /\ pending = None
  /\ done = FALSE
  /\ view = <<>>

Start ==
  /\ pending = None
  /\ pending' \in Message
  /\ UNCHANGED <<kept, done, view>>

Commit ==
  /\ pending # None
  /\ ~done
  /\ kept' = LastOf(Append(kept, pending), Window)
  /\ done' = TRUE
  /\ UNCHANGED <<pending, view>>

(* append() returns true only for what is on flash. *)
Return ==
  /\ done
  /\ pending' = None
  /\ done' = FALSE
  /\ UNCHANGED <<kept, view>>

(* append() returns false: no trace of the message. *)
Fail ==
  /\ ~done
  /\ pending' = None
  /\ UNCHANGED <<kept, done, view>>

PowerLoss ==
  /\ pending' = None
  /\ done' = FALSE
  /\ view' = <<>>
  /\ UNCHANGED kept

PowerUp ==
  /\ view' = kept
  /\ UNCHANGED <<kept, pending, done>>

Next ==
  \/ Start \/ Commit \/ Return \/ Fail \/ PowerLoss \/ PowerUp

Spec == Init /\ [][Next]_vars

=============================================================================
