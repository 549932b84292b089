----------------------------- MODULE SimulationRun -----------------------------
(***************************************************************************)
(* What a PeleC run promises whoever waits for it: simulated time moves    *)
(* forward one step at a time and never past the end; a checkpoint holds a *)
(* point the simulation reached; a run that breaks off falls back to a     *)
(* checkpoint (or to the beginning if there is none); and a run that ends  *)
(* has saved the point at which it ended.  How long a step is and when     *)
(* checkpoints are written is left open: RunControl says so.               *)
(***************************************************************************)
EXTENDS Integers

VARIABLES
  end,       \* the time at which to end (negative: none)
  point,     \* the step and time the simulation has reached
  saved,     \* the points that can be returned to
  ended

vars == <<end, point, saved, ended>>

Init ==
  /\ end \in Int
  /\ point.step = 0 /\ point.time \in Nat
  /\ saved = {point}
  /\ ended = FALSE

Advance ==
  /\ ~ended
  /\ point'.step = point.step + 1
  /\ point'.time > point.time
  /\ end >= 0 => point'.time <= end
  /\ UNCHANGED <<end, saved, ended>>

Save ==
  /\ ~ended
  /\ saved' = saved \cup {point}
  /\ UNCHANGED <<end, point, ended>>

FallBack ==
  /\ point' \in saved
  /\ ended' = FALSE
  /\ UNCHANGED <<end, saved>>

End ==
  /\ point \in saved
  /\ ended' = TRUE
  /\ UNCHANGED <<end, point, saved>>

Next == Advance \/ Save \/ FallBack \/ End

Spec == Init /\ [][Next]_vars
================================================================================
