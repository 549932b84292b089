----------------------------- MODULE LineAdvance -----------------------------
(* What the ODT contract promises of one line over one host step               *)
(* (Source/ODTLES/ODTContract.md): the line diffuses for exactly the time the  *)
(* host gives it, and the only other thing that happens to it is that eddies   *)
(* rearrange its cells, each within one interval.  The advance may also give   *)
(* up, and then the program stops.                                             *)
EXTENDS Integers

CONSTANTS Sizes,     \* cells a line may have
          Steps      \* the host's steps

VARIABLES dt,        \* the host's step
          line,      \* the label of the parcel each cell holds
          diffused,  \* time the line has diffused for
          ended      \* "no", "closed" or "aborted"

vars == <<dt, line, diffused, ended>>

Init ==
    /\ dt \in Steps
    /\ \E n \in Sizes : line = [i \in 0..n-1 |-> i]
    /\ diffused = 0
    /\ ended = "no"

Diffuse == \E d \in 0..(dt - diffused) : diffused' = diffused + d

(* The parcels of one interval change places. *)
Rearrange ==
    \E lo, hi \in DOMAIN line :
        LET here == {i \in DOMAIN line : lo <= i /\ i <= hi}
        IN  /\ DOMAIN line' = DOMAIN line
            /\ \A i \in DOMAIN line \ here : line'[i] = line[i]
            /\ {line'[i] : i \in here} = {line[i] : i \in here}

Advance ==
    /\ ended = "no"
    /\ Diffuse
    /\ line' = line \/ Rearrange
    /\ UNCHANGED <<dt, ended>>

Close ==
    /\ ended = "no"
    /\ diffused' = dt
    /\ ended' = "closed"
    /\ UNCHANGED <<dt, line>>

Abort == ended = "no" /\ ended' = "aborted" /\ UNCHANGED <<dt, line, diffused>>

Next == Advance \/ Close \/ Abort

Spec == Init /\ [][Next]_vars
=============================================================================
