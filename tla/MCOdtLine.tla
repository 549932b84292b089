------------------------------ MODULE MCOdtLine ------------------------------
(* An instance of OdtLine for TLC, and of LineTransport beside it: a behaviour *)
(* is either of a line's averages or of its transport, and leaves the          *)
(* variables of the other one alone.                                           *)
EXTENDS OdtLine, LineTransport

(* A periodic or interior owner, and owners at either end of the domain. *)
AllSupports == {<<-1, 0, 1>>, <<0, 1, 2>>, <<-2, -1, 0>>}

(* A light gas at rest, a fast one with little internal energy, and a heavy    *)
(* one, slower but with more momentum, of another composition.                 *)
FewCells == {<<1, 0, 1, 1>>, <<1, 4, 9, 0>>, <<2, 6, 18, 2>>}

(* Nothing, or a momentum across one face: inside the owner or at either end   *)
(* of it; a small one, or one that matters to a line reconciled before, whose  *)
(* unit is finer.                                                              *)
FewCrossings ==
    LET only(g, x) == [f \in 0 .. 3 * Nsub - 2 |-> IF f = g THEN x ELSE 0]
    IN  {only(g, x) : g \in {2, 3, 5}, x \in {-30, 0, 3}}

FewMomenta == -1..2

(* A behaviour of the averages has a column at rest. *)
AtRest(f) == f = [s \in 1..3 |-> 0]

LineInit ==
    \/ Init /\ rho = [s \in 1..3 |-> 1] /\ AtRest(rhou) /\ AtRest(mu)
    \/ /\ offsets = <<>> /\ target = <<>> /\ line = <<>>
       /\ unit = 1 /\ since = {} /\ failed = FALSE /\ reserve = {}
       /\ events = 0 /\ calls = 0
       /\ ColumnInit

LineNext ==
    \/ offsets # <<>> /\ Next /\ UNCHANGED column
    \/ offsets = <<>> /\ ColumnNext /\ UNCHANGED vars

LineSpec == LineInit /\ [][LineNext]_<<vars, column>>
=============================================================================
