------------------------------ MODULE Residues ------------------------------
(* Exact fractions for TLC, which has integers of 32 bits only: a fraction is  *)
(* the residue of numerator times inverse denominator modulo a prime. An       *)
(* equation between fractions holds between their residues, and one that does  *)
(* not hold is not satisfied by the residues of all inputs of a run either.    *)
EXTENDS Integers, FiniteSetsExt

\* The largest prime the square of which has 31 bits.
Prime == 46337

Times(x, y) == ((x % Prime) * (y % Prime)) % Prime

\* By Fermat, x^(Prime - 2) is the inverse of x.
Power(x, exponent) ==
    LET power[n \in 0..exponent] ==
          IF n = 0 THEN 1
          ELSE LET root == power[n \div 2]
               IN  Times(Times(root, root), IF n % 2 = 1 THEN x ELSE 1)
    IN  power[exponent]

Inverses == [x \in 0..(Prime - 1) |-> Power(x, Prime - 2)]

\* Whether a denominator has an inverse.
Invertible(x) == x % Prime # 0

Over(x, y) == Times(x, Inverses[y % Prime])
Same(x, y) == (x - y) % Prime = 0

\* Sum of the residues of a term over a finite set.
Total(S, term(_)) == FoldSet(LAMBDA i, sum : (sum + term(i)) % Prime, 0, S)
=============================================================================
