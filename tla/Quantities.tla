----------------------------- MODULE Quantities -----------------------------
(***************************************************************************)
(* Arithmetic of the quantities VISION4FARMS keeps in its numeric(12,3)    *)
(* columns.  A quantity is a natural number of thousandths of the          *)
(* product's unit, so that quantize_qty is the identity on sums and        *)
(* differences and rounds only what a division produces.                   *)
(***************************************************************************)
EXTENDS Integers, FiniteSets

\* One element per thousandth of every f[i], i in S.
Pieces(S, f) == UNION { {i} \X (1..f[i]) : i \in S }

\* The Sum(...) of an ORM aggregate: the f[i] of the rows i in S added up.
\* Written with a cardinality rather than a recursion, so that it can be
\* reasoned about as well as evaluated.
Total(S, f) == Cardinality(Pieces(S, f))

\* Faulty variant of Monus: the clamp forgotten.
Difference(a, b) == a - b

\* max(a - b, 0), the way the services clamp every subtraction.
Monus(a, b) == IF a > b THEN a - b ELSE 0

Least(a, b) == IF a < b THEN a ELSE b
=============================================================================
