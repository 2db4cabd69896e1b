---------------------------- MODULE MCKmsSigner -----------------------------
(***************************************************************************)
(* The points of y^2 = x^3 + 7, the curve of secp256k1, over the integers  *)
(* modulo 43: a group of order 31, generated by (2, 12).  Its x 32 to 42   *)
(* do not fit a scalar; 38 is reduced to 7, the x of other points, and the *)
(* others to numbers that are no x.                                        *)
(***************************************************************************)
EXTENDS KmsSigner, Sequences

Points == <<
    <<2, 12>>, <<7, 7>>, <<35, 21>>, <<21, 18>>, <<12, 12>>, <<29, 31>>,
    <<25, 18>>, <<32, 40>>, <<20, 40>>, <<42, 7>>, <<40, 25>>, <<37, 36>>,
    <<13, 21>>, <<34, 40>>, <<38, 21>>, <<38, 22>>, <<34, 3>>, <<13, 22>>,
    <<37, 7>>, <<40, 18>>, <<42, 36>>, <<20, 3>>, <<32, 3>>, <<25, 25>>,
    <<29, 12>>, <<12, 31>>, <<21, 25>>, <<35, 22>>, <<7, 36>>, <<2, 31>> >>

CurveOrder == Len(Points) + 1
CurveX == [p \in DOMAIN Points |-> Points[p][1]]
CurveYParity == [p \in DOMAIN Points |-> Points[p][2] % 2]

ASSUME OnTheCurve ==
    \A p \in DOMAIN Points :
        LET x == Points[p][1]
            y == Points[p][2]
        IN  (y * y) % 43 = (x * x * x + 7) % 43
=============================================================================
