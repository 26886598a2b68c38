---------------------------- MODULE MCSpaceEval ----------------------------
(***************************************************************************)
(* A space with two state fields x <= y (its invariant), two derived       *)
(* fields of which the second reads the first, and one credential.  The    *)
(* derived field d divides by zero when x = y = k = 1.                     *)
(***************************************************************************)
EXTENDS SpaceEval

MCDerived == <<"d", "e">>

Num(v) == IF v = Unbound THEN 0 ELSE v

MCDerive(i, view) ==
  LET x == Num(view["x"])  y == Num(view["y"])  k == Num(view["k"])
  IN  IF i = 1
      THEN IF x = 1 /\ y = 1 /\ k = 1 THEN Trap ELSE (x + y) % 2
      ELSE 1 - Num(view["d"])

MCHolds(i, view) == Num(view["x"]) <= Num(view["y"])
=============================================================================
