------------------------------ MODULE MCParity ------------------------------
(***************************************************************************)
(* Two state fields and two chained derived fields, of which the first     *)
(* traps when x = y = 1; the invariant is x <= y.                          *)
(***************************************************************************)
EXTENDS Parity

MCDerived == <<"d", "e">>

Num(v) == IF v = Unbound THEN 0 ELSE v

MCDerive(i, view) ==
  LET x == Num(view["x"])  y == Num(view["y"])
  IN  IF i = 1 THEN IF x = 1 /\ y = 1 THEN Trap ELSE (x + y) % 2
      ELSE 1 - Num(view["d"])

MCHolds(i, view) == Num(view["x"]) <= Num(view["y"])

MCNever(i, view) == FALSE
=============================================================================
