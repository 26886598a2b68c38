---------------------------- MODULE MCSpaceWasm ----------------------------
(***************************************************************************)
(* The space of MCSpaceEval compiled: x <= y, derived d and e, d dividing  *)
(* by zero when x = y = 1 and w = 1; a second invariant that itself traps. *)
(* Some action binds the name d, the update the name x.                    *)
(***************************************************************************)
EXTENDS SpaceWasm

MCDerived == <<"d", "e">>

MCDerive(i, view) ==
  IF i = 1
  THEN IF view["x"] = 2 THEN Trap ELSE IF view["x"] = view["y"] THEN 1 ELSE 0
  ELSE IF view["d"] = 0 THEN 1 ELSE 0

MCHolds(i, view) == IF i = 1 THEN view["x"] <= view["y"] ELSE view["y"] + view["e"] > 0

MCTraps(i, view) == i = 2 /\ view["y"] = 2

MCReads(p) == <<{"x", "y"}, {"d"}, {"x", "y"}, {"y", "e"}>>[p]

MCLets(e, p) ==
  CASE e = "dispatch" /\ p = 0 -> {"d"}
    [] e = "update" /\ p = 0 -> {"x"}
    [] OTHER -> {}

MCNoLets(e, p) == {}
=============================================================================
