------------------------------- MODULE MCNames -------------------------------
(* One state field x and one other name y.  A program draws on one of the   *)
(* repertoires, beside actions, uses and ends: constructs that meet in one  *)
(* scope, and constructs that leave something behind with those that find it.*)
EXTENDS Names

CONSTANT x, y

MCField == {x}
MCLocal == {y}

MCRepertoires ==
  {{"let", "if", "narrow"}, {"let", "for", "if"}, {"let", "fn", "set"},
   {"let", "match", "epilogue"}, {"for", "return", "epilogue"}, {"for", "fn"},
   {"view", "let", "if"}, {"view", "for", "return"}, {"let", "set", "match"}}
=============================================================================
