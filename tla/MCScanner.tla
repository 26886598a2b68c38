------------------------------ MODULE MCScanner ------------------------------
(***************************************************************************)
(* Every source of a few characters, one or two of each kind the scanner   *)
(* branches on.                                                            *)
(***************************************************************************)
EXTENDS Scanner

MCInput == {"newline", "space", "letter", "=", "!", "/", "*", "quote", "$",
            "{", "}", "backslash", "other"}
=============================================================================
