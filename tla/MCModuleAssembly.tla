--------------------------- MODULE MCModuleAssembly ---------------------------
\* Three string constants, one of them empty; bytes are small numbers.
EXTENDS ModuleAssembly

MCStr == {"empty", "one", "two"}
MCText == [s \in MCStr |-> CASE s = "empty" -> <<>>
                             [] s = "one" -> <<1>>
                             [] s = "two" -> <<2, 3>>]
MCWellKnown == <<0, 0, 0>>
=============================================================================
