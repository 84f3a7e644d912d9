--------------------------- MODULE MCSatPortfolio ---------------------------
(***************************************************************************)
(* Calls that ask one engine, or two of them.                              *)
(***************************************************************************)
EXTENDS SatPortfolio

Pair == {"BOOLECTOR", "MATHSAT5"}

OneOrTwo == {{e} : e \in AllEngines} \cup {Pair}
Two == {Pair}
=============================================================================
