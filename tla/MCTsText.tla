------------------------------ MODULE MCTsText ------------------------------
(* One number that "%g" prints as it was, one that it rounds, and one that  *)
(* it prints with an exponent: 1e+06 is read as a number, a name and a      *)
(* number.                                                                  *)
EXTENDS TsText

MCWords == {"w", "e"}
MCStrings == {"s", "(null)"}
MCNumbers == {"1", "0.9999999", "1000000", "+06", "6"}
MCPrinted ==
  [x \in MCNumbers |->
     CASE x \in {"1", "6"} -> <<Num(x)>>
       [] x = "0.9999999" -> <<Num("1")>>
       [] x = "1000000" -> <<Num("1"), Id("e"), Num("+06")>>
       [] x = "+06" -> <<Num("6")>>]
MCGiven ==
  {Id("w"), Str("s")} \cup {Num(x) : x \in {"1", "0.9999999", "1000000"}}
    \cup {Sym(c) : c \in {"=", "{", "}", "[", "]", ",", ";"}}
=============================================================================
