------------------------------- MODULE MCBitMap -------------------------------
(* Seven bits in words of three: a first word, a middle one, and a last    *)
(* one of which only one bit belongs to the map.                           *)
EXTENDS BitMap

Arguments == -1 .. 7

RealArguments == {0, 7799}
===============================================================================
