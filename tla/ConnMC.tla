-------------------------------- MODULE ConnMC --------------------------------
(* Small instances of Conn for TLC.                                         *)
EXTENDS Conn

CONSTANTS s1, s2, w1

NothingUnpackable == {}
SecondUnpackable  == {<<s1, 2>>}

===============================================================================
