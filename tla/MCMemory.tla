------------------------------ MODULE MCMemory ------------------------------
(* Memory on 34 addresses: pages of two bytes, bytes of two values, files  *)
(* with sections of at most three bytes.                                   *)
EXTENDS Memory

MCContents == {<<>>, <<1, 0, 1>>}
MCGarbage  == {0, 3}
MCTargets  == {5, 6, 7, 8, 10, 12, 13}
MCWords    == {1, 2}
=============================================================================
