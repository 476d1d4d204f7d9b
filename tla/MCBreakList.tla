---------------------------- MODULE MCBreakList -----------------------------
(* Three cells, three addresses and batches of two: the list can be empty, *)
(* full, and walked past its head; a cell is handed out, freed and handed  *)
(* out again; a batch repeats an address or fails on its second one.       *)
EXTENDS BreakList
=============================================================================
