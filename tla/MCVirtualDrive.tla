--------------------------- MODULE MCVirtualDrive ---------------------------
(* Which block is taken does not matter, nor which name a file has.         *)
EXTENDS VirtualDrive, TLC

AnyBlockOrName == Permutations(Blocks) \cup Permutations(Names)
=============================================================================
