-------------------------------- MODULE MCGpu --------------------------------
(***************************************************************************)
(* A queue of two slots: the third list is stored in the slot of the first.*)
(***************************************************************************)
EXTENDS Gpu

MCDisplayLists == DisplayList
=============================================================================
