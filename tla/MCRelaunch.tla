------------------------------ MODULE MCRelaunch ------------------------------
(***************************************************************************)
(* Relaunch, with the kernels of MCProgramOrder.                           *)
(***************************************************************************)
EXTENDS Relaunch, MCProgramOrder
=============================================================================
