------------------------------ MODULE CommandLine ------------------------------
(***************************************************************************)
(* A run of the program up to its first cycle (main.cpp): the kernel's     *)
(* text is parsed, a GPU is constructed for the configuration, and         *)
(* GPU::loadProgram launches the warps.  A text that is rejected ends the  *)
(* run.                                                                    *)
(***************************************************************************)
EXTENDS Launch, Parser

CONSTANT Inputs    \* the pairs of a text and a configuration

ASSUME InputsAssumption == Inputs \subseteq Sources \X Configs

CommandLineInit ==
  \E run \in Inputs : source = run[1] /\ config = run[2] /\ ParserInit /\ Init

(* GPU::loadProgram. *)
loadProgram == outcome = "parsed" /\ Next /\ UNCHANGED parserVars

CommandLineNext ==
  \/ Parse /\ UNCHANGED launchVars
  \/ loadProgram

CommandLineSpec == CommandLineInit /\ [][CommandLineNext]_<<launchVars, parserVars>>
=============================================================================
