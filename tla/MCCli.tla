-------------------------------- MODULE MCCli --------------------------------
(***************************************************************************)
(* Every build, every command line of up to two files in each list.        *)
(***************************************************************************)
EXTENDS Cli
==============================================================================
