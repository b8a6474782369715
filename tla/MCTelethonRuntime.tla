------------------------- MODULE MCTelethonRuntime -------------------------
(***************************************************************************)
(* A small instance of TelethonRuntime for TLC.                            *)
(***************************************************************************)
EXTENDS TelethonRuntime

CONSTANTS main, poller

OnePoller == {poller}
=============================================================================
