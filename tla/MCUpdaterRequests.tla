--------------------------- MODULE MCUpdaterRequests ---------------------------
(***************************************************************************)
(* UpdaterRequests over the states, configurations and cards of MCUpdater. *)
(***************************************************************************)
EXTENDS MCUpdater, UpdaterRequests
================================================================================
