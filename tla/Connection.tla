-------------------------------- MODULE Connection --------------------------------
(***************************************************************************)
(* What a supervisor promises those who read its Connected() flag: one     *)
(* connection at a time, opened before the flag is raised and closed       *)
(* before it is lowered.  The connection may drop at any time in between.  *)
(* PresenceLoop is built on this much of the two supervisors.              *)
(***************************************************************************)
VARIABLES station,  \* "down", "open" (not flagged yet), "up", "closed" (still flagged)
          link      \* whether the connection is there

vars == <<station, link>>

Init == station = "down" /\ link = FALSE

Opens ==
  /\ station = "down" /\ ~link
  /\ station' = "open" /\ link' = TRUE

Raises ==
  /\ station = "open"
  /\ station' = "up"
  /\ UNCHANGED link

Drops ==
  /\ link
  /\ link' = FALSE
  /\ UNCHANGED station

Closes ==
  /\ station = "up"
  /\ station' = "closed" /\ link' = FALSE

Lowers ==
  /\ station = "closed"
  /\ station' = "down"
  /\ UNCHANGED link

Next == Opens \/ Raises \/ Drops \/ Closes \/ Lowers

Spec == Init /\ [][Next]_vars
===============================================================================
