----------------------------- MODULE MCPresenceLoop -----------------------------
(***************************************************************************)
(* Values for PresenceLoop: there is one card for the menus and one for a  *)
(* match, and one configuration hides the menus.  A run chooses how many   *)
(* configurations, screens, agents and entries it takes.                   *)
(***************************************************************************)
EXTENDS PresenceLoop

CONSTANTS showAll, hideMenus, jett, sova

MCState == GameState
MCCard == {"menus", "match"}
MCDetails == MCCard \cup {""}
MCRender == [s \in MCState |-> [c \in Config |-> s.loop]]
MCHidden == {p \in MCState \X Config : ~InMatch(p[1]) /\ p[2] = hideMenus}
MCDetailsOf == [c \in MCCard |-> c]

\* Matches alternate between two agents, as far as the run has both.
MCAgentOf ==
  [n \in 0..MaxEntry |->
     IF n = 1 /\ jett \in Agent THEN jett
     ELSE IF n > 1 /\ sova \in Agent THEN sova ELSE NoAgent]

\* The behaviours in which Discord stays closed, enough to follow the agent
\* through several matches.
MCWithoutDiscord == LoopInit /\ [][LoopNext /\ link' = "down"]_allVars
================================================================================
