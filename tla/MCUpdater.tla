------------------------------- MODULE MCUpdater -------------------------------
(***************************************************************************)
(* Values for Updater: three game states, of which one is the menus (it    *)
(* can be hidden), and two display configurations.  Two cards share their  *)
(* Details line, as two scores of one match do.                            *)
(***************************************************************************)
EXTENDS Updater

CONSTANTS menus, match, lateMatch, showAll, hideMenus,
          menusCard, matchCard, lateCard, inMenus, inMatch, empty

MCState == {menus, match, lateMatch}
MCConfig == {showAll, hideMenus}
MCCard == {menusCard, matchCard, lateCard}
MCDetails == {inMenus, inMatch, empty}

MCRender == [s \in MCState |-> [c \in MCConfig |->
               CASE s = menus -> menusCard
                 [] s = match -> matchCard
                 [] s = lateMatch -> lateCard]]
MCHidden == {<<menus, hideMenus>>}
MCDetailsOf == [c \in MCCard |-> IF c = menusCard THEN inMenus ELSE inMatch]
================================================================================
