------------------------------- MODULE MCWriter -------------------------------
(***************************************************************************)
(* The Updater of MCUpdater, and beside it Presence, which fills in its    *)
(* Render and Hidden, and DiscordClient, which carries what it sends.  The *)
(* three share no variable; part chooses which of them moves in a          *)
(* behaviour, so that one run checks them all and its states are their     *)
(* sum.                                                                    *)
(***************************************************************************)
EXTENDS MCUpdater, Presence, DiscordClient

VARIABLE part

partVars == <<vars, presenceVars, ipcVars, part>>

\* Everything a state can carry is there, whatever the phase: Riot clears
\* nothing.
MCInput ==
  [loop : {"MENUS", "PREGAME", "INGAME", "TUTORIAL"},
   party : {"DEFAULT", "MATCHMAKING", "CUSTOM_GAME_SETUP"},
   screen : {"client", "lobby"},
   flow : {"", "CustomGame", "ShootingRange"},
   idle : BOOLEAN,
   queue : {"", "competitive", "deathmatch"},
   scoreType : {"Rounds", "Points"},
   name : {"Haze"}, tag : {"EUW"}, level : {312}, card : {1}, map : {1}, agent : {1},
   tier : {1}, ally : {7}, enemy : {5}, size : {2}, maxSize : {5}, entered : {1}]

\* The defaults, and templates that name everything and leave separators.
MCEverything ==
  <<Token("score"), Mid, Token("kills"), Token("agent"), Mid, Mid, Token("map"), Mid,
    Token("rank"), Token("mode"), Token("score_enemy"), Token("ping")>>
MCLoose ==
  <<Mid, Token("idle"), Mid, Mid, Text("x"), Token("score_ally"), Mid, Mid,
    Token("party"), Mid, Token("rank"), Mid>>
MCTemplates == {[details |-> <<>>, state |-> <<>>], [details |-> MCEverything, state |-> MCLoose]}
MCSettings ==
  [showRank : BOOLEAN, showStats : BOOLEAN, showKills : BOOLEAN,
   matchImage : {"agent", "card"}, showInClient : {TRUE},
   templates : {[ctx \in PresenceContext |-> t] : t \in MCTemplates}]
    \cup [showRank : {TRUE}, showStats : {TRUE}, showKills : {TRUE},
          matchImage : {"agent"}, showInClient : {FALSE},
          templates : {[ctx \in PresenceContext |-> t] : t \in MCTemplates}]
\* What stands still while another part moves.
AnInput == CHOOSE s \in MCInput : s.loop = "INGAME"
Defaults == CHOOSE f \in MCSettings : f.showRank /\ f.templates["in-match"].state = <<>>

MCLoaded == [cards |-> {1, 2}, agents |-> {1}, maps |-> {1}, tiers |-> {1}]
MCCatalogues ==
  {EmptyCatalogue, MCLoaded, [MCLoaded EXCEPT !.cards = {2}, !.agents = {}]}

MCInit ==
  /\ Init /\ PresenceInit /\ ClientInit
  /\ \/ part = "writer" /\ st = AnInput /\ conf = Defaults /\ cat = EmptyCatalogue
     \/ part = "card" /\ cfg = showAll
     \/ part = "preview" /\ cfg = showAll /\ st = AnInput
     \/ part = "client" /\ cfg = showAll /\ st = AnInput /\ conf = Defaults /\ cat = EmptyCatalogue
  /\ part # "client" => here = {} /\ appID = 1

MCNext ==
  /\ \/ part = "writer" /\ Next /\ UNCHANGED <<presenceVars, ipcVars>>
     \/ part = "card" /\ Send /\ UNCHANGED <<vars, ipcVars>>
     \/ part = "preview" /\ GetDisplayPreview /\ UNCHANGED <<vars, ipcVars>>
     \/ part = "client" /\ ClientNext /\ UNCHANGED <<vars, presenceVars>>
  /\ UNCHANGED part

MCSpec ==
  /\ MCInit /\ [][MCNext]_partVars
  /\ WF_vars(part = "writer" /\ heartbeat)
  /\ part = "client" => ClientFairness
================================================================================
