------------------------------- MODULE MCDesktop -------------------------------
(***************************************************************************)
(* The parts of the desktop program around the presence: the coordinator   *)
(* of updates (AppUpdate), the settings in the daemon (Settings) and       *)
(* between it and the page (SettingsPage), the status on its way to the    *)
(* page (StatusView), the catalogue (Content) and the log (LogTail).  They *)
(* share no variable; part chooses which of them moves in a behaviour, so  *)
(* that one run checks them all and its states are their sum.              *)
(***************************************************************************)
EXTENDS AppUpdate, Settings, SettingsPage, StatusView, Content, LogTail

VARIABLE part

restVars == <<configVars, pageVars, statusVars, contentVars, logVars>>
partVars == <<vars, restVars, part>>

Key(name, spelling) == [names |-> name, spelled |-> spelling]

\* A second entry for an agent and a map without a path; the tiers of two
\* episodes, the second of which may have given a rung up; cards, or none.
MCBody ==
  [agents |-> {<<[key |-> Key("jett", "lower"), dev |-> Key("wushu", "mixed"), shows |-> "Jett"],
                 [key |-> Key("jett", "upper"), dev |-> NoKey, shows |-> "Jett of today"]>>},
   maps |-> {<<[key |-> NoKey, shows |-> "Range"], [key |-> Key("ascent", "mixed"), shows |-> "Ascent"]>>},
   tiers |-> {<< <<[tier |-> 25, division |-> "DIAMOND", shows |-> "Diamond 2"]>>,
                 <<[tier |-> 25, division |-> "IMMORTAL", shows |-> "Immortal 2"],
                   [tier |-> 1, division |-> "INVALID", shows |-> "Unused"]>> >>,
              << <<[tier |-> 25, division |-> "DIAMOND", shows |-> "Diamond 2"]>>,
                 <<[tier |-> 25, division |-> "INVALID", shows |-> "Unused"]>> >>},
   modes |-> {<<>>},
   cards |-> {<<>>, <<[key |-> Key("seoul", "lower"), shows |-> "Seoul"]>>}]
MCAsked ==
  [codename |-> Key("wushu", "lower"), map |-> Key("ascent", "lower"), tier |-> 25,
   card |-> Key("seoul", "upper")]
MCEdits == {{}, {"match_image"}, {"theme", "close_action"}}

\* What another part's property is about stands still.
MCInit ==
  /\ Init /\ ConfigInit /\ PageInit /\ StatusInit /\ ContentInit /\ LogInit
  /\ part \in {"update", "config", "page", "status", "content", "log"}
  /\ part # "update" => release = None
  /\ part # "config" => registry

\* The bounds on clicks and lines bring the page and the log to an end.
Bounded == part \in {"page", "log"} /\ UNCHANGED <<vars, restVars>>

MCNext ==
  /\ \/ part = "update" /\ Next /\ UNCHANGED restVars
     \/ part = "config" /\ ConfigNext
        /\ UNCHANGED <<vars, pageVars, statusVars, contentVars, logVars>>
     \/ part = "page" /\ PageNext
        /\ UNCHANGED <<vars, configVars, statusVars, contentVars, logVars>>
     \/ part = "status" /\ StatusNext
        /\ UNCHANGED <<vars, configVars, pageVars, contentVars, logVars>>
     \/ part = "content" /\ ContentNext
        /\ UNCHANGED <<vars, configVars, pageVars, statusVars, logVars>>
     \/ part = "log" /\ LogNext
        /\ UNCHANGED <<vars, configVars, pageVars, statusVars, contentVars>>
     \/ Bounded
  /\ UNCHANGED part

MCSpec ==
  /\ MCInit /\ [][MCNext]_partVars
  /\ part = "update" => UpdateFairness
  /\ part = "status" => StatusFairness
================================================================================
