------------------------------- MODULE MCRiotLink -------------------------------
(***************************************************************************)
(* The whole way from the Riot Client into the state: RiotLink, and beside *)
(* it what RiotLink takes for granted, that the client is found            *)
(* (Discovery) and that its payloads are understood (Decode).  The three   *)
(* share no variable; part chooses which of them moves in a behaviour, so  *)
(* that one run checks them all and its states are their sum.              *)
(***************************************************************************)
EXTENDS RiotLink, Discovery, Decode

VARIABLE part

partVars == <<vars, foundVars, decodeVars, part>>

MCText == [type |-> "text", value |-> 2]
MCScore == [type |-> "number", value |-> 1]
MCScopes ==
  {[scoreAlly |-> MCScore],
   [scoreAlly |-> [type |-> "fraction", value |-> 2], isIdle |-> [type |-> "text", value |-> 1]],
   [scoreAlly |-> [type |-> "null", value |-> 0], sessionLoopState |-> MCText,
    isIdle |-> [type |-> "bool", value |-> 1],
    playerCardId |-> MCText, queueEntryTime |-> [type |-> "date", value |-> 1]]}

\* Flat, in a container, in both, or in a container that cannot be read.
MCFlat == {[top |-> t, nested |-> Nothing] : t \in MCScopes}
MCObject == [type |-> "object", fields |-> [scoreAlly |-> MCScore]]
MCBlobs ==
  {[top |-> [scoreAlly |-> [type |-> "digits", value |-> 2], isIdle |-> [type |-> "bool", value |-> 1]],
    nested |-> n] :
     n \in {[c \in {"playerPresenceData"} |-> MCObject],
            [c \in {"matchPresenceData"} |-> [MCObject EXCEPT !.type = "text"]],
            [c \in {"matchPresenceData", "partyPresenceData"} |->
               [MCObject EXCEPT !.fields["scoreAlly"].type =
                  IF c = "matchPresenceData" THEN "null" ELSE "number"]]}}
MCNoBlob == [top |-> Nothing, nested |-> Nothing]

MCTyped ==
  [puuid : {"me"}, product : {"valorant"}, name : {0}, private : {"padded"},
   typed : {TRUE}, blob : MCBlobs]
    \cup [puuid : {"me"}, product : {"valorant"}, name : {1, 2}, private : {"bare"},
          typed : {TRUE}, blob : MCFlat]
    \cup [puuid : {"me"}, product : {"valorant"}, name : {1}, private : {"", "garbled"},
          typed : {TRUE}, blob : {MCNoBlob}]
    \cup [puuid : {"friend"}, product : {"valorant"}, name : {2}, private : {"padded"},
          typed : {TRUE}, blob : MCFlat]
    \cup [puuid : {"me"}, product : {"riot"}, name : {1}, private : {"padded"},
          typed : {TRUE}, blob : {MCNoBlob}]

\* A friend whose name, or our own entry whose blob, is no JSON string.
MCEntries ==
  MCTyped \cup [puuid : {"friend", "me"}, product : {"valorant"}, name : {0}, private : {"garbled"},
                typed : {FALSE}, blob : {MCNoBlob}]

MCInit ==
  /\ Init /\ FindInit /\ DecodeInit
  /\ \/ part \in {"link", "decode"} /\ ~elsewhere
     \/ part = "find"

MCNext ==
  /\ \/ part = "link" /\ Next /\ UNCHANGED <<foundVars, decodeVars>>
     \/ part = "find" /\ FindNext /\ UNCHANGED <<vars, decodeVars>>
     \/ part = "decode" /\ Delivers /\ UNCHANGED <<vars, foundVars>>
  /\ UNCHANGED part

\* RiotLink as in its specification Undisturbed, and discovery with its
\* fairness.
MCSpec ==
  /\ MCInit /\ [][MCNext /\ (phase \in {"hear", "apply"} => sawEvent' = sawEvent)]_partVars
  /\ part = "find" => FindFairness
================================================================================
