---------------------------------- MODULE Content ----------------------------------
(***************************************************************************)
(* internal/content: the cache of Riot's names and pictures, its refresh   *)
(* over five requests any of which may fail or bring another day's data,   *)
(* and the catalogue a refresh builds; with the readers it has, the lookup *)
(* of the agent in the game log and the card the Updater fills in.         *)
(*                                                                         *)
(* A key is what it names and how it is spelled; folding keeps the first.  *)
(* Of an entry its keys and one value, what it shows, are kept.            *)
(***************************************************************************)
EXTENDS Naturals, SequencesExt

CONSTANTS
  Body,         \* per endpoint, the lists it may answer with
  Asked         \* what a state asks of the catalogue: the codename of an agent,
                \* a map, a tier and a card

Endpoint == <<"agents", "maps", "tiers", "modes", "cards">>
\* A list is a sequence, and the one of the tiers a sequence of tables.
ASSUME ContentAssumption ==
  /\ DOMAIN Body = ToSet(Endpoint)
  /\ \A e \in DOMAIN Body : \A list \in Body[e] : list \in Seq(ToSet(list))
  /\ \A list \in Body["tiers"] : \A i \in DOMAIN list : list[i] \in Seq(ToSet(list[i]))

Nil == "nil"
NoKey == [names |-> Nil, spelled |-> Nil]     \* an empty string

VARIABLES
  bodies,       \* what the refresh under way has fetched so far
  refreshing,
  cat,          \* Cache.cat
  agentID,      \* the agent the game log told of: a UUID
  snapshot,     \* the catalogue a render works on
  card,         \* what it has looked up so far
  good, drawn   \* the bodies of the last refresh that went through, and those
                \* behind the snapshot

cacheVars == <<bodies, refreshing, cat, good>>
cardVars == <<snapshot, card, drawn>>
contentVars == <<cacheVars, agentID, cardVars>>

EmptyTables == [agents |-> <<>>, agentDevs |-> <<>>, maps |-> <<>>, tiers |-> <<>>,
                modes |-> <<>>, cards |-> <<>>]
NoBodies == [e \in ToSet(Endpoint) |-> <<>>]
Blank == [step |-> "card", agentID |-> NoKey, agent |-> Nil, map |-> Nil, tier |-> Nil, card |-> Nil]

ContentInit ==
  /\ bodies = <<>> /\ refreshing = FALSE
  /\ cat = EmptyTables /\ good = NoBodies
  /\ agentID = NoKey
  /\ snapshot = <<>> /\ card = Blank /\ drawn = NoBodies

--------------------------------------------------------------------------------
(* parseCatalogue.                                                         *)

foldKey(k) == k.names

\* "Riot ships one table per episode and only the last one is current."
currentTiers(tables) == IF tables = <<>> THEN <<>> ELSE Last(tables)

\* A map is filled from the front, of the entries at the positions of K: a later
\* entry of the same key replaces an earlier one.
Filled(K, key, value) ==
  LET upTo[n \in 0..Len(value)] ==
        IF n = 0 THEN <<>>
        ELSE IF n \in K THEN [k \in DOMAIN upTo[n - 1] \cup {key[n]} |->
                                IF k = key[n] THEN value[n] ELSE upTo[n - 1][k]]
        ELSE upTo[n - 1]
  IN  upTo[Len(value)]

parseCatalogue(b) ==
  LET Folds(list) == [i \in DOMAIN list |-> foldKey(list[i].key)]
      agents == b["agents"]
      maps == b["maps"]
      tiers == currentTiers(b["tiers"])
  IN  [agents |-> Filled(DOMAIN agents, Folds(agents), agents),
       agentDevs |-> Filled({i \in DOMAIN agents : agents[i].dev # NoKey},
                            [i \in DOMAIN agents |-> foldKey(agents[i].dev)],
                            [i \in DOMAIN agents |-> agents[i].key]),
       maps |-> Filled({i \in DOMAIN maps : maps[i].key # NoKey}, Folds(maps), maps),
       tiers |-> Filled({i \in DOMAIN tiers : tiers[i].division # "INVALID"},
                        [i \in DOMAIN tiers |-> tiers[i].tier], tiers),
       modes |-> Filled(DOMAIN b["modes"], Folds(b["modes"]), b["modes"]),
       cards |-> Filled(DOMAIN b["cards"], Folds(b["cards"]), b["cards"])]

AgentUUIDByDeveloperName(c, name) ==
  IF foldKey(name) \in DOMAIN c.agentDevs THEN c.agentDevs[foldKey(name)] ELSE NoKey

Shows(table, k) == IF k \in DOMAIN table THEN table[k].shows ELSE Nil
Agent(c, uuid) == Shows(c.agents, foldKey(uuid))
Map(c, url) == Shows(c.maps, foldKey(url))
Tier(c, number) == Shows(c.tiers, number)
PlayerCard(c, uuid) == Shows(c.cards, foldKey(uuid))

--------------------------------------------------------------------------------
(* Refresh.                                                                *)

Failed == \E i \in DOMAIN bodies : bodies[i].kind = "none"

\* At the start and on Run's ticker.
Refresh ==
  /\ ~refreshing
  /\ refreshing' = TRUE
  /\ UNCHANGED <<bodies, cat, good, agentID, cardVars>>

\* An answer is a list, one that does not parse, or none that counts: an error,
\* another status than 200, a body over the cap.
get ==
  /\ refreshing /\ Len(bodies) < Len(Endpoint) /\ ~Failed
  /\ \E b \in [kind : {"list"}, list : Body[Endpoint[Len(bodies) + 1]]]
             \cup [kind : {"garbled", "none"}, list : {<<>>}] : bodies' = Append(bodies, b)
  /\ UNCHANGED <<refreshing, cat, good, agentID, cardVars>>

AllCame == Len(bodies) = Len(Endpoint) /\ ~Failed
Gathered == [e \in ToSet(Endpoint) |-> bodies[CHOOSE i \in DOMAIN Endpoint : Endpoint[i] = e].list]
AllParse == \A i \in DOMAIN bodies : bodies[i].kind = "list"

\* As Replaces, leaving empty the table that does not parse.
ReplacesWhatParses ==
  /\ AllCame
  /\ cat' = parseCatalogue(Gathered)
  /\ good' = IF AllParse THEN Gathered ELSE good
  /\ bodies' = <<>> /\ refreshing' = FALSE
  /\ UNCHANGED <<agentID, cardVars>>

Replaces ==
  /\ AllCame /\ AllParse
  /\ cat' = parseCatalogue(Gathered) /\ good' = Gathered
  /\ bodies' = <<>> /\ refreshing' = FALSE
  /\ UNCHANGED <<agentID, cardVars>>

\* What was there stays.
logFailure ==
  /\ Failed \/ (AllCame /\ ~AllParse)
  /\ bodies' = <<>> /\ refreshing' = FALSE
  /\ UNCHANGED <<cat, good, agentID, cardVars>>

--------------------------------------------------------------------------------
(* The readers.                                                            *)

\* GameLogAgents.Lookup; a codename that nothing matches changes nothing.
Lookup ==
  /\ AgentUUIDByDeveloperName(cat, Asked.codename) # NoKey
  /\ agentID' = AgentUUIDByDeveloperName(cat, Asked.codename)
  /\ UNCHANGED <<cacheVars, cardVars>>

\* executeUpdate takes one snapshot for a card, and the state as it is.
Snapshot ==
  /\ snapshot = <<>>
  /\ snapshot' = <<cat>> /\ drawn' = good
  /\ card' = [Blank EXCEPT !.agentID = agentID]
  /\ UNCHANGED <<cacheVars, agentID>>

\* resolve looks everything up once, one after the other.
Draws ==
  /\ snapshot # <<>>
  /\ LET c == snapshot[1]
     IN  \/ card.step = "card" /\ card' =
              [card EXCEPT !.step = "map", !.card = PlayerCard(c, Asked.card),
                           !.agent = Agent(c, card.agentID)]
         \/ card.step = "map" /\ card' = [card EXCEPT !.step = "tier", !.map = Map(c, Asked.map)]
         \/ card.step = "tier" /\ card' = [card EXCEPT !.step = "sent", !.tier = Tier(c, Asked.tier)]
  /\ UNCHANGED <<cacheVars, agentID, snapshot, drawn>>

SendsCard ==
  /\ card.step = "sent"
  /\ card' = Blank /\ snapshot' = <<>> /\ drawn' = NoBodies
  /\ UNCHANGED <<cacheVars, agentID>>

ContentNext == Refresh \/ get \/ Replaces \/ logFailure \/ Lookup \/ Snapshot \/ Draws \/ SendsCard

ContentSpec == ContentInit /\ [][ContentNext]_contentVars

--------------------------------------------------------------------------------
(* Properties.                                                             *)

\* What the last of the entries at the positions of M shows.
LastOf(list, M) == IF M = {} THEN Nil ELSE list[Max(M)].shows

\* "All of them have to succeed: a partial swap would silently empty one table"
\* and "a half-loaded catalogue is never published": everything a card shows is
\* what the five answers of one refresh say, the last one that went through when
\* the card was begun, by the last entry that names it, however refreshes fail
\* and overlap with it.
CardIsOfOneRefresh ==
  card.step = "sent" =>
    LET maps == drawn["maps"]
        cards == drawn["cards"]
        agents == drawn["agents"]
        tables == drawn["tiers"]
        tiers == IF tables = <<>> THEN <<>> ELSE tables[Len(tables)]
    IN  /\ card.map = LastOf(maps, {i \in DOMAIN maps : /\ maps[i].key # NoKey
                                                        /\ maps[i].key.names = Asked.map.names})
        /\ card.card = LastOf(cards, {i \in DOMAIN cards : cards[i].key.names = Asked.card.names})
        /\ card.agent = LastOf(agents, {i \in DOMAIN agents : agents[i].key.names = card.agentID.names})
        /\ card.tier = LastOf(tiers, {i \in DOMAIN tiers : /\ tiers[i].tier = Asked.tier
                                                           /\ tiers[i].division # "INVALID"})
================================================================================
