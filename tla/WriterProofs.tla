----------------------------- MODULE WriterProofs -----------------------------
(***************************************************************************)
(* That the card tells nothing the settings or the phase hide, that its    *)
(* lines read well, and that the preview shows the card, for any states,   *)
(* settings, catalogues and templates of any length; and that the client   *)
(* loses no pipe, for any number of them.                                  *)
(***************************************************************************)
EXTENDS Presence, DiscordClient, SequenceTheorems, WellFoundedInduction, TLAPS

\* The input, the settings and the catalogue stand still, and a card that is
\* up is the one they render to.
CardInv ==
  /\ st \in Input /\ conf \in Settings /\ cat \in Catalogues
  /\ card \in {NoCardYet, ClearedCard} \/ card = MapStateToPresence(st, conf, cat)

LEMMA CardHolds == RenderSpec => []CardInv
<1>1. PresenceInit => CardInv
  BY DEF PresenceInit, CardInv
<1>2. CardInv /\ [PresenceNext]_presenceVars => CardInv'
  <2> SUFFICES ASSUME CardInv, [PresenceNext]_presenceVars PROVE CardInv'
    OBVIOUS
  <2>1. st' = st /\ conf' = conf /\ cat' = cat
    BY DEF PresenceNext, Send, GetDisplayPreview, presenceVars
  <2>2. \/ card' = card
        \/ card' = ClearedCard
        \/ card' = MapStateToPresence(st, conf, cat)
    BY DEF PresenceNext, Send, GetDisplayPreview, presenceVars
  <2>3. MapStateToPresence(st, conf, cat)' = MapStateToPresence(st, conf, cat)
    BY <2>1
  <2> QED
    BY <2>1, <2>2, <2>3 DEF CardInv
<1> QED
  BY <1>1, <1>2, PTL DEF RenderSpec

--------------------------------------------------------------------------------
(* What is hidden.                                                         *)

\* A line does not depend on a token that is unknown in its context.
LEMMA LinesOfKnownTokens ==
  ASSUME NEW ctx, NEW pair, NEW tokens, NEW others,
         \A t \in KnownTokens(ctx) : tokens[t] = others[t]
  PROVE  Lines(ctx, pair, tokens) = Lines(ctx, pair, others)
<1>1. \A tmpl : Substituted(ctx, tmpl, tokens) = Substituted(ctx, tmpl, others)
  BY DEF Substituted
<1>2. \A tmpl : RenderLine(ctx, tmpl, tokens) = RenderLine(ctx, tmpl, others)
  BY <1>1 DEF RenderLine
<1> QED
  BY <1>2 DEF Lines

\* The fields Censored leaves alone.
LEMMA CensoredRecord ==
  ASSUME NEW s \in Input, NEW f
  PROVE  LET t == Censored(s, f) IN
         /\ \A k \in {"loop", "party", "screen", "flow", "idle", "queue", "scoreType", "name",
                      "tag", "level", "card", "size", "maxSize", "entered"} : t[k] = s[k]
         /\ PhaseContext(s) = "in-match" => t.agent = s.agent
         /\ PhaseContext(s) \in {"agent-select", "in-match"} /\ ~IsCustomGame(s) /\ ~IsRange(s)
              => t.map = s.map
         /\ f.showRank /\ PhaseContext(s) # "in-client" => t.tier = s.tier
         /\ ShowsScore(s, f) => t.ally = s.ally /\ t.enemy = s.enemy
<1> DEFINE ctx == PhaseContext(s)
           score == /\ f.showStats /\ ctx = "in-match" /\ ~IsRange(s)
                    /\ ~(s.scoreType = "Points" /\ s.queue = "deathmatch" /\ ~f.showKills)
           map == ctx \in {"agent-select", "in-match"} /\ ~IsCustomGame(s) /\ ~IsRange(s)
           ally == IF score THEN s.ally ELSE 0
           enemy == IF score THEN s.enemy ELSE 0
           agent == IF ctx = "in-match" THEN s.agent ELSE 0
           place == IF map THEN s.map ELSE 0
           tier == IF f.showRank /\ ctx # "in-client" THEN s.tier ELSE 0
<1>1. Censored(s, f) = [s EXCEPT !.ally = ally, !.enemy = enemy, !.agent = agent, !.map = place,
                                 !.tier = tier]
  BY DEF Censored
<1>2. ShowsScore(s, f) => score
  BY DEF ShowsScore, OwnKills
<1>3. s \in [loop : STRING, party : STRING, screen : STRING, flow : STRING, idle : BOOLEAN,
        queue : STRING, scoreType : STRING, name : STRING, tag : STRING, level : Int,
        card : Nat, map : Nat, agent : Nat, tier : Int, ally : Int, enemy : Int,
        size : Int, maxSize : Int, entered : Int]
  BY PresenceAssumption DEF PresenceAssumption
<1> HIDE DEF score
<1>4. ShowsScore(s, f) => ally = s.ally /\ enemy = s.enemy
  BY <1>2
<1>5. ctx = "in-match" => agent = s.agent
  OBVIOUS
<1>6. map => place = s.map
  OBVIOUS
<1>7. f.showRank /\ ctx # "in-client" => tier = s.tier
  OBVIOUS
<1> HIDE DEF ally, enemy, agent, place, tier, map
<1> DEFINE t == [s EXCEPT !.ally = ally, !.enemy = enemy, !.agent = agent, !.map = place,
                          !.tier = tier]
<1>8. /\ \A k \in {"loop", "party", "screen", "flow", "idle", "queue", "scoreType", "name",
                      "tag", "level", "card", "size", "maxSize", "entered"} : t[k] = s[k]
      /\ t.ally = ally /\ t.enemy = enemy /\ t.agent = agent /\ t.map = place /\ t.tier = tier
  BY <1>3
<1> HIDE DEF t
<1> QED
  BY <1>1, <1>4, <1>5, <1>6, <1>7, <1>8 DEF t, map

\* Each token, the art and the emblem do not ask for what is censored.
LEMMA CensoredLooksTheSame ==
  ASSUME NEW s \in Input, NEW f, NEW c
  PROVE  MapStateToPresence(Censored(s, f), f, c) = MapStateToPresence(s, f, c)
<1> DEFINE t == Censored(s, f)
           ctx == PhaseContext(s)
<1>1. /\ \A k \in {"loop", "party", "screen", "flow", "idle", "queue", "scoreType", "name",
                   "tag", "level", "card", "size", "maxSize", "entered"} : t[k] = s[k]
      /\ ctx = "in-match" => t.agent = s.agent
      /\ ctx \in {"agent-select", "in-match"} /\ ~IsCustomGame(s) /\ ~IsRange(s) => t.map = s.map
      /\ f.showRank /\ ctx # "in-client" => t.tier = s.tier
      /\ ShowsScore(s, f) => t.ally = s.ally /\ t.enemy = s.enemy
  BY CensoredRecord
<1> HIDE DEF t
<1>2. /\ t.loop = s.loop /\ t.party = s.party /\ t.screen = s.screen /\ t.flow = s.flow
      /\ t.idle = s.idle /\ t.queue = s.queue /\ t.scoreType = s.scoreType
      /\ t.name = s.name /\ t.tag = s.tag /\ t.level = s.level /\ t.card = s.card
      /\ t.size = s.size /\ t.maxSize = s.maxSize /\ t.entered = s.entered
  BY <1>1
<1>3. PhaseContext(t) = ctx
  BY <1>2 DEF PhaseContext
<1>4. IsRange(t) = IsRange(s) /\ IsCustomGame(t) = IsCustomGame(s)
  BY <1>2 DEF IsRange, IsCustomGame
<1>5. OwnKills(t) = OwnKills(s) /\ riotID(t) = riotID(s) /\ isRanked(t) = isRanked(s)
  BY <1>2, <1>3, <1>4 DEF OwnKills, riotID, isRanked, Given
<1>6. ShowsScore(t, f) = ShowsScore(s, f)
  BY <1>3, <1>4, <1>5 DEF ShowsScore
<1>7. ShowsTier(t, f, c) = ShowsTier(s, f, c)
  BY <1>1, <1>3 DEF ShowsTier
<1> HIDE DEF ctx
<1>8. \A k \in KnownTokens(ctx) : Tokens(t, f, c)[k] = Tokens(s, f, c)[k]
  <2> SUFFICES ASSUME NEW k \in KnownTokens(ctx)
               PROVE  Tokens(t, f, c)[k] = Tokens(s, f, c)[k]
    OBVIOUS
  <2>1. CASE k \in {"riot_id", "account_level", "availability", "idle", "party", "party_size",
                    "max_party_size"}
    <3>1. CASE k = "riot_id"
      BY <3>1, <1>5 DEF Tokens
    <3>2. CASE k = "account_level"
      BY <3>2, <1>2 DEF Tokens, Given
    <3>3. CASE k = "availability"
      BY <3>3, <1>2 DEF Tokens
    <3>4. CASE k = "idle"
      BY <3>4, <1>2 DEF Tokens
    <3>5. CASE k = "party"
      BY <3>5, <1>2 DEF Tokens, Given
    <3>6. CASE k = "party_size"
      BY <3>6, <1>2 DEF Tokens, Given
    <3>7. CASE k = "max_party_size"
      BY <3>7, <1>2 DEF Tokens, Given
    <3> QED
      BY <2>1, <3>1, <3>2, <3>3, <3>4, <3>5, <3>6, <3>7
  <2>2. CASE k = "mode"
    BY <2>2, <1>2, <1>4 DEF Tokens, Given, QueueName
  <2>3. CASE k = "rank"
    BY <2>3, <1>1, <1>7 DEF Tokens, Given, ShowsTier, ctx
  <2>4. CASE k = "agent"
    <3>1. ctx = "in-match"
      BY <2>4 DEF KnownTokens, CommonTokens, PartyTokens, ScoreTokens
    <3> QED
      BY <2>4, <3>1, <1>1 DEF Tokens, Given
  <2>5. CASE k = "map"
    <3>1. ctx \in {"agent-select", "in-match"}
      BY <2>5 DEF KnownTokens, CommonTokens, PartyTokens, ScoreTokens
    <3>2. ~IsCustomGame(s) /\ ~IsRange(s) => t.map = s.map
      BY <3>1, <1>1
    <3>3. (IsRange(t) <=> IsRange(s)) /\ (IsCustomGame(t) <=> IsCustomGame(s))
      BY <1>2 DEF IsRange, IsCustomGame
    <3>4. ~IsRange(s) => (ShowsMap(t, c) <=> ShowsMap(s, c))
      BY <3>2, <3>3 DEF ShowsMap
    <3>5. ShowsMap(s, c) => ~IsCustomGame(s)
      BY DEF ShowsMap
    <3>6. Tokens(t, f, c).map = IF IsRange(t) THEN <<"label", "The Range">>
                                ELSE IF ShowsMap(t, c) THEN <<"map", t.map>> ELSE Nothing
      BY DEF Tokens, Given
    <3>7. Tokens(s, f, c).map = IF IsRange(s) THEN <<"label", "The Range">>
                                ELSE IF ShowsMap(s, c) THEN <<"map", s.map>> ELSE Nothing
      BY DEF Tokens, Given
    <3>8. CASE IsRange(s)
      BY <2>5, <3>3, <3>6, <3>7, <3>8
    <3>9. CASE ~IsRange(s) /\ ShowsMap(s, c)
      BY <2>5, <3>2, <3>3, <3>4, <3>5, <3>6, <3>7, <3>9
    <3>10. CASE ~IsRange(s) /\ ~ShowsMap(s, c)
      BY <2>5, <3>3, <3>4, <3>6, <3>7, <3>10
    <3> QED
      BY <3>8, <3>9, <3>10
  <2>6. CASE k \in ScoreTokens
    <3>1. ShowsScore(t, f) <=> ShowsScore(s, f)
      BY <1>2, <1>3 DEF ShowsScore, OwnKills, IsRange, ctx
    <3>2. OwnKills(t) <=> OwnKills(s)
      BY <1>2 DEF OwnKills
    <3>3. ShowsScore(s, f) => t.ally = s.ally /\ t.enemy = s.enemy
      BY <1>1
    <3> HIDE DEF ctx
    <3>4. CASE k = "score"
      BY <3>4, <3>1, <3>2, <3>3 DEF Tokens, Given
    <3>5. CASE k = "score_ally"
      BY <3>5, <3>1, <3>3 DEF Tokens, Given
    <3>6. CASE k = "score_enemy"
      BY <3>6, <3>1, <3>3 DEF Tokens, Given
    <3>7. CASE k = "kills"
      BY <3>7, <3>1, <3>2, <3>3 DEF Tokens, Given
    <3> QED
      BY <2>6, <3>4, <3>5, <3>6, <3>7 DEF ScoreTokens
  <2> QED
    BY <2>1, <2>2, <2>3, <2>4, <2>5, <2>6 DEF KnownTokens, CommonTokens, PartyTokens, ScoreTokens
<1>9. largeArt(t, f, c) = largeArt(s, f, c)
  BY <1>1, <1>2, <1>3, <1>4, <1>5 DEF largeArt, wantsAgentArt, cardImage, ctx
<1>10. smallIcon(t, f, c) = smallIcon(s, f, c)
  BY <1>1, <1>2, <1>5 DEF smallIcon, isRanked, ctx
<1>11. Lines(ctx, f.templates[ctx], Tokens(t, f, c)) = Lines(ctx, f.templates[ctx], Tokens(s, f, c))
  BY <1>8, LinesOfKnownTokens
<1> QED
  BY <1>2, <1>3, <1>9, <1>10, <1>11 DEF MapStateToPresence, t, ctx

\* For every state, setting, template and catalogue: what resolve, largeArt and
\* smallIcon make of a state is what they make of it without the score, the
\* agent, the map and the rank that its phase or the settings hide.
THEOREM HiddenStaysHidden == RenderSpec => []NothingHiddenShows
<1>1. CardInv => NothingHiddenShows
  BY CensoredLooksTheSame DEF CardInv, NothingHiddenShows, Shown
<1> QED
  BY <1>1, CardHolds, PTL
--------------------------------------------------------------------------------
(* The preview.                                                            *)

Less == {p \in Nat \X Nat : p[1] < p[2]}

LEMMA LessIsWellFounded == IsWellFoundedOn(Less, Nat)
  BY NatLessThanWellFounded DEF OpToRel, Less

\* A set of naturals that is not empty has a least element.
LEMMA HasLeast == ASSUME NEW T, T \subseteq Nat, T # {} PROVE \E m \in T : \A k \in T : m <= k
<1>1. PICK m \in T : \A k \in T : <<k, m>> \notin Less
  BY LessIsWellFounded, WFMin
<1>2. ASSUME NEW k \in T PROVE m <= k
  <2>1. m \in Nat /\ k \in Nat
    OBVIOUS
  <2>2. ~(k < m)
    <3>1. <<k, m>> \in Nat \X Nat /\ <<k, m>>[1] = k /\ <<k, m>>[2] = m
      BY <2>1
    <3> QED
      BY <1>1, <3>1 DEF Less
  <2> QED
    BY <2>1, <2>2
<1> QED
  BY <1>2

LEMMA SampleCardIsACard ==
  ASSUME NEW c \in Catalogues
  PROVE  c.cards # {} => sampleCard(c) \in c.cards
<1>1. c.cards \subseteq Nat
  BY PresenceAssumption DEF PresenceAssumption, Catalogue
<1>2. ASSUME c.cards # {} PROVE \E i \in c.cards : \A j \in c.cards : i <= j
  BY <1>1, <1>2, HasLeast
<1> QED
  BY <1>2 DEF sampleCard

\* The sample of a context is a state in that context.
LEMMA SamplePhase ==
  ASSUME NEW ctx \in PresenceContext, NEW c, NEW s, s = SampleState(ctx, c)
  PROVE  /\ PhaseContext(s) = ctx
         /\ ~IsRange(s) /\ (IsCustomGame(s) <=> ctx = "custom-game")
         /\ ~OwnKills(s)
<1>1. /\ s.loop = (CASE ctx = "in-match" -> "INGAME"
                     [] ctx = "agent-select" -> "PREGAME"
                     [] OTHER -> "MENUS")
      /\ s.party = (CASE ctx = "in-queue" -> "MATCHMAKING"
                      [] ctx = "custom-game" -> "CUSTOM_GAME_SETUP"
                      [] OTHER -> "DEFAULT")
      /\ s.screen = (IF ctx = "in-client" THEN "client" ELSE "lobby")
      /\ s.flow = "" /\ s.scoreType = "Rounds"
  BY DEF SampleState
<1>2. PhaseContext(s) = ctx
  BY <1>1 DEF PhaseContext, PresenceContext
<1>3. ~IsRange(s) /\ ~OwnKills(s)
  BY <1>1 DEF IsRange, OwnKills
<1>4. IsCustomGame(s) <=> ctx = "custom-game"
  BY <1>1 DEF IsCustomGame, PresenceContext
<1> QED
  BY <1>2, <1>3, <1>4

LEMMA PreviewedArt ==
  ASSUME NEW ctx \in PresenceContext, NEW f \in Settings, NEW c \in Catalogues,
         NEW s, s = SampleState(ctx, c)
  PROVE  /\ previewLargeImage(ctx, f, c) = largeArt(s, f, c).image
         /\ ctx # "in-lobby" => previewImages(ctx, f, c).small = smallIcon(s, f, c).image
<1>1. PhaseContext(s) = ctx /\ ~IsRange(s) /\ (IsCustomGame(s) <=> ctx = "custom-game")
  BY SamplePhase
<1>0. /\ s.idle = FALSE /\ s.card = sampleCard(c) /\ s.agent = 1 /\ s.tier = 1
      /\ s.queue = (IF ctx = "in-client" THEN "unrated" ELSE "competitive")
  BY DEF SampleState
<1>2. cardImage(s, c) = IF c.cards # {} THEN <<"card", sampleCard(c)>> ELSE Logo
  BY <1>0, SampleCardIsACard DEF cardImage
<1>3. previewLargeImage(ctx, f, c) = largeArt(s, f, c).image
  BY <1>0, <1>1, <1>2 DEF previewLargeImage, largeArt, wantsAgentArt
<1>4. isRanked(s) <=> ctx \in {"in-lobby", "in-queue", "agent-select", "in-match"}
  BY <1>0, <1>1 DEF isRanked, PresenceContext
<1>5. smallIcon(s, f, c).image =
        IF f.showRank /\ 1 \in c.tiers /\ isRanked(s) THEN <<"tier", 1>> ELSE SmallLogo
  BY <1>0 DEF smallIcon
<1>6. ctx # "in-lobby" => previewImages(ctx, f, c).small = smallIcon(s, f, c).image
  BY <1>4, <1>5 DEF previewImages, rankedPreviewContexts
<1> QED
  BY <1>3, <1>6

LEMMA PreviewedTokens ==
  ASSUME NEW ctx \in PresenceContext, NEW f \in Settings, NEW c \in Catalogues,
         1 \in c.maps, 1 \in c.tiers, NEW s, s = SampleState(ctx, c),
         NEW t \in KnownTokens(ctx) \ {"kills", "idle"}
  PROVE  t \in previewTokens(ctx, f, c) <=> Tokens(s, f, c)[t] # Nothing
<1>0. /\ s.idle = FALSE /\ s.name = "Haze" /\ s.tag = "" /\ s.level = 312
      /\ s.map = 1 /\ s.agent = 1 /\ s.tier = 1 /\ s.size = 2 /\ s.maxSize = 5
      /\ s.queue = (IF ctx = "in-client" THEN "unrated" ELSE "competitive")
  BY DEF SampleState
<1>a. s.level > 0 /\ s.size > 0 /\ s.maxSize > 0
  <2>1. s.level = 312 /\ s.size = 2 /\ s.maxSize = 5
    BY DEF SampleState
  <2> QED
    BY ONLY <2>1
<1>1. /\ PhaseContext(s) = ctx /\ ~IsRange(s) /\ (IsCustomGame(s) <=> ctx = "custom-game")
      /\ ~OwnKills(s)
  BY SamplePhase
<1>2. t \in KnownTokens(ctx) /\ t \notin {"kills", "idle"}
  OBVIOUS
<1>3. t \in previewTokens(ctx, f, c) <=>
        /\ t = "rank" => f.showRank
        /\ t \in {"score", "score_ally", "score_enemy"} => f.showStats
        /\ t = "agent" => 1 \in c.agents
  <2> DEFINE off == (IF f.showRank THEN {} ELSE {"rank"})
                      \cup (IF f.showStats THEN {} ELSE ScoreTokens \ {"kills"})
  <2>1. t \in SampleData(ctx) \/ t = "agent"
    BY <1>2 DEF SampleData, KnownTokens, CommonTokens, PartyTokens, ScoreTokens
  <2>2. "agent" \notin SampleData(ctx)
    BY DEF SampleData, CommonTokens, PartyTokens, ScoreTokens
  <2>3. t \in off <=> (t = "rank" /\ ~f.showRank)
                        \/ (t \in {"score", "score_ally", "score_enemy"} /\ ~f.showStats)
    BY <1>2 DEF ScoreTokens
  <2>4. previewTokens(ctx, f, c) =
          (SampleData(ctx) \ off) \cup IF 1 \in c.agents THEN {"agent"} ELSE {}
    BY DEF previewTokens
  <2> HIDE DEF off
  <2> QED
    BY <2>1, <2>2, <2>3, <2>4
<1>4. \A x, y : <<x>> # Nothing /\ <<x, y>> # Nothing
  BY DEF Nothing
<1>5. CASE t \in {"riot_id", "account_level", "availability"}
  <2>1. Tokens(s, f, c).riot_id = <<s.name>>
    BY <1>0 DEF Tokens, riotID, Given
  <2>2. Tokens(s, f, c).account_level = <<s.level>>
    BY <1>a DEF Tokens, Given
  <2>3. Tokens(s, f, c).availability = <<"Online">>
    BY <1>0 DEF Tokens
  <2> QED
    BY <1>3, <1>4, <1>5, <2>1, <2>2, <2>3
<1>6. CASE t = "rank"
  <2>1. ctx # "in-client"
    BY <1>2, <1>6 DEF KnownTokens, CommonTokens, PartyTokens, ScoreTokens
  <2>2. ShowsTier(s, f, c) <=> f.showRank
    BY <1>0, <1>1, <2>1 DEF ShowsTier
  <2>3. Tokens(s, f, c).rank = IF ShowsTier(s, f, c) THEN <<s.tier>> ELSE Nothing
    BY DEF Tokens, Given
  <2> QED
    BY <1>3, <1>4, <1>6, <2>2, <2>3
<1>7. CASE t \in PartyTokens
  <2>1. /\ Tokens(s, f, c).party = <<s.size, s.maxSize>>
        /\ Tokens(s, f, c).party_size = <<s.size>>
        /\ Tokens(s, f, c).max_party_size = <<s.maxSize>>
    BY <1>a DEF Tokens, Given
  <2> QED
    BY <1>3, <1>4, <1>7, <2>1 DEF PartyTokens
<1>8. CASE t = "mode"
  <2>1. s.queue # ""
    BY <1>0
  <2>2. \/ Tokens(s, f, c).mode = <<"label", "Custom game">>
        \/ Tokens(s, f, c).mode = <<"queue", s.queue>>
    BY <1>1, <2>1 DEF Tokens, Given, QueueName
  <2> QED
    BY <1>3, <1>4, <1>8, <2>2
<1>9. CASE t = "map"
  <2>1. ctx # "custom-game"
    BY <1>2, <1>9 DEF KnownTokens, CommonTokens, PartyTokens, ScoreTokens
  <2>2. ShowsMap(s, c)
    BY <1>0, <1>1, <2>1 DEF ShowsMap
  <2>3. Tokens(s, f, c).map = <<"map", s.map>>
    BY <1>1, <2>2 DEF Tokens, Given
  <2> QED
    BY <1>3, <1>4, <1>9, <2>3
<1>10. CASE t = "agent"
  <2>1. Tokens(s, f, c).agent = IF 1 \in c.agents THEN <<s.agent>> ELSE Nothing
    BY <1>0 DEF Tokens, Given
  <2> QED
    BY <1>3, <1>4, <1>10, <2>1
<1>11. CASE t \in {"score", "score_ally", "score_enemy"}
  <2>1. ctx = "in-match"
    BY <1>2, <1>11 DEF KnownTokens, CommonTokens, PartyTokens, ScoreTokens
  <2>2. ShowsScore(s, f) <=> f.showStats
    BY <1>1, <2>1 DEF ShowsScore
  <2>3. /\ Tokens(s, f, c).score = IF ShowsScore(s, f) THEN <<s.ally, s.enemy>> ELSE Nothing
        /\ Tokens(s, f, c).score_ally = IF ShowsScore(s, f) THEN <<s.ally>> ELSE Nothing
        /\ Tokens(s, f, c).score_enemy = IF ShowsScore(s, f) THEN <<s.enemy>> ELSE Nothing
    BY <1>1 DEF Tokens, Given
  <2> QED
    BY <1>3, <1>4, <1>11, <2>2, <2>3
<1> QED
  BY <1>2, <1>5, <1>6, <1>7, <1>8, <1>9, <1>10, <1>11
     DEF KnownTokens, CommonTokens, PartyTokens, ScoreTokens

\* The preview is none, or the one of the settings and the catalogue.
PreviewInv ==
  /\ conf \in Settings /\ cat \in Catalogues
  /\ \/ preview = <<>>
     \/ preview = [ctx \in PresenceContext |->
                     [art |-> previewImages(ctx, conf, cat),
                      tokens |-> previewTokens(ctx, conf, cat) \cap KnownTokens(ctx)]]

LEMMA PreviewHolds == RenderSpec => []PreviewInv
<1>1. PresenceInit => PreviewInv
  BY DEF PresenceInit, PreviewInv
<1>2. PreviewInv /\ [PresenceNext]_presenceVars => PreviewInv'
  <2> SUFFICES ASSUME PreviewInv, [PresenceNext]_presenceVars PROVE PreviewInv'
    OBVIOUS
  <2>1. conf' = conf /\ cat' = cat
    BY DEF PresenceNext, Send, GetDisplayPreview, presenceVars
  <2>2. \/ preview' = preview
        \/ preview' = [ctx \in PresenceContext |->
                         [art |-> previewImages(ctx, conf, cat),
                          tokens |-> previewTokens(ctx, conf, cat) \cap KnownTokens(ctx)]]
    BY DEF PresenceNext, Send, GetDisplayPreview, presenceVars
  <2> QED
    BY <2>1, <2>2 DEF PreviewInv
<1> QED
  BY <1>1, <1>2, PTL DEF RenderSpec

\* For every setting and catalogue: previewImages and GetDisplayPreview's tokens
\* of a context are the art and the tokens of a send of the sample state.
THEOREM PreviewShowsTheCard == RenderSpec => []PreviewIsReal
<1>1. PreviewInv => PreviewIsReal
  <2> SUFFICES ASSUME PreviewInv, NEW ctx \in DOMAIN preview
               PROVE  LET s == SampleState(ctx, cat)
                          tokens == Tokens(s, conf, cat)
                      IN  /\ PhaseContext(s) = ctx
                          /\ preview[ctx].art.large = largeArt(s, conf, cat).image
                          /\ ctx # "in-lobby" => preview[ctx].art.small = smallIcon(s, conf, cat).image
                          /\ {1} \subseteq cat.maps \cap cat.tiers =>
                               preview[ctx].tokens \ {"kills", "idle"} =
                                 {t \in KnownTokens(ctx) : tokens[t] # Nothing} \ {"kills", "idle"}
    BY DEF PreviewIsReal
  <2> DEFINE s == SampleState(ctx, cat)
  <2>1. ctx \in PresenceContext /\ conf \in Settings /\ cat \in Catalogues
    BY DEF PreviewInv
  <2>2. /\ preview[ctx].art = previewImages(ctx, conf, cat)
        /\ preview[ctx].tokens = previewTokens(ctx, conf, cat) \cap KnownTokens(ctx)
    BY DEF PreviewInv
  <2> HIDE DEF s
  <2>3. PhaseContext(s) = ctx
    BY <2>1, SamplePhase DEF s
  <2>4. previewImages(ctx, conf, cat).large = previewLargeImage(ctx, conf, cat)
    BY DEF previewImages
  <2>5. /\ previewLargeImage(ctx, conf, cat) = largeArt(s, conf, cat).image
        /\ ctx # "in-lobby" => previewImages(ctx, conf, cat).small = smallIcon(s, conf, cat).image
    BY <2>1, PreviewedArt DEF s
  <2>6. ASSUME {1} \subseteq cat.maps \cap cat.tiers
        PROVE  \A t \in KnownTokens(ctx) \ {"kills", "idle"} :
                 t \in previewTokens(ctx, conf, cat) <=> Tokens(s, conf, cat)[t] # Nothing
    <3>1. 1 \in cat.maps /\ 1 \in cat.tiers
      BY <2>6
    <3> QED
      BY <2>1, <3>1, PreviewedTokens DEF s
  <2>7. {1} \subseteq cat.maps \cap cat.tiers =>
          preview[ctx].tokens \ {"kills", "idle"} =
            {t \in KnownTokens(ctx) : Tokens(s, conf, cat)[t] # Nothing} \ {"kills", "idle"}
    BY <2>2, <2>6
  <2> QED
    BY <2>2, <2>3, <2>4, <2>5, <2>7 DEF s
<1> QED
  BY <1>1, PreviewHolds, PTL
--------------------------------------------------------------------------------
(* What cleanup leaves.                                                    *)

\* What Kept builds up, element by element.
Builds(u, s, K, m) ==
  u = [n \in 0..m |-> IF n = 0 THEN <<>> ELSE IF n \in K THEN Append(u[n - 1], s[n]) ELSE u[n - 1]]

\* The recursive function of Kept exists: there is no least length for which it
\* does not.
LEMMA KeptIsBuilt ==
  ASSUME NEW s, NEW K, Len(s) \in Nat
  PROVE  \E u : Builds(u, s, K, Len(s)) /\ Kept(s, K) = u[Len(s)]
<1> DEFINE N == Len(s)
           Bad == {m \in 0..N : ~ \E u : Builds(u, s, K, m)}
<1> HIDE DEF N
<1>0. N \in Nat
  BY DEF N
<1>1. \E u : Builds(u, s, K, 0)
  <2> DEFINE u == [n \in 0..0 |-> <<>>]
  <2>1. Builds(u, s, K, 0)
    BY DEF Builds
  <2> QED
    BY <2>1
<1>2. ASSUME NEW m \in 0..N, m # 0, NEW v, Builds(v, s, K, m - 1)
      PROVE  \E u : Builds(u, s, K, m)
  <2> DEFINE u == [n \in 0..m |-> IF n = m THEN IF m \in K THEN Append(v[m - 1], s[m]) ELSE v[m - 1]
                                  ELSE v[n]]
  <2>1. \A n \in 0..(m - 1) : u[n] = v[n]
    BY <1>0, <1>2
  <2>2. \A n \in 0..(m - 1) : v[n] = IF n = 0 THEN <<>> ELSE IF n \in K THEN Append(v[n - 1], s[n])
                                                            ELSE v[n - 1]
    BY <1>2 DEF Builds
  <2>3. u[m] = IF m \in K THEN Append(v[m - 1], s[m]) ELSE v[m - 1]
    BY <1>0, <1>2
  <2>4. u = [n \in 0..m |-> u[n]]
    OBVIOUS
  <2> HIDE DEF u
  <2>5. ASSUME NEW n \in 0..m
        PROVE  u[n] = IF n = 0 THEN <<>> ELSE IF n \in K THEN Append(u[n - 1], s[n]) ELSE u[n - 1]
    <3>1. CASE n = m
      <4>1. n - 1 \in 0..(m - 1)
        BY <1>0, <1>2, <3>1
      <4> QED
        BY <1>2, <2>1, <2>3, <3>1, <4>1
    <3>2. CASE n # m /\ n # 0
      <4>1. n \in 0..(m - 1) /\ n - 1 \in 0..(m - 1)
        BY <1>0, <1>2, <3>2
      <4> QED
        BY <2>1, <2>2, <3>2, <4>1
    <3>3. CASE n = 0
      <4>1. n \in 0..(m - 1)
        BY <1>0, <1>2, <3>3
      <4> QED
        BY <2>1, <2>2, <3>3, <4>1
    <3> QED
      BY <3>1, <3>2, <3>3
  <2>6. Builds(u, s, K, m)
    BY <2>4, <2>5 DEF Builds
  <2> QED
    BY <2>6
<1>3. Bad = {}
  <2> SUFFICES ASSUME Bad # {} PROVE FALSE
    OBVIOUS
  <2>1. Bad \subseteq Nat
    BY <1>0
  <2>2. PICK m \in Bad : \A k \in Bad : m <= k
    BY <2>1, HasLeast
  <2>3. m \in 0..N /\ ~ \E u : Builds(u, s, K, m)
    OBVIOUS
  <2>4. m # 0
    BY <1>1, <2>3
  <2>5. m - 1 \in 0..N /\ ~(m <= m - 1)
    BY <1>0, <2>3, <2>4
  <2>6. m - 1 \notin Bad
    BY <2>2, <2>5
  <2>7. \E u : Builds(u, s, K, m - 1)
    BY <2>5, <2>6
  <2> QED
    BY <1>2, <2>3, <2>4, <2>7
<1>4. \E u : Builds(u, s, K, N)
  <2>1. N \in 0..N
    BY <1>0
  <2> SUFFICES ASSUME ~ \E u : Builds(u, s, K, N) PROVE FALSE
    OBVIOUS
  <2>2. N \in Bad
    BY <2>1
  <2> QED
    BY <1>3, <2>2
<1> DEFINE w == CHOOSE u : Builds(u, s, K, N)
<1>5. Builds(w, s, K, N)
  BY <1>4
<1>6. Kept(s, K) = w[N]
  BY DEF Kept, Builds, N
<1> QED
  BY <1>5, <1>6 DEF N

LEMMA KeptStep ==
  ASSUME NEW s, NEW K, Len(s) \in Nat, NEW u, Builds(u, s, K, Len(s))
  PROVE  /\ u[0] = <<>>
         /\ \A n \in 1..Len(s) : u[n] = IF n \in K THEN Append(u[n - 1], s[n]) ELSE u[n - 1]
<1>1. \A n \in 0..Len(s) : u[n] = IF n = 0 THEN <<>> ELSE IF n \in K THEN Append(u[n - 1], s[n])
                                                         ELSE u[n - 1]
  BY DEF Builds
<1> QED
  BY <1>1

\* So are these shown for every n at once: by the least n they would fail for.
LEMMA BuiltIsSeq ==
  ASSUME NEW S, NEW s \in Seq(S), NEW K, NEW u, Builds(u, s, K, Len(s))
  PROVE  \A n \in 0..Len(s) : u[n] \in Seq(S)
<1> DEFINE N == Len(s)
           Bad == {n \in 0..N : u[n] \notin Seq(S)}
<1>0. N \in Nat /\ \A n \in 1..N : s[n] \in S
  BY LenProperties, ElementOfSeq
<1>1. u[0] = <<>> /\ \A n \in 1..N : u[n] = IF n \in K THEN Append(u[n - 1], s[n]) ELSE u[n - 1]
  BY <1>0, KeptStep
<1> HIDE DEF N
<1> SUFFICES ASSUME Bad # {} PROVE FALSE
  BY DEF N
<1>2. Bad \subseteq Nat
  BY <1>0
<1>3. PICK n \in Bad : \A k \in Bad : n <= k
  BY <1>2, HasLeast
<1>4. n \in 0..N /\ u[n] \notin Seq(S)
  OBVIOUS
<1>5. n # 0
  <2>1. <<>> \in Seq(S)
    BY EmptySeq
  <2> QED
    BY <1>1, <1>4, <2>1
<1>6. n \in 1..N /\ n - 1 \in 0..N /\ ~(n <= n - 1)
  BY <1>0, <1>4, <1>5
<1>7. u[n - 1] \in Seq(S)
  BY <1>3, <1>6
<1>8. Append(u[n - 1], s[n]) \in Seq(S)
  BY <1>0, <1>6, <1>7, AppendProperties
<1> QED
  BY <1>1, <1>4, <1>6, <1>7, <1>8

\* What is kept is of the sequence, and nothing at a position of K is lost.
LEMMA KeptKeeps ==
  ASSUME NEW S, NEW s \in Seq(S), NEW K
  PROVE  /\ Kept(s, K) \in Seq(S)
         /\ \A i \in K \cap (1..Len(s)) : \E j \in 1..Len(Kept(s, K)) : Kept(s, K)[j] = s[i]
<1> DEFINE N == Len(s)
<1>0. N \in Nat /\ \A n \in 1..N : s[n] \in S
  BY LenProperties, ElementOfSeq
<1>1. PICK u : Builds(u, s, K, N) /\ Kept(s, K) = u[N]
  BY <1>0, KeptIsBuilt
<1>2. \A n \in 0..N : u[n] \in Seq(S)
  BY <1>1, BuiltIsSeq
<1>3. \A n \in 1..N : u[n] = IF n \in K THEN Append(u[n - 1], s[n]) ELSE u[n - 1]
  BY <1>0, <1>1, KeptStep
<1> HIDE DEF N
<1>4. ASSUME NEW i \in K \cap (1..N) PROVE \E j \in 1..Len(u[N]) : u[N][j] = s[i]
  <2> DEFINE Has(n) == \E j \in 1..Len(u[n]) : u[n][j] = s[i]
             Bad == {n \in i..N : ~Has(n)}
  <2> SUFFICES ASSUME Bad # {} PROVE FALSE
    BY <1>0
  <2>1. Bad \subseteq Nat
    BY <1>0
  <2>2. PICK n \in Bad : \A k \in Bad : n <= k
    BY <2>1, HasLeast
  <2>3. n \in i..N /\ ~Has(n)
    OBVIOUS
  <2>4. n \in 1..N /\ n - 1 \in 0..N /\ ~(n <= n - 1)
    BY <1>0, <2>3
  <2>5. u[n - 1] \in Seq(S) /\ Len(u[n - 1]) \in Nat
    BY <1>2, <2>4, LenProperties
  <2>6. /\ Len(Append(u[n - 1], s[n])) = Len(u[n - 1]) + 1
        /\ \A j \in 1..Len(u[n - 1]) : Append(u[n - 1], s[n])[j] = u[n - 1][j]
        /\ Append(u[n - 1], s[n])[Len(u[n - 1]) + 1] = s[n]
    BY <1>0, <2>4, <2>5, AppendProperties
  <2>7. n = i \/ Has(n - 1)
    <3> SUFFICES ASSUME n # i PROVE Has(n - 1)
      OBVIOUS
    <3>1. n - 1 \in i..N
      BY <1>0, <2>3
    <3> HIDE DEF Has
    <3> QED
      BY <2>2, <2>4, <3>1
  <2> HIDE DEF Has
  <2>8. Has(n)
    <3>1. CASE n \in K
      <4>1. u[n] = Append(u[n - 1], s[n])
        BY <1>3, <2>4, <3>1
      <4>2. CASE n = i
        <5>1. Len(u[n]) = Len(u[n - 1]) + 1 /\ u[n][Len(u[n - 1]) + 1] = s[i]
          BY <2>6, <4>1, <4>2
        <5>2. Len(u[n - 1]) + 1 \in 1..Len(u[n])
          BY <2>5, <5>1
        <5> QED
          BY <5>1, <5>2 DEF Has
      <4>3. CASE Has(n - 1)
        <5>1. PICK j \in 1..Len(u[n - 1]) : u[n - 1][j] = s[i]
          BY <4>3 DEF Has
        <5>2. j \in 1..Len(u[n]) /\ u[n][j] = s[i]
          BY <2>5, <2>6, <4>1, <5>1
        <5> QED
          BY <5>2 DEF Has
      <4> QED
        BY <2>7, <4>2, <4>3
    <3>2. CASE n \notin K
      <4>1. u[n] = u[n - 1] /\ n # i
        BY <1>3, <2>4, <3>2
      <4> QED
        BY <2>7, <4>1 DEF Has
    <3> QED
      BY <3>1, <3>2
  <2> QED
    BY <2>3, <2>8
<1> QED
  BY <1>0, <1>1, <1>2, <1>4 DEF N

\* A run of separators is folded to one.
LEMMA FoldedHasNoRun ==
  ASSUME NEW S, NEW s \in Seq(S)
  PROVE  /\ Folded(s) \in Seq(S)
         /\ \A j \in 1..Len(Folded(s)) : j + 1 \in 1..Len(Folded(s)) =>
              ~(IsSeparator(Folded(s)[j]) /\ IsSeparator(Folded(s)[j + 1]))
<1> DEFINE N == Len(s)
           K == {i \in DOMAIN s : i > 1 => ~(IsSeparator(s[i]) /\ IsSeparator(s[i - 1]))}
<1>0. N \in Nat /\ DOMAIN s = 1..N /\ \A n \in 1..N : s[n] \in S
  BY LenProperties, ElementOfSeq
<1>a. \A n \in 1..N : n \in K <=> (n > 1 => ~(IsSeparator(s[n]) /\ IsSeparator(s[n - 1])))
  BY <1>0
<1>b. Folded(s) = Kept(s, K)
  BY DEF Folded
<1> HIDE DEF K
<1>1. PICK u : Builds(u, s, K, N) /\ Kept(s, K) = u[N]
  BY <1>0, KeptIsBuilt
<1>2. \A n \in 0..N : u[n] \in Seq(S)
  BY <1>1, BuiltIsSeq
<1>3. \A n \in 1..N : u[n] = IF n \in K THEN Append(u[n - 1], s[n]) ELSE u[n - 1]
  BY <1>0, <1>1, KeptStep
<1>4. u[0] = <<>>
  BY <1>0, <1>1, KeptStep
<1>5. Folded(s) = u[N]
  BY <1>1, <1>b
<1> HIDE DEF N
<1> DEFINE NoRun(r) == \A j \in 1..Len(r) : j + 1 \in 1..Len(r) =>
                         ~(IsSeparator(r[j]) /\ IsSeparator(r[j + 1]))
           Ends(r, n) == n > 0 => r # <<>> /\ (IsSeparator(r[Len(r)]) <=> IsSeparator(s[n]))
           Good(n) == NoRun(u[n]) /\ Ends(u[n], n)
           Bad == {n \in 0..N : ~Good(n)}
<1>6. Good(0)
  <2>1. Len(<<>>) = 0 /\ 1..0 = {}
    BY EmptySeq
  <2> QED
    BY <1>4, <2>1
<1>7. ASSUME NEW n \in 1..N, Good(n - 1) PROVE Good(n)
  <2> DEFINE r == u[n - 1]
  <2>1. n - 1 \in 0..N /\ n \in 0..N
    BY <1>0
  <2>2. r \in Seq(S) /\ Len(r) \in Nat /\ (r # <<>> => Len(r) > 0)
    BY <1>2, <2>1, LenProperties, EmptySeq
  <2>3. NoRun(r) /\ Ends(r, n - 1)
    BY <1>7
  <2>4. u[n] = IF n \in K THEN Append(r, s[n]) ELSE r
    BY <1>3
  <2>5. s[n] \in S
    BY <1>0
  <2> HIDE DEF r
  <2>6. CASE n \notin K
    <3>1. n > 1 /\ IsSeparator(s[n]) /\ IsSeparator(s[n - 1])
      BY <1>a, <2>6
    <3>2. u[n] = r /\ n - 1 > 0
      BY <1>0, <2>4, <2>6, <3>1
    <3>3. Ends(r, n)
      BY <2>3, <3>1, <3>2
    <3> QED
      BY <2>3, <3>2, <3>3
  <2>7. CASE n \in K
    <3> DEFINE a == Append(r, s[n])
               L == Len(r)
    <3>1. /\ Len(a) = L + 1 /\ a[L + 1] = s[n]
          /\ \A j \in 1..L : a[j] = r[j]
      BY <2>2, <2>5, AppendProperties
    <3>2. u[n] = a
      BY <2>4, <2>7
    <3>3. L \in Nat
      BY <2>2
    <3>3a. a # <<>>
      BY <2>2, <2>5, AppendProperties
    <3> HIDE DEF a
    <3>4. Ends(a, n)
      BY <3>1, <3>3a
    <3>5. IsSeparator(s[n]) /\ L > 0 => ~IsSeparator(r[L])
      <4> SUFFICES ASSUME IsSeparator(s[n]), L > 0 PROVE ~IsSeparator(r[L])
        OBVIOUS
      <4>1. n > 1
        <5> SUFFICES ASSUME n = 1 PROVE FALSE
          BY <1>0
        <5>1. r = <<>>
          BY <1>4 DEF r
        <5> QED
          BY <5>1, EmptySeq
      <4>2. ~IsSeparator(s[n - 1])
        BY <1>a, <2>7, <4>1
      <4>3. n - 1 > 0
        BY <1>0, <4>1
      <4> QED
        BY <2>3, <4>2, <4>3
    <3>6. NoRun(a)
      <4> SUFFICES ASSUME NEW j \in 1..(L + 1), j + 1 \in 1..(L + 1),
                          IsSeparator(a[j]), IsSeparator(a[j + 1])
                   PROVE  FALSE
        BY <3>1
      <4>1. j \in 1..L /\ a[j] = r[j]
        BY <3>1, <3>3
      <4>2. CASE j = L
        <5>1. a[j + 1] = s[n]
          BY <3>1, <4>2
        <5>2. L > 0
          BY <3>3, <4>1
        <5> QED
          BY <3>5, <4>1, <4>2, <5>1, <5>2
      <4>3. CASE j # L
        <5>1. j + 1 \in 1..L
          BY <3>3, <4>1, <4>3
        <5>2. a[j + 1] = r[j + 1]
          BY <3>1, <5>1
        <5> QED
          BY <2>3, <4>1, <5>1, <5>2
      <4> QED
        BY <4>2, <4>3
    <3> QED
      BY <3>2, <3>4, <3>6
  <2> QED
    BY <2>6, <2>7
<1>8. Bad = {}
  <2> HIDE DEF Good
  <2> SUFFICES ASSUME Bad # {} PROVE FALSE
    OBVIOUS
  <2>1. Bad \subseteq Nat
    BY <1>0
  <2>2. PICK n \in Bad : \A k \in Bad : n <= k
    BY <2>1, HasLeast
  <2>3. n \in 0..N /\ ~Good(n)
    OBVIOUS
  <2>4. n # 0
    BY <1>6, <2>3
  <2>5. n \in 1..N /\ n - 1 \in 0..N /\ ~(n <= n - 1)
    BY <1>0, <2>3, <2>4
  <2>6. Good(n - 1)
    BY <2>2, <2>5
  <2> QED
    BY <1>7, <2>3, <2>5, <2>6
<1>9. N \in 0..N
  BY <1>0
<1>10. Good(N)
  <2> HIDE DEF Good
  <2> QED
    BY <1>8, <1>9
<1> QED
  BY <1>2, <1>5, <1>9, <1>10

LEMMA HasGreatest ==
  ASSUME NEW n \in Nat, NEW T, T \subseteq 0..n, T # {}
  PROVE  \E m \in T : \A k \in T : k <= m
<1> DEFINE U == {n - k : k \in T}
<1>1. U \subseteq Nat /\ U # {}
  <2>1. \A k \in T : k \in 0..n /\ n - k \in Nat /\ n - k \in U
    OBVIOUS
  <2>2. PICK k \in T : TRUE
    OBVIOUS
  <2> QED
    BY <2>1, <2>2
<1>2. PICK u \in U : \A k \in U : u <= k
  BY <1>1, HasLeast
<1>3. PICK m \in T : u = n - m
  OBVIOUS
<1>4. ASSUME NEW k \in T PROVE k <= m
  <2>1. n - k \in U /\ k \in 0..n /\ m \in 0..n
    OBVIOUS
  <2>2. n - m <= n - k
    BY <1>2, <1>3, <2>1
  <2> HIDE DEF U
  <2> QED
    BY <2>1, <2>2
<1> QED
  BY <1>4

\* What is trimmed begins and ends with a word.
Clean(line) ==
  \A i \in DOMAIN line : IsSeparator(line[i]) => i \notin {1, Len(line)} /\ ~IsSeparator(line[i + 1])

LEMMA TrimmedIsClean ==
  ASSUME NEW S, NEW s \in Seq(S),
         \A j \in 1..Len(s) : j + 1 \in 1..Len(s) => ~(IsSeparator(s[j]) /\ IsSeparator(s[j + 1]))
  PROVE  /\ Clean(Trimmed(s))
         /\ (\E i \in 1..Len(s) : ~IsSeparator(s[i])) => Trimmed(s) # <<>>
<1> DEFINE N == Len(s)
           words == {i \in DOMAIN s : ~IsSeparator(s[i])}
           r == Trimmed(s)
<1>0. N \in Nat /\ DOMAIN s = 1..N
  BY LenProperties
<1>1. CASE words = {}
  <2>1. r = <<>>
    BY <1>1 DEF Trimmed
  <2>2. DOMAIN r = {}
    BY <2>1
  <2>3. Clean(r)
    BY <2>2 DEF Clean
  <2> QED
    BY <1>0, <1>1, <2>3
<1>2. CASE words # {}
  <2> DEFINE a == Min(words)
             b == Max(words)
  <2>0. r = SubSeq(s, a, b)
    BY <1>2 DEF Trimmed
  <2>1. words \subseteq 1..N /\ words \subseteq Nat /\ words \subseteq 0..N
    BY <1>0
  <2>2. \A i \in 1..N : i \notin words => IsSeparator(s[i])
    BY <1>0
  <2>2a. \A i \in words : ~IsSeparator(s[i])
    OBVIOUS
  <2> HIDE DEF words
  <2>3. a \in words /\ \A i \in words : a <= i
    BY <1>2, <2>1, HasLeast DEF Min
  <2>4. b \in words /\ \A i \in words : b >= i
    <3>1. \E m \in words : \A k \in words : m >= k
      BY <1>0, <1>2, <2>1, HasGreatest
    <3> QED
      BY <3>1 DEF Max
  <2> HIDE DEF a, b, N
  <2>5. a \in 1..N /\ b \in 1..N /\ a <= b
    BY <2>1, <2>3, <2>4
  <2>6. /\ r \in Seq(S) /\ Len(r) = b - a + 1
        /\ \A i \in 1..(b - a + 1) : r[i] = s[a + i - 1]
    BY <1>0, <2>0, <2>5, SubSeqProperties DEF N
  <2>7. DOMAIN r = 1..(b - a + 1)
    BY <2>6, LenProperties
  <2> HIDE DEF r
  <2>8. ASSUME NEW i \in DOMAIN r, IsSeparator(r[i])
        PROVE  i \notin {1, Len(r)} /\ ~IsSeparator(r[i + 1])
    <3>1. i \in 1..(b - a + 1) /\ a + i - 1 \in 1..N
      BY <1>0, <2>5, <2>7
    <3>2. IsSeparator(s[a + i - 1])
      BY <2>6, <2>8, <3>1
    <3>3. a + i - 1 # a /\ a + i - 1 # b
      BY <2>2a, <2>3, <2>4, <3>2
    <3>4. i # 1 /\ i # b - a + 1
      BY <1>0, <2>5, <3>1, <3>3
    <3>5. i + 1 \in 1..(b - a + 1) /\ (a + i - 1) + 1 \in 1..N /\ a + (i + 1) - 1 = (a + i - 1) + 1
      BY <1>0, <2>5, <3>1, <3>4
    <3>6. r[i + 1] = s[(a + i - 1) + 1]
      BY <2>6, <3>5
    <3>7. ~IsSeparator(s[(a + i - 1) + 1])
      BY <3>1, <3>2, <3>5 DEF N
    <3> QED
      BY <2>6, <3>4, <3>6, <3>7
  <2>9. r # <<>>
    <3>1. Len(r) > 0
      BY <1>0, <2>5, <2>6
    <3> QED
      BY <3>1, EmptySeq
  <2> QED
    BY <2>8, <2>9 DEF Clean, r
<1> QED
  BY <1>1, <1>2

LEMMA CleanupCleans ==
  ASSUME NEW S, NEW s \in Seq(S)
  PROVE  /\ Clean(cleanup(s))
         /\ (\E i \in 1..Len(s) : s[i] # Hole /\ ~IsSeparator(s[i])) => cleanup(s) # <<>>
<1> DEFINE full == WithoutHoles(s)
           fold == Folded(full)
           keeps == {i \in DOMAIN s : s[i] # Hole}
           folds == {i \in DOMAIN full :
                       i > 1 => ~(IsSeparator(full[i]) /\ IsSeparator(full[i - 1]))}
<1>1. full = Kept(s, keeps)
  BY DEF WithoutHoles
<1>2. fold = Kept(full, folds)
  BY DEF Folded
<1>3. DOMAIN s = 1..Len(s)
  BY LenProperties
<1>4. full \in Seq(S)
  BY <1>1, KeptKeeps
<1>5. DOMAIN full = 1..Len(full)
  BY <1>4, LenProperties
<1>6. fold \in Seq(S)
  BY <1>4, FoldedHasNoRun
<1>7. \A j \in 1..Len(fold) : j + 1 \in 1..Len(fold) =>
        ~(IsSeparator(fold[j]) /\ IsSeparator(fold[j + 1]))
  BY <1>4, FoldedHasNoRun
<1>8. ASSUME NEW i \in 1..Len(s), s[i] # Hole, ~IsSeparator(s[i])
      PROVE  \E j \in 1..Len(fold) : ~IsSeparator(fold[j])
  <2>1. i \in keeps \cap (1..Len(s))
    BY <1>3, <1>8
  <2> HIDE DEF keeps
  <2>2. PICK j \in 1..Len(full) : full[j] = s[i]
    BY <1>1, <2>1, KeptKeeps
  <2>3. j \in folds \cap (1..Len(full))
    BY <1>5, <1>8, <2>2
  <2> HIDE DEF folds, full
  <2>4. PICK k \in 1..Len(fold) : fold[k] = full[j]
    BY <1>2, <1>4, <2>3, KeptKeeps
  <2> QED
    BY <1>8, <2>2, <2>4
<1>9. cleanup(s) = Trimmed(fold)
  BY DEF cleanup
<1> HIDE DEF fold
<1>10. /\ Clean(Trimmed(fold))
       /\ (\E i \in 1..Len(fold) : ~IsSeparator(fold[i])) => Trimmed(fold) # <<>>
  BY <1>6, <1>7, TrimmedIsClean
<1> QED
  BY <1>8, <1>9, <1>10

\* The defaults are sequences, and the default state lines begin with a text.
LEMMA DefaultsAreLines ==
  ASSUME NEW ctx \in PresenceContext
  PROVE  /\ \E S : defaults(ctx).details \in Seq(S)
         /\ \E S : defaults(ctx).state \in Seq(S)
         /\ 1 \in 1..Len(defaults(ctx).state) /\ defaults(ctx).state[1][1] = "text"
<1> DEFINE Line(s, first) == (\E S : s \in Seq(S)) /\ 1 \in 1..Len(s) /\ s[1] = first
<1>1. \A t : Text(t)[1] = "text"
  BY DEF Text
<1>2. ASSUME NEW a PROVE Line(<<a>>, a)
  <2>1. <<a>> \in Seq({a}) /\ 1 \in 1..Len(<<a>>) /\ <<a>>[1] = a
    OBVIOUS
  <2> QED
    BY <2>1
<1>3. ASSUME NEW a, NEW b, NEW c PROVE Line(<<a, b, c>>, a)
  <2>1. <<a, b, c>> \in Seq({a, b, c}) /\ 1 \in 1..Len(<<a, b, c>>) /\ <<a, b, c>>[1] = a
    OBVIOUS
  <2> QED
    BY <2>1
<1>4. ASSUME NEW a, NEW b, NEW c, NEW d, NEW e PROVE Line(<<a, b, c, d, e>>, a)
  <2>1. <<a, b, c, d, e>> \in Seq({a, b, c, d, e}) /\ 1 \in 1..Len(<<a, b, c, d, e>>) /\ <<a, b, c, d, e>>[1] = a
    OBVIOUS
  <2> QED
    BY <2>1
<1> HIDE DEF Line
<1>5. CASE ctx = "in-client"
  <2>1. Line(defaults(ctx).details, Token("availability")) /\ Line(defaults(ctx).state, Text("In client"))
    BY <1>2, <1>5 DEF defaults, MidJoined
  <2> QED
    BY <1>1, <2>1 DEF Line
<1>6. CASE ctx \in {"in-lobby", "custom-game"}
  <2>1. Line(defaults(ctx).details, Token("mode")) /\ Line(defaults(ctx).state, Text("In lobby"))
    BY <1>2, <1>4, <1>6 DEF defaults, MidJoined
  <2> QED
    BY <1>1, <2>1 DEF Line
<1>7. CASE ctx = "in-queue"
  <2>1. Line(defaults(ctx).details, Token("mode")) /\ Line(defaults(ctx).state, Text("In queue"))
    BY <1>2, <1>4, <1>7 DEF defaults, MidJoined
  <2> QED
    BY <1>1, <2>1 DEF Line
<1>8. CASE ctx = "agent-select"
  <2>1. Line(defaults(ctx).details, Token("mode")) /\ Line(defaults(ctx).state, Text("Agent select"))
    BY <1>3, <1>8 DEF defaults, MidJoined
  <2> QED
    BY <1>1, <2>1 DEF Line
<1>9. CASE ctx = "in-match"
  <2>1. Line(defaults(ctx).details, Token("mode")) /\ Line(defaults(ctx).state, Text("In a match"))
    BY <1>2, <1>3, <1>9 DEF defaults, MidJoined
  <2> QED
    BY <1>1, <2>1 DEF Line
<1> QED
  BY <1>5, <1>6, <1>7, <1>8, <1>9 DEF PresenceContext

\* Substituting keeps the length of a template and its texts.
LEMMA SubstitutedIsSeq ==
  ASSUME NEW ctx, NEW P, NEW tmpl \in Seq(P), NEW tokens
  PROVE  /\ \E S : Substituted(ctx, tmpl, tokens) \in Seq(S)
         /\ Len(Substituted(ctx, tmpl, tokens)) = Len(tmpl)
         /\ \A i \in 1..Len(tmpl) : tmpl[i][1] = "text" => Substituted(ctx, tmpl, tokens)[i] = tmpl[i]
<1> DEFINE s == Substituted(ctx, tmpl, tokens)
           n == Len(tmpl)
           R == {s[i] : i \in 1..n}
<1>1. n \in Nat /\ DOMAIN tmpl = 1..n
  BY LenProperties
<1>2. DOMAIN s = 1..n /\ s = [i \in 1..n |-> s[i]]
  BY <1>1 DEF Substituted
<1>3. \A i \in 1..n : tmpl[i][1] = "text" => s[i] = tmpl[i]
  BY <1>1 DEF Substituted
<1> HIDE DEF s, n
<1>4. \A i \in 1..n : s[i] \in R
  OBVIOUS
<1> HIDE DEF R
<1>5. s \in Seq(R) /\ Len(s) = n
  <2>1. s \in [1..n -> R]
    BY <1>2, <1>4
  <2>2. s \in Seq(R)
    BY <1>1, <2>1
  <2> QED
    BY <1>1, <1>2, <2>2, LenProperties
<1> QED
  BY <1>3, <1>5 DEF s, n

\* A line of any template is clean, and one that begins with a text is not
\* empty.
LEMMA RenderedIsClean ==
  ASSUME NEW ctx, NEW P, NEW tmpl \in Seq(P), NEW tokens
  PROVE  /\ Clean(RenderLine(ctx, tmpl, tokens))
         /\ 1 \in 1..Len(tmpl) /\ tmpl[1][1] = "text" => RenderLine(ctx, tmpl, tokens) # <<>>
<1> DEFINE s == Substituted(ctx, tmpl, tokens)
<1>0. PICK R : s \in Seq(R)
  BY SubstitutedIsSeq
<1>1. /\ Len(s) = Len(tmpl)
      /\ \A i \in 1..Len(tmpl) : tmpl[i][1] = "text" => s[i] = tmpl[i]
  BY SubstitutedIsSeq
<1>2. RenderLine(ctx, tmpl, tokens) = cleanup(s)
  BY DEF RenderLine
<1> HIDE DEF s
<1>3. /\ Clean(cleanup(s))
      /\ (\E i \in 1..Len(s) : s[i] # Hole /\ ~IsSeparator(s[i])) => cleanup(s) # <<>>
  BY <1>0, CleanupCleans
<1>4. ASSUME 1 \in 1..Len(tmpl), tmpl[1][1] = "text" PROVE cleanup(s) # <<>>
  <2>1. s[1] = tmpl[1] /\ 1 \in 1..Len(s)
    BY <1>1, <1>4
  <2>2. s[1] # Hole /\ ~IsSeparator(s[1])
    <3>1. s[1][1] = "text" /\ Hole[1] = "hole"
      BY <1>4, <2>1 DEF Hole
    <3>2. "text" # "hole" /\ "text" # "separator"
      OBVIOUS
    <3> QED
      BY <3>1, <3>2 DEF IsSeparator
  <2> QED
    BY <1>3, <2>1, <2>2
<1> QED
  BY <1>2, <1>3, <1>4

LEMMA PhaseIsAContext == ASSUME NEW s PROVE PhaseContext(s) \in PresenceContext
<1>1. CASE s.loop \in {"MENUS", ""}
  BY <1>1 DEF PhaseContext, PresenceContext
<1>2. CASE s.loop \notin {"MENUS", ""}
  BY <1>2 DEF PhaseContext, PresenceContext
<1> QED
  BY <1>1, <1>2

\* For every state, setting and template: what cleanup leaves of a rendered
\* line has no separator at an end or beside another, and a default state line
\* is not empty.
THEOREM CardReadsWell == RenderSpec => []LinesAreClean
<1>1. CardInv => LinesAreClean
  <2> SUFFICES ASSUME CardInv, Shown PROVE
          /\ \A line \in {card.details, card.state} : \A i \in DOMAIN line :
               IsSeparator(line[i]) => i \notin {1, Len(line)} /\ ~IsSeparator(line[i + 1])
          /\ conf.templates[PhaseContext(st)].state = <<>> => card.state # <<>>
    BY DEF LinesAreClean
  <2> DEFINE ctx == PhaseContext(st)
             pair == conf.templates[ctx]
             tokens == Tokens(st, conf, cat)
             details == IF pair.details = <<>> THEN defaults(ctx).details ELSE pair.details
             state == IF pair.state = <<>> THEN defaults(ctx).state ELSE pair.state
  <2>1. card = MapStateToPresence(st, conf, cat)
    BY DEF CardInv, Shown
  <2>2. card.details = Lines(ctx, pair, tokens).details /\ card.state = Lines(ctx, pair, tokens).state
    BY <2>1 DEF MapStateToPresence
  <2>3. ctx \in PresenceContext
    BY PhaseIsAContext
  <2>4. pair \in Override
    BY <2>3, PresenceAssumption DEF CardInv, PresenceAssumption
  <2> HIDE DEF ctx, pair, tokens
  <2>5. card.details = RenderLine(ctx, details, tokens) /\ card.state = RenderLine(ctx, state, tokens)
    BY <2>2 DEF Lines
  <2>6. (\E P : details \in Seq(P)) /\ (\E P : state \in Seq(P))
    BY <2>3, <2>4, DefaultsAreLines DEF Override
  <2>7. pair.state = <<>> => 1 \in 1..Len(state) /\ state[1][1] = "text"
    BY <2>3, DefaultsAreLines
  <2> HIDE DEF details, state
  <2>8. Clean(card.details) /\ Clean(card.state)
    BY <2>5, <2>6, RenderedIsClean
  <2>9. pair.state = <<>> => card.state # <<>>
    BY <2>5, <2>6, <2>7, RenderedIsClean
  <2> QED
    BY <2>8, <2>9 DEF Clean, ctx, pair
<1> QED
  BY <1>1, CardHolds, PTL

--------------------------------------------------------------------------------
(* The connection the card goes over.                                      *)

\* The supervisor has one thing at a time: a pipe it dials, a connection it has
\* installed, or one that it closes; a connection that was let go of is none.
ClientInv ==
  /\ at \in {"idle", "dial", "handshake", "install", "up", "gone", "close"}
  /\ dialed = [pipe |-> dialed.pipe, app |-> dialed.app]
  /\ connected \in BOOLEAN /\ pipe = [p \in Pipe |-> pipe[p]]
  /\ conn # 0 => connected /\ at \in {"up", "gone"}
  /\ dialed.pipe # 0 => at \in {"handshake", "install"}
  /\ leaving # 0 => at = "close"

LEMMA ClientInitHolds == ClientInit => ClientInv
<1> SUFFICES ASSUME ClientInit PROVE ClientInv
  OBVIOUS
<1>1. dialed = [pipe |-> 0, app |-> appID] /\ pipe = [p \in Pipe |-> "closed"]
  BY DEF ClientInit
<1>2. dialed = [pipe |-> dialed.pipe, app |-> dialed.app] /\ dialed.pipe = 0
  BY <1>1
<1>3. pipe = [p \in Pipe |-> pipe[p]]
  BY <1>1
<1> QED
  BY <1>2, <1>3 DEF ClientInit, ClientInv

LEMMA ClientStep == ClientInv /\ [ClientNext]_ipcVars => ClientInv'
<1> SUFFICES ASSUME ClientInv, [ClientNext]_ipcVars PROVE ClientInv'
  OBVIOUS
<1>1. CASE UNCHANGED <<connVars, supVars, pipe>>
  BY <1>1 DEF ClientInv, connVars, supVars
<1>2. CASE \E p \in Needed : ProcessStarts(p) \/ ProcessEnds(p)
  BY <1>2 DEF ClientInv, ProcessStarts, ProcessEnds, connVars, supVars
<1>3. CASE ReadsAppID
  BY <1>3 DEF ClientInv, ReadsAppID, connVars
<1>4. CASE DialsPipe
  BY <1>4 DEF ClientInv, DialsPipe, connVars
<1>5. CASE Handshakes
  BY <1>5 DEF ClientInv, Handshakes, connVars
<1>6. CASE Installs
  BY <1>6 DEF ClientInv, Installs
<1>7. CASE FindsItGone
  BY <1>7 DEF ClientInv, FindsItGone, connVars
<1>8. CASE Disconnects
  BY <1>8 DEF ClientInv, Disconnects
<1>9. CASE ClosesPipe
  BY <1>9 DEF ClientInv, ClosesPipe, connVars
<1>10. CASE SendReturns
  <2>1. UNCHANGED <<pipe, at, dialed, leaving>>
    BY <1>10 DEF SendReturns, supVars
  <2>2. \/ conn' = 0 /\ connected' = FALSE
        \/ conn' = conn /\ connected' = connected
    BY <1>10 DEF SendReturns, FrameArrives, connVars
  <2> QED
    BY <2>1, <2>2 DEF ClientInv
<1>11. CASE \/ ResendsCard \/ SendsCard \/ ClearsCard
            \/ (\E a \in AppID : SetsAppID(a)) \/ UNCHANGED ipcVars
  BY <1>1, <1>11 DEF ResendsCard, SendsCard, ClearsCard, Sends, SetsAppID, ipcVars
<1> QED
  BY <1>2, <1>3, <1>4, <1>5, <1>6, <1>7, <1>8, <1>9, <1>10, <1>11 DEF ClientNext, SupervisesClient

\* No pipe that Discord has open is lost, however pipes break, settings change and
\* sends come back late, but for the one the failure of an earlier pipe takes
\* away, for any number of pipes and application ids (client.go).
THEOREM PipesAreNotLost == ClientSpec => OpenPipesAreClosed
<1> DEFINE Stays(p) ==
      \/ p \in {conn', dialed'.pipe, leaving'}
      \/ pipe'[p] # "open"
      \/ sending \notin {0, p} /\ sending' = 0
<1>1. ClientInv /\ [ClientNext]_ipcVars =>
        \A p \in Pipe : pipe[p] = "open" /\ p \in {conn, dialed.pipe, leaving} => Stays(p)
  <2> SUFFICES ASSUME ClientInv, [ClientNext]_ipcVars, NEW p \in Pipe, pipe[p] = "open",
                      p \in {conn, dialed.pipe, leaving}
               PROVE  Stays(p)
    OBVIOUS
  <2>0. p # 0
    BY ClientAssumption DEF ClientAssumption, Pipe
  <2>1. CASE UNCHANGED <<connVars, supVars>>
    BY <2>1 DEF connVars, supVars
  <2>2. CASE ReadsAppID \/ DialsPipe
    BY <2>0, <2>2 DEF ClientInv, ReadsAppID, DialsPipe, connVars
  <2>3. CASE Handshakes
    BY <2>0, <2>3 DEF ClientInv, Handshakes, connVars
  <2>4. CASE Installs
    BY <2>0, <2>4 DEF ClientInv, Installs
  <2>5. CASE Disconnects
    BY <2>0, <2>5 DEF ClientInv, Disconnects
  <2>6. CASE ClosesPipe
    BY <2>0, <2>6 DEF ClientInv, ClosesPipe, connVars
  <2>7. CASE SendReturns
    <3>1. CASE pipe[sending] = "open" /\ UNCHANGED connVars
      BY <2>7, <3>1 DEF SendReturns, supVars, connVars
    <3>2. CASE pipe[sending] # "open"
      BY <2>7, <3>2 DEF SendReturns, FrameArrives
    <3> QED
      BY <2>7, <3>1, <3>2 DEF SendReturns, FrameArrives
  <2>8. CASE \/ ResendsCard \/ SendsCard \/ ClearsCard \/ FindsItGone
             \/ (\E a \in AppID : SetsAppID(a)) \/ UNCHANGED ipcVars
    BY <2>8 DEF ResendsCard, SendsCard, ClearsCard, Sends, FindsItGone, SetsAppID, ipcVars,
                connVars, supVars
  <2>9. CASE \E q \in Needed : ProcessStarts(q) \/ ProcessEnds(q)
    BY <2>1, <2>9 DEF ProcessStarts, ProcessEnds
  <2> QED
    BY <2>2, <2>3, <2>4, <2>5, <2>6, <2>7, <2>8, <2>9 DEF ClientNext, SupervisesClient
<1> QED
  BY <1>1, ClientInitHolds, ClientStep, PTL DEF ClientSpec, OpenPipesAreClosed
================================================================================
