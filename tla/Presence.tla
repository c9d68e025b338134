------------------------------- MODULE Presence -------------------------------
(***************************************************************************)
(* internal/discord/presence.go and internal/presence/template: from the   *)
(* game state, the settings and the content catalogue to the card Discord  *)
(* is sent, and internal/app's preview of the same card.  Names, URLs and  *)
(* numbers are kept as what they are looked up or formatted from; a text   *)
(* is the sequence of its parts.                                           *)
(***************************************************************************)
EXTENDS Integers, FiniteSetsExt, Sequences

CONSTANTS
  Input,       \* the states that are rendered
  Settings,    \* the display settings in force
  Catalogues   \* what the content cache may hold

VARIABLES st, conf, cat,  \* what is rendered
          card,           \* the card of the last send
          preview         \* the art the settings screen shows

presenceVars == <<st, conf, cat, card, preview>>

PresenceContext ==
  {"in-client", "in-lobby", "in-queue", "custom-game", "agent-select", "in-match"}

Catalogue == [cards : SUBSET Nat, agents : SUBSET Nat, maps : SUBSET Nat, tiers : SUBSET Nat]
EmptyCatalogue == [cards |-> {}, agents |-> {}, maps |-> {}, tiers |-> {}]

\* A line of a template is made of texts, separators and tokens.
Part == {"text", "separator", "token"} \X STRING
Override == [details : Seq(Part), state : Seq(Part)]

PresenceAssumption ==
  /\ Input \subseteq
       [loop : STRING, party : STRING, screen : STRING, flow : STRING, idle : BOOLEAN,
        queue : STRING, scoreType : STRING, name : STRING, tag : STRING, level : Int,
        card : Nat, map : Nat, agent : Nat, tier : Int, ally : Int, enemy : Int,
        size : Int, maxSize : Int, entered : Int]
  /\ \A f \in Settings :
       /\ {f.showRank, f.showStats, f.showKills, f.showInClient} \subseteq BOOLEAN
       /\ f.templates \in [PresenceContext -> Override]
  /\ Catalogues \subseteq Catalogue

ASSUME PresenceAssumption

NoCardYet == [none |-> "not sent"]
ClearedCard == [none |-> "cleared"]

--------------------------------------------------------------------------------
(* state.State.                                                            *)

\* An unknown loop state degrades to the client, and only the menus ask the
\* party state.  Spelling (the code folds case) is left out.
PhaseContext(s) ==
  CASE s.loop = "PREGAME" -> "agent-select"
    [] s.loop = "INGAME" -> "in-match"
    [] s.loop \notin {"MENUS", "", "PREGAME", "INGAME"} -> "in-client"
    [] s.loop \in {"MENUS", ""} ->
         CASE s.party = "MATCHMAKING" -> "in-queue"
           [] s.party = "CUSTOM_GAME_SETUP" ->
                IF s.screen = "client" THEN "in-client" ELSE "custom-game"
           [] OTHER -> IF s.screen = "lobby" THEN "in-lobby" ELSE "in-client"

IsRange(s) == s.flow = "ShootingRange"
IsCustomGame(s) == s.flow = "CustomGame" \/ s.party = "CUSTOM_GAME_SETUP"

--------------------------------------------------------------------------------
(* Templates.  A part is a text, a separator or a token to be replaced; the *)
(* value of a token is a tuple, and Nothing if there is nothing to say.    *)

Nothing == <<>>
Text(x) == <<"text", x>>
Token(t) == <<"token", t>>
Mid == <<"separator", "middot">>
IsSeparator(p) == p[1] = "separator"
Hole == <<"hole", "">>

CommonTokens == {"riot_id", "account_level", "rank", "availability", "idle"}
PartyTokens == {"party", "party_size", "max_party_size"}
ScoreTokens == {"score", "score_ally", "score_enemy", "kills"}

KnownTokens(ctx) ==
  (CommonTokens \ IF ctx = "in-client" THEN {"rank"} ELSE {})
    \cup PartyTokens \cup {"mode"}
    \cup (IF ctx \in {"agent-select", "in-match"} THEN {"map"} ELSE {})
    \cup (IF ctx = "in-match" THEN {"agent"} \cup ScoreTokens ELSE {})

MidJoined(a, b, c) == <<a, Mid, b, Mid, c>>

defaults(ctx) ==
  CASE ctx = "in-client" ->
         [details |-> <<Token("availability")>>, state |-> <<Text("In client")>>]
    [] ctx \in {"in-lobby", "custom-game"} ->
         [details |-> <<Token("mode")>>,
          state |-> MidJoined(Text("In lobby"), Token("party"), Token("idle"))]
    [] ctx = "in-queue" ->
         [details |-> <<Token("mode")>>,
          state |-> MidJoined(Text("In queue"), Token("party"), Token("idle"))]
    [] ctx = "agent-select" ->
         [details |-> <<Token("mode"), Mid, Token("map")>>,
          state |-> <<Text("Agent select"), Mid, Token("party")>>]
    [] ctx = "in-match" ->
         [details |-> <<Token("mode")>>,
          state |-> <<Text("In a match"), Mid, Token("score")>>]

\* The subsequence of s at the positions of K.
Kept(s, K) ==
  LET upTo[n \in 0..Len(s)] ==
        IF n = 0 THEN <<>>
        ELSE IF n \in K THEN Append(upTo[n - 1], s[n]) ELSE upTo[n - 1]
  IN  upTo[Len(s)]

\* An unknown token stays as it was typed; a known one without a value
\* leaves a hole.
Substituted(ctx, tmpl, tokens) ==
  [i \in DOMAIN tmpl |->
     LET p == tmpl[i] IN
     IF p[1] # "token" \/ p[2] \notin KnownTokens(ctx) THEN p
     ELSE IF tokens[p[2]] = Nothing THEN Hole ELSE <<p[2], tokens[p[2]]>>]

\* The three passes of cleanup: close the holes, fold a run of separators to
\* its first, trim them at both ends.
WithoutHoles(line) == Kept(line, {i \in DOMAIN line : line[i] # Hole})
Folded(line) ==
  Kept(line, {i \in DOMAIN line : i > 1 => ~(IsSeparator(line[i]) /\ IsSeparator(line[i - 1]))})
Trimmed(line) ==
  LET words == {i \in DOMAIN line : ~IsSeparator(line[i])}
  IN  IF words = {} THEN <<>> ELSE SubSeq(line, Min(words), Max(words))

\* As cleanup, trimming before the holes are closed.
cleanupTrimsFirst(line) == Folded(WithoutHoles(Trimmed(line)))

cleanup(line) == Trimmed(Folded(WithoutHoles(line)))

RenderLine(ctx, tmpl, tokens) == cleanup(Substituted(ctx, tmpl, tokens))

\* An empty override is the default.
Lines(ctx, pair, tokens) ==
  LET details == IF pair.details = <<>> THEN defaults(ctx).details ELSE pair.details
      state == IF pair.state = <<>> THEN defaults(ctx).state ELSE pair.state
  IN  [details |-> RenderLine(ctx, details, tokens), state |-> RenderLine(ctx, state, tokens)]

--------------------------------------------------------------------------------
(* The tokens of a state.                                                  *)

Given(condition, value) == IF condition THEN value ELSE Nothing

ShowsMap(s, c) == s.map \in c.maps /\ ~IsCustomGame(s)

\* Riot keeps the preselected queue's tier in the client.
ShowsTier(s, f, c) ==
  f.showRank /\ s.tier \in c.tiers /\ PhaseContext(s) # "in-client"

\* Riot keeps the last match's score in the menus, and the range has none.
\* In a deathmatch the ally score is the player's own.
OwnKills(s) == s.scoreType = "Points" /\ s.queue = "deathmatch"

\* As ShowsScore, forgetting the setting for the kills.
showsScoreAndKills(s, f) ==
  f.showStats /\ PhaseContext(s) = "in-match" /\ ~IsRange(s)

ShowsScore(s, f) ==
  /\ f.showStats
  /\ PhaseContext(s) = "in-match"
  /\ ~IsRange(s)
  /\ OwnKills(s) => f.showKills

\* An empty queue has no name; one the table does not know is title-cased.
QueueName(q) == Given(q # "", <<"queue", q>>)

riotID(s) == IF s.name # "" /\ s.tag # "" THEN <<s.name, s.tag>>
             ELSE Given(s.name # "", <<s.name>>)

Tokens(s, f, c) ==
  LET party == s.size > 0 /\ s.maxSize > 0
      own == OwnKills(s)
  IN  [riot_id |-> riotID(s),
       account_level |-> Given(s.level > 0, <<s.level>>),
       availability |-> IF s.idle THEN <<"Away">> ELSE <<"Online">>,
       idle |-> Given(s.idle, <<"Idle">>),
       rank |-> Given(ShowsTier(s, f, c), <<s.tier>>),
       agent |-> Given(s.agent \in c.agents, <<s.agent>>),
       mode |-> IF IsRange(s) THEN <<"label", "The Range">>
                ELSE IF IsCustomGame(s) THEN <<"label", "Custom game">>
                ELSE QueueName(s.queue),
       map |-> IF IsRange(s) THEN <<"label", "The Range">>
               ELSE Given(ShowsMap(s, c), <<"map", s.map>>),
       party |-> Given(party, <<s.size, s.maxSize>>),
       party_size |-> Given(party, <<s.size>>),
       max_party_size |-> Given(party, <<s.maxSize>>),
       kills |-> Given(ShowsScore(s, f) /\ own, <<s.ally>>),
       score |-> Given(ShowsScore(s, f), IF own THEN <<s.ally>> ELSE <<s.ally, s.enemy>>),
       score_ally |-> Given(ShowsScore(s, f), <<s.ally>>),
       score_enemy |-> Given(ShowsScore(s, f), <<s.enemy>>)]

--------------------------------------------------------------------------------
(* The card.                                                               *)

Logo == <<"logo">>
IdleLogo == <<"idle logo">>
SmallLogo == <<"small logo">>

cardImage(s, c) == IF s.card \in c.cards THEN <<"card", s.card>> ELSE Logo

\* Only in a match is there art beside the player's own card.
wantsAgentArt(s, f, c) ==
  PhaseContext(s) = "in-match" /\ s.agent \in c.agents /\ f.matchImage # "card"

largeArt(s, f, c) ==
  IF wantsAgentArt(s, f, c)
    THEN [image |-> <<"agent", s.agent>>, text |-> <<"agent", s.agent>>]
    ELSE [image |-> cardImage(s, c),
          text |-> IF PhaseContext(s) = "in-match" /\ IsRange(s)
                     THEN <<"label", "The Range">> ELSE <<"riot id", riotID(s)>>]

isRanked(s) ==
  PhaseContext(s) # "in-client" /\ s.queue = "competitive" /\ ~IsCustomGame(s)

smallIcon(s, f, c) ==
  CASE s.idle -> [image |-> IdleLogo, text |-> <<"app">>]
    [] ~s.idle /\ f.showRank /\ s.tier \in c.tiers /\ isRanked(s) ->
         [image |-> <<"tier", s.tier>>, text |-> <<"tier", s.tier>>]
    [] OTHER -> [image |-> SmallLogo, text |-> <<"app">>]

MapStateToPresence(s, f, c) ==
  LET large == largeArt(s, f, c)
      small == smallIcon(s, f, c)
      lines == Lines(PhaseContext(s), f.templates[PhaseContext(s)], Tokens(s, f, c))
  IN  [largeImage |-> large.image, largeText |-> large.text,
       smallImage |-> small.image, smallText |-> small.text,
       details |-> lines.details, state |-> lines.state,
       start |-> s.entered]

ShouldClearPresence(s, f) ==
  ~f.showInClient /\ PhaseContext(s) \in {"in-client", "in-lobby"}

--------------------------------------------------------------------------------
(* internal/app: the preview of a context, from samples.                   *)

\* template.SampleData: the tokens it gives a value in every context, and in
\* some of them.
SampleData(ctx) ==
  (CommonTokens \ IF ctx = "in-client" THEN {"rank"} ELSE {})
    \cup PartyTokens \cup {"mode"}
    \cup (IF ctx \in {"custom-game", "agent-select", "in-match"} THEN {"map"} ELSE {})
    \cup (IF ctx = "in-match" THEN ScoreTokens ELSE {})

\* GetDisplayPreview's tokens: the two toggles take theirs away, and the
\* agent is named if the catalogue has it.  The number 1 is the agent, the
\* card, the map and the tier of the samples.
previewTokens(ctx, f, c) ==
  (SampleData(ctx) \ ((IF f.showRank THEN {} ELSE {"rank"})
                      \cup (IF f.showStats THEN {} ELSE ScoreTokens \ {"kills"})))
    \cup IF 1 \in c.agents THEN {"agent"} ELSE {}

rankedPreviewContexts == {"in-queue", "agent-select", "in-match"}

\* The fixed card, or the first one there is.
sampleCard(c) ==
  IF 1 \in c.cards THEN 1
  ELSE IF c.cards # {} THEN CHOOSE i \in c.cards : \A j \in c.cards : i <= j
  ELSE 0

\* As previewLargeImage, not looking at the setting.
previewAgentAnyway(ctx, f, c) ==
  IF ctx = "in-match" /\ 1 \in c.agents THEN <<"agent", 1>>
  ELSE IF c.cards # {} THEN <<"card", sampleCard(c)>> ELSE Logo

previewLargeImage(ctx, f, c) ==
  IF ctx = "in-match" /\ f.matchImage # "card" /\ 1 \in c.agents THEN <<"agent", 1>>
  ELSE IF c.cards # {} THEN <<"card", sampleCard(c)>> ELSE Logo

previewImages(ctx, f, c) ==
  [large |-> previewLargeImage(ctx, f, c),
   small |-> IF f.showRank /\ ctx \in rankedPreviewContexts /\ 1 \in c.tiers
               THEN <<"tier", 1>> ELSE SmallLogo]

--------------------------------------------------------------------------------
PresenceInit ==
  /\ st \in Input /\ conf \in Settings /\ cat \in Catalogues
  /\ card = NoCardYet
  /\ preview = <<>>

\* Updater.executeUpdate and ImmediateUpdate up to the pipe.
Send ==
  /\ card' = IF ShouldClearPresence(st, conf) THEN ClearedCard
                                              ELSE MapStateToPresence(st, conf, cat)
  /\ UNCHANGED <<st, conf, cat, preview>>

GetDisplayPreview ==
  /\ preview' = [ctx \in PresenceContext |->
                   [art |-> previewImages(ctx, conf, cat),
                    tokens |-> previewTokens(ctx, conf, cat) \cap KnownTokens(ctx)]]
  /\ UNCHANGED <<st, conf, cat, card>>

PresenceNext == Send \/ GetDisplayPreview

RenderSpec == PresenceInit /\ [][PresenceNext]_presenceVars

--------------------------------------------------------------------------------
(* Properties.                                                             *)

Shown == card \notin {NoCardYet, ClearedCard}

\* What a state still carries and a viewer must not learn: the score outside
\* a running match or against the settings, the agent outside a match, the
\* map outside a match or of a custom game, the rank in the client or against
\* the setting.
Censored(s, f) ==
  LET ctx == PhaseContext(s)
      score == /\ f.showStats /\ ctx = "in-match" /\ ~IsRange(s)
               /\ ~(s.scoreType = "Points" /\ s.queue = "deathmatch" /\ ~f.showKills)
      map == ctx \in {"agent-select", "in-match"} /\ ~IsCustomGame(s) /\ ~IsRange(s)
  IN  [s EXCEPT !.ally = IF score THEN @ ELSE 0,
                !.enemy = IF score THEN @ ELSE 0,
                !.agent = IF ctx = "in-match" THEN @ ELSE 0,
                !.map = IF map THEN @ ELSE 0,
                !.tier = IF f.showRank /\ ctx # "in-client" THEN @ ELSE 0]

\* "Only in a match. Riot keeps publishing the last match's score through the
\* menus", "A custom game names itself and hides its map, in every phase and
\* in the art as well as the text", "No rank in client": the card, its art
\* included, does not depend on anything the settings or the context hide,
\* whatever templates the user wrote.
NothingHiddenShows ==
  Shown => card = MapStateToPresence(Censored(st, conf), conf, cat)

\* "cleanup removes empty-token seams, folds runs of separators left behind,
\* and trims ... a dangling separator at either end": in every line a
\* separator stands between two words, so that one that was followed by
\* nothing, or by another one, is gone; and "each default anchors its state line
\* on a literal, so a presence still reads as something".
LinesAreClean ==
  Shown =>
    /\ \A line \in {card.details, card.state} : \A i \in DOMAIN line :
         IsSeparator(line[i]) => i \notin {1, Len(line)} /\ ~IsSeparator(line[i + 1])
    /\ conf.templates[PhaseContext(st)].state = <<>> => card.state # <<>>

\* The state the samples of a context describe, in the words of a state.
SampleState(ctx, c) ==
  [loop |-> CASE ctx = "in-match" -> "INGAME"
              [] ctx = "agent-select" -> "PREGAME"
              [] OTHER -> "MENUS",
   party |-> CASE ctx = "in-queue" -> "MATCHMAKING"
               [] ctx = "custom-game" -> "CUSTOM_GAME_SETUP"
               [] OTHER -> "DEFAULT",
   screen |-> IF ctx = "in-client" THEN "client" ELSE "lobby",
   flow |-> "", idle |-> FALSE, name |-> "Haze", tag |-> "", level |-> 312,
   card |-> sampleCard(c), map |-> 1, agent |-> 1, tier |-> 1,
   queue |-> IF ctx = "in-client" THEN "unrated" ELSE "competitive",
   ally |-> 7, enemy |-> 5, scoreType |-> "Rounds",
   size |-> 2, maxSize |-> 5, entered |-> 0]

\* "previewImages mirrors the choices in internal/discord/presence.go" and
\* "with the display toggles honored": the preview of a context shows the art
\* and names the facts that a send of the state its samples describe would.
\* Left out are the emblem of the lobby, whose samples are in the competitive
\* queue and which rankedPreviewContexts omits, the kills, which no toggle
\* takes away, and being idle, which the samples are beside being online.
PreviewIsReal ==
  \A ctx \in DOMAIN preview :
    LET s == SampleState(ctx, cat)
        tokens == Tokens(s, conf, cat)
    IN  /\ PhaseContext(s) = ctx
        /\ preview[ctx].art.large = largeArt(s, conf, cat).image
        /\ ctx # "in-lobby" => preview[ctx].art.small = smallIcon(s, conf, cat).image
        /\ {1} \subseteq cat.maps \cap cat.tiers =>
             preview[ctx].tokens \ {"kills", "idle"} =
               {t \in KnownTokens(ctx) : tokens[t] # Nothing} \ {"kills", "idle"}
================================================================================
