--------------------------------- MODULE Decode ---------------------------------
(***************************************************************************)
(* internal/riotchat/decode.go and internal/daemon/presence.go: how the    *)
(* player's own presence is read out of a payload of the chat API, and how *)
(* it is put into the state.  A payload is a list of entries; an entry     *)
(* carries a private blob, and the blob fields, flat or in containers.     *)
(* Every value is a number, 0 the zero value of its field.                 *)
(***************************************************************************)
EXTENDS Naturals, SequencesExt

CONSTANTS
  Entries,      \* the entries Riot may send
  MaxEntries    \* bound: entries of one payload

\* An entry says whose it is and of which product, who the player is, and how
\* its private blob is encoded; typed says that each of these is a JSON string.
Entry ==
  [puuid : STRING, product : STRING, name : Nat, private : STRING, typed : BOOLEAN,
   blob : {e.blob : e \in Entries}]

ASSUME DecodeAssumption == MaxEntries \in Nat /\ Entries \subseteq Entry

VARIABLES
  heard,        \* the payload that arrived last
  said,         \* what Decode made of it
  decoded,      \* the presence decoded last, zero before the first
  shown         \* what state.State holds of it

decodeVars == <<heard, said, decoded, shown>>

\* One field of each kind, of those that are read.
KindOf ==
  [playerCardId |-> "str", sessionLoopState |-> "str", scoreAlly |-> "num",
   isIdle |-> "flag", queueEntryTime |-> "timestamp"]
Field == DOMAIN KindOf
\* What each kind accepts, of the JSON types a value may have.  A number may
\* be quoted or a fraction, of which the whole part counts; a date is text.
Accepts ==
  [str |-> {"text", "digits", "date"}, num |-> {"number", "fraction", "digits"},
   flag |-> {"bool"}, timestamp |-> {"date"}]

Container == {"matchPresenceData", "partyPresenceData", "playerPresenceData"}
Nothing == <<>>

--------------------------------------------------------------------------------
(* riotchat.Decode.                                                        *)

\* A container that is not there or is no object.
nested(blob, c) ==
  IF c \in DOMAIN blob.nested /\ blob.nested[c].type = "object"
    THEN blob.nested[c].fields
    ELSE Nothing

\* As nestedContainers, the player's fields left out.
nestedInTwo(blob) ==
  <<nested(blob, "matchPresenceData"), nested(blob, "partyPresenceData"), blob.top>>

\* Highest precedence first.
nestedContainers(blob) ==
  <<nested(blob, "matchPresenceData"), nested(blob, "partyPresenceData"),
    nested(blob, "playerPresenceData"), blob.top>>

\* The first scope that carries the field decides, retyped or not.
read(scopes, field) ==
  LET carrying == {i \in DOMAIN scopes : field \in DOMAIN scopes[i]}
      first == scopes[Min(carrying)]
  IN  IF carrying # {} /\ first[field].type \in Accepts[KindOf[field]]
        THEN first[field].value
        ELSE 0

decodePrivate(entry) ==
  [name |-> entry.name, fields |-> [f \in Field |-> read(nestedContainers(entry.blob), f)]]

\* Riot's base64 is padded, the decoder takes it bare as well.  What is garbled
\* is no base64 or holds no JSON object.
Ours(entry) == entry.puuid = "me" /\ entry.product = "valorant"
Readable(entry) == entry.private \in {"padded", "bare"}

Outcome(kind) == [kind |-> kind]
Says(entry) == [kind |-> "presence", presence |-> decodePrivate(entry)]

\* Where the entries with a blob of ours stand.
Mine(entries) == {i \in DOMAIN entries : Ours(entries[i]) /\ entries[i].private # ""}

\* As DecodeEntries, giving up at the first entry that is malformed.
DecodeFirst(entries) ==
  LET mine == Mine(entries)
  IN  CASE mine = {} -> Outcome("ErrNoPresence")
        [] mine # {} /\ Readable(entries[Min(mine)]) -> Says(entries[Min(mine)])
        [] OTHER -> Outcome("malformed")

DecodeEntries(entries) ==
  LET good == {i \in Mine(entries) : Readable(entries[i])}
  IN  CASE good # {} -> Says(entries[Min(good)])
        [] good = {} /\ Mine(entries) # {} -> Outcome("malformed")
        [] OTHER -> Outcome("ErrNoPresence")

\* The list is unmarshaled as a whole: one entry with a field of another type
\* fails it, whoever's it is.
Mistyped(payload) == \E i \in DOMAIN payload.entries : ~payload.entries[i].typed

\* The payload itself may be empty or no JSON.
DecodePayload(payload) ==
  CASE payload.text = "" -> Outcome("ErrNoPresence")
    [] payload.text = "garbled" \/ Mistyped(payload) -> Outcome("malformed")
    [] OTHER -> DecodeEntries(payload.entries)

--------------------------------------------------------------------------------
(* daemon.applyPresence.                                                   *)

NoPresence == [name |-> 0, fields |-> [f \in Field |-> 0]]

availabilityFor(idle) == IF idle = 1 THEN "away" ELSE "online"

\* As applyPresence, taking a presence for a patch.
applyPatch(p, st) ==
  [name |-> IF p.name # 0 THEN p.name ELSE st.name,
   fields |-> [f \in Field |-> IF p.fields[f] # 0 THEN p.fields[f] ELSE st.fields[f]],
   availability |-> availabilityFor(p.fields["isIdle"])]

\* Only who the player is outlives a presence that does not say it.
applyPresence(p, st) ==
  [name |-> IF p.name # 0 THEN p.name ELSE st.name,
   fields |-> [p.fields EXCEPT !["playerCardId"] = IF @ # 0 THEN @ ELSE st.fields["playerCardId"]],
   availability |-> availabilityFor(p.fields["isIdle"])]

--------------------------------------------------------------------------------

Payload ==
  [text : {"", "garbled"}, entries : {<<>>}]
    \cup [text : {"list"}, entries : UNION {[1..n -> Entries] : n \in 0..MaxEntries}]

DecodeInit ==
  /\ heard = [text |-> "", entries |-> <<>>]
  /\ said = Outcome("ErrNoPresence")
  /\ decoded = NoPresence
  /\ shown = [name |-> 0, fields |-> [f \in Field |-> 0], availability |-> "online"]

\* What does not decode to a presence leaves the state alone.
Deliver(payload) ==
  /\ heard' = payload
  /\ said' = DecodePayload(payload)
  /\ IF said'.kind = "presence"
       THEN decoded' = said'.presence /\ shown' = applyPresence(decoded', shown)
       ELSE UNCHANGED <<decoded, shown>>

Delivers == \E payload \in Payload : Deliver(payload)

DecodeSpec == DecodeInit /\ [][Delivers]_decodeVars

--------------------------------------------------------------------------------
(* Properties.                                                             *)

\* What Decode would make of the payload without one of its entries.
Without(i) == DecodePayload([heard EXCEPT !.entries = RemoveAt(@, i)])
Bad(entry) == ~(Ours(entry) /\ Readable(entry))

\* "A malformed entry must not hide a good duplicate": a well typed entry that
\* does not decode to our presence, a friend's, an empty or a broken one,
\* changes nothing of the presence that is read, wherever in the payload it
\* stands and whatever else the payload holds.  (An entry with fields of another
\* type does hide the good one, whatever the comment says: it fails the list
\* before the entries are looked at.)
BadEntriesHideNothing ==
  \A i \in DOMAIN heard.entries :
    heard.entries[i].typed /\ Bad(heard.entries[i]) /\ Without(i).kind = "presence" =>
      said = Without(i)

\* "a presence is a full snapshot of what Riot publishes, not a patch": after
\* any run of presences and payloads without one, the state shows the last
\* presence and nothing of the ones before it, but for the name and the card,
\* which stay until a presence brings others.
StateIsLastPresence ==
  /\ \A f \in Field \ {"playerCardId"} : shown.fields[f] = decoded.fields[f]
  /\ decoded.name \in {0, shown.name}
  /\ decoded.fields["playerCardId"] \in {0, shown.fields["playerCardId"]}
  /\ shown.availability = "away" <=> decoded.fields["isIdle"] = 1

\* "Riot is migrating this payload between a flat shape and one nesting the
\* match, party and player fields": whichever container a flat presence is
\* moved into, it reads the same.
Moved(entry, c) ==
  [entry EXCEPT !.blob = [top |-> Nothing,
     nested |-> [k \in {c} |-> [type |-> "object", fields |-> entry.blob.top]]]]
ShapeIsTheSame ==
  \A i \in DOMAIN heard.entries :
    LET entry == heard.entries[i] IN
    \A c \in Container :
      entry.blob.nested = Nothing /\ said.kind = "presence" =>
        DecodeEntries([heard.entries EXCEPT ![i] = Moved(entry, c)]) = said
================================================================================
