----------------------------- MODULE AISettings ------------------------------
(***************************************************************************)
(* The AI settings (state/aisettings): the API keys of the providers and   *)
(* of the profiles, in plain text in old files, encrypted under the        *)
(* passphrase of the process since, which may be another, or none, after a *)
(* restart.  Requests come from tabs that may show an older state.         *)
(***************************************************************************)
EXTENDS Naturals, Sequences, TLC

CONSTANTS Tabs, ProfileIds,
          Keys,         \* the API keys users have
          Phrases,      \* the passphrases the server is started with
          OldFiles,     \* documents of earlier versions
          PutRequests,  \* what the tabs send
          MaxRevision   \* bounds the saves

Providers == {"openrouter", "googleBooks"}

ASSUME AISettingsAssumption ==
  /\ "default" \in ProfileIds /\ "" \notin Phrases \cup ProfileIds
  /\ Keys \cap {"", "keep", "clear", "unknown"} = {}
  /\ ProfileIds \cap Providers = {} /\ MaxRevision \in Nat

VARIABLES aiDoc,    \* ai_generation_settings.yaml
          phrase,   \* master passphrase of the process, "" if there is none
          checked,  \* the request of each tab that was checked, not saved yet
          meant     \* the key last meant for each provider and profile, and
                    \* the passphrase it was given under

aiSettings == <<aiDoc, phrase, checked, meant>>

NoKey == [key |-> "", under |-> ""]
PlainKey(k) == [key |-> k, under |-> ""]
NotAsked == [kind |-> "none"]

KeySlots == Providers \cup ProfileIds
Listed(doc) == {doc.profiles[i].id : i \in DOMAIN doc.profiles}
ProfileOf(doc, id) == doc.profiles[CHOOSE i \in DOMAIN doc.profiles :
  doc.profiles[i].id = id /\ \A j \in 1..(i - 1) : doc.profiles[j].id # id]

KeyRecords == [key : Keys \cup {""}, under : Phrases \cup {""}]
ProfileRecords ==
  [id : ProfileIds, model : BOOLEAN, source : {"shared", "custom"}, stored : KeyRecords]
Documents ==
  [revision : Nat, mode : {"llm", "heuristic"}, selected : ProfileIds,
   providers : [Providers -> KeyRecords], profiles : Seq(ProfileRecords)]

\* What normalizeAIGenerationSettingsDocument leaves of a file: there is a
\* profile, and one is selected.  The web UI gives each profile an id of its own.
WellFormed(doc) ==
  /\ doc \in Documents /\ doc.selected \in Listed(doc)
  /\ \A i, j \in DOMAIN doc.profiles : doc.profiles[i].id = doc.profiles[j].id => i = j
  /\ \A v \in Providers : doc.providers[v].key = "" => doc.providers[v] = NoKey
  /\ \A i \in DOMAIN doc.profiles : doc.profiles[i].stored.key = "" => doc.profiles[i].stored = NoKey

ASSUME OldFilesAssumption == \A doc \in OldFiles : WellFormed(doc)

-----------------------------------------------------------------------------
(* Keys                                                                     *)

\* Nothing can be encrypted without a passphrase.
CanEncrypt(op) == op \notin {"keep", "clear"} => phrase # ""
Encrypt(k, p) == [key |-> k, under |-> p]

\* A key that cannot be decrypted is an error, not a missing key.
Decrypt(stored) ==
  IF stored.under \in {"", phrase} THEN stored.key ELSE "error"

\* The first read with a passphrase encrypts what is in plain text, except in
\* the profiles that use the key of the provider.
Sealed(stored, p) == IF stored.under = "" /\ stored # NoKey THEN Encrypt(stored.key, p) ELSE stored
SealedProfile(x, p) == IF x.source = "custom" THEN [x EXCEPT !.stored = Sealed(@, p)] ELSE x
Migrate(doc, p) ==
  IF p = "" THEN doc ELSE
  [doc EXCEPT !.providers = [v \in Providers |-> Sealed(@[v], p)],
              !.profiles = [i \in DOMAIN @ |-> SealedProfile(@[i], p)]]

\* What a read may give, and leave in the file.  When the migrated document
\* cannot be written the read goes on with the old one, of which the profiles
\* have been migrated in place.
Reads == {[seen |-> Migrate(aiDoc, phrase), left |-> Migrate(aiDoc, phrase)],
          [seen |-> [aiDoc EXCEPT !.profiles = Migrate(aiDoc, phrase).profiles], left |-> aiDoc]}

\* A selection that is not in the list gives way to the first profile.
WithSelection(doc) ==
  [doc EXCEPT !.selected = IF @ \in Listed(doc) THEN @ ELSE doc.profiles[1].id]

-----------------------------------------------------------------------------
(* What a generation is given                                               *)

Stored(p) == IF p.source = "custom" THEN p.stored ELSE aiDoc.providers["openrouter"]
KeyOfProfile(p) == Decrypt(Stored(p))

Config(p) ==
  [profile |-> p.id, key |-> IF p.model \/ KeyOfProfile(p) = "error" THEN KeyOfProfile(p) ELSE ""]

\* The profile a request names must exist, without a name it is the selected one.
ResolveOverride(id) ==
  IF id = "" THEN Config(ProfileOf(aiDoc, aiDoc.selected))
  ELSE IF id \in Listed(aiDoc) THEN Config(ProfileOf(aiDoc, id))
  ELSE [profile |-> id, key |-> "unknown"]

ActiveReady == LET p == ProfileOf(aiDoc, aiDoc.selected) IN p.model /\ Stored(p) # NoKey

ResolveActive ==
  IF aiDoc.mode = "llm" /\ ActiveReady THEN ResolveOverride("") ELSE [profile |-> "", key |-> ""]

\* Without a key of its own the server takes the one of its environment.
ResolveGoogleBooksAPIKey ==
  LET key == Decrypt(aiDoc.providers["googleBooks"]) IN IF key = "" THEN "env" ELSE key

\* What the response shows: only whether keys are stored.
EffectiveMode ==
  IF aiDoc.mode = "heuristic" THEN "heuristic" ELSE IF ActiveReady THEN "openrouter" ELSE "disabled"

-----------------------------------------------------------------------------
(* Requests                                                                 *)

\* A profile without an id is named by its place.
ParsedId(given, i) ==
  IF given.id # "" THEN given.id ELSE IF i = 1 THEN "default" ELSE "profile-" \o ToString(i)

\* A key beside the credentials is that of older clients: a key of its own.
ParsedCredentials(given) ==
  [source |-> IF given.source = "" /\ given.beside # "keep" THEN "custom" ELSE given.source,
   op |-> IF given.beside # "keep" THEN given.beside ELSE given.op]

Named(r) == {ParsedId(r.profiles[i], i) : i \in DOMAIN r.profiles}

\* A request says for each key that it is kept, cleared, or which it is.
Ops == {"keep", "clear"} \cup Keys
ProfileInputs ==
  [id : {""} \cup ProfileIds, source : {"", "shared", "custom"}, op : Ops, beside : Ops,
   model : BOOLEAN]
PutInputs ==
  [kind : {"put"}, mode : {"", "llm", "heuristic"}, select : {""} \cup ProfileIds,
   providers : [Providers -> Ops], profiles : Seq(ProfileInputs)]

\* No two profiles of a list have one id.
ASSUME RequestsAssumption ==
  \A r \in PutRequests :
    /\ r \in PutInputs /\ Named(r) \subseteq ProfileIds
    /\ \A i, j \in DOMAIN r.profiles :
         ParsedId(r.profiles[i], i) = ParsedId(r.profiles[j], j) => i = j

\* The selection must be in the list that is sent, or else in the one a read
\* of its own finds; a list must keep what is selected.
SelectionFits(r, doc) ==
  /\ r.select # "" => r.select \in IF r.profiles # <<>> THEN Named(r) ELSE Listed(doc)
  /\ r.select = "" /\ r.profiles # <<>> => doc.selected \in Named(r)

KeyAfter(op, old) ==
  CASE op = "keep" -> old [] op = "clear" -> NoKey [] OTHER -> Encrypt(op, phrase)

SourceAfter(c, id, doc) ==
  IF c.source # "" THEN c.source ELSE IF id \in Listed(doc) THEN ProfileOf(doc, id).source ELSE "shared"

\* Profiles keep their keys by their place in the list.
StoredKey_ByPlace(c, id, i, doc) ==
  IF SourceAfter(c, id, doc) # "custom" THEN NoKey
  ELSE KeyAfter(c.op, IF i \in DOMAIN doc.profiles THEN doc.profiles[i].stored ELSE NoKey)

\* A profile that is not sent a key keeps that of the profile with its id.
StoredKey(c, id, i, doc) ==
  IF SourceAfter(c, id, doc) # "custom" THEN NoKey
  ELSE KeyAfter(c.op, IF id \in Listed(doc) THEN ProfileOf(doc, id).stored ELSE NoKey)

ProfileAfter(given, i, doc) ==
  LET id == ParsedId(given, i)  c == ParsedCredentials(given) IN
  [id |-> id, model |-> given.model, source |-> SourceAfter(c, id, doc),
   stored |-> StoredKey(c, id, i, doc)]

Updated(r, doc) == WithSelection(
  [doc EXCEPT !.revision = @ + 1,
     !.mode = IF r.mode # "" THEN r.mode ELSE @,
     !.providers = [v \in Providers |-> KeyAfter(r.providers[v], @[v])],
     !.profiles = IF r.profiles = <<>> THEN @
                  ELSE [i \in DOMAIN r.profiles |-> ProfileAfter(r.profiles[i], i, doc)],
     !.selected = IF r.select # "" THEN r.select ELSE @])

\* Every key that is sent must be encrypted, those of shared profiles are not.
Encryptable(r, doc) ==
  /\ \A v \in Providers : CanEncrypt(r.providers[v])
  /\ \A i \in DOMAIN r.profiles :
       LET c == ParsedCredentials(r.profiles[i]) IN
       SourceAfter(c, ParsedId(r.profiles[i], i), doc) = "custom" => CanEncrypt(c.op)

-----------------------------------------------------------------------------
(* Actions                                                                  *)

\* The server is started, with a passphrase or without one, and reads the file.
StartServer(p) ==
  /\ p # phrase
  /\ phrase' = p
  /\ aiDoc' \in {aiDoc, Migrate(aiDoc, p)}
  /\ checked' = [t \in Tabs |-> NotAsked]
  /\ UNCHANGED meant

\* Any read: to show the settings, or to resolve a profile.
ReadSettings ==
  /\ \E r \in Reads : aiDoc' = r.left
  /\ UNCHANGED <<phrase, checked, meant>>

\* The handler looks at the selection before it saves anything.
CheckRequest(t, r) ==
  /\ checked[t] = NotAsked /\ aiDoc.revision < MaxRevision
  /\ SelectionFits(r, aiDoc)
  /\ checked' = [checked EXCEPT ![t] = r]
  /\ \E read \in Reads :
       aiDoc' = IF (r.select = "") = (r.profiles = <<>>) THEN aiDoc ELSE read.left
  /\ UNCHANGED <<phrase, meant>>

\* The keys that are meant after a request: a list stands for all profiles.
MeantBy(op, slot) ==
  CASE op = "keep" -> meant[slot] [] op = "clear" -> NoKey [] OTHER -> [key |-> op, under |-> phrase]
Own(r, id) ==
  ParsedCredentials(r.profiles[CHOOSE i \in DOMAIN r.profiles : ParsedId(r.profiles[i], i) = id])
Meant(r, doc) ==
  [slot \in KeySlots |->
     IF slot \in Providers THEN MeantBy(r.providers[slot], slot)
     ELSE IF r.profiles = <<>> THEN meant[slot]
     ELSE IF slot \notin Named(r) \/ SourceAfter(Own(r, slot), slot, doc) # "custom" THEN NoKey
     ELSE MeantBy(Own(r, slot).op, slot)]

\* The save starts from what is in the file now.
PutSettings(t) ==
  /\ checked[t] # NotAsked /\ aiDoc.revision < MaxRevision
  /\ checked' = [checked EXCEPT ![t] = NotAsked]
  /\ \E read \in Reads :
       \/ /\ Encryptable(checked[t], read.seen)
          /\ aiDoc' = Updated(checked[t], read.seen)
          /\ meant' = Meant(checked[t], read.seen)
       \/ aiDoc' = read.left /\ UNCHANGED meant  \* a key, or the file, fails
  /\ UNCHANGED phrase

AISettingsInit ==
  /\ aiDoc \in OldFiles
  /\ phrase = "" /\ checked = [t \in Tabs |-> NotAsked]
  /\ meant = [slot \in KeySlots |->
                IF slot \in Providers THEN aiDoc.providers[slot]
                ELSE IF slot \in Listed(aiDoc) THEN ProfileOf(aiDoc, slot).stored ELSE NoKey]

AISettingsNext ==
  \/ \E p \in Phrases \cup {""} : StartServer(p)
  \/ ReadSettings
  \/ \E t \in Tabs : PutSettings(t) \/ \E r \in PutRequests : CheckRequest(t, r)

AISettingsSpec == AISettingsInit /\ [][AISettingsNext]_aiSettings

-----------------------------------------------------------------------------
(* Properties                                                               *)

SlotOf(p) == IF p.source = "custom" THEN p.id ELSE "openrouter"
Usable(got, slot) ==
  \/ got = meant[slot].key
  \/ got = "error" /\ (meant[slot].under # phrase \/ phrase = "")

\* A generation for a profile is given the key that was last meant for it, or
\* an error if that cannot be decrypted: never the key of another profile,
\* never none, whatever the tabs showed and the passphrases were
\* (docs/state-schema-policy.md:247).  A profile that is gone is an error.
KeyIsTheOneMeant ==
  /\ \A id \in ProfileIds : LET resolved == ResolveOverride(id) IN
       IF id \notin Listed(aiDoc) THEN resolved.key = "unknown"
       ELSE LET p == ProfileOf(aiDoc, id) IN
            /\ resolved.profile = id
            /\ p.model => Usable(resolved.key, SlotOf(p))
  /\ EffectiveMode = "openrouter" => ResolveActive.key \notin {"", "unknown"}
  /\ LET key == ResolveGoogleBooksAPIKey IN
     IF meant["googleBooks"] = NoKey THEN key = "env" ELSE Usable(key, "googleBooks")

=============================================================================
