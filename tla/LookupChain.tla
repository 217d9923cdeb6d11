---------------------------- MODULE LookupChain -----------------------------
(***************************************************************************)
(* The credential sources of a lookup chain                                *)
(* (authenticate/internal/lookupchain): environment, system keyring,       *)
(* static value and Google application default credentials.                *)
(*                                                                         *)
(* A chain is a sequence of entries.  Field source is what the JSON entry  *)
(* says in "source"; field type is the struct the other fields fit, so an  *)
(* entry with a misspelt or foreign field has a type other than its        *)
(* source.  A world is what the sources read:                              *)
(*   env      environment variable -> value, of the variables that are set *)
(*   keyring  service -> secret, of the secrets that are stored            *)
(*   locked   the keyring cannot be read                                   *)
(*   google   the Google services that answer                              *)
(* A secret is a string; NotFound and Failed are the two kinds of error.   *)
(***************************************************************************)
EXTENDS Naturals, Sequences, Maps

NotFound == "error: not found"
Failed == "error: failed"
Errors == {NotFound, Failed}

Sources == {"env", "keyring", "static", "google"}

(***************************************************************************)
(* The four source structs.                                                *)
(***************************************************************************)
Env(name, binding) ==
    [source |-> "env", type |-> "env", name |-> name, binding |-> binding]

Keyring(service, binding) ==
    [source |-> "keyring", type |-> "keyring", name |-> service, binding |-> binding]

Static(value, binding) ==
    [source |-> "static", type |-> "static", name |-> value, binding |-> binding]

\* name is the token type; an audience selects the idtoken library.
Google(tokenType, audience, binding) ==
    [source |-> "google", type |-> "google", name |-> tokenType,
     audience |-> audience, binding |-> binding]

\* An entry written with source: s in a struct of another type.
Misdeclared(entry, s) == [entry EXCEPT !.source = s]

Canonicalize(entry) ==
    [entry EXCEPT !.source = entry.type,
                  !.binding = IF @ = "" THEN "default" ELSE @]

\* The chain that is built in: Canonicalize corrects a misdeclared source.
Default(entries) == [i \in DOMAIN entries |-> Canonicalize(entries[i])]

\* A chain in a config file is refused as a whole if an entry names no source.
Unmarshals(chain) == \A i \in DOMAIN chain : chain[i].source # ""

\* sourceFor fails for an unknown source and for fields that are not its own.
Decodes(entry) == entry.source \in Sources /\ entry.type = entry.source

-----------------------------------------------------------------------------
(***************************************************************************)
(* Lookup in one source.                                                   *)
(***************************************************************************)

\* keyring.Get
KeyringGet(world, service) ==
    IF world.locked THEN Failed
    ELSE IF service \in DOMAIN world.keyring THEN world.keyring[service] ELSE NotFound

\* The Google services a token needs; {} for an unknown token type.
GoogleNeeds(entry) ==
    CASE entry.name \in {"", "access"} -> {"credentials", "access"}
      [] entry.name \in {"id", "jwt"} /\ entry.audience # "" -> {"credentials", "idtoken"}
      [] entry.name \in {"id", "jwt"} /\ entry.audience = "" -> {"credentials", "json", "refresh"}
      [] OTHER -> {}

GoogleLookup(world, entry) ==
    LET needs == GoogleNeeds(entry) IN
    IF needs # {} /\ needs \subseteq world.google
    THEN IF "access" \in needs THEN "google access token" ELSE "google id token"
    ELSE Failed

\* A variable that is set to the empty string is found.
EnvLookup(world, name) == IF name \in DOMAIN world.env THEN world.env[name] ELSE NotFound

SourceLookup(world, entry, binding) ==
    IF entry.binding # binding THEN NotFound
    ELSE CASE entry.type = "env" -> EnvLookup(world, entry.name)
           [] entry.type = "keyring" -> KeyringGet(world, entry.name)
           [] entry.type = "static" -> entry.name
           [] entry.type = "google" -> GoogleLookup(world, entry)

-----------------------------------------------------------------------------
(***************************************************************************)
(* LookupChain.Lookup: the first source that has a value wins.  An error   *)
(* of a source is put off: it is reported when no later source has a       *)
(* value.  An entry that does not decode ends the search.                  *)
(***************************************************************************)
StopsAt(world, chain, binding, i) ==
    \/ ~Decodes(chain[i])
    \/ SourceLookup(world, Canonicalize(chain[i]), binding) \notin Errors

LookupStopsAtError(world, chain, binding) ==
    LET result(i) == IF Decodes(chain[i])
                     THEN SourceLookup(world, Canonicalize(chain[i]), binding)
                     ELSE Failed
        stops == {i \in DOMAIN chain : result(i) # NotFound}
    IN IF stops = {} THEN NotFound
       ELSE result(CHOOSE i \in stops : \A j \in stops : i <= j)

Lookup(world, chain, binding) ==
    LET stops == {i \in DOMAIN chain : StopsAt(world, chain, binding, i)}
        first == CHOOSE i \in stops : \A j \in stops : i <= j
        failed == \E i \in DOMAIN chain :
                      SourceLookup(world, Canonicalize(chain[i]), binding) = Failed
    IN IF stops # {}
       THEN IF Decodes(chain[first])
            THEN SourceLookup(world, Canonicalize(chain[first]), binding)
            ELSE Failed
       ELSE IF chain = <<>> \/ failed THEN Failed ELSE NotFound

(***************************************************************************)
(* SetupInstructions: what setup-uri says about each source of a binding.  *)
(* An entry that does not decode is reported and skipped.                  *)
(***************************************************************************)
Status(world, entry) ==
    CASE entry.type = "env" -> IF entry.name \in DOMAIN world.env THEN "SET" ELSE "NOT SET"
      [] entry.type = "keyring" ->
            IF KeyringGet(world, entry.name) = NotFound THEN "NOT SET"
            ELSE IF KeyringGet(world, entry.name) = Failed THEN "ERROR ACCESSING KEYCHAIN"
            ELSE "SET"
      [] entry.type = "static" -> "SET"
      [] entry.type = "google" -> "INSTRUCTIONS"

SetupInstructions(world, chain, binding) ==
    {Status(world, Canonicalize(chain[i])) :
        i \in {j \in DOMAIN chain : Decodes(chain[j]) /\ Canonicalize(chain[j]).binding = binding}}
        \cup {"failed to lookup" : i \in {j \in DOMAIN chain : ~Decodes(chain[j])}}

=============================================================================
