-------------------------- MODULE CredentialsProofs -------------------------
(***************************************************************************)
(* Proofs about Credentials, for every number of `get` processes, every    *)
(* environment, config file and lookup chain, and whatever setup-keyring   *)
(* does in between.                                                        *)
(***************************************************************************)
EXTENDS Credentials, SequenceTheorems, WellFoundedInduction, TLAPS

(***************************************************************************)
(* The inductive invariant, as operators of what a process holds and of    *)
(* the setup s, the keyring ring and the number n of its changes.          *)
(***************************************************************************)
WorldOf(s, ring) ==
    [env |-> s.env, keyring |-> ring, locked |-> s.locked, google |-> s.google,
     hosts |-> s.hosts, aws |-> s.aws]

ChainOf(g) == FromContext(g.helper, g.uri, g.config).lookup_chain

\* The bindings that a helper looks up.
Needed(helper, u) ==
    IF helper \in {"github", "remoteapis"} THEN {"default"}
    ELSE IF helper = "s3"
    THEN {AccessKeyID, SecretAccessKey, SessionToken, Region}
            \cup IF providerFromHost(Host(u)) = "r2" THEN {CloudflareAPIToken} ELSE {}
    ELSE {}

\* An answer that a helper has made for a request.
Made(answer, helper, u) ==
    /\ answer.expires \in Nat \cup {NoExpiry}
    /\ \A header \in answer.headers :
          /\ Verdict(helper, u) = "go"
          /\ Suits(u, helper, header)
          /\ (header.for = Scope("github") /\ answer.expires \in Nat) =>
                answer.expires = LifeOf(header.secret[1]).ends

\* The request of a process, and the helper and fragment it has chosen.
Asked(g, s) ==
    /\ g.uri \in s.uris
    /\ Choice(s, g.uri) # Fatal
    /\ g.helper = Choice(s, g.uri).helper
    /\ g.config = Choice(s, g.uri).config

\* What was looked up is what the keyring says, unless it has changed since.
LookingInv(g, s, ring, n) ==
    /\ g = [pc |-> "looking", uri |-> g.uri, helper |-> g.helper, config |-> g.config,
            todo |-> g.todo, got |-> g.got, ring |-> g.ring, since |-> g.since]
    /\ Asked(g, s)
    /\ Verdict(g.helper, g.uri) = "go"
    /\ g.todo \in Seq(Needed(g.helper, g.uri))
    /\ DOMAIN g.got \subseteq Needed(g.helper, g.uri)
    /\ \A b \in Needed(g.helper, g.uri) :
          b \in DOMAIN g.got \/ \E i \in DOMAIN g.todo : g.todo[i] = b
    /\ g.since \in Nat /\ g.since <= n
    /\ g.since = n =>
          /\ g.ring = ring
          /\ \A b \in DOMAIN g.got : g.got[b] = Lookup(WorldOf(s, ring), ChainOf(g), b)

\* The body of UndisturbedGetIsAtomic.
Signed(g, s) ==
    LET u == g.uri
        chain == FromContext("s3", u, g.config).lookup_chain
        at(binding) == Lookup(WorldOf(s, g.ring), chain, binding)
        provided == at(SecretAccessKey) \notin Errors
        derived == providerFromHost(Host(u)) = "r2" /\ at(CloudflareAPIToken) \notin Errors
        secret == IF provided THEN at(SecretAccessKey) ELSE Sha256(at(CloudflareAPIToken))
        static == at(AccessKeyID) \notin Errors /\ at(AccessKeyID) # ""
                    /\ (provided \/ derived) /\ secret # ""
    IN \A header \in g.answer.headers :
         IF static
         THEN header.secret[1] = at(AccessKeyID) /\ header.secret[2] = secret
         ELSE header.secret[1] = "credentials of the AWS SDK"

AnsweredInv(g, s) ==
    /\ {"pc", "uri", "helper", "config", "origin", "answer"} \subseteq DOMAIN g
    /\ Asked(g, s)
    /\ g.pc = "printed" => Made(g.answer, g.helper, g.uri)
    /\ s \notin Colliding => \A header \in g.answer.headers : Suits(g.uri, g.helper, header)
    /\ g.origin = "undisturbed" => "ring" \in DOMAIN g /\ Signed(g, s)

FailedInv(g, s) ==
    g.why = "unsupported" => /\ Choice(s, g.uri) # Fatal /\ g.helper = Choice(s, g.uri).helper
                             /\ g.uri \in s.uris
                             /\ Verdict(g.helper, g.uri) = "unsupported"

GetInv(g, s, ring, n) ==
    \/ g.pc = "idle"
    \/ g.pc = "looking" /\ LookingInv(g, s, ring, n)
    \/ g.pc \in {"printed", "done"} /\ AnsweredInv(g, s)
    \/ g.pc = "failed" /\ FailedInv(g, s)

\* An entry of the cache was made for a request with its key.
EntryInv(entry, k, s) ==
    entry # Absent =>
        /\ entry.expires \in Nat
        /\ \E u \in s.uris : /\ Choice(s, u) # Fatal
                             /\ k = CacheKey(Choice(s, u).helper, u)
                             /\ Made(entry, Choice(s, u).helper, u)

CredentialsInv ==
    /\ setup \in Setups
    /\ DOMAIN keyring \subseteq setup.services
    /\ \A s \in DOMAIN keyring : keyring[s] \in Secrets
    /\ changes \in 0..MaxChanges
    /\ now \in 0..MaxTime
    /\ cache = [k \in Keys |-> cache[k]]
    /\ \A k \in Keys : EntryInv(cache[k], k, setup)
    /\ get = [c \in Getters |-> get[c]]
    /\ \A c \in Getters : GetInv(get[c], setup, keyring, changes)

-----------------------------------------------------------------------------
(***************************************************************************)
(* Lookup chains: what setup-uri tells about a chain is what Lookup finds. *)
(***************************************************************************)

\* A source of a chain whose values are not spelt like errors.
PlainSource(e) ==
    /\ IsEntry(e)
    /\ Decodes(e) /\ e.type # "google"
    /\ e.type = "static" => e.name \notin Errors

PlainWorld(world) ==
    /\ \A var \in DOMAIN world.env : world.env[var] \notin Errors
    /\ \A service \in DOMAIN world.keyring : world.keyring[service] \notin Errors

LEMMA ErrorFacts == NotFound # Failed /\ Errors = {NotFound, Failed}
  BY DEF NotFound, Failed, Errors

LEMMA CanonicalFacts ==
    ASSUME NEW e, PlainSource(e), NEW d, d = Canonicalize(e)
    PROVE  d.type = e.type /\ d.name = e.name /\ d.type \in {"env", "keyring", "static"}
  <1>1. d.type = e.type /\ d.name = e.name
    <2>1. CASE e = [source |-> e.source, type |-> e.type, name |-> e.name, binding |-> e.binding]
      BY <2>1 DEF Canonicalize
    <2>2. CASE e = [source |-> e.source, type |-> e.type, name |-> e.name,
                    audience |-> e.audience, binding |-> e.binding]
      BY <2>2 DEF Canonicalize
    <2> QED
      BY <2>1, <2>2 DEF PlainSource, IsEntry
  <1>2. e.type \in {"env", "keyring", "static"}
    BY DEF PlainSource, Decodes, Sources
  <1> QED
    BY <1>1, <1>2

\* One source: its status and its value.
LEMMA SourceTruth ==
    ASSUME NEW world, PlainWorld(world), NEW e, PlainSource(e), NEW binding,
           NEW d, d = Canonicalize(e)
    PROVE  /\ d.binding = binding =>
                 /\ Status(world, d) = "SET" <=> SourceLookup(world, d, binding) \notin Errors
                 /\ Status(world, d) = "ERROR ACCESSING KEYCHAIN" =>
                       SourceLookup(world, d, binding) = Failed
           /\ d.binding # binding => SourceLookup(world, d, binding) = NotFound
  <1>1. d.name = e.name /\ d.type = e.type /\ d.type \in {"env", "keyring", "static"}
    BY CanonicalFacts
  <1>0. d.binding # binding => SourceLookup(world, d, binding) = NotFound
    BY DEF SourceLookup
  <1>2. CASE d.type = "env"
    <2>1. /\ Status(world, d) = IF d.name \in DOMAIN world.env THEN "SET" ELSE "NOT SET"
          /\ d.binding = binding => SourceLookup(world, d, binding) = EnvLookup(world, d.name)
      BY <1>2 DEF Status, SourceLookup
    <2> QED
      BY <1>0, <2>1, ErrorFacts DEF EnvLookup, PlainWorld
  <1>3. CASE d.type = "keyring"
    <2>1. /\ Status(world, d) = IF KeyringGet(world, d.name) = NotFound THEN "NOT SET"
                                ELSE IF KeyringGet(world, d.name) = Failed
                                     THEN "ERROR ACCESSING KEYCHAIN" ELSE "SET"
          /\ d.binding = binding => SourceLookup(world, d, binding) = KeyringGet(world, d.name)
      BY <1>3 DEF Status, SourceLookup
    <2> QED
      BY <1>0, <2>1, ErrorFacts
  <1>4. CASE d.type = "static"
    <2>1. /\ Status(world, d) = "SET"
          /\ d.binding = binding => SourceLookup(world, d, binding) = d.name
      BY <1>4 DEF Status, SourceLookup
    <2>2. d.name \notin Errors
      BY <1>1, <1>4 DEF PlainSource
    <2> QED
      BY <1>0, <2>1, <2>2
  <1> QED
    BY <1>1, <1>2, <1>3, <1>4

\* A set of positions has a first one.
LEMMA FirstExists ==
    ASSUME NEW S, S \subseteq Nat, S # {}
    PROVE  \E i \in S : \A j \in S : i <= j
  <1> DEFINE R == OpToRel(<, Nat)
  <1>1. PICK i \in S : \A j \in S : ~(<<j, i>> \in R)
    BY NatLessThanWellFounded, WFMin
  <1>2. ASSUME NEW j \in S
        PROVE  i <= j
    <2>1. i \in Nat /\ j \in Nat
      OBVIOUS
    <2>2. <<j, i>> \in R <=> j < i
      BY <2>1 DEF OpToRel
    <2>3. ~(<<j, i>> \in R)
      BY <1>1
    <2>4. ~(j < i)
      BY <2>2, <2>3
    <2> HIDE DEF R
    <2> QED
      BY <2>1, <2>4
  <1> QED
    BY <1>2

LEMMA ChainTruth ==
    ASSUME NEW world, PlainWorld(world), NEW chain, DOMAIN chain \subseteq Nat,
           \A i \in DOMAIN chain : PlainSource(chain[i]), NEW binding
    PROVE  /\ "SET" \in SetupInstructions(world, chain, binding)
                 <=> Lookup(world, chain, binding) \notin Errors
           /\ "ERROR ACCESSING KEYCHAIN" \in SetupInstructions(world, chain, binding) =>
                 Lookup(world, chain, binding) # NotFound
  <1> DEFINE value(i) == SourceLookup(world, Canonicalize(chain[i]), binding)
             told == SetupInstructions(world, chain, binding)
             stops == {i \in DOMAIN chain : StopsAt(world, chain, binding, i)}
             first == CHOOSE i \in stops : \A j \in stops : i <= j
  <1>1. \A i \in DOMAIN chain : Decodes(chain[i])
    BY DEF PlainSource
  <1>2. \A i \in DOMAIN chain : i \in stops <=> value(i) \notin Errors
    BY <1>1 DEF StopsAt
  <1>3. told = {Status(world, Canonicalize(chain[i])) :
                  i \in {j \in DOMAIN chain : Canonicalize(chain[j]).binding = binding}}
    BY <1>1 DEF SetupInstructions
  <1>4. ASSUME NEW i \in DOMAIN chain
        PROVE  /\ Canonicalize(chain[i]).binding = binding =>
                     /\ Status(world, Canonicalize(chain[i])) = "SET" <=> value(i) \notin Errors
                     /\ Status(world, Canonicalize(chain[i])) = "ERROR ACCESSING KEYCHAIN" =>
                           value(i) = Failed
               /\ Canonicalize(chain[i]).binding # binding => value(i) = NotFound
    BY SourceTruth
  <1>5. "SET" \in told <=> stops # {}
    <2>1. ASSUME "SET" \in told PROVE stops # {}
      <3>1. PICK i \in DOMAIN chain : /\ Canonicalize(chain[i]).binding = binding
                                      /\ Status(world, Canonicalize(chain[i])) = "SET"
        BY <1>3, <2>1
      <3> QED
        BY <1>2, <1>4, <3>1
    <2>2. ASSUME stops # {} PROVE "SET" \in told
      <3>1. PICK i \in DOMAIN chain : i \in stops
        BY <2>2
      <3>2. value(i) \notin Errors
        BY <1>2, <3>1
      <3>3. /\ Canonicalize(chain[i]).binding = binding
            /\ Status(world, Canonicalize(chain[i])) = "SET"
        BY <1>4, <3>2, ErrorFacts
      <3> QED
        BY <1>3, <3>3
    <2> QED
      BY <2>1, <2>2
  <1>6. CASE stops # {}
    <2>1. stops \subseteq Nat
      OBVIOUS
    <2>2. \E i \in stops : \A j \in stops : i <= j
      BY <1>6, <2>1, FirstExists
    <2>3. first \in stops
      BY <2>2
    <2>4. Lookup(world, chain, binding) = value(first)
      BY <1>1, <1>6, <2>3 DEF Lookup
    <2>5. value(first) \notin Errors
      BY <1>2, <2>3
    <2>6. Lookup(world, chain, binding) \notin Errors /\ Lookup(world, chain, binding) # NotFound
      BY <2>4, <2>5, ErrorFacts
    <2> QED
      BY <1>5, <1>6, <2>6
  <1>7. CASE stops = {}
    <2>1. Lookup(world, chain, binding) =
              IF chain = <<>> \/ (\E i \in DOMAIN chain : value(i) = Failed) THEN Failed ELSE NotFound
      BY <1>7 DEF Lookup
    <2>2. Lookup(world, chain, binding) \in Errors
      BY <2>1, ErrorFacts
    <2>3. ASSUME "ERROR ACCESSING KEYCHAIN" \in told
          PROVE  Lookup(world, chain, binding) = Failed
      <3>1. PICK i \in DOMAIN chain :
                /\ Canonicalize(chain[i]).binding = binding
                /\ Status(world, Canonicalize(chain[i])) = "ERROR ACCESSING KEYCHAIN"
        BY <1>3, <2>3
      <3>2. value(i) = Failed
        BY <1>4, <3>1
      <3> QED
        BY <2>1, <3>2
    <2> QED
      BY <1>5, <1>7, <2>2, <2>3, ErrorFacts
  <1> QED
    BY <1>6, <1>7

-----------------------------------------------------------------------------
(***************************************************************************)
(* Hosts.                                                                  *)
(***************************************************************************)

\* The last symbols of a host with a given suffix.
LEMMA SuffixFacts ==
    ASSUME NEW S, NEW T, NEW host \in Seq(S), NEW suffix \in Seq(T), HasSuffix(host, suffix)
    PROVE  /\ Len(suffix) <= Len(host)
           /\ \A i \in 1..Len(suffix) : host[Len(host) - Len(suffix) + i] = suffix[i]
  <1>1. PICK m, n : m = Len(suffix) /\ n = Len(host)
    OBVIOUS
  <1>2. m \in Nat /\ n \in Nat
    BY <1>1
  <1>3. PICK r, q : r = Reverse(suffix) /\ q = Reverse(host)
    OBVIOUS
  <1>4. r = [i \in 1..m |-> suffix[(m - i) + 1]] /\ q = [i \in 1..n |-> host[(n - i) + 1]]
    BY <1>1, <1>3 DEF Reverse
  <1>5. r \in Seq(T) /\ Len(r) = m
    <2>1. \A i \in 1..m : suffix[(m - i) + 1] \in T
      BY <1>1, <1>2
    <2>2. r \in [1..m -> T]
      BY <1>4, <2>1
    <2> QED
      BY <1>2, <2>2, SeqDef, LenProperties
  <1>6. q \in Seq(S) /\ Len(q) = n
    <2>1. \A i \in 1..n : host[(n - i) + 1] \in S
      BY <1>1, <1>2
    <2>2. q \in [1..n -> S]
      BY <1>4, <2>1
    <2> QED
      BY <1>2, <2>2, SeqDef, LenProperties
  <1>7. m <= n /\ SubSeq(r, 1, m) = SubSeq(q, 1, m)
    BY <1>3, <1>5, <1>6 DEF HasSuffix, IsSuffix, IsPrefix
  <1>8. \A i \in 1..m : r[i] = q[i]
    <2>1. \A i \in 1..m : SubSeq(r, 1, m)[i] = r[i]
      BY <1>2, <1>5
    <2>2. \A i \in 1..m : SubSeq(q, 1, m)[i] = q[i]
      BY <1>2, <1>6, <1>7
    <2> QED
      BY <1>7, <2>1, <2>2
  <1>9. ASSUME NEW i \in 1..m
        PROVE  host[n - m + i] = suffix[i]
    <2>1. PICK k : k = m - i + 1
      OBVIOUS
    <2>2. k \in 1..m /\ k \in 1..n /\ (m - k) + 1 = i /\ (n - k) + 1 = n - m + i
      BY <1>2, <1>7, <2>1
    <2>3. r[k] = suffix[i] /\ q[k] = host[n - m + i]
      BY <1>4, <2>2
    <2> QED
      BY <1>8, <2>2, <2>3
  <1> QED
    BY <1>1, <1>7, <1>9

\* No symbol but the dot is a dot in lower case.
LEMMA LowerFacts ==
    /\ \A x : Lower(x) = "." <=> x = "."
    /\ \A x : Lower(x) = ":" <=> x = ":"
    /\ \A x : x \notin {"GitHub", "Storage"} => Lower(x) = x
  BY DEF Lower

LEMMA ToLowerFacts ==
    ASSUME NEW S, NEW host \in Seq(S)
    PROVE  /\ ToLower(host) \in Seq({Lower(x) : x \in S})
           /\ Len(ToLower(host)) = Len(host)
           /\ \A i \in 1..Len(host) : ToLower(host)[i] = Lower(host[i])
  <1>1. PICK n : n = Len(host) /\ n \in Nat
    OBVIOUS
  <1>2. DOMAIN host = 1..n /\ \A i \in 1..n : host[i] \in S
    BY <1>1
  <1>3. ToLower(host) = [i \in 1..n |-> Lower(host[i])]
    BY <1>2 DEF ToLower
  <1>4. ToLower(host) \in [1..n -> {Lower(x) : x \in S}]
    BY <1>2, <1>3
  <1> QED
    BY <1>1, <1>3, <1>4, SeqDef, LenProperties

\* A host with a port ends in a colon and the port.
LEMMA HostFacts ==
    ASSUME NEW u \in URIs, NEW S, S = STRING \cup {":", u.port}
    PROVE  /\ Host(u) \in Seq(S)
           /\ u.port = "" => Host(u) = u.host
           /\ u.port # "" => Len(Host(u)) >= 2 /\ Host(u)[Len(Host(u)) - 1] = ":"
  <1>1. u.host \in Seq(STRING)
    BY InputAssumption
  <1>2. u.host \in Seq(S)
    BY <1>1, SeqMonotonic
  <1>3. CASE u.port = ""
    BY <1>2, <1>3 DEF Host
  <1>4. CASE u.port # ""
    <2>1. PICK h, p : h = u.host /\ p = u.port
      OBVIOUS
    <2>2. Host(u) = h \o <<":", p>>
      BY <1>4, <2>1 DEF Host
    <2>3. h \in Seq(S) /\ ":" \in S /\ p \in S
      BY <1>2, <2>1
    <2>4. PICK x, n : x = Host(u) /\ n = Len(h)
      OBVIOUS
    <2>5. /\ x \in Seq(S) /\ n \in Nat
          /\ Len(x) = n + 2
          /\ x[n + 1] = ":"
      BY <2>2, <2>3, <2>4
    <2>6. (n + 2) - 1 = n + 1 /\ n + 2 >= 2
      BY <2>5
    <2>7. x \in Seq(S) /\ Len(x) >= 2 /\ x[Len(x) - 1] = ":"
      BY <2>5, <2>6
    <2> QED
      BY <1>4, <2>4, <2>7
  <1> QED
    BY <1>3, <1>4

\* Some known hosts, spelt out.
LEMMA RawGitHubIs == RawGitHub = <<"raw", ".", "githubusercontent", ".", "com">>
  <1>1. PICK R : R = {"raw", "githubusercontent", ".", "com"}
    OBVIOUS
  <1>2. PICK a, b, x : /\ a = <<"raw", ".">> /\ b = <<"githubusercontent", ".", "com">>
                       /\ x = <<"raw", ".", "githubusercontent", ".", "com">>
    OBVIOUS
  <1>3. /\ a \in Seq(R) /\ Len(a) = 2 /\ a[1] = "raw" /\ a[2] = "."
        /\ b \in Seq(R) /\ Len(b) = 3 /\ b[1] = "githubusercontent" /\ b[2] = "." /\ b[3] = "com"
        /\ x \in Seq(R) /\ Len(x) = 5
    BY <1>1, <1>2
  <1>4. PICK y : y = a \o b
    OBVIOUS
  <1>5. y \in Seq(R) /\ Len(y) = 5 /\ \A i \in 1..5 : y[i] = IF i <= 2 THEN a[i] ELSE b[i - 2]
    <2>1. a \in Seq(R) /\ b \in Seq(R)
      BY <1>3
    <2>2. /\ y \in Seq(R) /\ Len(y) = Len(a) + Len(b)
          /\ \A i \in 1..Len(a) + Len(b) : y[i] = IF i <= Len(a) THEN a[i] ELSE b[i - Len(a)]
      BY <1>4, <2>1, ConcatProperties
    <2> QED
      BY <1>3, <2>2
  <1>6. y[1] = "raw" /\ y[2] = "." /\ y[3] = "githubusercontent" /\ y[4] = "." /\ y[5] = "com"
    BY <1>3, <1>5
  <1>7. \A i \in 1..5 : i = 1 \/ i = 2 \/ i = 3 \/ i = 4 \/ i = 5
    OBVIOUS
  <1>8. \A i \in 1..5 : y[i] = x[i]
    BY <1>2, <1>6, <1>7
  <1>9. x = y
    BY <1>3, <1>5, <1>8, SeqEqual
  <1> QED
    BY <1>2, <1>4, <1>9 DEF RawGitHub, Com

LEMMA BelowGitHubIs == Below(GitHubCom) = <<".", "github", ".", "com">>
  <1>1. PICK R : R = {"github", ".", "com"}
    OBVIOUS
  <1>2. PICK a, b, x : /\ a = <<".">> /\ b = <<"github", ".", "com">>
                       /\ x = <<".", "github", ".", "com">>
    OBVIOUS
  <1>3. /\ a \in Seq(R) /\ Len(a) = 1 /\ a[1] = "."
        /\ b \in Seq(R) /\ Len(b) = 3 /\ b[1] = "github" /\ b[2] = "." /\ b[3] = "com"
        /\ x \in Seq(R) /\ Len(x) = 4
    BY <1>1, <1>2
  <1>4. PICK y : y = a \o b
    OBVIOUS
  <1>5. y \in Seq(R) /\ Len(y) = 4 /\ \A i \in 1..4 : y[i] = IF i <= 1 THEN a[i] ELSE b[i - 1]
    <2>1. a \in Seq(R) /\ b \in Seq(R)
      BY <1>3
    <2>2. /\ y \in Seq(R) /\ Len(y) = Len(a) + Len(b)
          /\ \A i \in 1..Len(a) + Len(b) : y[i] = IF i <= Len(a) THEN a[i] ELSE b[i - Len(a)]
      BY <1>4, <2>1, ConcatProperties
    <2> QED
      BY <1>3, <2>2
  <1>6. y[1] = "." /\ y[2] = "github" /\ y[3] = "." /\ y[4] = "com"
    BY <1>3, <1>5
  <1>7. \A i \in 1..4 : i = 1 \/ i = 2 \/ i = 3 \/ i = 4
    OBVIOUS
  <1>8. \A i \in 1..4 : y[i] = x[i]
    BY <1>2, <1>6, <1>7
  <1>9. x = y
    BY <1>3, <1>5, <1>8, SeqEqual
  <1> QED
    BY <1>2, <1>4, <1>9 DEF Below, GitHubCom, Com

\* github.com, its subdomains and the raw host are named without a port.
LEMMA GitHubHost ==
    ASSUME NEW u \in URIs, GitHubSupports(u)
    PROVE  Len(Host(u)) >= 2 /\ Host(u)[Len(Host(u)) - 1] = "."
  <1>1. PICK S : S = STRING \cup {":", u.port}
    OBVIOUS
  <1>2. PICK h : h = Host(u) /\ h \in Seq(S)
    BY <1>1, HostFacts
  <1>3. PICK n : n = Len(h) /\ n \in Nat
    BY <1>2
  <1>4. PICK l, T : l = ToLower(h) /\ T = {Lower(x) : x \in S}
    OBVIOUS
  <1>5. /\ l \in Seq(T) /\ Len(l) = n
        /\ \A i \in 1..n : l[i] = Lower(h[i])
    BY <1>2, <1>3, <1>4, ToLowerFacts
  <1>6. SUFFICES n >= 2 /\ l[n - 1] = "."
    BY <1>2, <1>3, <1>5, LowerFacts
  <1>7. CASE EqualFold(Host(u), GitHubCom)
    <2>1. PICK x : x = <<"github", ".", "com">>
      OBVIOUS
    <2>2. x = GitHubCom
      BY <2>1 DEF GitHubCom, Com
    <2>3. x \in Seq({"github", ".", "com"}) /\ Len(x) = 3 /\ x[2] = "."
      BY <2>1
    <2>4. Len(ToLower(x)) = 3 /\ ToLower(x)[2] = Lower(x[2])
      <3>1. PICK R : R = {"github", ".", "com"}
        OBVIOUS
      <3>2. x \in Seq(R)
        BY <2>3, <3>1
      <3>3. Len(ToLower(x)) = Len(x) /\ \A i \in 1..Len(x) : ToLower(x)[i] = Lower(x[i])
        BY <3>2, ToLowerFacts, Zenon
      <3> QED
        BY <2>3, <3>3
    <2>5. l = ToLower(x)
      BY <1>2, <1>4, <1>7, <2>2 DEF EqualFold
    <2>6. n = 3 /\ l[2] = "."
      BY <1>5, <2>3, <2>4, <2>5, LowerFacts
    <2> QED
      BY <2>6
  <1>8. CASE EqualFold(Host(u), RawGitHub)
    <2>1. PICK x : x = <<"raw", ".", "githubusercontent", ".", "com">>
      OBVIOUS
    <2>2. x = RawGitHub
      BY <2>1, RawGitHubIs
    <2>3. x \in Seq({"raw", "githubusercontent", ".", "com"}) /\ Len(x) = 5 /\ x[4] = "."
      BY <2>1
    <2>4. Len(ToLower(x)) = 5 /\ ToLower(x)[4] = Lower(x[4])
      <3>1. PICK R : R = {"raw", "githubusercontent", ".", "com"}
        OBVIOUS
      <3>2. x \in Seq(R)
        BY <2>3, <3>1
      <3>3. Len(ToLower(x)) = Len(x) /\ \A i \in 1..Len(x) : ToLower(x)[i] = Lower(x[i])
        BY <3>2, ToLowerFacts, Zenon
      <3> QED
        BY <2>3, <3>3
    <2>5. l = ToLower(x)
      BY <1>2, <1>4, <1>8, <2>2 DEF EqualFold
    <2>6. n = 5 /\ l[4] = "."
      BY <1>5, <2>3, <2>4, <2>5, LowerFacts
    <2> QED
      BY <2>6
  <1>9. CASE HasSuffix(ToLower(Host(u)), Below(GitHubCom))
    <2>1. PICK x : x = <<".", "github", ".", "com">>
      OBVIOUS
    <2>2. x = Below(GitHubCom)
      BY <2>1, BelowGitHubIs
    <2>3. PICK R : R = {"github", ".", "com"}
      OBVIOUS
    <2>4. x \in Seq(R) /\ Len(x) = 4 /\ x[3] = "."
      BY <2>1, <2>3
    <2>5. HasSuffix(l, x)
      BY <1>2, <1>4, <1>9, <2>2
    <2>6. Len(x) <= Len(l) /\ \A i \in 1..Len(x) : l[Len(l) - Len(x) + i] = x[i]
      <3>1. l \in Seq(T)
        BY <1>5
      <3>2. x \in Seq(R)
        BY <2>4
      <3>3. Len(x) <= Len(l)
        BY <3>1, <3>2, <2>5, SuffixFacts
      <3>4. ASSUME NEW i \in 1..Len(x) PROVE l[Len(l) - Len(x) + i] = x[i]
        BY <3>1, <3>2, <2>5, SuffixFacts
      <3> QED
        BY <3>3, <3>4
    <2>7. 4 <= n /\ l[n - 4 + 3] = "."
      <3>1. 4 <= n /\ \A i \in 1..4 : l[n - 4 + i] = x[i]
        BY <1>5, <2>4, <2>6
      <3>2. 3 \in 1..4
        OBVIOUS
      <3> QED
        BY <2>4, <3>1, <3>2
    <2>8. n - 4 + 3 = n - 1 /\ n >= 2
      BY <1>3, <2>7
    <2> QED
      BY <2>7, <2>8
  <1> QED
    BY <1>7, <1>8, <1>9 DEF GitHubSupports

\* github.com and its subdomains are named without a port.
LEMMA GitHubHasNoPort ==
    ASSUME NEW u \in URIs, NEW v \in URIs, GitHubSupports(u), Host(v) = Host(u)
    PROVE  v.port = "" /\ v.host = Host(u)
  <1>1. PICK S : S = STRING \cup {":", v.port}
    OBVIOUS
  <1>2. PICK h : h = Host(u)
    OBVIOUS
  <1>3. h[Len(h) - 1] = "."
    BY <1>2, GitHubHost
  <1>4. /\ v.port = "" => h = v.host
        /\ v.port # "" => h[Len(h) - 1] = ":"
    BY <1>1, <1>2, HostFacts
  <1> QED
    BY <1>2, <1>3, <1>4

\* Requests that share a key share the answers.
LEMMA SuitsShared ==
    ASSUME NEW u \in URIs, NEW v \in URIs, NEW helper \in Helpers,
           CacheKey(helper, u) = CacheKey(helper, v), Verdict(helper, u) = "go",
           NEW header, Suits(u, helper, header)
    PROVE  Suits(v, helper, header)
  <1>1. CASE helper = "github"
    <2>1. CacheKey(helper, u) = GitHubCacheKey(u) /\ CacheKey(helper, v) = GitHubCacheKey(v)
      BY <1>1 DEF CacheKey
    <2>2. Host(u) = Host(v)
      <3>1. GitHubCacheKey(u).host = Host(u) /\ GitHubCacheKey(v).host = Host(v)
        BY DEF GitHubCacheKey, CacheKeyOf
      <3>2. GitHubCacheKey(u) = GitHubCacheKey(v)
        BY <2>1
      <3> QED
        BY <3>1, <3>2
    <2>3. GitHubSupports(u)
      BY <1>1 DEF Verdict
    <2>4. u.host = v.host
      BY <2>2, <2>3, GitHubHasNoPort
    <2>5. Hostname(u) = Hostname(v)
      BY <2>4 DEF Hostname
    <2>6. /\ header.scheme = IF EqualFold(Hostname(u), RawGitHub) THEN "Basic" ELSE "Bearer"
          /\ header.for = Scope("github")
      BY <1>1 DEF Suits
    <2> QED
      BY <1>1, <2>5, <2>6 DEF Suits
  <1>2. CASE helper \in {"s3", "remoteapis"}
    <2>1. CacheKey(helper, u) = WholeUri(u) /\ CacheKey(helper, v) = WholeUri(v)
      BY <1>2 DEF CacheKey
    <2>2. header.for = WholeUri(u)
      BY <1>2 DEF Suits
    <2> QED
      BY <1>2, <2>1, <2>2 DEF Suits
  <1>3. CASE helper \notin {"github", "s3", "remoteapis"}
    BY <1>3 DEF Suits
  <1> QED
    BY <1>1, <1>2, <1>3

-----------------------------------------------------------------------------
(***************************************************************************)
(* What the helpers make.                                                  *)
(***************************************************************************)

\* Only a GitHub token is for GitHub.
LEMMA ScopeFacts ==
    /\ \A helper \in {"gcs", "gar", "azstorage"} : ScopeOf(helper) # Scope("github")
    /\ \A u : u.scheme \in {"https", "grpc", "grpcs"} => WholeUri(u) # Scope("github")
  <1>1. \A u : Scope("github").scheme = "github" /\ WholeUri(u).scheme = u.scheme
    BY DEF Scope, WholeUri, CacheKeyOf
  <1>2. ASSUME NEW helper \in {"gcs", "gar", "azstorage"}
        PROVE  ScopeOf(helper) # Scope("github")
    <2>1. ScopeOf(helper).scheme \in
              {"devstorage.read_only", "cloud-platform.read-only", "storage.azure.com/.default"}
      BY DEF ScopeOf, Scope, CacheKeyOf
    <2> QED
      BY <1>1, <2>1
  <1> QED
    BY <1>1, <1>2

LEMMA GitHubMakes ==
    ASSUME NEW u \in URIs, Verdict("github", u) = "go", NEW token
    PROVE  Made(GitHubAnswer(u, token, checkTokenExpiration(ExpirationHeader(LifeOf(token)))),
                "github", u)
  <1>1. GitHubSupports(u)
    BY DEF Verdict
  <1>2. Host(u) = Hostname(u)
    BY <1>1, GitHubHasNoPort DEF Hostname
  <1>3. PICK life, e, a : /\ life = LifeOf(token)
                          /\ e = checkTokenExpiration(ExpirationHeader(life))
                          /\ a = GitHubAnswer(u, token, e)
    OBVIOUS
  <1>4. life.ends \in Nat /\ life.zone \in Int
    <2>1. CASE token \in DOMAIN Life
      BY <1>3, <2>1, InputAssumption DEF LifeOf
    <2>2. CASE token \notin DOMAIN Life
      BY <1>3, <2>2 DEF LifeOf
    <2> QED
      BY <2>1, <2>2
  <1>5. e \in Nat \cup {NoExpiry} /\ (e \in Nat => e = life.ends)
    <2>1. PICK wall : wall = life.ends + life.zone /\ wall \in Int
      BY <1>4
    <2>2. 24 * (wall \div 24) + (wall % 24) - life.zone = life.ends
      BY <1>4, <2>1
    <2>3. e = life.ends \/ e = NoExpiry
      BY <1>3, <2>1, <2>2 DEF checkTokenExpiration, ExpirationHeader
    <2> QED
      BY <1>4, <2>3, SentinelAssumption
  <1>6. PICK header : header = Header("Authorization",
                           IF EqualFold(Host(u), RawGitHub) THEN "Basic" ELSE "Bearer",
                           <<token>>, Scope("github"))
    OBVIOUS
  <1>7. a.expires = e /\ a.headers = {header}
    BY <1>3, <1>6 DEF GitHubAnswer, Answer
  <1>8. /\ header.scheme = IF EqualFold(Hostname(u), RawGitHub) THEN "Basic" ELSE "Bearer"
        /\ header.for = Scope("github")
        /\ header.secret[1] = token
    BY <1>2, <1>6 DEF Header
  <1>9. Suits(u, "github", header)
    BY <1>8 DEF Suits
  <1>10. (header.for = Scope("github") /\ a.expires \in Nat) =>
            a.expires = LifeOf(header.secret[1]).ends
    BY <1>3, <1>5, <1>7, <1>8
  <1>11. Made(a, "github", u)
    BY <1>5, <1>7, <1>9, <1>10 DEF Made
  <1> QED
    BY <1>3, <1>11

\* Answers for one service other than GitHub.
LEMMA OthersMake ==
    ASSUME NEW u, NEW helper \in {"gcs", "gar", "azstorage", "s3", "remoteapis"},
           Verdict(helper, u) = "go",
           NEW e \in Nat \cup {NoExpiry}, NEW header,
           helper \in {"s3", "remoteapis"} => header.for = WholeUri(u),
           helper \in {"gcs", "gar", "azstorage"} => header.for = ScopeOf(helper)
    PROVE  Made(Answer(e, header), helper, u)
  <1>1. PICK a : a = Answer(e, header)
    OBVIOUS
  <1>2. a.expires = e /\ a.headers = {header}
    BY <1>1 DEF Answer
  <1>3. CASE helper \in {"s3", "remoteapis"}
    <2>1. u.scheme \in {"https", "grpc", "grpcs"}
      BY <1>3 DEF Verdict, RemoteAPIsSupports
    <2>2. header.for # Scope("github")
      BY <1>3, <2>1, ScopeFacts
    <2>3. Suits(u, helper, header)
      BY <1>3 DEF Suits
    <2>4. Made(a, helper, u)
      BY <1>2, <2>2, <2>3 DEF Made
    <2> QED
      BY <1>1, <2>4
  <1>4. CASE helper \in {"gcs", "gar", "azstorage"}
    <2>2. header.for # Scope("github")
      BY <1>4, ScopeFacts
    <2>3. Suits(u, helper, header)
      BY <1>4 DEF Suits
    <2>4. Made(a, helper, u)
      BY <1>2, <2>2, <2>3 DEF Made
    <2> QED
      BY <1>1, <2>4
  <1> QED
    BY <1>3, <1>4

\* Get looks up the bindings that it needs.
LEMMA BindingsFacts ==
    ASSUME NEW helper \in Helpers, NEW u
    PROVE  /\ BindingsOf(helper, u) \in Seq(Needed(helper, u))
           /\ \A b \in Needed(helper, u) :
                 \E i \in DOMAIN BindingsOf(helper, u) : BindingsOf(helper, u)[i] = b
  <1>1. PICK N, B : N = Needed(helper, u) /\ B = BindingsOf(helper, u)
    OBVIOUS
  <1>2. CASE helper \in {"github", "remoteapis"}
    <2>1. N = {"default"} /\ B = <<"default">>
      BY <1>1, <1>2 DEF Needed, BindingsOf
    <2>2. B \in Seq(N) /\ 1 \in DOMAIN B /\ B[1] = "default"
      BY <2>1
    <2> QED
      BY <1>1, <2>1, <2>2
  <1>3. CASE helper = "s3"
    <2>1. PICK r2 \in BOOLEAN : r2 = (providerFromHost(Host(u)) = "r2")
      OBVIOUS
    <2>2. PICK a, b, c, ab : /\ a = <<AccessKeyID>>
                             /\ b = IF r2 THEN <<CloudflareAPIToken>> ELSE <<>>
                             /\ c = <<SecretAccessKey, SessionToken, Region>>
                             /\ ab = a \o b
      OBVIOUS
    <2>3. B = ab \o c
      BY <1>1, <1>3, <2>1, <2>2 DEF BindingsOf
    <2>4. N = {AccessKeyID, SecretAccessKey, SessionToken, Region}
                \cup IF r2 THEN {CloudflareAPIToken} ELSE {}
      BY <1>1, <1>3, <2>1 DEF Needed
    <2>5. /\ a \in Seq(N) /\ Len(a) = 1 /\ a[1] = AccessKeyID
          /\ c \in Seq(N) /\ Len(c) = 3
          /\ c[1] = SecretAccessKey /\ c[2] = SessionToken /\ c[3] = Region
      BY <2>2, <2>4
    <2>6. /\ b \in Seq(N) /\ Len(b) = IF r2 THEN 1 ELSE 0
          /\ r2 => b[1] = CloudflareAPIToken
      <3>1. CASE r2
        <4>1. b = <<CloudflareAPIToken>> /\ CloudflareAPIToken \in N
          BY <2>2, <2>4, <3>1
        <4> QED
          BY <3>1, <4>1
      <3>2. CASE ~r2
        <4>1. b = <<>>
          BY <2>2, <3>2
        <4> QED
          BY <3>2, <4>1
      <3> QED
        BY <3>1, <3>2
    <2>7. /\ ab \in Seq(N) /\ Len(ab) = Len(a) + Len(b)
          /\ \A i \in 1..Len(a) + Len(b) : ab[i] = IF i <= Len(a) THEN a[i] ELSE b[i - Len(a)]
      <3>1. a \in Seq(N) /\ b \in Seq(N)
        BY <2>5, <2>6
      <3> QED
        BY <2>2, <3>1, ConcatProperties
    <2>8. /\ B \in Seq(N) /\ Len(B) = Len(ab) + Len(c)
          /\ \A i \in 1..Len(ab) + Len(c) : B[i] = IF i <= Len(ab) THEN ab[i] ELSE c[i - Len(ab)]
      <3>1. ab \in Seq(N) /\ c \in Seq(N)
        BY <2>5, <2>7
      <3> QED
        BY <2>3, <3>1, ConcatProperties
    <2>9. CASE r2
      <3>1. ab[1] = AccessKeyID /\ ab[2] = CloudflareAPIToken /\ Len(ab) = 2
        BY <2>5, <2>6, <2>7, <2>9
      <3>2. /\ Len(B) = 5
            /\ \A i \in 1..5 : B[i] = IF i <= 2 THEN ab[i] ELSE c[i - 2]
        BY <2>5, <2>8, <3>1
      <3>3. /\ B[1] = AccessKeyID /\ B[2] = CloudflareAPIToken /\ B[3] = SecretAccessKey
            /\ B[4] = SessionToken /\ B[5] = Region
        BY <2>5, <3>1, <3>2
      <3>4. DOMAIN B = 1..5
        <4>1. B \in Seq(N)
          BY <2>8
        <4>2. DOMAIN B = 1..Len(B)
          BY <4>1
        <4> QED
          BY <3>2, <4>2
      <3>5. \A x \in N : \E i \in 1..5 : B[i] = x
        BY <2>4, <3>3
      <3> QED
        BY <1>1, <2>8, <3>4, <3>5
    <2>10. CASE ~r2
      <3>1. ab[1] = AccessKeyID /\ Len(ab) = 1
        BY <2>5, <2>6, <2>7, <2>10
      <3>2. /\ Len(B) = 4
            /\ \A i \in 1..4 : B[i] = IF i <= 1 THEN ab[i] ELSE c[i - 1]
        BY <2>5, <2>8, <3>1
      <3>3. /\ B[1] = AccessKeyID /\ B[2] = SecretAccessKey
            /\ B[3] = SessionToken /\ B[4] = Region
        BY <2>5, <3>1, <3>2
      <3>4. DOMAIN B = 1..4
        <4>1. B \in Seq(N)
          BY <2>8
        <4>2. DOMAIN B = 1..Len(B)
          BY <4>1
        <4> QED
          BY <3>2, <4>2
      <3>5. \A x \in N : \E i \in 1..4 : B[i] = x
        BY <2>4, <2>10, <3>3
      <3> QED
        BY <1>1, <2>8, <3>4, <3>5
    <2> QED
      BY <2>9, <2>10
  <1>4. CASE helper \notin {"github", "remoteapis", "s3"}
    <2>1. N = {} /\ B = <<>>
      BY <1>1, <1>4 DEF Needed, BindingsOf
    <2>2. B \in Seq(N)
      BY <2>1
    <2> QED
      BY <1>1, <2>1, <2>2
  <1> QED
    BY <1>2, <1>3, <1>4

\* What the header of S3 is made of.
LEMMA KeysOfSignature ==
    /\ \A a, b, c, d : Append(<<a, b, c>>, d)[1] = a /\ Append(<<a, b, c>>, d)[2] = b
    /\ \A a, d : Append(<<a>>, d)[1] = a
  <1>1. ASSUME NEW a, NEW b, NEW c, NEW d
        PROVE  Append(<<a, b, c>>, d)[1] = a /\ Append(<<a, b, c>>, d)[2] = b
    <2>1. PICK N, x, y : N = {a, b, c, d} /\ x = <<a, b, c>> /\ y = Append(x, d)
      OBVIOUS
    <2>2. x \in Seq(N) /\ d \in N /\ Len(x) = 3 /\ x[1] = a /\ x[2] = b
      BY <2>1
    <2>3. y[1] = a /\ y[2] = b
      BY <2>1, <2>2
    <2> QED
      BY <2>1, <2>3
  <1>2. ASSUME NEW a, NEW d
        PROVE  Append(<<a>>, d)[1] = a
    <2>1. PICK N, x, y : N = {a, d} /\ x = <<a>> /\ y = Append(x, d)
      OBVIOUS
    <2>2. x \in Seq(N) /\ d \in N /\ Len(x) = 1 /\ x[1] = a
      BY <2>1
    <2>3. y[1] = a
      BY <2>1, <2>2
    <2> QED
      BY <2>1, <2>3
  <1> QED
    BY <1>1, <1>2

LEMMA SignatureIsForUri ==
    ASSUME NEW g, NEW got
    PROVE  S3Header(g, got).for = WholeUri(g.uri)
  BY DEF S3Header, Signature, Header

\* A Get that has looked up everything in one keyring signs with what is there.
LEMMA SignsWhatIsThere ==
    ASSUME NEW s, NEW g, NEW h, DOMAIN g.got = Needed("s3", g.uri),
           \A b \in DOMAIN g.got :
               g.got[b] = Lookup(WorldOf(s, g.ring), FromContext("s3", g.uri, g.config).lookup_chain, b),
           h.uri = g.uri, h.config = g.config, h.ring = g.ring,
           h.answer.headers = {S3Header(g, g.got)}
    PROVE  Signed(h, s)
  <1> DEFINE chain == FromContext("s3", g.uri, g.config).lookup_chain
             at(binding) == Lookup(WorldOf(s, g.ring), chain, binding)
  <1>1. PICK id, given, cf : id = at(AccessKeyID) /\ given = at(SecretAccessKey)
                             /\ cf = at(CloudflareAPIToken)
    OBVIOUS
  <1>2. PICK r2 \in BOOLEAN : r2 = (providerFromHost(Host(g.uri)) = "r2")
    OBVIOUS
  <1>3. PICK got : got = g.got
    OBVIOUS
  <1>4. DOMAIN got = {AccessKeyID, SecretAccessKey, SessionToken, Region}
                        \cup IF r2 THEN {CloudflareAPIToken} ELSE {}
    BY <1>2, <1>3 DEF Needed
  <1>5. /\ AccessKeyID \in DOMAIN got /\ got[AccessKeyID] = id
        /\ SecretAccessKey \in DOMAIN got /\ got[SecretAccessKey] = given
        /\ CloudflareAPIToken \in DOMAIN got <=> r2
        /\ r2 => got[CloudflareAPIToken] = cf
    <2>1. CloudflareAPIToken \notin {AccessKeyID, SecretAccessKey, SessionToken, Region}
      BY DEF CloudflareAPIToken, AccessKeyID, SecretAccessKey, SessionToken, Region
    <2>2. \A b \in DOMAIN got : got[b] = at(b)
      BY <1>3
    <2> HIDE DEF at
    <2>3. AccessKeyID \in DOMAIN got /\ SecretAccessKey \in DOMAIN got
      BY <1>4
    <2>4. CloudflareAPIToken \in DOMAIN got <=> r2
      BY <1>4, <2>1
    <2> QED
      BY <1>1, <2>2, <2>3, <2>4
  <1>6. PICK secret : secret = Secret(got)
    OBVIOUS
  <1>7. secret = IF given \notin Errors THEN given
                 ELSE IF r2 /\ cf \notin Errors THEN Sha256(cf) ELSE ""
    BY <1>5, <1>6 DEF Secret, Or, Found
  <1>8. Or(got, AccessKeyID, "") = IF id \notin Errors THEN id ELSE ""
    BY <1>5 DEF Or, Found
  <1>9. PICK sig : sig = S3Header(g, g.got)
    OBVIOUS
  <1>10. PICK signer : signer = IF given \notin Errors THEN given ELSE Sha256(cf)
    OBVIOUS
  <1>11. PICK token, region : /\ token = Or(got, SessionToken, "")
                              /\ region = Or(got, Region, FromContext("s3", g.uri, g.config).region)
    OBVIOUS
  <1>12. IF id \notin Errors /\ id # "" /\ (given \notin Errors \/ (r2 /\ cf \notin Errors)) /\ signer # ""
         THEN sig.secret[1] = id /\ sig.secret[2] = signer
         ELSE sig.secret[1] = "credentials of the AWS SDK"
    <2>1. CASE id \notin Errors /\ id # "" /\ (given \notin Errors \/ (r2 /\ cf \notin Errors)) /\ signer # ""
      <3>1. secret = signer
        BY <1>7, <1>10, <2>1
      <3>2. Or(got, AccessKeyID, "") # "" /\ secret # ""
        BY <1>8, <2>1, <3>1
      <3>3. sig.secret = Append(<<id, secret, token>>, region)
        BY <1>3, <1>5, <1>6, <1>9, <1>11, <3>2 DEF S3Header, Signature, Header
      <3>4. sig.secret[1] = id /\ sig.secret[2] = signer
        BY <3>1, <3>3, KeysOfSignature
      <3> QED
        BY <2>1, <3>4
    <2>2. CASE ~(id \notin Errors /\ id # "" /\ (given \notin Errors \/ (r2 /\ cf \notin Errors)) /\ signer # "")
      <3>1. ~(Or(got, AccessKeyID, "") # "" /\ secret # "")
        BY <1>7, <1>8, <1>10, <2>2
      <3>2. PICK sdk : sdk = "credentials of the AWS SDK"
        OBVIOUS
      <3>3. sig.secret = Append(<<sdk>>, region)
        BY <1>3, <1>6, <1>9, <1>11, <3>1, <3>2 DEF S3Header, Signature, Header
      <3>4. sig.secret[1] = sdk
        BY <3>3, KeysOfSignature
      <3> QED
        BY <2>2, <3>2, <3>4
    <2> QED
      BY <2>1, <2>2
  <1>13. h.answer.headers = {sig}
    BY <1>9
  <1>14. /\ id = Lookup(WorldOf(s, h.ring), FromContext("s3", h.uri, h.config).lookup_chain, AccessKeyID)
         /\ given = Lookup(WorldOf(s, h.ring), FromContext("s3", h.uri, h.config).lookup_chain, SecretAccessKey)
         /\ cf = Lookup(WorldOf(s, h.ring), FromContext("s3", h.uri, h.config).lookup_chain, CloudflareAPIToken)
         /\ r2 <=> providerFromHost(Host(h.uri)) = "r2"
    BY <1>1, <1>2
  <1> HIDE DEF chain, at
  <1> QED
    BY <1>10, <1>12, <1>13, <1>14 DEF Signed

-----------------------------------------------------------------------------
(***************************************************************************)
(* The chains that Get uses: the built-in ones and those of a config file. *)
(***************************************************************************)
PlainChain(chain) ==
    /\ DOMAIN chain \subseteq Nat
    /\ \A i \in DOMAIN chain :
          IsEntry(chain[i]) /\ (chain[i].type = "static" => chain[i].name \notin Errors)

BuiltInEntry(e) ==
    /\ e = [source |-> e.source, type |-> e.type, name |-> e.name, binding |-> e.binding]
    /\ e.type \in {"env", "keyring"}

LEMMA BuiltInEntries ==
    \A name, binding : /\ BuiltInEntry(Env(name, binding))
                       /\ BuiltInEntry(Keyring(name, binding))
                       /\ BuiltInEntry(Misdeclared(Keyring(name, binding), "env"))
  BY DEF BuiltInEntry, Env, Keyring, Misdeclared

LEMMA DefaultIsPlain ==
    ASSUME NEW E, \A e \in E : BuiltInEntry(e), NEW entries \in Seq(E)
    PROVE  PlainChain(Default(entries))
  <1>1. PICK n, d : n = Len(entries) /\ d = Default(entries)
    OBVIOUS
  <1>2. n \in Nat /\ DOMAIN entries = 1..n /\ \A i \in 1..n : entries[i] \in E
    BY <1>1
  <1>3. DOMAIN d = 1..n /\ \A i \in 1..n : d[i] = Canonicalize(entries[i])
    BY <1>1, <1>2 DEF Default
  <1>4. ASSUME NEW e \in E, NEW c, c = Canonicalize(e)
        PROVE  c = [source |-> c.source, type |-> c.type, name |-> c.name, binding |-> c.binding]
                 /\ c.type # "static"
    <2>1. BuiltInEntry(e)
      OBVIOUS
    <2> QED
      BY <1>4, <2>1 DEF BuiltInEntry, Canonicalize
  <1>5. \A i \in DOMAIN d : IsEntry(d[i]) /\ d[i].type # "static"
    BY <1>2, <1>3, <1>4 DEF IsEntry
  <1>6. DOMAIN d \subseteq Nat
    BY <1>2, <1>3
  <1>7. PlainChain(d)
    BY <1>5, <1>6 DEF PlainChain
  <1> QED
    BY <1>1, <1>7

\* The built-in chains.
LEMMA BuiltInChains ==
    ASSUME NEW helper \in Helpers, NEW u
    PROVE  /\ "lookup_chain" \in DOMAIN DefaultConfig(helper, u)
           /\ PlainChain(DefaultConfig(helper, u).lookup_chain)
  <1>1. CASE helper = "github"
    <2>1. PICK a, b, c : /\ a = Env("GH_TOKEN", "default") /\ b = Env("GITHUB_TOKEN", "default")
                         /\ c = Keyring("gh:github.com", "default")
      OBVIOUS
    <2>2. PICK E, x : E = {a, b, c} /\ x = <<a, b, c>>
      OBVIOUS
    <2>3. x \in Seq(E)
      BY <2>2
    <2>4. \A e \in E : BuiltInEntry(e)
      BY <2>1, <2>2, BuiltInEntries
    <2>5. PlainChain(Default(x))
      BY <2>3, <2>4, DefaultIsPlain
    <2>6. DefaultConfig(helper, u) = [read_config_file |-> TRUE, lookup_chain |-> Default(x)]
      BY <1>1, <2>1, <2>2 DEF DefaultConfig, GitHubDefault
    <2> QED
      BY <2>5, <2>6
  <1>2. CASE helper = "remoteapis"
    <2>1. PICK a, b : /\ a = Env("BUILDBUDDY_API_KEY", "default")
                      /\ b = Keyring("th:buildbuddy_api_key", "default")
      OBVIOUS
    <2>2. PICK c, d : /\ c = Env("CREDENTIAL_HELPER_REMOTEAPIS_SECRET", "default")
                      /\ d = Keyring("th:remoteapis", "default")
      OBVIOUS
    <2>3. PICK E, x, y : E = {a, b, c, d} /\ x = <<a, b>> /\ y = <<c, d>>
      OBVIOUS
    <2>4. x \in Seq(E) /\ y \in Seq(E)
      BY <2>3
    <2>5. \A e \in E : BuiltInEntry(e)
      BY <2>1, <2>2, <2>3, BuiltInEntries
    <2>6. PlainChain(Default(x)) /\ PlainChain(Default(y))
      BY <2>4, <2>5, DefaultIsPlain
    <2>7. CASE Host(u) = RemoteBuildbuddy \/ HasSuffix(Host(u), Below(Buildbuddy))
      <3>1. DefaultConfig(helper, u) =
                [auth_method |-> "header", header_name |-> "x-buildbuddy-api-key",
                 lookup_chain |-> Default(x)]
        BY <1>2, <2>1, <2>3, <2>7 DEF DefaultConfig, RemoteAPIsDefault, Buildbuddys
      <3> QED
        BY <2>6, <3>1
    <2>8. CASE ~(Host(u) = RemoteBuildbuddy \/ HasSuffix(Host(u), Below(Buildbuddy)))
      <3>1. PICK none : none = ""
        OBVIOUS
      <3>2. DefaultConfig(helper, u) =
                [auth_method |-> "header", header_name |-> none, lookup_chain |-> Default(y)]
        BY <1>2, <2>2, <2>3, <2>8, <3>1 DEF DefaultConfig, RemoteAPIsDefault
      <3> QED
        BY <2>6, <3>2
    <2> QED
      BY <2>7, <2>8
  <1>3. CASE helper = "s3"
    <2>1. PICK a, b, c : /\ a = Keyring("th:aws-access-key-id", AccessKeyID)
                         /\ b = Keyring("th:aws-secret-access-key", SecretAccessKey)
                         /\ c = Keyring("th:aws-default-region", Region)
      OBVIOUS
    <2>2. PICK d, e, f, g : /\ d = Env("R2_ACCESS_KEY_ID", AccessKeyID)
                            /\ e = Env("R2_SECRET_ACCESS_KEY", SecretAccessKey)
                            /\ f = Env("CLOUDFLARE_API_TOKEN", CloudflareAPIToken)
                            /\ g = Misdeclared(Keyring("th:cloudflare-api-token", CloudflareAPIToken), "env")
      OBVIOUS
    <2>3. PICK E, aws, r2 : E = {a, b, c, d, e, f, g} /\ aws = <<a, b, c>> /\ r2 = <<d, e, f, g>>
      OBVIOUS
    <2>4. aws \in Seq(E) /\ r2 \in Seq(E)
      BY <2>3
    <2>5. PICK all : all = r2 \o aws
      OBVIOUS
    <2>6. all \in Seq(E)
      BY <2>4, <2>5, ConcatProperties
    <2>7. \A x \in E : BuiltInEntry(x)
      BY <2>1, <2>2, <2>3, BuiltInEntries
    <2>8. PlainChain(Default(all)) /\ PlainChain(Default(aws))
      BY <2>4, <2>6, <2>7, DefaultIsPlain
    <2>9. DefaultConfig(helper, u) =
              [region |-> regionFromHost(Host(u)),
               lookup_chain |-> Default(IF providerFromHost(Host(u)) = "r2" THEN all ELSE aws)]
      BY <1>3, <2>1, <2>2, <2>3, <2>5 DEF DefaultConfig, S3Default
    <2> QED
      BY <2>8, <2>9
  <1>4. CASE helper \notin {"github", "remoteapis", "s3"}
    <2>1. DefaultConfig(helper, u) = [lookup_chain |-> <<>>]
      BY <1>4 DEF DefaultConfig
    <2>2. PlainChain(<<>>)
      BY DEF PlainChain
    <2> QED
      BY <2>1, <2>2
  <1> QED
    BY <1>1, <1>2, <1>3, <1>4

\* The chain of a config file comes from one of its rules.
LEMMA ConfiguredChain ==
    ASSUME NEW s \in Setups, NEW u \in s.uris, Choice(s, u) # Fatal,
           "lookup_chain" \in DOMAIN Choice(s, u).config
    PROVE  PlainChain(Choice(s, u).config.lookup_chain)
  <1>1. s.file = "rules" /\ Choice(s, u) = FindHelper(s.rules, u)
    <2>1. s.file \in {"absent", "unreadable", "rules"}
      BY InputAssumption
    <2>2. s.file # "unreadable"
      BY DEF Choice, Configure
    <2>3. s.file # "absent"
      <3>1. s.file = "absent" => Choice(s, u).config = NoConfig
        BY DEF Choice, Configure, Chosen
      <3>2. DOMAIN NoConfig = {}
        BY DEF NoConfig
      <3> QED
        BY <3>1, <3>2
    <2> QED
      BY <2>1, <2>2, <2>3 DEF Choice, Configure
  <1>2. PICK rules, choice : rules = s.rules /\ choice = Choice(s, u)
    OBVIOUS
  <1>3. PICK stops : stops = {i \in DOMAIN rules : rules[i].helper = "" \/ RuleMatches(rules[i], u)}
    OBVIOUS
  <1>4. PICK first : first = CHOOSE i \in stops : \A j \in stops : i <= j
    OBVIOUS
  <1>5. stops # {} /\ choice = Chosen(rules[first].helper, rules[first].config)
    <2>1. choice = IF rules = <<>> THEN Fatal
                   ELSE IF stops = {} THEN Chosen("null", NoConfig)
                   ELSE IF rules[first].helper = "" \/ HelperFromString(rules[first].helper) = "nil" THEN Fatal
                   ELSE Chosen(rules[first].helper, rules[first].config)
      BY <1>1, <1>2, <1>3, <1>4 DEF FindHelper
    <2>2. choice # Fatal
      BY <1>2
    <2>3. choice # Chosen("null", NoConfig)
      <3>1. Chosen("null", NoConfig).config = NoConfig /\ DOMAIN NoConfig = {}
        BY DEF Chosen, NoConfig
      <3> QED
        BY <1>2, <3>1
    <2> QED
      BY <2>1, <2>2, <2>3
  <1>6. first \in DOMAIN rules
    <2>1. DOMAIN rules \subseteq Nat
      <3>1. PICK R : R = {rules[i] : i \in DOMAIN rules}
        OBVIOUS
      <3>2. rules \in Seq(R)
        BY <1>2, <3>1, InputAssumption
      <3>3. DOMAIN rules = 1..Len(rules) /\ Len(rules) \in Nat
        BY <3>2
      <3> QED
        BY <3>3
    <2>2. stops \subseteq Nat /\ stops \subseteq DOMAIN rules
      BY <1>3, <2>1
    <2>3. \E i \in stops : \A j \in stops : i <= j
      BY <1>5, <2>2, FirstExists
    <2> QED
      BY <1>4, <2>2, <2>3
  <1>7. choice.config = rules[first].config
    BY <1>5 DEF Chosen
  <1>8. PICK chain : chain = choice.config.lookup_chain
    OBVIOUS
  <1>9. /\ Len(chain) \in Nat /\ DOMAIN chain = 1..Len(chain)
        /\ \A j \in DOMAIN chain :
              IsEntry(chain[j]) /\ (chain[j].type = "static" => chain[j].name \notin Errors)
    <2>1. "lookup_chain" \in DOMAIN s.rules[first].config
      BY <1>2, <1>7
    <2>2. chain = s.rules[first].config.lookup_chain
      BY <1>2, <1>7, <1>8
    <2> QED
      BY <1>2, <1>6, <2>1, <2>2, InputAssumption
  <1>10. PlainChain(chain)
    BY <1>9 DEF PlainChain
  <1> QED
    BY <1>2, <1>8, <1>10

\* The chain of a Get, whatever its origin.
LEMMA ChainIsPlain ==
    ASSUME NEW s \in Setups, NEW g, Asked(g, s)
    PROVE  PlainChain(ChainOf(g))
  <1>1. PICK helper, u, fragment : helper = g.helper /\ u = g.uri /\ fragment = g.config
    OBVIOUS
  <1>2. u \in s.uris /\ Choice(s, u) # Fatal /\ helper = Choice(s, u).helper /\ fragment = Choice(s, u).config
    BY <1>1 DEF Asked
  <1>3. helper \in Helpers
    BY <1>2, InputAssumption
  <1>4. PICK default : default = DefaultConfig(helper, u)
    OBVIOUS
  <1>5. "lookup_chain" \in DOMAIN default /\ PlainChain(default.lookup_chain)
    BY <1>3, <1>4, BuiltInChains
  <1>6. ChainOf(g) = IF "lookup_chain" \in DOMAIN fragment THEN fragment.lookup_chain
                     ELSE default.lookup_chain
    BY <1>1, <1>4, <1>5 DEF ChainOf, FromContext, Overlay
  <1>7. "lookup_chain" \in DOMAIN fragment => PlainChain(fragment.lookup_chain)
    BY <1>2, ConfiguredChain
  <1> QED
    BY <1>5, <1>6, <1>7

\* What setup-uri tells about the chain of a Get.
LEMMA ChainIsTold ==
    ASSUME NEW s \in Setups, NEW g, Asked(g, s), NEW ring,
           \A x \in DOMAIN ring : ring[x] \in Secrets,
           NEW world, world = WorldOf(s, ring), NEW chain, chain = ChainOf(g), NEW binding,
           \A i \in DOMAIN chain : Decodes(chain[i]) /\ chain[i].type # "google"
    PROVE  /\ "SET" \in SetupInstructions(world, chain, binding)
                 <=> Lookup(world, chain, binding) \notin Errors
           /\ "ERROR ACCESSING KEYCHAIN" \in SetupInstructions(world, chain, binding) =>
                 Lookup(world, chain, binding) # NotFound
  <1>1. PlainChain(chain)
    BY ChainIsPlain
  <1>2. \A i \in DOMAIN chain : PlainSource(chain[i])
    BY <1>1 DEF PlainChain, PlainSource
  <1>3. PlainWorld(world)
    <2>1. world.env = s.env /\ world.keyring = ring
      BY DEF WorldOf
    <2>2. \A var \in DOMAIN s.env : s.env[var] \notin Errors
      BY InputAssumption
    <2>3. \A x \in DOMAIN ring : ring[x] \notin Errors
      BY InputAssumption
    <2> QED
      BY <2>1, <2>2, <2>3 DEF PlainWorld
  <1>4. DOMAIN chain \subseteq Nat
    BY <1>1 DEF PlainChain
  <1> QED
    BY <1>2, <1>3, <1>4, ChainTruth

-----------------------------------------------------------------------------
(***************************************************************************)
(* The built-in choice of a helper.                                        *)
(***************************************************************************)
LEMMA FallbackFacts ==
    ASSUME NEW u, NEW helper, helper = FallbackHelperFactory(u, FALSE)
    PROVE  /\ helper = "gcs" => EqualFold(Hostname(u), StorageGoogleapis)
           /\ helper = "github" => \/ EqualFold(Hostname(u), GitHubCom)
                                   \/ HasSuffix(ToLower(Host(u)), Below(GitHubCom))
                                   \/ EqualFold(Hostname(u), RawGitHub)
           /\ helper = "gar" => HasSuffix(Hostname(u), PkgDev)
           /\ helper = "azstorage" => HasSuffix(Hostname(u), BlobWindows)
  BY DEF FallbackHelperFactory

\* No symbol of Google's storage host is a capital.
LEMMA StorageIsLower == ToLower(StorageGoogleapis) = StorageGoogleapis
  <1>1. PICK R : R = {"storage", "googleapis", ".", "com"}
    OBVIOUS
  <1>2. PICK a, b, x : a = <<"storage", ".">> /\ b = <<"googleapis", ".", "com">> /\ x = a \o b
    OBVIOUS
  <1>3. a \in Seq(R) /\ b \in Seq(R)
    BY <1>1, <1>2
  <1>4. x \in Seq(R)
    BY <1>2, <1>3, ConcatProperties
  <1>5. PICK n : n = Len(x) /\ n \in Nat
    BY <1>4
  <1>6. DOMAIN x = 1..n /\ \A i \in 1..n : x[i] \in R
    BY <1>4, <1>5
  <1>7. \A i \in 1..n : Lower(x[i]) = x[i]
    BY <1>1, <1>6, LowerFacts
  <1>8. ToLower(x) = [i \in 1..n |-> x[i]]
    BY <1>6, <1>7 DEF ToLower
  <1>9. ToLower(x) = x
    BY <1>4, <1>5, <1>6, <1>8
  <1>10. x = StorageGoogleapis
    BY <1>2 DEF StorageGoogleapis, Com
  <1> QED
    BY <1>9, <1>10

\* What Get of the built-in choice takes on, and what it refuses.
LEMMA FallbackDisagrees ==
    ASSUME NEW u \in URIs, NEW helper \in Helpers, helper = FallbackHelperFactory(u, FALSE)
    PROVE  /\ Verdict(helper, u) = "unsupported" => Disagreement(helper, u)
           /\ Verdict(helper, u) = "go" => ~Disagreement(helper, u)
  <1>1. Hostname(u) = u.host
    BY DEF Hostname
  <1>2. CASE helper = "github"
    <2>1. Disagreement(helper, u) <=> u.scheme # "https" \/ u.port # ""
      BY <1>2 DEF Disagreement
    <2>2. u.port = "" => Host(u) = Hostname(u)
      BY DEF Host, Hostname
    <2>3. (u.scheme = "https" /\ u.port = "") => GitHubSupports(u)
      BY <1>2, <2>2, FallbackFacts DEF GitHubSupports
    <2>4. GitHubSupports(u) => u.scheme = "https" /\ u.port = ""
      BY GitHubHasNoPort DEF GitHubSupports
    <2> QED
      BY <1>2, <2>1, <2>3, <2>4 DEF Verdict
  <1>3. CASE helper = "gcs"
    <2>1. GCSSupports(u) <=> ~Disagreement(helper, u)
      BY <1>1, <1>3 DEF GCSSupports, Disagreement
    <2> QED
      BY <1>3, <2>1 DEF Verdict
  <1>4. CASE helper = "gar"
    <2>1. GARSupports(u) <=> ~Disagreement(helper, u)
      BY <1>4, FallbackFacts DEF GARSupports, Disagreement
    <2> QED
      BY <1>4, <2>1 DEF Verdict
  <1>5. CASE helper = "azstorage"
    <2>1. AzStorageSupports(u) <=> ~Disagreement(helper, u)
      BY <1>5, FallbackFacts DEF AzStorageSupports, Disagreement
    <2> QED
      BY <1>5, <2>1 DEF Verdict
  <1>6. CASE helper = "remoteapis"
    <2>1. RemoteAPIsSupports(u) <=> ~Disagreement(helper, u)
      BY <1>6 DEF RemoteAPIsSupports, Disagreement
    <2> QED
      BY <1>6, <2>1 DEF Verdict
  <1>7. CASE helper = "s3"
    <2>1. u.scheme = "https" <=> ~Disagreement(helper, u)
      BY <1>7 DEF Disagreement
    <2> QED
      BY <1>7, <2>1 DEF Verdict
  <1>8. CASE helper = "null"
    BY <1>8 DEF Verdict
  <1> QED
    BY <1>2, <1>3, <1>4, <1>5, <1>6, <1>7, <1>8 DEF Helpers

-----------------------------------------------------------------------------
(***************************************************************************)
(* CredentialsInv is inductive.                                            *)
(***************************************************************************)
LEMMA CredentialsInit == Init => CredentialsInv
  <1> SUFFICES ASSUME Init PROVE CredentialsInv
    OBVIOUS
  <1>1. setup \in Setups /\ changes \in 0..MaxChanges /\ now \in 0..MaxTime
    BY BoundsAssumption DEF Init
  <1>2. DOMAIN keyring \subseteq setup.services /\ \A s \in DOMAIN keyring : keyring[s] \in Secrets
    BY DEF Init, NoConfig
  <1>3. cache = [k \in Keys |-> cache[k]] /\ \A k \in Keys : EntryInv(cache[k], k, setup)
    BY DEF Init, EmptyCache, EntryInv
  <1>4. get = [c \in Getters |-> get[c]] /\ \A c \in Getters : GetInv(get[c], setup, keyring, changes)
    BY DEF Init, Idle, GetInv
  <1> QED
    BY <1>1, <1>2, <1>3, <1>4 DEF CredentialsInv

\* A step of one process that changes nothing else.
LEMMA OneProcess ==
    ASSUME CredentialsInv, NEW c \in Getters, NEW h, get' = [get EXCEPT ![c] = h],
           GetInv(h, setup, keyring, changes), UNCHANGED <<setup, keyring, changes, now, cache>>
    PROVE  CredentialsInv'
  <1>1. get = [d \in Getters |-> get[d]] /\ \A d \in Getters : GetInv(get[d], setup, keyring, changes)
    BY DEF CredentialsInv
  <1>2. \A d \in Getters : get'[d] = IF d = c THEN h ELSE get[d]
    BY <1>1
  <1>3. get' = [d \in Getters |-> get'[d]]
    BY <1>1
  <1>4. \A d \in Getters : GetInv(get'[d], setup, keyring, changes)
    BY <1>1, <1>2
  <1>5. \A d \in Getters : GetInv(get'[d], setup', keyring', changes')
    BY <1>4
  <1>6. /\ setup' \in Setups
        /\ DOMAIN keyring' \subseteq setup'.services
        /\ \A s \in DOMAIN keyring' : keyring'[s] \in Secrets
        /\ changes' \in 0..MaxChanges
        /\ now' \in 0..MaxTime
        /\ cache' = [k \in Keys |-> cache'[k]]
        /\ \A k \in Keys : EntryInv(cache'[k], k, setup')
    BY DEF CredentialsInv
  <1> QED
    BY <1>3, <1>5, <1>6 DEF CredentialsInv

\* Another process's work survives a change of the keyring.
LEMMA RingChanges ==
    ASSUME NEW g, NEW s, NEW ring, NEW new, NEW n \in Nat, GetInv(g, s, ring, n)
    PROVE  GetInv(g, s, new, n + 1)
  <1>1. CASE g.pc = "looking" /\ LookingInv(g, s, ring, n)
    <2>1. g.since \in Nat /\ g.since <= n
      BY <1>1 DEF LookingInv
    <2>2. g.since <= n + 1 /\ g.since # n + 1
      BY <2>1
    <2>3. LookingInv(g, s, new, n + 1)
      BY <1>1, <2>1, <2>2 DEF LookingInv
    <2> QED
      BY <1>1, <2>3 DEF GetInv
  <1>2. CASE ~(g.pc = "looking" /\ LookingInv(g, s, ring, n))
    BY <1>2 DEF GetInv
  <1> QED
    BY <1>1, <1>2

LEMMA ChosenHelper ==
    ASSUME NEW s \in Setups, NEW u \in s.uris, Choice(s, u) # Fatal
    PROVE  Choice(s, u).helper \in Helpers /\ u \in URIs
  BY InputAssumption

\* A cached answer suits the request that gets it.
LEMMA HitSuits ==
    ASSUME NEW s \in Setups, s \notin Colliding, NEW u \in s.uris, NEW choice,
           choice = Choice(s, u), choice # Fatal, NEW k, k = CacheKey(choice.helper, u), k \in Keys,
           NEW entry, entry # Absent, EntryInv(entry, k, s), NEW header \in entry.headers
    PROVE  Suits(u, choice.helper, header)
  <1>1. PICK v \in s.uris : /\ Choice(s, v) # Fatal
                            /\ k = CacheKey(Choice(s, v).helper, v)
                            /\ Made(entry, Choice(s, v).helper, v)
    BY DEF EntryInv
  <1>2. k # NoKey
    BY NoKeyAssumption
  <1>3. Choice(s, v).helper = choice.helper
    BY <1>1, <1>2 DEF Colliding
  <1>4. PICK helper : helper = choice.helper
    OBVIOUS
  <1>5. helper \in Helpers /\ u \in URIs /\ v \in URIs
    BY <1>1, <1>4, ChosenHelper
  <1>6. Verdict(helper, v) = "go" /\ Suits(v, helper, header)
    BY <1>1, <1>3, <1>4 DEF Made
  <1>7. CacheKey(helper, v) = CacheKey(helper, u)
    BY <1>1, <1>3, <1>4
  <1>8. Suits(u, helper, header)
    BY <1>5, <1>6, <1>7, SuitsShared
  <1> QED
    BY <1>4, <1>8

LEMMA StartStep ==
    ASSUME CredentialsInv, NEW c \in Getters, NEW u \in setup.uris, Start(c, u)
    PROVE  CredentialsInv'
  <1>1. UNCHANGED <<setup, keyring, changes, now, cache>>
    BY DEF Start
  <1>2. PICK choice : choice = Choice(setup, u)
    OBVIOUS
  <1>3. PICK helper, config : helper = choice.helper /\ config = choice.config
    OBVIOUS
  <1>4. PICK k, hit : k = CacheKey(helper, u) /\ hit = Retrieve(cache, k)
    OBVIOUS
  <1>5. setup \in Setups /\ changes \in Nat
    BY BoundsAssumption DEF CredentialsInv
  <1>6. SUFFICES \E h : get' = [get EXCEPT ![c] = h] /\ GetInv(h, setup, keyring, changes)
    BY <1>1, OneProcess
  <1>7. ASSUME NEW why, why # "unsupported", Fail(c, u, choice, why)
        PROVE  \E h : get' = [get EXCEPT ![c] = h] /\ GetInv(h, setup, keyring, changes)
    <2>1. PICK h : h = [pc |-> "failed", uri |-> u, helper |-> choice.helper, why |-> why]
      OBVIOUS
    <2>2. get' = [get EXCEPT ![c] = h]
      BY <1>7, <2>1 DEF Fail
    <2>3. h.pc = "failed" /\ h.why # "unsupported"
      BY <1>7, <2>1
    <2>4. GetInv(h, setup, keyring, changes)
      BY <2>3 DEF GetInv, FailedInv
    <2> QED
      BY <2>2, <2>4
  <1>8. CASE choice = Fatal
    <2>1. Fail(c, u, choice, "config")
      BY <1>2, <1>8 DEF Start
    <2> QED
      BY <1>7, <2>1
  <1>9. CASE choice # Fatal /\ hit # Absent
    <2>1. Respond(c, "done", u, choice, "cache", hit)
      BY <1>2, <1>3, <1>4, <1>9 DEF Start
    <2>2. PICK h : h = [pc |-> "done", uri |-> u, helper |-> helper, config |-> config,
                        origin |-> "cache", answer |-> hit]
      OBVIOUS
    <2>3. get' = [get EXCEPT ![c] = h]
      BY <1>3, <2>1, <2>2 DEF Respond
    <2>4. /\ h.pc = "done" /\ h.uri = u /\ h.helper = helper /\ h.config = config
          /\ h.origin = "cache" /\ h.answer = hit
          /\ {"pc", "uri", "helper", "config", "origin", "answer"} \subseteq DOMAIN h
      BY <2>2
    <2>5. Asked(h, setup)
      BY <1>2, <1>3, <1>9, <2>4 DEF Asked
    <2>6. k \in Keys /\ hit = cache[k]
      BY <1>4, <1>9 DEF Retrieve
    <2>7. EntryInv(hit, k, setup)
      BY <2>6 DEF CredentialsInv
    <2>8. setup \notin Colliding => \A header \in hit.headers : Suits(u, helper, header)
      BY <1>2, <1>3, <1>4, <1>5, <1>9, <2>6, <2>7, HitSuits
    <2>9. AnsweredInv(h, setup)
      BY <2>4, <2>5, <2>8 DEF AnsweredInv
    <2>10. GetInv(h, setup, keyring, changes)
      BY <2>4, <2>9 DEF GetInv
    <2> QED
      BY <2>3, <2>10
  <1>10. CASE choice # Fatal /\ hit = Absent /\ Verdict(helper, u) = "empty"
    <2>1. Respond(c, "printed", u, choice, "empty", EmptyAnswer)
      BY <1>2, <1>3, <1>4, <1>10 DEF Start
    <2>2. PICK h : h = [pc |-> "printed", uri |-> u, helper |-> helper, config |-> config,
                        origin |-> "empty", answer |-> EmptyAnswer]
      OBVIOUS
    <2>3. get' = [get EXCEPT ![c] = h]
      BY <1>3, <2>1, <2>2 DEF Respond
    <2>4. /\ h.pc = "printed" /\ h.uri = u /\ h.helper = helper /\ h.config = config
          /\ h.origin = "empty" /\ h.answer = EmptyAnswer
          /\ {"pc", "uri", "helper", "config", "origin", "answer"} \subseteq DOMAIN h
      BY <2>2
    <2>5. Asked(h, setup)
      BY <1>2, <1>3, <1>10, <2>4 DEF Asked
    <2>6. EmptyAnswer.expires = NoExpiry /\ EmptyAnswer.headers = {}
      BY DEF EmptyAnswer
    <2>7. Made(EmptyAnswer, helper, u)
      BY <2>6 DEF Made
    <2>8. AnsweredInv(h, setup)
      BY <2>4, <2>5, <2>6, <2>7 DEF AnsweredInv
    <2>9. GetInv(h, setup, keyring, changes)
      BY <2>4, <2>8 DEF GetInv
    <2> QED
      BY <2>3, <2>9
  <1>11. CASE choice # Fatal /\ hit = Absent /\ Verdict(helper, u) = "unsupported"
    <2>1. Fail(c, u, choice, "unsupported")
      BY <1>2, <1>3, <1>4, <1>11 DEF Start
    <2>2. PICK h : h = [pc |-> "failed", uri |-> u, helper |-> helper, why |-> "unsupported"]
      OBVIOUS
    <2>3. get' = [get EXCEPT ![c] = h]
      BY <1>3, <2>1, <2>2 DEF Fail
    <2>4. h.pc = "failed" /\ h.uri = u /\ h.helper = helper
      BY <2>2
    <2>5. FailedInv(h, setup)
      BY <1>2, <1>3, <1>11, <2>4 DEF FailedInv
    <2>6. GetInv(h, setup, keyring, changes)
      BY <2>4, <2>5 DEF GetInv
    <2> QED
      BY <2>3, <2>6
  <1>12. CASE choice # Fatal /\ hit = Absent /\ Verdict(helper, u) = "go"
    <2>1. CASE ~FragmentFits(helper, u, config)
      <3>1. Fail(c, u, choice, "config")
        BY <1>2, <1>3, <1>4, <1>12, <2>1 DEF Start
      <3> QED
        BY <1>7, <3>1
    <2>2. CASE FragmentFits(helper, u, config)
      <3>1. PICK todo : todo = BindingsOf(helper, u)
        OBVIOUS
      <3>2. PICK h : h = [pc |-> "looking", uri |-> u, helper |-> helper, config |-> config,
                          todo |-> todo, got |-> NoConfig, ring |-> keyring, since |-> changes]
        OBVIOUS
      <3>3. get' = [get EXCEPT ![c] = h]
        BY <1>2, <1>3, <1>4, <1>12, <2>2, <3>1, <3>2 DEF Start
      <3>4. /\ h.pc = "looking" /\ h.uri = u /\ h.helper = helper /\ h.config = config
            /\ h.todo = todo /\ h.got = NoConfig /\ h.ring = keyring /\ h.since = changes
        BY <3>2
      <3>5. h = [pc |-> "looking", uri |-> h.uri, helper |-> h.helper, config |-> h.config,
                 todo |-> h.todo, got |-> h.got, ring |-> h.ring, since |-> h.since]
        BY <3>2, <3>4
      <3>6. Asked(h, setup)
        BY <1>2, <1>3, <1>12, <3>4 DEF Asked
      <3>7. helper \in Helpers
        BY <1>2, <1>3, <1>5, <1>12, ChosenHelper
      <3>8. /\ todo \in Seq(Needed(helper, u))
            /\ \A b \in Needed(helper, u) : \E i \in DOMAIN todo : todo[i] = b
        BY <3>1, <3>7, BindingsFacts
      <3>9. DOMAIN h.got = {}
        BY <3>4 DEF NoConfig
      <3>10. LookingInv(h, setup, keyring, changes)
        BY <1>5, <1>12, <3>4, <3>5, <3>6, <3>8, <3>9 DEF LookingInv
      <3>11. GetInv(h, setup, keyring, changes)
        BY <3>4, <3>10 DEF GetInv
      <3> QED
        BY <3>3, <3>11
    <2> QED
      BY <2>1, <2>2
  <1>13. Verdict(helper, u) \in {"empty", "unsupported", "go"}
    BY DEF Verdict
  <1> QED
    BY <1>8, <1>9, <1>10, <1>11, <1>12, <1>13

\* The state of a process that is looking up.
LEMMA Looking ==
    ASSUME CredentialsInv, NEW c \in Getters, get[c].pc = "looking"
    PROVE  /\ LookingInv(get[c], setup, keyring, changes)
           /\ setup \in Setups /\ get[c].uri \in URIs /\ get[c].helper \in Helpers
  <1>1. LookingInv(get[c], setup, keyring, changes)
    BY DEF CredentialsInv, GetInv
  <1>2. setup \in Setups
    BY DEF CredentialsInv
  <1>3. Asked(get[c], setup)
    BY <1>1 DEF LookingInv
  <1>4. get[c].uri \in URIs /\ get[c].helper \in Helpers
    BY <1>2, <1>3, ChosenHelper DEF Asked
  <1> QED
    BY <1>1, <1>2, <1>4

LEMMA LookUpStep ==
    ASSUME CredentialsInv, NEW c \in Getters, LookUp(c)
    PROVE  CredentialsInv'
  <1>1. PICK g : g = get[c]
    OBVIOUS
  <1>2. g.pc = "looking" /\ g.todo # <<>> /\ UNCHANGED <<setup, keyring, changes, now, cache>>
    BY <1>1 DEF LookUp
  <1>3. PICK N : N = Needed(g.helper, g.uri)
    OBVIOUS
  <1>4. LookingInv(g, setup, keyring, changes)
    BY <1>1, <1>2, Looking
  <1>5. PICK todo, got : todo = g.todo /\ got = g.got
    OBVIOUS
  <1>6. /\ todo \in Seq(N) /\ todo # <<>> /\ DOMAIN got \subseteq N
        /\ \A b \in N : b \in DOMAIN got \/ \E i \in DOMAIN todo : todo[i] = b
    BY <1>2, <1>3, <1>4, <1>5 DEF LookingInv
  <1>7. PICK b, rest : b = Head(todo) /\ rest = Tail(todo)
    OBVIOUS
  <1>8. b \in N /\ rest \in Seq(N) /\ \A x \in N : x = b \/ x \in DOMAIN got \/ \E i \in DOMAIN rest : rest[i] = x
    <2>1. b \in N /\ rest \in Seq(N) /\ b = todo[1]
      BY <1>6, <1>7
    <2>2. PICK n : n = Len(todo) /\ n \in Nat
      BY <1>6
    <2>3. DOMAIN todo = 1..n /\ n # 0
      BY <1>6, <2>2
    <2>4. DOMAIN rest = 1..n - 1 /\ \A i \in 1..n - 1 : rest[i] = todo[i + 1]
      <3>1. todo \in Seq(N) /\ todo # <<>>
        BY <1>6
      <3>2. Len(rest) = n - 1 /\ \A i \in 1..n - 1 : rest[i] = todo[i + 1]
        BY <1>7, <2>2, <3>1, HeadTailProperties
      <3>3. DOMAIN rest = 1..Len(rest)
        BY <2>1
      <3> QED
        BY <3>2, <3>3
    <2>5. ASSUME NEW x \in N, x # b, x \notin DOMAIN got
          PROVE  \E i \in DOMAIN rest : rest[i] = x
      <3>1. PICK i \in 1..n : todo[i] = x
        BY <1>6, <2>3, <2>5
      <3>2. i # 1
        BY <2>1, <2>5, <3>1
      <3>3. PICK j : j = i - 1
        OBVIOUS
      <3>4. j \in 1..n - 1 /\ j + 1 = i
        BY <2>2, <3>2, <3>3
      <3> QED
        BY <2>4, <3>1, <3>4
    <2> QED
      BY <2>1, <2>5
  <1>9. PICK chain, result : chain = ChainOf(g) /\ result = Lookup(WorldOf(setup, keyring), chain, b)
    OBVIOUS
  <1>10. PICK more : more = With(got, b, result)
    OBVIOUS
  <1>11. /\ DOMAIN more = DOMAIN got \cup {b}
         /\ \A x \in DOMAIN more : more[x] = IF x = b THEN result ELSE got[x]
    BY <1>10 DEF With
  <1>12. PICK f : f = [g EXCEPT !.todo = rest]
    OBVIOUS
  <1>13. PICK h : h = [f EXCEPT !.got = more]
    OBVIOUS
  <1>14. g = [pc |-> "looking", uri |-> g.uri, helper |-> g.helper, config |-> g.config,
              todo |-> g.todo, got |-> g.got, ring |-> g.ring, since |-> g.since]
    BY <1>4 DEF LookingInv
  <1>15. f = [pc |-> "looking", uri |-> g.uri, helper |-> g.helper, config |-> g.config,
              todo |-> rest, got |-> g.got, ring |-> g.ring, since |-> g.since]
    BY <1>12, <1>14
  <1>16. h = [pc |-> "looking", uri |-> g.uri, helper |-> g.helper, config |-> g.config,
              todo |-> rest, got |-> more, ring |-> g.ring, since |-> g.since]
    BY <1>13, <1>15
  <1>17. get' = [get EXCEPT ![c] = h]
    <2>1. get = [d \in Getters |-> get[d]]
      BY DEF CredentialsInv
    <2>2. World(keyring) = WorldOf(setup, keyring)
      BY DEF World, WorldOf
    <2>3. result = Lookup(World(keyring), FromContext(g.helper, g.uri, g.config).lookup_chain, Head(g.todo))
      BY <1>5, <1>7, <1>9, <2>2 DEF ChainOf
    <2>4. get' = [get EXCEPT ![c].todo = Tail(@), ![c].got = With(@, Head(g.todo), result)]
      BY <1>1, <2>3 DEF LookUp
    <2>5. PICK mid : mid = [get EXCEPT ![c] = f]
      OBVIOUS
    <2>6. mid = [get EXCEPT ![c].todo = Tail(@)]
      BY <1>1, <1>5, <1>7, <1>12, <2>1, <2>5
    <2>7. get' = [mid EXCEPT ![c].got = With(@, Head(g.todo), result)]
      BY <2>4, <2>6
    <2>8. mid = [d \in Getters |-> IF d = c THEN f ELSE get[d]]
      BY <2>1, <2>5
    <2>9. f.got = got
      BY <1>5, <1>15
    <2>10. get' = [d \in Getters |-> IF d = c THEN h ELSE get[d]]
      BY <1>5, <1>7, <1>10, <1>13, <2>7, <2>8, <2>9
    <2> QED
      BY <2>1, <2>10
  <1>18. /\ h.pc = "looking" /\ h.uri = g.uri /\ h.helper = g.helper /\ h.config = g.config
         /\ h.todo = rest /\ h.got = more /\ h.ring = g.ring /\ h.since = g.since
    BY <1>16
  <1>19. h = [pc |-> "looking", uri |-> h.uri, helper |-> h.helper, config |-> h.config,
              todo |-> h.todo, got |-> h.got, ring |-> h.ring, since |-> h.since]
    BY <1>16, <1>18
  <1>20. Asked(h, setup) /\ Verdict(h.helper, h.uri) = "go"
    BY <1>4, <1>18 DEF LookingInv, Asked
  <1>21. Needed(h.helper, h.uri) = N /\ ChainOf(h) = chain
    BY <1>3, <1>9, <1>18 DEF ChainOf
  <1>22. /\ h.todo \in Seq(N) /\ DOMAIN h.got \subseteq N
         /\ \A x \in N : x \in DOMAIN h.got \/ \E i \in DOMAIN h.todo : h.todo[i] = x
    BY <1>6, <1>8, <1>11, <1>18
  <1>23. /\ h.since \in Nat /\ h.since <= changes
         /\ h.since = changes =>
               /\ h.ring = keyring
               /\ \A x \in DOMAIN h.got : h.got[x] = Lookup(WorldOf(setup, keyring), chain, x)
    <2>1. /\ g.since \in Nat /\ g.since <= changes
          /\ g.since = changes =>
                /\ g.ring = keyring
                /\ \A x \in DOMAIN got : got[x] = Lookup(WorldOf(setup, keyring), chain, x)
      BY <1>4, <1>5, <1>9 DEF LookingInv
    <2> QED
      BY <1>9, <1>11, <1>18, <2>1
  <1>24. LookingInv(h, setup, keyring, changes)
    BY <1>19, <1>20, <1>21, <1>22, <1>23 DEF LookingInv
  <1>25. GetInv(h, setup, keyring, changes)
    BY <1>18, <1>24 DEF GetInv
  <1> QED
    BY <1>2, <1>17, <1>25, OneProcess

\* A process that fails or prints what its helper has made.
LEMMA FailStep ==
    ASSUME CredentialsInv, NEW c \in Getters, NEW u, NEW choice, Fail(c, u, choice, "secret"),
           UNCHANGED <<setup, keyring, changes, now, cache>>
    PROVE  CredentialsInv'
  <1>1. PICK h : h = [pc |-> "failed", uri |-> u, helper |-> choice.helper, why |-> "secret"]
    OBVIOUS
  <1>2. get' = [get EXCEPT ![c] = h]
    BY <1>1 DEF Fail
  <1>3. h.pc = "failed" /\ h.why # "unsupported"
    BY <1>1
  <1>4. GetInv(h, setup, keyring, changes)
    BY <1>3 DEF GetInv, FailedInv
  <1> QED
    BY <1>2, <1>4, OneProcess

LEMMA PrintStep ==
    ASSUME CredentialsInv, NEW c \in Getters, NEW h, get' = [get EXCEPT ![c] = h],
           {"pc", "uri", "helper", "config", "origin", "answer"} \subseteq DOMAIN h,
           h.pc = "printed", Asked(h, setup), Made(h.answer, h.helper, h.uri),
           h.origin = "undisturbed" => "ring" \in DOMAIN h /\ Signed(h, setup),
           UNCHANGED <<setup, keyring, changes, now, cache>>
    PROVE  CredentialsInv'
  <1>1. \A header \in h.answer.headers : Suits(h.uri, h.helper, header)
    BY DEF Made
  <1>2. AnsweredInv(h, setup)
    BY <1>1 DEF AnsweredInv
  <1>3. GetInv(h, setup, keyring, changes)
    BY <1>2 DEF GetInv
  <1> QED
    BY <1>3, OneProcess

LEMMA FreshStep ==
    ASSUME CredentialsInv, NEW c \in Getters, get[c].pc = "looking", NEW answer,
           Respond(c, "printed", get[c].uri, get[c], "fresh", answer),
           Made(answer, get[c].helper, get[c].uri),
           UNCHANGED <<setup, keyring, changes, now, cache>>
    PROVE  CredentialsInv'
  <1>1. PICK g : g = get[c]
    OBVIOUS
  <1>2. Asked(g, setup)
    BY <1>1, Looking DEF LookingInv
  <1>3. PICK h : h = [pc |-> "printed", uri |-> g.uri, helper |-> g.helper, config |-> g.config,
                      origin |-> "fresh", answer |-> answer]
    OBVIOUS
  <1>4. get' = [get EXCEPT ![c] = h]
    BY <1>1, <1>3 DEF Respond
  <1>5. /\ h.pc = "printed" /\ h.uri = g.uri /\ h.helper = g.helper /\ h.config = g.config
        /\ h.origin = "fresh" /\ h.answer = answer
        /\ {"pc", "uri", "helper", "config", "origin", "answer"} \subseteq DOMAIN h
    BY <1>3
  <1>6. Asked(h, setup)
    BY <1>2, <1>5 DEF Asked
  <1>7. Made(h.answer, h.helper, h.uri)
    BY <1>1, <1>5
  <1> QED
    BY <1>4, <1>5, <1>6, <1>7, PrintStep

LEMMA FinishS3Step ==
    ASSUME CredentialsInv, NEW c \in Getters, get[c].pc = "looking", get[c].todo = <<>>,
           get[c].helper = "s3", FinishS3(c), UNCHANGED <<setup, keyring, changes, now, cache>>
    PROVE  CredentialsInv'
  <1>1. PICK g : g = get[c]
    OBVIOUS
  <1>2. LookingInv(g, setup, keyring, changes)
    BY <1>1, Looking
  <1>3. CASE Fail(c, g.uri, g, "secret")
    BY <1>3, FailStep
  <1>4. CASE ~Fail(c, g.uri, g, "secret")
    <2>1. PICK sig, answer : sig = S3Header(g, g.got) /\ answer = Answer(now + SignatureLife, sig)
      OBVIOUS
    <2>2. PICK origin : origin = IF g.since = changes THEN "undisturbed" ELSE "fresh"
      OBVIOUS
    <2>3. PICK h : h = [pc |-> "printed", uri |-> g.uri, helper |-> "s3", config |-> g.config,
                        origin |-> origin, ring |-> g.ring, answer |-> answer]
      OBVIOUS
    <2>4. get' = [get EXCEPT ![c] = h]
      BY <1>1, <1>4, <2>1, <2>2, <2>3 DEF FinishS3
    <2>5. /\ h.pc = "printed" /\ h.uri = g.uri /\ h.helper = g.helper /\ h.config = g.config
          /\ h.origin = origin /\ h.ring = g.ring /\ h.answer = answer
          /\ {"pc", "uri", "helper", "config", "origin", "answer", "ring"} \subseteq DOMAIN h
      BY <1>1, <2>3
    <2>6. Asked(h, setup)
      BY <1>2, <2>5 DEF LookingInv, Asked
    <2>7. Made(h.answer, h.helper, h.uri)
      <3>1. PICK e : e = now + SignatureLife
        OBVIOUS
      <3>2. e \in Nat
        BY <3>1, BoundsAssumption DEF CredentialsInv
      <3>3. sig.for = WholeUri(g.uri)
        BY <2>1, SignatureIsForUri
      <3>4. Verdict(g.helper, g.uri) = "go" /\ g.helper = "s3"
        BY <1>1, <1>2 DEF LookingInv
      <3>5. PICK u : u = g.uri
        OBVIOUS
      <3>6. Made(Answer(e, sig), "s3", u)
        BY <3>2, <3>3, <3>4, <3>5, OthersMake
      <3> QED
        BY <2>1, <2>5, <3>1, <3>4, <3>5, <3>6
    <2>8. ASSUME h.origin = "undisturbed"
          PROVE  Signed(h, setup)
      <3>1. g.since = changes
        BY <2>2, <2>5, <2>8
      <3>2. /\ g.ring = keyring
            /\ \A b \in DOMAIN g.got : g.got[b] = Lookup(WorldOf(setup, keyring), ChainOf(g), b)
        BY <1>2, <3>1 DEF LookingInv
      <3>3. ChainOf(g) = FromContext("s3", g.uri, g.config).lookup_chain
        BY <1>1 DEF ChainOf
      <3>4. DOMAIN g.got = Needed("s3", g.uri)
        <4>1. /\ DOMAIN g.got \subseteq Needed(g.helper, g.uri)
              /\ \A b \in Needed(g.helper, g.uri) :
                    b \in DOMAIN g.got \/ \E i \in DOMAIN g.todo : g.todo[i] = b
          BY <1>2 DEF LookingInv
        <4>2. DOMAIN g.todo = {} /\ g.helper = "s3"
          BY <1>1
        <4> QED
          BY <4>1, <4>2
      <3>5. \A b \in DOMAIN g.got :
                g.got[b] = Lookup(WorldOf(setup, g.ring), FromContext("s3", g.uri, g.config).lookup_chain, b)
        BY <3>2, <3>3
      <3>6. h.answer.headers = {S3Header(g, g.got)}
        BY <2>1, <2>5 DEF Answer
      <3> QED
        BY <2>5, <3>4, <3>5, <3>6, SignsWhatIsThere
    <2> QED
      BY <2>4, <2>5, <2>6, <2>7, <2>8, PrintStep
  <1> QED
    BY <1>3, <1>4

LEMMA FinishStep ==
    ASSUME CredentialsInv, NEW c \in Getters, Finish(c)
    PROVE  CredentialsInv'
  <1>1. /\ get[c].pc = "looking" /\ get[c].todo = <<>>
        /\ UNCHANGED <<setup, keyring, changes, now, cache>>
    BY DEF Finish
  <1>2. PICK g, u : g = get[c] /\ u = g.uri
    OBVIOUS
  <1>3. /\ u \in URIs /\ g.helper \in Helpers /\ Verdict(g.helper, u) = "go"
    BY <1>1, <1>2, Looking DEF LookingInv
  <1>4. CASE g.helper = "github"
    <2>1. FinishGitHub(c)
      BY <1>2, <1>4 DEF Finish
    <2>2. PICK token : token = GitHubToken(World(keyring), FromContext("github", g.uri, g.config), g.got["default"])
      OBVIOUS
    <2>3. PICK answer :
            answer = GitHubAnswer(g.uri, token,
                                  checkTokenExpiration(ExpirationHeader(LifeOf(token))))
      OBVIOUS
    <2>4. Fail(c, g.uri, g, "secret") \/ Respond(c, "printed", g.uri, g, "fresh", answer)
      BY <1>2, <2>1, <2>2, <2>3 DEF FinishGitHub
    <2>5. Made(answer, "github", u)
      BY <1>2, <1>3, <1>4, <2>3, GitHubMakes
    <2>6. CASE Fail(c, g.uri, g, "secret")
      BY <1>1, <2>6, FailStep
    <2>7. CASE Respond(c, "printed", g.uri, g, "fresh", answer)
      BY <1>1, <1>2, <1>4, <2>5, <2>7, FreshStep
    <2> QED
      BY <2>4, <2>6, <2>7
  <1>5. CASE g.helper = "remoteapis"
    <2>1. FinishRemoteAPIs(c)
      BY <1>2, <1>5 DEF Finish
    <2>2. PICK config : config = FromContext("remoteapis", g.uri, g.config)
      OBVIOUS
    <2>3. PICK answer : answer = RemoteAPIsAnswer(g.uri, config, g.got["default"])
      OBVIOUS
    <2>4. Fail(c, g.uri, g, "secret") \/ Respond(c, "printed", g.uri, g, "fresh", answer)
      BY <1>2, <2>1, <2>2, <2>3 DEF FinishRemoteAPIs
    <2>5. PICK header : /\ answer = Answer(NoExpiry, header)
                        /\ header.for = WholeUri(u)
      <3>1. PICK name, scheme, secret :
                /\ name = IF config.header_name = "" THEN "authorization" ELSE config.header_name
                /\ scheme = IF config.auth_method = "basic_auth" THEN "Basic" ELSE ""
                /\ secret = <<g.got["default"]>>
        OBVIOUS
      <3>2. PICK header : header = Header(name, scheme, secret, WholeUri(u))
        OBVIOUS
      <3>3. answer = Answer(NoExpiry, header)
        BY <1>2, <2>3, <3>1, <3>2 DEF RemoteAPIsAnswer
      <3>4. header.for = WholeUri(u)
        BY <3>2 DEF Header
      <3> QED
        BY <3>3, <3>4
    <2>6. Made(answer, "remoteapis", u)
      BY <1>3, <1>5, <2>5, OthersMake
    <2>7. CASE Fail(c, g.uri, g, "secret")
      BY <1>1, <2>7, FailStep
    <2>8. CASE Respond(c, "printed", g.uri, g, "fresh", answer)
      BY <1>1, <1>2, <1>5, <2>6, <2>8, FreshStep
    <2> QED
      BY <2>4, <2>7, <2>8
  <1>6. CASE g.helper = "s3"
    <2>1. FinishS3(c)
      BY <1>2, <1>6 DEF Finish
    <2> QED
      BY <1>1, <1>2, <1>6, <2>1, FinishS3Step
  <1>7. CASE g.helper \in {"gcs", "gar", "azstorage"}
    <2>1. FinishToken(c)
      BY <1>2, <1>7 DEF Finish
    <2>2. CASE Fail(c, g.uri, g, "secret")
      BY <1>1, <2>2, FailStep
    <2>3. CASE \E expires \in {NoExpiry, now + 1} :
                  Respond(c, "printed", g.uri, g, "fresh", TokenAnswer(g.helper, expires))
      <3>1. PICK e \in {NoExpiry, now + 1} :
                Respond(c, "printed", g.uri, g, "fresh", TokenAnswer(g.helper, e))
        BY <2>3
      <3>2. e \in Nat \cup {NoExpiry}
        BY DEF CredentialsInv
      <3>3. PICK header : header = Header("Authorization", "Bearer", <<"token">>, ScopeOf(g.helper))
        OBVIOUS
      <3>4. header.for = ScopeOf(g.helper) /\ TokenAnswer(g.helper, e) = Answer(e, header)
        BY <3>3 DEF Header, TokenAnswer
      <3>5. Made(Answer(e, header), g.helper, u)
        BY <1>3, <1>7, <3>2, <3>4, OthersMake
      <3> QED
        BY <1>1, <1>2, <3>1, <3>4, <3>5, FreshStep
    <2> QED
      BY <1>2, <2>1, <2>2, <2>3 DEF FinishToken
  <1>8. g.helper # "null"
    BY <1>3 DEF Verdict
  <1> QED
    BY <1>3, <1>4, <1>5, <1>6, <1>7, <1>8 DEF Helpers

\* The agent keeps an answer under the key of the request it was made for.
LEMMA StoreStep ==
    ASSUME CredentialsInv, NEW c \in Getters, StoreAnswer(c)
    PROVE  CredentialsInv'
  <1>1. PICK g : g = get[c]
    OBVIOUS
  <1>2. g.pc = "printed" /\ UNCHANGED <<setup, keyring, changes, now>>
    BY <1>1 DEF StoreAnswer
  <1>3. AnsweredInv(g, setup)
    BY <1>1, <1>2 DEF CredentialsInv, GetInv
  <1>4. /\ {"pc", "uri", "helper", "config", "origin", "answer"} \subseteq DOMAIN g
        /\ Asked(g, setup) /\ Made(g.answer, g.helper, g.uri)
        /\ setup \notin Colliding => \A header \in g.answer.headers : Suits(g.uri, g.helper, header)
        /\ g.origin = "undisturbed" => "ring" \in DOMAIN g /\ Signed(g, setup)
    BY <1>2, <1>3 DEF AnsweredInv
  <1>5. PICK h : h = [g EXCEPT !.pc = "done"]
    OBVIOUS
  <1>6. get' = [get EXCEPT ![c] = h] /\ get = [d \in Getters |-> get[d]]
    BY <1>1, <1>5 DEF StoreAnswer, CredentialsInv
  <1>7. /\ DOMAIN h = DOMAIN g /\ h.pc = "done" /\ h.uri = g.uri /\ h.helper = g.helper
        /\ h.config = g.config /\ h.origin = g.origin /\ h.answer = g.answer
        /\ "ring" \in DOMAIN g => h.ring = g.ring
    BY <1>4, <1>5
  <1>8. AnsweredInv(h, setup)
    <2>1. Asked(h, setup)
      BY <1>4, <1>7 DEF Asked
    <2>2. ASSUME h.origin = "undisturbed"
          PROVE  "ring" \in DOMAIN h /\ Signed(h, setup)
      <3>1. "ring" \in DOMAIN g /\ Signed(g, setup)
        BY <1>4, <1>7, <2>2
      <3>2. h.ring = g.ring
        BY <1>7, <3>1
      <3>3. Signed(h, setup)
        BY <1>7, <3>1, <3>2 DEF Signed
      <3> QED
        BY <1>7, <3>1, <3>3
    <2> QED
      BY <1>4, <1>7, <2>1, <2>2 DEF AnsweredInv
  <1>9. GetInv(h, setup, keyring, changes)
    BY <1>7, <1>8 DEF GetInv
  <1>10. get' = [d \in Getters |-> get'[d]] /\ \A d \in Getters : GetInv(get'[d], setup, keyring, changes)
    <2>1. \A d \in Getters : get'[d] = IF d = c THEN h ELSE get[d]
      BY <1>6
    <2>2. \A d \in Getters : GetInv(get[d], setup, keyring, changes)
      BY DEF CredentialsInv
    <2>3. get' = [d \in Getters |-> get'[d]]
      BY <1>6
    <2> QED
      BY <1>9, <2>1, <2>2, <2>3
  <1>11. PICK k, a : k = CacheKey(g.helper, g.uri) /\ a = g.answer
    OBVIOUS
  <1>12. cache = [x \in Keys |-> cache[x]] /\ \A x \in Keys : EntryInv(cache[x], x, setup)
    BY DEF CredentialsInv
  <1>13. cache' = cache \/ (a.expires # NoExpiry /\ cache' = [cache EXCEPT ![k] = a])
    <2>1. PICK v : v = [cacheKey |-> k, response |-> a]
      OBVIOUS
    <2>2. cache' = Store(cache, v)
      BY <1>1, <1>11, <2>1 DEF StoreAnswer
    <2> QED
      BY <2>1, <2>2 DEF Store, Storable
  <1>14. cache' = [x \in Keys |-> cache'[x]] /\ \A x \in Keys : EntryInv(cache'[x], x, setup)
    <2>1. CASE cache' = cache
      BY <1>12, <2>1
    <2>2. CASE a.expires # NoExpiry /\ cache' = [cache EXCEPT ![k] = a]
      <3>1. \A x \in Keys : cache'[x] = IF x = k THEN a ELSE cache[x]
        BY <1>12, <2>2
      <3>2. cache' = [x \in Keys |-> cache'[x]]
        BY <1>12, <2>2
      <3>3. a.expires \in Nat
        BY <1>4, <1>11, <2>2 DEF Made
      <3>4. EntryInv(a, k, setup)
        BY <1>4, <1>11, <3>3 DEF EntryInv, Asked
      <3> QED
        BY <1>12, <3>1, <3>2, <3>4
    <2> QED
      BY <1>13, <2>1, <2>2
  <1>15. /\ setup' \in Setups
         /\ DOMAIN keyring' \subseteq setup'.services
         /\ \A s \in DOMAIN keyring' : keyring'[s] \in Secrets
         /\ changes' \in 0..MaxChanges
         /\ now' \in 0..MaxTime
    BY <1>2 DEF CredentialsInv
  <1>16. \A d \in Getters : GetInv(get'[d], setup', keyring', changes')
    BY <1>2, <1>10
  <1>17. \A x \in Keys : EntryInv(cache'[x], x, setup')
    BY <1>2, <1>14
  <1> QED
    BY <1>10, <1>14, <1>15, <1>16, <1>17 DEF CredentialsInv

LEMMA KeyringStep ==
    ASSUME CredentialsInv, NEW service \in setup.services,
           ClearKeyring(service) \/ \E x \in Secrets : SetupKeyring(service, x)
    PROVE  CredentialsInv'
  <1>1. /\ changes < MaxChanges /\ changes' = changes + 1
        /\ UNCHANGED <<setup, now, cache, get>>
    BY DEF ClearKeyring, SetupKeyring
  <1>2. DOMAIN keyring' \subseteq setup.services /\ \A s \in DOMAIN keyring' : keyring'[s] \in Secrets
    <2>1. CASE ClearKeyring(service)
      BY <2>1 DEF ClearKeyring, CredentialsInv
    <2>2. CASE \E x \in Secrets : SetupKeyring(service, x)
      <3>1. PICK x \in Secrets : keyring' = With(keyring, service, x)
        BY <2>2 DEF SetupKeyring
      <3> QED
        BY <3>1 DEF CredentialsInv, With
    <2> QED
      BY <2>1, <2>2
  <1>3. changes \in Nat /\ changes + 1 \in 0..MaxChanges
    BY <1>1, BoundsAssumption DEF CredentialsInv
  <1>4. \A d \in Getters : GetInv(get[d], setup, keyring', changes + 1)
    BY <1>3, RingChanges DEF CredentialsInv
  <1>5. \A d \in Getters : GetInv(get'[d], setup', keyring', changes')
    BY <1>1, <1>4
  <1>6. /\ setup' \in Setups
        /\ now' \in 0..MaxTime
        /\ cache' = [k \in Keys |-> cache'[k]]
        /\ \A k \in Keys : EntryInv(cache'[k], k, setup')
        /\ get' = [c \in Getters |-> get'[c]]
    BY <1>1 DEF CredentialsInv
  <1> QED
    BY <1>1, <1>2, <1>3, <1>5, <1>6 DEF CredentialsInv

LEMMA PruneStep ==
    ASSUME CredentialsInv, AgentPrune
    PROVE  CredentialsInv'
  <1>1. cache' = Prune(cache, now) /\ UNCHANGED <<setup, keyring, changes, now, get>>
    BY DEF AgentPrune
  <1>2. /\ cache' = [k \in Keys |-> cache'[k]]
        /\ \A k \in Keys : cache'[k] = Absent \/ cache'[k] = cache[k]
    BY <1>1 DEF Prune
  <1>3. \A k \in Keys : EntryInv(cache[k], k, setup) /\ EntryInv(Absent, k, setup)
    BY DEF CredentialsInv, EntryInv
  <1>4. \A k \in Keys : EntryInv(cache'[k], k, setup')
    BY <1>1, <1>2, <1>3
  <1>5. /\ setup' \in Setups
        /\ DOMAIN keyring' \subseteq setup'.services
        /\ \A s \in DOMAIN keyring' : keyring'[s] \in Secrets
        /\ changes' \in 0..MaxChanges
        /\ now' \in 0..MaxTime
        /\ get' = [c \in Getters |-> get'[c]]
        /\ \A c \in Getters : GetInv(get'[c], setup', keyring', changes')
    BY <1>1 DEF CredentialsInv
  <1> QED
    BY <1>2, <1>4, <1>5 DEF CredentialsInv

LEMMA TickStep ==
    ASSUME CredentialsInv, Tick
    PROVE  CredentialsInv'
  <1>1. now < MaxTime /\ now' = now + 1 /\ UNCHANGED <<setup, keyring, changes, cache, get>>
    BY DEF Tick
  <1>2. now' \in 0..MaxTime
    BY <1>1, BoundsAssumption DEF CredentialsInv
  <1> QED
    BY <1>1, <1>2 DEF CredentialsInv

\* CredentialsInv holds in every reachable state: what a process holds is what
\* its lookups have found, what the cache holds was made for a request with
\* that key, whatever the keyring, the agent and the clock do in between.
THEOREM CredentialsInvariance == Spec => []CredentialsInv
  <1>1. CredentialsInv /\ [Next]_vars => CredentialsInv'
    <2> SUFFICES ASSUME CredentialsInv, [Next]_vars PROVE CredentialsInv'
      OBVIOUS
    <2>1. CASE UNCHANGED vars
      BY <2>1 DEF CredentialsInv, vars
    <2>2. ASSUME NEW c \in Getters, NEW u \in setup.uris, Start(c, u)
          PROVE  CredentialsInv'
      BY <2>2, StartStep
    <2>3. ASSUME NEW c \in Getters, LookUp(c)
          PROVE  CredentialsInv'
      BY <2>3, LookUpStep
    <2>4. ASSUME NEW c \in Getters, Finish(c)
          PROVE  CredentialsInv'
      BY <2>4, FinishStep
    <2>5. ASSUME NEW c \in Getters, StoreAnswer(c)
          PROVE  CredentialsInv'
      BY <2>5, StoreStep
    <2>6. ASSUME NEW s \in setup.services, ClearKeyring(s) \/ \E x \in Secrets : SetupKeyring(s, x)
          PROVE  CredentialsInv'
      BY <2>6, KeyringStep
    <2>7. CASE AgentPrune
      BY <2>7, PruneStep
    <2>8. CASE Tick
      BY <2>8, TickStep
    <2> QED
      BY <2>1, <2>2, <2>3, <2>4, <2>5, <2>6, <2>7, <2>8 DEF Next
  <1> QED
    BY <1>1, CredentialsInit, PTL DEF Spec

-----------------------------------------------------------------------------
(***************************************************************************)
(* The properties.                                                         *)
(***************************************************************************)

\* Type correctness: the keyring holds only secrets that setup-keyring was
\* given, and every entry of the cache has a time at which it expires.
THEOREM TypeCorrect == Spec => []TypeOK
  <1>1. CredentialsInv => TypeOK
    <2> SUFFICES ASSUME CredentialsInv PROVE TypeOK
      OBVIOUS
    <2>1. /\ setup \in Setups /\ DOMAIN keyring \subseteq setup.services
          /\ \A s \in DOMAIN keyring : keyring[s] \in Secrets
          /\ changes \in 0..MaxChanges
          /\ now \in 0..MaxTime
      BY DEF CredentialsInv
    <2>2. setup.uris \subseteq URIs /\ setup.services \subseteq Services
      BY <2>1, InputAssumption
    <2>3. \A k \in Keys : cache[k] # Absent => cache[k].expires \in Nat
      BY DEF CredentialsInv, EntryInv
    <2>4. \A c \in Getters :
              get[c].pc \in {"idle", "looking", "printed", "done", "failed"}
      BY DEF CredentialsInv, GetInv
    <2> QED
      BY <2>1, <2>2, <2>3, <2>4 DEF TypeOK
  <1> QED
    BY <1>1, CredentialsInvariance, PTL

\* Every answer that `get` prints suits its request, resolved or cached, unless
\* the config file gives requests with one cache key to different helpers.
THEOREM AnswersFit == Spec => []AnswersSuit
  <1>1. CredentialsInv => AnswersSuit
    BY DEF CredentialsInv, GetInv, AnsweredInv, AnswersSuit
  <1> QED
    BY <1>1, CredentialsInvariance, PTL

\* The expiry recorded with a GitHub token is the end of its life, for every
\* token, hour and zone (checkTokenExpiration).
THEOREM ExpiriesHonest == Spec => []ExpiryHonest
  <1>1. CredentialsInv => ExpiryHonest
    <2> SUFFICES ASSUME CredentialsInv, NEW k \in Keys, cache[k] # Absent,
                        NEW header \in cache[k].headers, header.for = Scope("github")
                 PROVE  cache[k].expires = LifeOf(header.secret[1]).ends
      BY DEF ExpiryHonest
    <2>1. EntryInv(cache[k], k, setup)
      BY DEF CredentialsInv
    <2>2. cache[k].expires \in Nat /\ \E u \in setup.uris : Made(cache[k], Choice(setup, u).helper, u)
      BY <2>1 DEF EntryInv
    <2> QED
      BY <2>2 DEF Made
  <1> QED
    BY <1>1, CredentialsInvariance, PTL

\* FallbackHelperFactory and the helpers disagree about the requests of
\* Disagreement and no others, whatever is asked for.
THEOREM RoutesSupported == Spec => []RoutedIsSupported
  <1>1. CredentialsInv => RoutedIsSupported
    <2> SUFFICES ASSUME CredentialsInv, NEW c \in Getters, setup.file = "absent"
                 PROVE  /\ (get[c].pc = "failed" /\ get[c].why = "unsupported")
                                => Disagreement(get[c].helper, get[c].uri)
                        /\ get[c].pc = "looking" => ~Disagreement(get[c].helper, get[c].uri)
      BY DEF RoutedIsSupported
    <2>1. PICK u, helper : u = get[c].uri /\ helper = get[c].helper
      OBVIOUS
    <2>2. ASSUME u \in setup.uris, Choice(setup, u) # Fatal, helper = Choice(setup, u).helper
          PROVE  /\ Verdict(helper, u) = "unsupported" => Disagreement(helper, u)
                 /\ Verdict(helper, u) = "go" => ~Disagreement(helper, u)
      <3>1. setup \in Setups /\ u \in URIs
        BY <2>2, InputAssumption DEF CredentialsInv
      <3>2. helper \in Helpers
        BY <2>2, <3>1, ChosenHelper
      <3>3. helper = FallbackHelperFactory(u, FALSE)
        BY <2>2 DEF Choice, Configure, Chosen
      <3> QED
        BY <3>1, <3>2, <3>3, FallbackDisagrees
    <2>3. CASE get[c].pc = "failed" /\ get[c].why = "unsupported"
      <3>1. /\ u \in setup.uris /\ Choice(setup, u) # Fatal
            /\ helper = Choice(setup, u).helper /\ Verdict(helper, u) = "unsupported"
        BY <2>1, <2>3 DEF CredentialsInv, GetInv, FailedInv
      <3> QED
        BY <2>1, <2>2, <2>3, <3>1
    <2>4. CASE get[c].pc = "looking"
      <3>1. LookingInv(get[c], setup, keyring, changes)
        BY <2>4 DEF CredentialsInv, GetInv
      <3>2. /\ u \in setup.uris /\ Choice(setup, u) # Fatal
            /\ helper = Choice(setup, u).helper /\ Verdict(helper, u) = "go"
        BY <2>1, <3>1 DEF LookingInv, Asked
      <3> QED
        BY <2>1, <2>2, <2>4, <3>2
    <2> QED
      BY <2>3, <2>4
  <1> QED
    BY <1>1, CredentialsInvariance, PTL

\* An S3 Get that no use of setup-keyring disturbs signs with the credentials
\* of one keyring, for every chain, although it looks them up one by one.
THEOREM SignsAtomically == Spec => []UndisturbedGetIsAtomic
  <1>1. CredentialsInv => UndisturbedGetIsAtomic
    <2> SUFFICES ASSUME CredentialsInv PROVE UndisturbedGetIsAtomic
      OBVIOUS
    <2>1. \A ring : World(ring) = WorldOf(setup, ring)
      BY DEF World, WorldOf
    <2>2. \A c \in Getters : (get[c].pc \in {"printed", "done"} /\ get[c].origin = "undisturbed") =>
              Signed(get[c], setup)
      BY DEF CredentialsInv, GetInv, AnsweredInv
    <2> QED
      BY <2>1, <2>2 DEF UndisturbedGetIsAtomic, Signed
  <1> QED
    BY <1>1, CredentialsInvariance, PTL

\* setup-uri tells what `get` finds, for every environment, keyring and chain
\* without a Google source, built in or from a config file.
THEOREM SetupIsTrue == Spec => []SetupTellsTruth
  <1>1. CredentialsInv => SetupTellsTruth
    <2> SUFFICES ASSUME CredentialsInv PROVE SetupTellsTruth
      OBVIOUS
    <2>1. setup \in Setups /\ \A x \in DOMAIN keyring : keyring[x] \in Secrets
      BY DEF CredentialsInv
    <2>2. PICK world : world = World(keyring) /\ world = WorldOf(setup, keyring)
      BY DEF World, WorldOf
    <2>3. ASSUME NEW c \in Getters, get[c].pc = "looking", NEW chain,
                 chain = FromContext(get[c].helper, get[c].uri, get[c].config).lookup_chain,
                 \A i \in DOMAIN chain : Decodes(chain[i]) /\ chain[i].type # "google",
                 NEW binding
          PROVE  /\ "SET" \in SetupInstructions(world, chain, binding)
                       <=> Lookup(world, chain, binding) \notin Errors
                 /\ "ERROR ACCESSING KEYCHAIN" \in SetupInstructions(world, chain, binding) =>
                       Lookup(world, chain, binding) # NotFound
      <3>1. PICK g : g = get[c]
        OBVIOUS
      <3>2. Asked(g, setup)
        BY <2>3, <3>1, Looking DEF LookingInv
      <3>3. chain = ChainOf(g)
        BY <2>3, <3>1 DEF ChainOf
      <3> QED
        BY <2>1, <2>2, <2>3, <3>2, <3>3, ChainIsTold
    <2> QED
      BY <2>2, <2>3 DEF SetupTellsTruth
  <1> QED
    BY <1>1, CredentialsInvariance, PTL

-----------------------------------------------------------------------------
(***************************************************************************)
(* Without a config file no two helpers share a cache key.                 *)
(***************************************************************************)

LEMMA ColonIsThere ==
    ASSUME NEW S, NEW x \in Seq(S), Len(x) >= 2, x[Len(x) - 1] = ":"
    PROVE  \E i \in DOMAIN x : x[i] = ":"
  <1>1. PICK n : n = Len(x) - 1
    OBVIOUS
  <1>2. n \in DOMAIN x
    BY <1>1
  <1> QED
    BY <1>1, <1>2

\* A host name holds no colon, so the host tells whether there is a port.
LEMMA PortsAgree ==
    ASSUME NEW u \in URIs, NEW v \in URIs, u.port = "", Host(u) = Host(v)
    PROVE  v.port = ""
  <1> SUFFICES ASSUME v.port # "" PROVE FALSE
    OBVIOUS
  <1>1. PICK S : S = STRING \cup {":", v.port}
    OBVIOUS
  <1>2. PICK x : x = Host(v)
    OBVIOUS
  <1>3. x \in Seq(S) /\ Len(x) >= 2 /\ x[Len(x) - 1] = ":"
    BY <1>1, <1>2, HostFacts
  <1>4. \E i \in DOMAIN x : x[i] = ":"
    BY <1>3, ColonIsThere
  <1>5. x = u.host
    BY <1>2 DEF Host
  <1>6. \A i \in DOMAIN x : x[i] # ":"
    BY <1>5, InputAssumption
  <1> QED
    BY <1>4, <1>6

LEMMA HostnamesAgree ==
    ASSUME NEW u \in URIs, NEW v \in URIs, Host(u) = Host(v)
    PROVE  u.host = v.host
  <1>1. CASE u.port = "" \/ v.port = ""
    <2>1. u.port = "" /\ v.port = ""
      BY <1>1, PortsAgree
    <2> QED
      BY <2>1 DEF Host
  <1>2. CASE u.port # "" /\ v.port # ""
    <2>1. PICK a, b, p, q : a = u.host /\ b = v.host /\ p = u.port /\ q = v.port
      OBVIOUS
    <2>2. PICK S : S = STRING \cup {":", p, q}
      OBVIOUS
    <2>3. a \in Seq(S) /\ b \in Seq(S)
      <3>1. a \in Seq(STRING) /\ b \in Seq(STRING)
        BY <2>1, InputAssumption
      <3> QED
        BY <2>2, <3>1, SeqMonotonic
    <2>4. PICK c, d, x : c = <<":", p>> /\ d = <<":", q>> /\ x = a \o c
      OBVIOUS
    <2>5. c \in Seq(S) /\ Len(c) = 2 /\ d \in Seq(S) /\ Len(d) = 2
      BY <2>2, <2>4
    <2>6. x = b \o d
      BY <1>2, <2>1, <2>4 DEF Host
    <2>7. /\ Len(x) = Len(a) + Len(c)
          /\ \A i \in 1..Len(a) + Len(c) : x[i] = IF i <= Len(a) THEN a[i] ELSE c[i - Len(a)]
      <3>1. c \in Seq(S)
        BY <2>5
      <3> QED
        BY <2>3, <2>4, <3>1, ConcatProperties
    <2>8. /\ Len(x) = Len(b) + Len(d)
          /\ \A i \in 1..Len(b) + Len(d) : x[i] = IF i <= Len(b) THEN b[i] ELSE d[i - Len(b)]
      <3>1. d \in Seq(S)
        BY <2>5
      <3> QED
        BY <2>3, <2>6, <3>1, ConcatProperties
    <2>9. PICK m, n : m = Len(a) /\ n = Len(b) /\ m \in Nat /\ n \in Nat
      BY <2>3
    <2>10. m = n
      BY <2>5, <2>7, <2>8, <2>9
    <2>11. \A i \in 1..m : a[i] = x[i] /\ b[i] = x[i]
      BY <2>5, <2>7, <2>8, <2>9, <2>10
    <2>12. a = b
      BY <2>3, <2>9, <2>10, <2>11, SeqEqual
    <2> QED
      BY <2>1, <2>12
  <1> QED
    BY <1>1, <1>2

\* The built-in choice depends on the host and the query only.
LEMMA FallbackAgrees ==
    ASSUME NEW u \in URIs, NEW v \in URIs, Host(u) = Host(v), u.query = v.query
    PROVE  FallbackHelperFactory(u, FALSE) = FallbackHelperFactory(v, FALSE)
  <1>1. Hostname(u) = Hostname(v)
    BY HostnamesAgree DEF Hostname
  <1> QED
    BY <1>1 DEF FallbackHelperFactory, GuessOCIRegistry

LEMMA MoreFallbackFacts ==
    ASSUME NEW u, NEW helper, helper = FallbackHelperFactory(u, FALSE)
    PROVE  /\ helper = "s3" => \/ HasSuffix(Hostname(u), Below(AmazonAws))
                               \/ HasSuffix(ToLower(Hostname(u)), Below(R2Cloudflare))
           /\ helper = "remoteapis" => HasSuffix(Hostname(u), Below(Buildbuddy))
  BY DEF FallbackHelperFactory

\* The symbol of a string at a distance j from its last one.
End(string, j) == string[Len(string) - j]

LEMMA ConcatEnd ==
    ASSUME NEW S, NEW a \in Seq(S), NEW b \in Seq(S), NEW j \in Nat, j < Len(b)
    PROVE  a \o b \in Seq(S) /\ Len(a \o b) = Len(a) + Len(b) /\ End(a \o b, j) = End(b, j)
  <1>1. PICK m, n, x : m = Len(a) /\ n = Len(b) /\ x = a \o b
    OBVIOUS
  <1>2. m \in Nat /\ n \in Nat /\ j < n
    BY <1>1
  <1>3. /\ x \in Seq(S) /\ Len(x) = m + n
        /\ \A i \in 1..m + n : x[i] = IF i <= m THEN a[i] ELSE b[i - m]
    BY <1>1, ConcatProperties
  <1>4. PICK i : i = (m + n) - j
    OBVIOUS
  <1>5. i \in 1..m + n /\ ~(i <= m) /\ i - m = n - j
    BY <1>2, <1>4
  <1>6. x[i] = b[n - j]
    BY <1>3, <1>5
  <1>7. End(x, j) = End(b, j)
    BY <1>1, <1>3, <1>4, <1>6 DEF End
  <1> QED
    BY <1>1, <1>3, <1>7

LEMMA EndsDiffer ==
    ASSUME NEW S, NEW host \in Seq(S), NEW suffix \in Seq(S), NEW j \in Nat, j < Len(suffix),
           End(host, j) # End(suffix, j)
    PROVE  ~HasSuffix(host, suffix)
  <1> SUFFICES ASSUME HasSuffix(host, suffix) PROVE FALSE
    OBVIOUS
  <1>1. PICK m, n : m = Len(suffix) /\ n = Len(host)
    OBVIOUS
  <1>2. m \in Nat /\ n \in Nat /\ j < m
    BY <1>1
  <1>3. m <= n /\ \A i \in 1..m : host[n - m + i] = suffix[i]
    <2>1. Len(suffix) <= Len(host)
      BY SuffixFacts
    <2>2. ASSUME NEW i \in 1..Len(suffix) PROVE host[Len(host) - Len(suffix) + i] = suffix[i]
      BY SuffixFacts
    <2> QED
      BY <1>1, <2>1, <2>2
  <1>4. PICK i : i = m - j
    OBVIOUS
  <1>5. i \in 1..m /\ n - m + i = n - j
    BY <1>2, <1>3, <1>4
  <1>6. host[n - j] = suffix[m - j]
    BY <1>3, <1>4, <1>5
  <1> QED
    BY <1>1, <1>6 DEF End

\* storage.googleapis.com has the suffix of no other service.
LEMMA StorageIsApart ==
    ASSUME NEW host, host = StorageGoogleapis
    PROVE  /\ ~HasSuffix(host, Below(AmazonAws))
           /\ ~HasSuffix(host, Below(R2Cloudflare))
           /\ ~HasSuffix(host, Below(Buildbuddy))
           /\ ~HasSuffix(host, PkgDev)
           /\ ~HasSuffix(host, BlobWindows)
           /\ End(host, 1) = "."
  <1>1. PICK R : R = {"storage", "googleapis", "amazonaws", "r2", "cloudflarestorage", "buildbuddy",
                      "io", "pkg", "dev", "blob", "core", "windows", "net", ".", "com"}
    OBVIOUS
  <1>2. PICK a, b : a = <<"storage", ".">> /\ b = <<"googleapis", ".", "com">>
    OBVIOUS
  <1>3. a \in Seq(R) /\ b \in Seq(R) /\ Len(b) = 3
    BY <1>1, <1>2
  <1>4. End(b, 0) = "com" /\ End(b, 1) = "." /\ End(b, 2) = "googleapis"
    <2>1. b[3] = "com" /\ b[2] = "." /\ b[1] = "googleapis"
      BY <1>2
    <2> QED
      BY <1>3, <2>1 DEF End
  <1>5. host = a \o b
    BY <1>2 DEF StorageGoogleapis, Com
  <1>6. host \in Seq(R) /\ \A j \in 0..2 : End(host, j) = End(b, j)
    <2>1. ASSUME NEW j \in 0..2
          PROVE  a \o b \in Seq(R) /\ End(a \o b, j) = End(b, j)
      <3>1. a \in Seq(R) /\ b \in Seq(R) /\ j \in Nat /\ j < Len(b)
        BY <1>3
      <3> QED
        BY <3>1, ConcatEnd
    <2>2. 0 \in 0..2
      OBVIOUS
    <2> QED
      BY <1>5, <2>1, <2>2
  <1>7. host \in Seq(R) /\ End(host, 0) = "com" /\ End(host, 1) = "." /\ End(host, 2) = "googleapis"
    BY <1>4, <1>6
  <1>8. ASSUME NEW x \in Seq(R), NEW j \in Nat, j < Len(x), End(host, j) # End(x, j)
        PROVE  ~HasSuffix(host, x)
    BY <1>7, <1>8, EndsDiffer
  <1>9. PICK dot : dot = <<".">>
    OBVIOUS
  <1>10. dot \in Seq(R) /\ Len(dot) = 1
    BY <1>1, <1>9
  <1>11. ~HasSuffix(host, Below(AmazonAws))
    <2>1. PICK c : c = <<"amazonaws", ".", "com">>
      OBVIOUS
    <2>2. c \in Seq(R) /\ Len(c) = 3 /\ c[1] = "amazonaws"
      BY <1>1, <2>1
    <2>3. 2 \in Nat /\ 2 < Len(c) /\ End(c, 2) = "amazonaws"
      BY <2>2 DEF End
    <2>4. PICK x : x = dot \o c
      OBVIOUS
    <2>5. x \in Seq(R) /\ Len(x) = Len(dot) + Len(c) /\ End(x, 2) = "amazonaws"
      <3>1. dot \in Seq(R) /\ c \in Seq(R) /\ 2 \in Nat /\ 2 < Len(c)
        BY <1>10, <2>2, <2>3
      <3> QED
        BY <2>3, <2>4, <3>1, ConcatEnd
    <2>6. 2 < Len(x)
      BY <1>10, <2>2, <2>5
    <2>7. ~HasSuffix(host, x)
      BY <1>7, <1>8, <2>3, <2>5, <2>6
    <2> QED
      BY <1>9, <2>1, <2>4, <2>7 DEF Below, AmazonAws, Com
  <1>12. ~HasSuffix(host, Below(R2Cloudflare))
    <2>1. PICK c, d : c = <<"r2", ".">> /\ d = <<"cloudflarestorage", ".", "com">>
      OBVIOUS
    <2>2. c \in Seq(R) /\ Len(c) = 2 /\ d \in Seq(R) /\ Len(d) = 3 /\ d[1] = "cloudflarestorage"
      BY <1>1, <2>1
    <2>3. 2 \in Nat /\ 2 < Len(d) /\ End(d, 2) = "cloudflarestorage"
      BY <2>2 DEF End
    <2>4. PICK y, x : y = c \o d /\ x = dot \o y
      OBVIOUS
    <2>5. y \in Seq(R) /\ Len(y) = Len(c) + Len(d) /\ End(y, 2) = "cloudflarestorage"
      <3>1. c \in Seq(R) /\ d \in Seq(R)
        BY <2>2
      <3> QED
        BY <2>3, <2>4, <3>1, ConcatEnd
    <2>6. 2 < Len(y)
      BY <2>2, <2>5
    <2>7. x \in Seq(R) /\ Len(x) = Len(dot) + Len(y) /\ End(x, 2) = "cloudflarestorage"
      <3>1. dot \in Seq(R) /\ y \in Seq(R)
        BY <1>10, <2>5
      <3> QED
        BY <2>3, <2>4, <2>5, <2>6, <3>1, ConcatEnd
    <2>8. 2 < Len(x)
      BY <1>10, <2>2, <2>5, <2>7
    <2>9. ~HasSuffix(host, x)
      BY <1>7, <1>8, <2>3, <2>7, <2>8
    <2> QED
      BY <1>9, <2>1, <2>4, <2>9 DEF Below, R2Cloudflare, Com
  <1>13. ~HasSuffix(host, Below(Buildbuddy))
    <2>1. PICK c : c = <<"buildbuddy", ".", "io">>
      OBVIOUS
    <2>2. c \in Seq(R) /\ Len(c) = 3 /\ c[3] = "io"
      BY <1>1, <2>1
    <2>3. 0 \in Nat /\ 0 < Len(c) /\ End(c, 0) = "io"
      BY <2>2 DEF End
    <2>4. PICK x : x = dot \o c
      OBVIOUS
    <2>5. x \in Seq(R) /\ Len(x) = Len(dot) + Len(c) /\ End(x, 0) = "io"
      <3>1. dot \in Seq(R) /\ c \in Seq(R) /\ 0 \in Nat /\ 0 < Len(c)
        BY <1>10, <2>2, <2>3
      <3> QED
        BY <2>3, <2>4, <3>1, ConcatEnd
    <2>6. 0 < Len(x)
      BY <1>10, <2>2, <2>5
    <2>7. ~HasSuffix(host, x)
      BY <1>7, <1>8, <2>3, <2>5, <2>6
    <2> QED
      BY <1>9, <2>1, <2>4, <2>7 DEF Below, Buildbuddy
  <1>14. ~HasSuffix(host, PkgDev)
    <2>1. PICK c : c = <<"pkg", ".", "dev">>
      OBVIOUS
    <2>2. c \in Seq(R) /\ Len(c) = 3 /\ c[3] = "dev"
      BY <1>1, <2>1
    <2>3. 0 \in Nat /\ 0 < Len(c) /\ End(c, 0) = "dev"
      BY <2>2 DEF End
    <2>4. ~HasSuffix(host, c)
      BY <1>7, <1>8, <2>2, <2>3
    <2> QED
      BY <2>1, <2>4 DEF PkgDev
  <1>15. ~HasSuffix(host, BlobWindows)
    <2>1. PICK c : c = <<"blob", ".", "core", ".", "windows", ".", "net">>
      OBVIOUS
    <2>2. c \in Seq(R) /\ Len(c) = 7 /\ c[7] = "net"
      BY <1>1, <2>1
    <2>3. 0 \in Nat /\ 0 < Len(c) /\ End(c, 0) = "net"
      BY <2>2 DEF End
    <2>4. ~HasSuffix(host, c)
      BY <1>7, <1>8, <2>2, <2>3
    <2> QED
      BY <2>1, <2>4 DEF BlobWindows
  <1> QED
    BY <1>7, <1>11, <1>12, <1>13, <1>14, <1>15

\* The keys of the helpers.
NoScheme == ""

LEMMA KeyFacts ==
    /\ \A u : CacheKey("github", u).scheme = NoScheme
    /\ \A u : CacheKey("gcs", u).scheme = "https" /\ CacheKey("gcs", u).host = StorageGoogleapis
    /\ \A helper \in {"gar", "azstorage", "s3", "remoteapis"} : \A u :
          /\ CacheKey(helper, u).scheme = u.scheme
          /\ CacheKey(helper, u).host = Host(u)
          /\ CacheKey(helper, u).query = u.query
    /\ \A u : CacheKey("null", u) = NoKey
  <1>1. ASSUME NEW u
        PROVE  CacheKey("github", u).scheme = NoScheme
    <2>1. CacheKey("github", u) = CacheKeyOf(NoScheme, Host(u), <<>>, {})
      BY DEF CacheKey, GitHubCacheKey, NoScheme
    <2> QED
      BY <2>1 DEF CacheKeyOf
  <1>2. ASSUME NEW u
        PROVE  CacheKey("gcs", u).scheme = "https" /\ CacheKey("gcs", u).host = StorageGoogleapis
    <2>1. PICK path : path = <<"">>
      OBVIOUS
    <2>2. CacheKey("gcs", u) = CacheKeyOf("https", StorageGoogleapis, path, {})
      BY <2>1 DEF CacheKey, GCSCacheKey
    <2> QED
      BY <2>2 DEF CacheKeyOf
  <1>3. ASSUME NEW helper \in {"gar", "azstorage", "s3", "remoteapis"}, NEW u
        PROVE  /\ CacheKey(helper, u).scheme = u.scheme
               /\ CacheKey(helper, u).host = Host(u)
               /\ CacheKey(helper, u).query = u.query
    <2>1. PICK paths : paths = IF u.path = <<>> THEN <<"">> ELSE u.path
      OBVIOUS
    <2>2. PICK path : path = IF helper \in {"s3", "remoteapis"} THEN u.path
                             ELSE SubSeq(paths, 1, IF Len(paths) > 2 THEN 2 ELSE Len(paths))
      OBVIOUS
    <2>3. CacheKey(helper, u) = CacheKeyOf(u.scheme, Host(u), path, u.query)
      <3>1. CASE helper \in {"s3", "remoteapis"}
        BY <2>2, <3>1 DEF CacheKey, WholeUri
      <3>2. CASE helper \in {"gar", "azstorage"}
        <4>1. CacheKey(helper, u) = ProjectAndRepo(u)
          BY <3>2 DEF CacheKey, GARCacheKey, AzStorageCacheKey
        <4> QED
          BY <2>1, <2>2, <3>2, <4>1 DEF ProjectAndRepo
      <3> QED
        BY <3>1, <3>2
    <2> QED
      BY <2>3 DEF CacheKeyOf
  <1>4. \A u : CacheKey("null", u) = NoKey
    BY DEF CacheKey
  <1> QED
    BY <1>1, <1>2, <1>3, <1>4

\* A request with the key of Google's storage is one for it.
LEMMA StorageKeyIsItsOwn ==
    ASSUME NEW u \in URIs, NEW helper \in Helpers, helper = FallbackHelperFactory(u, FALSE),
           NEW k, k = CacheKey(helper, u), k # NoKey, k.scheme = "https", k.host = StorageGoogleapis
    PROVE  helper = "gcs"
  <1> SUFFICES ASSUME helper # "gcs" PROVE FALSE
    OBVIOUS
  <1>1. helper \in {"gar", "azstorage", "s3", "remoteapis"}
    <2>1. helper # "null"
      BY DEF CacheKey
    <2>2. helper = "github" => k.scheme = NoScheme
      BY KeyFacts
    <2>3. NoScheme # "https"
      BY DEF NoScheme
    <2> QED
      BY <2>1, <2>2, <2>3 DEF Helpers
  <1>2. Host(u) = StorageGoogleapis
    BY <1>1, KeyFacts
  <1>3. u.port = ""
    <2> SUFFICES ASSUME u.port # "" PROVE FALSE
      OBVIOUS
    <2>1. PICK S, x : S = STRING \cup {":", u.port} /\ x = Host(u)
      OBVIOUS
    <2>2. x[Len(x) - 1] = ":"
      BY <2>1, HostFacts
    <2>3. x[Len(x) - 1] = "."
      BY <1>2, <2>1, StorageIsApart DEF End
    <2> QED
      BY <2>2, <2>3
  <1>4. Hostname(u) = StorageGoogleapis
    BY <1>2, <1>3 DEF Host, Hostname
  <1>5. ToLower(Hostname(u)) = StorageGoogleapis
    BY <1>4, StorageIsLower
  <1> QED
    BY <1>1, <1>4, <1>5, FallbackFacts, MoreFallbackFacts, StorageIsApart

\* Without a config file, requests with the same cache key have the same
\* helper, so every cached answer suits the requests that get it (AnswersFit).
THEOREM BuiltInKeysApart ==
    ASSUME NEW s \in Setups, s.file = "absent", \A u \in s.uris : u.scheme # NoScheme
    PROVE  s \notin Colliding
  <1> SUFFICES ASSUME s \in Colliding PROVE FALSE
    OBVIOUS
  <1>1. PICK u \in s.uris, v \in s.uris :
            /\ CacheKey(Choice(s, u).helper, u) = CacheKey(Choice(s, v).helper, v)
            /\ CacheKey(Choice(s, u).helper, u) # NoKey
            /\ Choice(s, u).helper # Choice(s, v).helper
    BY DEF Colliding
  <1>2. PICK a, b : a = Choice(s, u).helper /\ b = Choice(s, v).helper
    OBVIOUS
  <1>3. PICK k : k = CacheKey(a, u) /\ k # NoKey
    BY <1>1, <1>2
  <1>4. k = CacheKey(b, v)
    BY <1>1, <1>2, <1>3
  <1>5. a = FallbackHelperFactory(u, FALSE) /\ b = FallbackHelperFactory(v, FALSE)
    BY <1>2 DEF Choice, Configure, Chosen
  <1>6. u \in URIs /\ v \in URIs
    BY InputAssumption
  <1>7. a \in Helpers /\ b \in Helpers
    <2>1. ASSUME NEW w \in s.uris
          PROVE  FallbackHelperFactory(w, FALSE) \in Helpers
      <3>1. PICK f : f = FallbackHelperFactory(w, FALSE)
        OBVIOUS
      <3>2. Choice(s, w) = Chosen(f, NoConfig)
        BY <3>1 DEF Choice, Configure
      <3>3. f # "fatal"
        BY <3>1 DEF FallbackHelperFactory, GuessOCIRegistry
      <3>4. Choice(s, w).helper = f /\ Fatal.helper = "fatal"
        BY <3>2 DEF Fatal, Chosen
      <3>5. Choice(s, w) # Fatal
        BY <3>3, <3>4
      <3>6. Choice(s, w).helper \in Helpers
        BY <3>5, ChosenHelper
      <3> QED
        BY <3>1, <3>4, <3>6
    <2> QED
      BY <1>5, <2>1
  <1>8. a # "gcs" /\ b # "gcs"
    <2>1. a = "gcs" => k.scheme = "https" /\ k.host = StorageGoogleapis
      BY <1>3, <1>7, KeyFacts
    <2>2. b = "gcs" => k.scheme = "https" /\ k.host = StorageGoogleapis
      BY <1>3, <1>4, <1>7, KeyFacts
    <2>3. (k.scheme = "https" /\ k.host = StorageGoogleapis) => a = "gcs" /\ b = "gcs"
      BY <1>3, <1>4, <1>5, <1>6, <1>7, StorageKeyIsItsOwn
    <2> QED
      BY <1>1, <1>2, <2>1, <2>2, <2>3
  <1>9. a # "null" /\ b # "null"
    BY <1>3, <1>4, <1>7, KeyFacts
  <1>10. u.scheme # NoScheme /\ v.scheme # NoScheme
    OBVIOUS
  <1>11. a # "github" /\ b # "github"
    <2>1. a = "github" => k.scheme = NoScheme
      BY <1>3, <1>7, KeyFacts
    <2>2. b = "github" => k.scheme = NoScheme
      BY <1>3, <1>4, <1>7, KeyFacts
    <2>3. a \in {"gar", "azstorage", "s3", "remoteapis"} => k.scheme # NoScheme
      BY <1>3, <1>7, <1>10, KeyFacts
    <2>4. b \in {"gar", "azstorage", "s3", "remoteapis"} => k.scheme # NoScheme
      BY <1>3, <1>4, <1>7, <1>10, KeyFacts
    <2> QED
      BY <1>1, <1>2, <1>7, <1>8, <1>9, <2>1, <2>2, <2>3, <2>4 DEF Helpers
  <1>12. a \in {"gar", "azstorage", "s3", "remoteapis"} /\ b \in {"gar", "azstorage", "s3", "remoteapis"}
    BY <1>7, <1>8, <1>9, <1>11 DEF Helpers
  <1>13. k.host = Host(u) /\ k.query = u.query
    BY <1>3, <1>7, <1>12, KeyFacts
  <1>14. k.host = Host(v) /\ k.query = v.query
    BY <1>3, <1>4, <1>7, <1>12, KeyFacts
  <1>15. a = b
    BY <1>5, <1>6, <1>13, <1>14, FallbackAgrees
  <1> QED
    BY <1>1, <1>2, <1>15

=============================================================================
