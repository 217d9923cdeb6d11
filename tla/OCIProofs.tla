------------------------------ MODULE OCIProofs -----------------------------
(***************************************************************************)
(* Proofs about OCI, for every set of processes, requests, registries,     *)
(* docker configs, configurations and token responses.                     *)
(***************************************************************************)
EXTENDS OCI, SequenceTheorems, WellFoundedInduction, TLAPS

-----------------------------------------------------------------------------
(***************************************************************************)
(* Facts about the operators.                                              *)
(***************************************************************************)

\* A set of positions has a first one: what CHOOSE takes exists.
LEMMA FirstExists ==
    ASSUME NEW S, S \subseteq Nat, S # {}
    PROVE  \E i \in S : \A j \in S : i <= j
  <1> DEFINE R == OpToRel(<, Nat)
  <1>1. PICK i \in S : \A j \in S : ~(<<j, i>> \in R)
    BY NatLessThanWellFounded, WFMin
  <1>2. ASSUME NEW j \in S
        PROVE  i <= j
    <2>1. i \in Nat /\ j \in Nat
      OBVIOUS
    <2>2. <<j, i>> \in R <=> j < i
      BY <2>1 DEF OpToRel
    <2>3. ~(<<j, i>> \in R)
      BY <1>1
    <2>4. ~(j < i)
      BY <2>2, <2>3
    <2> HIDE DEF R
    <2> QED
      BY <2>1, <2>4
  <1> QED
    BY <1>2

\* A function on 1..2 is a sequence.
LEMMA TwoIsSeq ==
    ASSUME NEW S, NEW x \in [1..2 -> S]
    PROVE  x \in Seq(S)
  <1>1. 2 \in Nat
    OBVIOUS
  <1> QED
    BY <1>1, SeqDef, Zenon

\* A suffix of two segments is what the last two positions hold.
LEMMA SuffixOfTwo ==
    ASSUME NEW s \in Seq(STRING), NEW a, NEW b
    PROVE  IsSuffix(<<a, b>>, s) <=> Len(s) >= 2 /\ s[Len(s) - 1] = a /\ s[Len(s)] = b
  <1> DEFINE x == Reverse(<<a, b>>)
             y == Reverse(s)
  <1>1. Len(s) \in Nat
    OBVIOUS
  <1>2. x \in Seq({a, b}) /\ Len(x) = 2 /\ x[1] = b /\ x[2] = a
    <2>1. Reverse(<<a, b>>) = [i \in 1..2 |-> <<a, b>>[(2 - i) + 1]]
      BY DEF Reverse
    <2>2. ASSUME NEW i \in 1..2
          PROVE  <<a, b>>[(2 - i) + 1] = IF i = 1 THEN b ELSE a
      <3>1. CASE i = 1
        BY <3>1
      <3>2. CASE i = 2
        BY <3>2
      <3>3. i = 1 \/ i = 2
        OBVIOUS
      <3> QED
        BY <3>1, <3>2, <3>3
    <2>3. x = [i \in 1..2 |-> IF i = 1 THEN b ELSE a]
      BY <2>1, <2>2
    <2>4. \A i \in 1..2 : (IF i = 1 THEN b ELSE a) \in {a, b}
      OBVIOUS
    <2> HIDE DEF x
    <2>5. x \in [1..2 -> {a, b}]
      BY <2>3, <2>4
    <2>6. x[1] = b /\ x[2] = a
      BY <2>3
    <2>7. x \in Seq({a, b})
      BY <2>5, TwoIsSeq
    <2>8. Len(x) = 2
      BY <2>5, <2>7, LenProperties
    <2> QED
      BY <2>6, <2>7, <2>8
  <1>3. y \in Seq(STRING) /\ Len(y) = Len(s)
    BY <1>1 DEF Reverse
  <1>4. Len(s) >= 2 => y[1] = s[Len(s)] /\ y[2] = s[Len(s) - 1]
    BY <1>1 DEF Reverse
  <1>5. IsSuffix(<<a, b>>, s) <=> 2 <= Len(y) /\ SubSeq(x, 1, 2) = SubSeq(y, 1, 2)
    BY <1>2 DEF IsSuffix, IsPrefix
  <1>6. Len(y) >= 2 => (SubSeq(x, 1, 2) = SubSeq(y, 1, 2) <=> x[1] = y[1] /\ x[2] = y[2])
    <2> HIDE DEF x, y
    <2> SUFFICES ASSUME Len(y) >= 2
                 PROVE  SubSeq(x, 1, 2) = SubSeq(y, 1, 2) <=> x[1] = y[1] /\ x[2] = y[2]
      OBVIOUS
    <2>1. /\ SubSeq(x, 1, 2) = [i \in 1..2 |-> x[i]]
          /\ SubSeq(y, 1, 2) = [i \in 1..2 |-> y[i]]
      BY <1>2, <1>3
    <2> QED
      BY <2>1
  <1> QED
    BY <1>1, <1>2, <1>3, <1>4, <1>5, <1>6

\* A path is its first segment, what lies between, and its last two.
LEMMA PathParts ==
    ASSUME NEW p \in Seq(STRING), Len(p) > 2, NEW rest, rest = SubSeq(p, Len(p) - 1, Len(p))
    PROVE  /\ p = <<p[1]>> \o SubSeq(Tail(p), 1, Len(Tail(p)) - 2) \o rest
           /\ rest[1] = p[Len(p) - 1]
           /\ rest[2] = p[Len(p)]
           /\ rest = <<rest[1], rest[2]>>
  <1> DEFINE n == Len(p)
             t == Tail(p)
             m == SubSeq(t, 1, Len(t) - 2)
  <1>1. n \in Nat /\ p[1] \in STRING
    OBVIOUS
  <1>2. t \in Seq(STRING) /\ Len(t) = n - 1 /\ \A i \in 1..n - 1 : t[i] = p[i + 1]
    BY <1>1
  <1>3. m \in Seq(STRING) /\ Len(m) = n - 3 /\ \A i \in 1..n - 3 : m[i] = p[i + 1]
    <2> HIDE DEF t
    <2> QED
      BY <1>1, <1>2
  <1>4. rest \in Seq(STRING) /\ Len(rest) = 2 /\ rest[1] = p[n - 1] /\ rest[2] = p[n]
    BY <1>1
  <1>5. rest = <<rest[1], rest[2]>>
    <2> DEFINE two == <<rest[1], rest[2]>>
    <2>1. /\ two \in Seq(STRING)
          /\ Len(two) = 2 /\ two[1] = rest[1] /\ two[2] = rest[2]
      BY <1>1, <1>4
    <2>2. \A i \in 1..2 : rest[i] = two[i]
      <3> HIDE DEF two
      <3>1. \A i \in 1..2 : i = 1 \/ i = 2
        OBVIOUS
      <3> QED
        BY <2>1, <3>1
    <2> HIDE DEF two
    <2>3. rest = two
      BY <1>4, <2>1, <2>2, SeqEqual
    <2> QED
      BY <2>3 DEF two
  <1>6. p = <<p[1]>> \o m \o rest
    <2> HIDE DEF t, m
    <2>1. /\ <<p[1]>> \o m \in Seq(STRING)
          /\ Len(<<p[1]>> \o m) = n - 2
          /\ \A i \in 1..n - 2 : (<<p[1]>> \o m)[i] = p[i]
      BY <1>1, <1>3
    <2> DEFINE h == <<p[1]>> \o m
    <2>2. h \in Seq(STRING) /\ Len(h) = n - 2 /\ \A i \in 1..n - 2 : h[i] = p[i]
      BY <2>1
    <2> HIDE DEF h
    <2>3. h \o rest \in Seq(STRING) /\ Len(h \o rest) = n
      BY <2>2, <1>4, <1>1
    <2>4. ASSUME NEW i \in 1..n
          PROVE  (h \o rest)[i] = p[i]
      <3>1. CASE i \in 1..n - 2
        BY <3>1, <2>2, <1>4, <1>1
      <3>2. CASE i = n - 1
        BY <3>2, <2>2, <1>4, <1>1
      <3>3. CASE i = n
        BY <3>3, <2>2, <1>4, <1>1
      <3>4. i \in 1..n - 2 \/ i = n - 1 \/ i = n
        BY <1>1
      <3> QED
        BY <3>1, <3>2, <3>3, <3>4
    <2>5. h \o rest = p
      BY <2>3, <2>4, <1>1, SeqEqual
    <2> QED
      BY <2>5 DEF h
  <1> QED
    BY <1>4, <1>5, <1>6

\* An endpoint is the path behind its first segment.
LEMMA EndpointOfPath ==
    ASSUME NEW p \in Seq(STRING), Len(p) >= 2
    PROVE  /\ Len(p) \in Nat
           /\ Tail(p) \in Seq(STRING)
           /\ Len(Tail(p)) = Len(p) - 1
           /\ \A i \in 1..Len(p) - 1 : Tail(p)[i] = p[i + 1]
  OBVIOUS

\* TrimSuffix takes the last two segments off an endpoint.
LEMMA TrimmedPath ==
    ASSUME NEW p \in Seq(STRING), Len(p) > 2, NEW a, NEW b,
           IsSuffix(<<a, b>>, Tail(p))
    PROVE  /\ SubSeq(p, Len(p) - 1, Len(p)) = <<a, b>>
           /\ p = <<p[1]>> \o TrimSuffix(Tail(p), <<a, b>>) \o <<a, b>>
  <1>1. PICK rest : rest = SubSeq(p, Len(p) - 1, Len(p))
    OBVIOUS
  <1>2. PICK e : e = Tail(p)
    OBVIOUS
  <1>3. /\ Len(p) \in Nat
        /\ e \in Seq(STRING)
        /\ Len(e) = Len(p) - 1
        /\ \A i \in 1..Len(p) - 1 : e[i] = p[i + 1]
    BY <1>2, EndpointOfPath
  <1>4. e[Len(e) - 1] = a /\ e[Len(e)] = b
    BY <1>2, <1>3, SuffixOfTwo
  <1>5. rest[1] = p[Len(p) - 1] /\ rest[2] = p[Len(p)] /\ rest = <<rest[1], rest[2]>>
    BY <1>1, PathParts
  <1>6. rest[1] = a /\ rest[2] = b
    <2>1. Len(p) - 1 \in 1..Len(p) - 1 /\ Len(p) - 2 \in 1..Len(p) - 1
      BY <1>3
    <2>2. e[Len(p) - 1] = p[(Len(p) - 1) + 1] /\ e[Len(p) - 2] = p[(Len(p) - 2) + 1]
      BY <1>3, <2>1
    <2>3. (Len(p) - 1) + 1 = Len(p) /\ (Len(p) - 2) + 1 = Len(p) - 1 /\ Len(e) - 1 = Len(p) - 2
      BY <1>3
    <2> QED
      BY <1>3, <1>4, <1>5, <2>2, <2>3
  <1>7. rest = <<a, b>>
    BY <1>5, <1>6
  <1>8. TrimSuffix(e, <<a, b>>) = SubSeq(e, 1, Len(e) - 2)
    BY <1>2 DEF TrimSuffix
  <1>9. p = <<p[1]>> \o SubSeq(e, 1, Len(e) - 2) \o rest
    BY <1>1, <1>2, PathParts
  <1> QED
    BY <1>1, <1>2, <1>7, <1>8, <1>9

\* deriveRepository names the host of the request, and the repository that the
\* distribution API has at its path.
LEMMA RepositoryOfRequest ==
    ASSUME NEW u, u.path \in Seq(STRING), deriveRepository(u).verdict = "pull"
    PROVE  /\ deriveRepository(u).registry = Host(u)
           /\ PullsFrom(u, deriveRepository(u).repository)
  <1>1. PICK p : p = u.path
    OBVIOUS
  <1>2. PICK e : e = Tail(p)
    OBVIOUS
  <1>3. PICK n : n = Len(e)
    OBVIOUS
  <1>4. Len(p) >= 2 /\ p[1] = "v2"
    BY <1>1 DEF deriveRepository, Refused, Ignored
  <1>5. \/ /\ n > 2 /\ IsSuffix(<<"tags", "list">>, e)
           /\ deriveRepository(u) = Pull(Host(u), TrimSuffix(e, <<"tags", "list">>))
        \/ /\ ~(n < 3) /\ e[n - 1] \in {"blobs", "manifests"}
           /\ deriveRepository(u) = Pull(Host(u), TrimSuffix(e, <<e[n - 1], e[n]>>))
    BY <1>1, <1>2, <1>3 DEF deriveRepository, Refused, Ignored
  <1>6. /\ Len(p) \in Nat
        /\ e \in Seq(STRING)
        /\ Len(e) = n /\ n = Len(p) - 1
    BY <1>1, <1>2, <1>3, <1>4, EndpointOfPath
  <1>7. PICK a, b :
            /\ n > 2 /\ IsSuffix(<<a, b>>, e)
            /\ deriveRepository(u) = Pull(Host(u), TrimSuffix(e, <<a, b>>))
            /\ (a = "tags" /\ b = "list") \/ a \in {"blobs", "manifests"}
    <2>1. CASE /\ n > 2 /\ IsSuffix(<<"tags", "list">>, e)
               /\ deriveRepository(u) = Pull(Host(u), TrimSuffix(e, <<"tags", "list">>))
      BY <2>1, Zenon
    <2>2. CASE /\ ~(n < 3) /\ e[n - 1] \in {"blobs", "manifests"}
               /\ deriveRepository(u) = Pull(Host(u), TrimSuffix(e, <<e[n - 1], e[n]>>))
      <3>1. n > 2
        BY <1>6, <2>2
      <3>2. Len(e) >= 2
        BY <1>6, <3>1
      <3>3. IsSuffix(<<e[n - 1], e[n]>>, e)
        BY <1>6, <3>1, <3>2, SuffixOfTwo, Zenon
      <3> QED
        BY <2>2, <3>1, <3>3
    <2> QED
      BY <1>5, <2>1, <2>2
  <1>8. /\ SubSeq(p, Len(p) - 1, Len(p)) = <<a, b>>
        /\ p = <<"v2">> \o TrimSuffix(e, <<a, b>>) \o <<a, b>>
    <2>1. Len(p) > 2 /\ p \in Seq(STRING)
      BY <1>1, <1>6, <1>7
    <2> QED
      BY <1>2, <1>4, <1>7, <2>1, TrimmedPath
  <1>9. PullsFrom(u, TrimSuffix(e, <<a, b>>))
    BY <1>1, <1>7, <1>8 DEF PullsFrom
  <1> QED
    BY <1>7, <1>9 DEF Pull

-----------------------------------------------------------------------------
(***************************************************************************)
(* The inductive invariant.                                                *)
(***************************************************************************)

Life(response) == IF response.expiresIn = 0 THEN DefaultLife ELSE response.expiresIn

IsToken(t) ==
    /\ t = [scope |-> t.scope, sent |-> t.sent, ends |-> t.ends, delay |-> t.delay]
    /\ t.ends \in Nat /\ t.delay \in Nat

\* The requests for whose registry the lookup chain has a password, and no
\* authenticator of its own is built in, with that password.
ChainPassword(u) == Lookup(World, Config(deriveRepository(u).registry).lookup_chain, "password")

WithPassword ==
    {<<u, ChainPassword(u)>> : u \in
        {u \in URIs : /\ deriveRepository(u).registry \notin DOMAIN setup.custom
                      /\ ChainPassword(u) \notin Errors
                      /\ ChainPassword(u) # ""}}

\* Credentials with the password of the chain.
Carries(u, auth, named) ==
    \A p : <<u, p>> \in named => HasPassword(auth) /\ auth.password = p

\* A token for which the password of the chain was sent, or what replaces it.
Speaks(u, auth, sent, named) ==
    \A p : <<u, p>> \in named =>
        \/ sent = Evidence("password", p)
        \/ sent = Evidence("registry token", auth.registryToken) /\ auth.registryToken # ""
        \/ /\ sent = Evidence("identity token", auth.identityToken)
           /\ auth.identityToken # "" /\ auth.method # "basic"

Entered == {"challenge", "docker", "chain"}
Exchanging == {"exchange", "oauth", "basic"}

\* A process that is asking: it has no expiry, and its credentials, once the
\* chain was read, have the password of the chain and a user name to it.
Asking(g, named) ==
    /\ g.pc \in Entered \cup Exchanging
    /\ g = [pc |-> g.pc, uri |-> g.uri, auth |-> g.auth, expires |-> NoExpiry, token |-> g.token]
    /\ g.uri \in URIs
    /\ IsAuth(g.auth)
    /\ IsToken(g.token)
    /\ g.pc \in Exchanging => Carries(g.uri, g.auth, named)
    /\ g.pc = "oauth" => g.auth.method # "basic"

\* A process whose token is under way.
Answered(g, named, time) ==
    /\ g.pc = "answered"
    /\ g = [pc |-> "answered", uri |-> g.uri, auth |-> g.auth, response |-> g.response,
            issued |-> g.issued, token |-> g.token]
    /\ g.uri \in URIs
    /\ g.response \in Responses
    /\ g.issued \in Nat /\ g.issued <= time
    /\ IsToken(g.token)
    /\ g.token.scope = deriveRepository(g.uri)
    /\ g.token.ends = g.issued + Life(g.response)
    /\ Speaks(g.uri, g.auth, g.token.sent, named)

\* A process that has printed: the token is one for its request.
Printed(g, named) ==
    /\ g.pc \in {"printed", "done"}
    /\ g = [pc |-> g.pc, uri |-> g.uri, auth |-> g.auth, expires |-> g.expires, token |-> g.token]
    /\ g.uri \in URIs
    /\ IsToken(g.token)
    /\ deriveRepository(g.uri).verdict = "pull" => g.token.scope = deriveRepository(g.uri)
    /\ g.pc = "printed" =>
        /\ deriveRepository(g.uri).verdict = "pull" => Speaks(g.uri, g.auth, g.token.sent, named)
        /\ g.expires = NoExpiry
             \/ (g.expires \in Nat /\ g.expires <= g.token.ends + g.token.delay)

GetInv(g, named, time) ==
    \/ g = [pc |-> "idle"]
    \/ Asking(g, named)
    \/ Answered(g, named, time)
    \/ Printed(g, named)
    \/ g.pc = "failed"

\* An entry of the cache is a token under its scope.
Kept(k, entry) ==
    /\ entry = [expires |-> entry.expires, headers |-> entry.headers]
    /\ entry.expires \in Nat
    /\ IsToken(entry.headers)
    /\ entry.headers.scope = k
    /\ entry.expires <= entry.headers.ends + entry.headers.delay

WorldInv ==
    /\ setup \in Setups
    /\ docker \in Dockers
    /\ logins \in 0..MaxLogins
    /\ now \in 0..MaxTime

OCIInv ==
    /\ WorldInv
    /\ cache = [k \in Keys |-> cache[k]]
    /\ get = [c \in Getters |-> get[c]]
    /\ \A k \in Keys : cache[k] # Absent => Kept(k, cache[k])
    /\ \A c \in Getters : GetInv(get[c], WithPassword, now)

-----------------------------------------------------------------------------
(***************************************************************************)
(* Every step keeps it.                                                    *)
(***************************************************************************)

\* What a step of one process has to show.
LEMMA ProcessStep ==
    ASSUME OCIInv, NEW c \in Getters, NEW x,
           get' = [get EXCEPT ![c] = x],
           UNCHANGED <<setup, docker, logins, now, cache>>,
           GetInv(x, WithPassword, now)
    PROVE  OCIInv'
  <1>1. WithPassword' = WithPassword
    BY DEF WithPassword, ChainPassword, World, Config
  <1>2. get' = [d \in Getters |-> IF d = c THEN x ELSE get[d]]
    BY DEF OCIInv
  <1>3. \A d \in Getters : GetInv(get'[d], WithPassword, now)
    BY <1>2 DEF OCIInv
  <1>4. get' = [d \in Getters |-> get'[d]]
    BY <1>2
  <1>5. WorldInv'
    BY DEF OCIInv, WorldInv
  <1>6. cache' = cache /\ now' = now
    OBVIOUS
  <1> QED
    BY <1>1, <1>3, <1>4, <1>5, <1>6 DEF OCIInv

\* A process that gives up.
LEMMA FailStep ==
    ASSUME OCIInv, NEW c \in Getters, get[c].pc # "idle", get[c].pc # "failed",
           UNCHANGED <<setup, docker, logins, now, cache>>, Fail(c)
    PROVE  OCIInv'
  <1>1. PICK x : x = [get[c] EXCEPT !.pc = "failed"]
    OBVIOUS
  <1>2. get' = [get EXCEPT ![c] = x]
    BY <1>1 DEF Fail, Goto
  <1>3. GetInv(get[c], WithPassword, now)
    BY DEF OCIInv
  <1>4. "pc" \in DOMAIN get[c]
    BY <1>3 DEF GetInv, Asking, Answered, Printed
  <1>5. x.pc = "failed"
    BY <1>1, <1>4
  <1> QED
    BY <1>2, <1>5, ProcessStep DEF GetInv

\* A process that goes on asking, with the credentials it has or others.
LEMMA AskingOn ==
    ASSUME NEW g, NEW named, NEW time, Asking(g, named), NEW pc \in Entered \cup Exchanging,
           NEW auth, IsAuth(auth), pc \in Exchanging => Carries(g.uri, auth, named),
           pc = "oauth" => auth.method # "basic"
    PROVE  /\ GetInv([g EXCEPT !.pc = pc, !.auth = auth], named, time)
           /\ [g EXCEPT !.pc = pc] = [g EXCEPT !.pc = pc, !.auth = g.auth]
  <1>1. PICK x : x = [g EXCEPT !.pc = pc, !.auth = auth]
    OBVIOUS
  <1>2. g = [pc |-> g.pc, uri |-> g.uri, auth |-> g.auth, expires |-> NoExpiry, token |-> g.token]
    BY DEF Asking
  <1>3. x = [pc |-> pc, uri |-> g.uri, auth |-> auth, expires |-> NoExpiry, token |-> g.token]
    <2>1. PICK y : y = [g EXCEPT !.pc = pc]
      OBVIOUS
    <2>2. y = [pc |-> pc, uri |-> g.uri, auth |-> g.auth, expires |-> NoExpiry, token |-> g.token]
      BY <1>2, <2>1
    <2>3. x = [y EXCEPT !.auth = auth]
      BY <1>1, <2>1
    <2> QED
      BY <2>2, <2>3
  <1>4. [g EXCEPT !.pc = pc] = [g EXCEPT !.pc = pc, !.auth = g.auth]
    BY <1>2
  <1>5. x.pc = pc /\ x.uri = g.uri /\ x.auth = auth /\ x.token = g.token
    BY <1>3
  <1>6. Asking(x, named)
    BY <1>3, <1>5 DEF Asking
  <1> QED
    BY <1>1, <1>4, <1>6 DEF GetInv

\* A process at one of the steps of a request is asking.
LEMMA AtStep ==
    ASSUME OCIInv, NEW c \in Getters, get[c].pc \in Entered \cup Exchanging
    PROVE  Asking(get[c], WithPassword)
  BY DEF OCIInv, GetInv, Answered, Printed, Entered, Exchanging

\* A process that is answered or has printed.
LEMMA AtAnswer ==
    ASSUME OCIInv, NEW c \in Getters
    PROVE  /\ get[c].pc = "answered" => Answered(get[c], WithPassword, now)
           /\ get[c].pc \in {"printed", "done"} => Printed(get[c], WithPassword)
  BY DEF OCIInv, GetInv, Asking, Answered, Printed, Entered, Exchanging

\* Goto to another step of the request.
LEMMA GotoStep ==
    ASSUME OCIInv, NEW c \in Getters, NEW pc \in Entered \cup Exchanging,
           get[c].pc \in Entered \cup Exchanging,
           pc \in Exchanging => get[c].pc \in Exchanging,
           pc = "oauth" => get[c].auth.method # "basic",
           UNCHANGED <<setup, docker, logins, now, cache>>, Goto(c, pc)
    PROVE  OCIInv'
  <1>1. Asking(get[c], WithPassword)
    BY AtStep
  <1>2. IsAuth(get[c].auth)
        /\ (pc \in Exchanging => Carries(get[c].uri, get[c].auth, WithPassword))
    BY <1>1 DEF Asking
  <1>3. GetInv([get[c] EXCEPT !.pc = pc], WithPassword, now)
    <2>1. PICK g : g = get[c]
      OBVIOUS
    <2>2. PICK auth : auth = g.auth
      OBVIOUS
    <2>3. /\ GetInv([g EXCEPT !.pc = pc, !.auth = auth], WithPassword, now)
          /\ [g EXCEPT !.pc = pc] = [g EXCEPT !.pc = pc, !.auth = g.auth]
      BY <1>1, <1>2, <2>1, <2>2, AskingOn
    <2> QED
      BY <2>1, <2>2, <2>3
  <1>4. get' = [get EXCEPT ![c] = [get[c] EXCEPT !.pc = pc]]
    BY DEF Goto
  <1> QED
    BY <1>3, <1>4, ProcessStep

\* The keys of the cache are the scopes of requests for a pull.
LEMMA KeyIsScope ==
    ASSUME NEW u, CacheKey(u) \in Keys
    PROVE  deriveRepository(u).verdict = "pull" /\ CacheKey(u) = deriveRepository(u)
  BY NoKeyAssumption DEF CacheKey

LEMMA NoTokenIsToken == IsToken(NoToken) /\ IsAuth(NoAuth)
  BY DEF IsToken, NoToken, IsAuth, NoAuth, AuthConfig

LEMMA StartStep ==
    ASSUME OCIInv, NEW c \in Getters, NEW u \in URIs, Start(c, u)
    PROVE  OCIInv'
  <1> DEFINE hit == Retrieve(cache, CacheKey(u))
             verdict == deriveRepository(u).verdict
             Next5(pc, token) ==
                [pc |-> pc, uri |-> u, auth |-> NoAuth, expires |-> NoExpiry, token |-> token]
  <1>1. UNCHANGED <<setup, docker, logins, now, cache>>
    BY DEF Start
  <1>2. \A pc, token : Request(c, pc, u, NoAuth, NoExpiry, token)
                         <=> get' = [get EXCEPT ![c] = Next5(pc, token)]
    BY DEF Request
  <1>3. CASE hit # Absent
    <2>1. get' = [get EXCEPT ![c] = Next5("done", hit.headers)]
      BY <1>2, <1>3 DEF Start
    <2>2. CacheKey(u) \in Keys /\ hit = cache[CacheKey(u)]
      BY <1>3 DEF Retrieve
    <2>3. Kept(CacheKey(u), hit)
      BY <2>2, <1>3 DEF OCIInv
    <2>4. hit.headers.scope = deriveRepository(u) /\ IsToken(hit.headers)
      BY <2>2, <2>3, KeyIsScope DEF Kept
    <2>5. Printed(Next5("done", hit.headers), WithPassword)
      <3> HIDE DEF hit
      <3> QED
        BY <2>4 DEF Printed
    <2> QED
      BY <1>1, <2>1, <2>5, ProcessStep DEF GetInv
  <1>4. CASE hit = Absent
    <2>1. PICK pc : /\ get' = [get EXCEPT ![c] = Next5(pc, NoToken)]
                    /\ \/ pc = "failed"
                       \/ pc = "printed" /\ verdict = "ignore"
                       \/ pc = "challenge"
      <3>1. verdict \in {"error", "ignore", "pull"}
        BY DEF deriveRepository, Refused, Ignored, Pull
      <3>2. CASE verdict = "error"
        BY <1>2, <1>4, <3>2 DEF Start
      <3>3. CASE verdict = "ignore"
        BY <1>2, <1>4, <3>3 DEF Start
      <3>4. CASE verdict = "pull"
        BY <1>2, <1>4, <3>4 DEF Start
      <3> QED
        BY <3>1, <3>2, <3>3, <3>4
    <2> HIDE DEF hit
    <2>2. GetInv(Next5(pc, NoToken), WithPassword, now)
      <3>1. CASE pc = "failed"
        BY <3>1 DEF GetInv
      <3>2. CASE pc = "printed" /\ verdict = "ignore"
        BY <3>2, NoTokenIsToken DEF GetInv, Printed
      <3>3. CASE pc = "challenge"
        BY <3>3, NoTokenIsToken DEF GetInv, Asking, Entered, Exchanging
      <3> QED
        BY <2>1, <3>1, <3>2, <3>3
    <2> QED
      BY <1>1, <2>1, <2>2, ProcessStep
  <1> QED
    BY <1>3, <1>4

LEMMA WWWAuthenticateStep ==
    ASSUME OCIInv, NEW c \in Getters, WWWAuthenticate(c)
    PROVE  OCIInv'
  <1>1. get[c].pc = "challenge" /\ UNCHANGED <<setup, docker, logins, now, cache>>
    BY DEF WWWAuthenticate
  <1>2. Fail(c) \/ Goto(c, "docker")
    BY DEF WWWAuthenticate
  <1>3. CASE Fail(c)
    BY <1>1, <1>3, FailStep
  <1>4. CASE Goto(c, "docker")
    BY <1>1, <1>4, GotoStep DEF Entered, Exchanging
  <1> QED
    BY <1>2, <1>3, <1>4

\* The entry of a docker config is an AuthConfig.
LEMMA DockerAuth ==
    ASSUME NEW s \in Setups, NEW d \in Dockers, NEW registry,
           NEW file, file = loadDockerConfig(d), file # "unreadable",
           NEW config, config = IF file = "none" THEN EmptyDocker ELSE DockerFiles[file]
    PROVE  IsAuth(authForHost(config, registry, s.helper, Pairs).auth)
  <1>1. \A r \in DOMAIN config.auths : IsAuth(config.auths[r])
    <2>1. CASE file = "none"
      BY <2>1 DEF EmptyDocker
    <2>2. CASE file # "none"
      <3> DEFINE there == {i \in DOMAIN d : d[i] # "missing"}
                 first == CHOOSE i \in there : \A j \in there : i <= j
      <3>1. there # {} /\ file = d[first]
        BY <2>2 DEF loadDockerConfig
      <3>2. d \in Seq(DOMAIN DockerFiles \cup {"missing", "unreadable"})
        BY InputAssumption
      <3>3. there \subseteq Nat
        BY <3>2
      <3>4. first \in there
        <4> HIDE DEF there
        <4> QED
          BY <3>1, <3>3, FirstExists
      <3>5. d[first] \in DOMAIN DockerFiles
        <4> HIDE DEF first
        <4> QED
          BY <3>1, <3>2, <3>4
      <3> QED
        BY <2>2, <3>1, <3>5, InputAssumption
    <2> QED
      BY <2>1, <2>2
  <1>2. IsAuth(NoAuth) /\ IsAuth(AuthConfig(s.helper, "stored", "", ""))
    BY DEF IsAuth, NoAuth, AuthConfig
  <1>3. ASSUME NEW entry, IsAuth(entry)
        PROVE  IsAuth(toAuthConfig(entry, Pairs))
    <2>1. ASSUME NEW a, NEW b
          PROVE  IsAuth([entry EXCEPT !.username = a, !.password = b])
      <3>1. PICK e : e = [entry EXCEPT !.username = a]
        OBVIOUS
      <3>2. IsAuth(e)
        BY <1>3, <3>1 DEF IsAuth
      <3>3. IsAuth([e EXCEPT !.password = b])
        BY <3>2 DEF IsAuth
      <3> QED
        BY <3>1, <3>3
    <2>2. \A a : IsAuth([entry EXCEPT !.auth = a])
      BY <1>3 DEF IsAuth
    <2> QED
      BY <1>3, <2>1, <2>2 DEF toAuthConfig
  <1>5. CASE registry \in config.credHelpers \/ config.credsStore
    <2>1. PICK stored : stored = AuthConfig(s.helper, "stored", "", "")
      OBVIOUS
    <2> QED
      BY <1>2, <1>5, <2>1 DEF authForHost
  <1>6. CASE ~(registry \in config.credHelpers \/ config.credsStore)
    BY <1>1, <1>2, <1>3, <1>6 DEF authForHost
  <1> QED
    BY <1>5, <1>6

LEMMA ReadDockerStep ==
    ASSUME OCIInv, NEW c \in Getters, ReadDocker(c)
    PROVE  OCIInv'
  <1>1. get[c].pc = "docker" /\ UNCHANGED <<setup, docker, logins, now, cache>>
    BY DEF ReadDocker
  <1>2. PICK g : g = get[c]
    OBVIOUS
  <1>3. Asking(g, WithPassword)
    BY <1>1, <1>2, AtStep DEF Entered
  <1>4. PICK file : file = loadDockerConfig(docker)
    OBVIOUS
  <1>5. PICK entry : entry = authForHost(IF file = "none" THEN EmptyDocker ELSE DockerFiles[file],
                                         Registry(c), setup.helper, Pairs)
    OBVIOUS
  <1>6. \/ Fail(c)
        \/ Goto(c, "chain")
        \/ /\ Registry(c) \in DOMAIN setup.custom
           /\ get' = [get EXCEPT ![c] =
                        [g EXCEPT !.pc = "exchange", !.auth = setup.custom[Registry(c)]]]
        \/ /\ file # "unreadable"
           /\ get' = [get EXCEPT ![c] = [g EXCEPT !.pc = "chain", !.auth = entry.auth]]
    BY <1>2, <1>4, <1>5 DEF ReadDocker
  <1>7. CASE Fail(c)
    BY <1>1, <1>7, FailStep
  <1>8. CASE Goto(c, "chain")
    BY <1>1, <1>8, GotoStep DEF Entered, Exchanging
  <1>9. CASE /\ Registry(c) \in DOMAIN setup.custom
             /\ get' = [get EXCEPT ![c] =
                          [g EXCEPT !.pc = "exchange", !.auth = setup.custom[Registry(c)]]]
    <2>1. PICK auth : auth = setup.custom[Registry(c)]
      OBVIOUS
    <2>2. IsAuth(auth)
      BY <1>9, <2>1, InputAssumption DEF OCIInv, WorldInv
    <2>3. Carries(g.uri, auth, WithPassword)
      BY <1>2, <1>9 DEF Carries, WithPassword, Registry
    <2>4. GetInv([g EXCEPT !.pc = "exchange", !.auth = auth], WithPassword, now)
      BY <1>3, <2>2, <2>3, AskingOn DEF Exchanging
    <2> QED
      BY <1>1, <1>9, <2>1, <2>4, ProcessStep
  <1>10. CASE /\ file # "unreadable"
              /\ get' = [get EXCEPT ![c] = [g EXCEPT !.pc = "chain", !.auth = entry.auth]]
    <2>1. IsAuth(entry.auth)
      BY <1>4, <1>5, <1>10, DockerAuth DEF OCIInv, WorldInv
    <2>2. GetInv([g EXCEPT !.pc = "chain", !.auth = entry.auth], WithPassword, now)
      BY <1>3, <2>1, AskingOn DEF Exchanging, Entered
    <2> QED
      BY <1>1, <1>10, <2>2, ProcessStep
  <1> QED
    BY <1>6, <1>7, <1>8, <1>9, <1>10

\* All the fields of an AuthConfig replaced.
Replaced(a, u, p, o, i, r, m) ==
    [a EXCEPT !.username = u, !.password = p, !.auth = o, !.identityToken = i,
              !.registryToken = r, !.method = m]

LEMMA AuthReplaced ==
    ASSUME NEW a, IsAuth(a), NEW u, NEW p, NEW o, NEW i, NEW r, NEW m
    PROVE  Replaced(a, u, p, o, i, r, m)
             = [username |-> u, password |-> p, auth |-> o, identityToken |-> i,
                registryToken |-> r, method |-> m]
  <1>1. PICK b : b = [a EXCEPT !.username = u, !.password = p, !.auth = o]
    OBVIOUS
  <1>2. PICK d : d = [a EXCEPT !.username = u]
    OBVIOUS
  <1>3. PICK e : e = [d EXCEPT !.password = p]
    OBVIOUS
  <1>4. d = [username |-> u, password |-> a.password, auth |-> a.auth,
             identityToken |-> a.identityToken, registryToken |-> a.registryToken,
             method |-> a.method]
    BY <1>2 DEF IsAuth
  <1>5. e = [username |-> u, password |-> p, auth |-> a.auth,
             identityToken |-> a.identityToken, registryToken |-> a.registryToken,
             method |-> a.method]
    BY <1>3, <1>4
  <1>6. b = [e EXCEPT !.auth = o]
    BY <1>1, <1>2, <1>3
  <1>7. b = [username |-> u, password |-> p, auth |-> o,
             identityToken |-> a.identityToken, registryToken |-> a.registryToken,
             method |-> a.method]
    BY <1>5, <1>6
  <1>8. PICK f : f = [b EXCEPT !.identityToken = i]
    OBVIOUS
  <1>9. f = [username |-> u, password |-> p, auth |-> o, identityToken |-> i,
             registryToken |-> a.registryToken, method |-> a.method]
    BY <1>7, <1>8
  <1>10. PICK h : h = [f EXCEPT !.registryToken = r]
    OBVIOUS
  <1>11. h = [username |-> u, password |-> p, auth |-> o, identityToken |-> i,
              registryToken |-> r, method |-> a.method]
    BY <1>9, <1>10
  <1>12. [h EXCEPT !.method = m] = [username |-> u, password |-> p, auth |-> o,
                                    identityToken |-> i, registryToken |-> r, method |-> m]
    BY <1>11
  <1>13. Replaced(a, u, p, o, i, r, m)
           = [[[b EXCEPT !.identityToken = i] EXCEPT !.registryToken = r] EXCEPT !.method = m]
    BY <1>1 DEF Replaced
  <1> QED
    BY <1>8, <1>10, <1>12, <1>13

\* A password of the chain ends up in the credentials, with a user name.
LEMMA OverridesPassword ==
    ASSUME NEW world, NEW config, NEW auth, IsAuth(auth),
           NEW found, found = Lookup(world, config.lookup_chain, "password")
    PROVE  /\ IsAuth(Overrides(world, config, auth))
           /\ found \notin Errors /\ found # "" =>
                HasPassword(Overrides(world, config, auth))
                /\ Overrides(world, config, auth).password = found
  <1> DEFINE chain == config.lookup_chain
             user == FoundOr(world, chain, "username", auth.username)
             password == FoundOr(world, chain, "password", auth.password)
             merged == OverridesWithoutUsername(world, config, auth)
             name == IF found \notin Errors /\ user = "" THEN "unset" ELSE user
  <1>1. merged = [username |-> user, password |-> password,
                  auth |-> FoundOr(world, chain, "auth", auth.auth),
                  identityToken |-> FoundOr(world, chain, "identitytoken", auth.identityToken),
                  registryToken |-> FoundOr(world, chain, "registrytoken", auth.registryToken),
                  method |-> config.token_exchange_method]
    <2>1. PICK o : o = FoundOr(world, chain, "auth", auth.auth)
      OBVIOUS
    <2>2. PICK i : i = FoundOr(world, chain, "identitytoken", auth.identityToken)
      OBVIOUS
    <2>3. PICK r : r = FoundOr(world, chain, "registrytoken", auth.registryToken)
      OBVIOUS
    <2>4. PICK m : m = config.token_exchange_method
      OBVIOUS
    <2>5. merged = Replaced(auth, user, password, o, i, r, m)
      BY <2>1, <2>2, <2>3, <2>4 DEF OverridesWithoutUsername, Replaced
    <2> HIDE DEF user, password, merged
    <2>6. merged = [username |-> user, password |-> password, auth |-> o, identityToken |-> i,
                    registryToken |-> r, method |-> m]
      BY <2>5, AuthReplaced
    <2> QED
      BY <2>1, <2>2, <2>3, <2>4, <2>6
  <1>2. IsAuth(merged) /\ merged.username = user /\ merged.password = password
    <2> HIDE DEF merged, user, password
    <2> QED
      BY <1>1 DEF IsAuth
  <1>3. Overrides(world, config, auth) = [merged EXCEPT !.username = name]
    <2>1. Overrides(world, config, auth) =
            [merged EXCEPT !.username = IF found \notin Errors /\ merged.username = ""
                                        THEN "unset" ELSE merged.username]
      BY DEF Overrides
    <2> QED
      BY <1>2, <2>1
  <1> HIDE DEF merged, user, name, password
  <1>4. PICK x : x = [merged EXCEPT !.username = name]
    OBVIOUS
  <1>5. IsAuth(x) /\ x.username = name /\ x.password = password
    BY <1>2, <1>4 DEF IsAuth
  <1>6. found \notin Errors => password = found /\ name # ""
    BY DEF password, FoundOr, name
  <1> QED
    BY <1>3, <1>4, <1>5, <1>6 DEF HasPassword

LEMMA ReadChainStep ==
    ASSUME OCIInv, NEW c \in Getters, ReadChain(c)
    PROVE  OCIInv'
  <1>1. get[c].pc = "chain" /\ UNCHANGED <<setup, docker, logins, now, cache>>
    BY DEF ReadChain
  <1>2. PICK g : g = get[c]
    OBVIOUS
  <1>3. Asking(g, WithPassword)
    BY <1>1, <1>2, AtStep DEF Entered
  <1>4. PICK auth : auth = Overrides(World, Config(Registry(c)), g.auth)
    OBVIOUS
  <1>5. get' = [get EXCEPT ![c] = [g EXCEPT !.pc = "exchange", !.auth = auth]]
    BY <1>2, <1>4 DEF ReadChain
  <1>6. IsAuth(auth) /\ Carries(g.uri, auth, WithPassword)
    <2>1. IsAuth(g.auth)
      BY <1>3 DEF Asking
    <2>2. PICK found : found = Lookup(World, Config(Registry(c)).lookup_chain, "password")
      OBVIOUS
    <2>3. found = ChainPassword(g.uri)
      BY <1>2, <2>2 DEF ChainPassword, Registry
    <2>4. \A p : <<g.uri, p>> \in WithPassword => p = found /\ found \notin Errors /\ found # ""
      BY <2>3 DEF WithPassword
    <2>5. IsAuth(auth) /\ (found \notin Errors /\ found # "" => HasPassword(auth) /\ auth.password = found)
      BY <1>4, <2>1, <2>2, OverridesPassword
    <2> QED
      BY <2>4, <2>5 DEF Carries
  <1>7. GetInv([g EXCEPT !.pc = "exchange", !.auth = auth], WithPassword, now)
    BY <1>3, <1>6, AskingOn DEF Exchanging
  <1> QED
    BY <1>1, <1>5, <1>7, ProcessStep

LEMMA ExchangeStep ==
    ASSUME OCIInv, NEW c \in Getters, Exchange(c)
    PROVE  OCIInv'
  <1>1. get[c].pc = "exchange" /\ UNCHANGED <<setup, docker, logins, now, cache>>
    BY DEF Exchange
  <1>2. PICK g : g = get[c]
    OBVIOUS
  <1>3. Asking(g, WithPassword)
    BY <1>1, <1>2, AtStep DEF Exchanging
  <1>4. PICK token : token = [scope |-> deriveRepository(g.uri),
                              sent |-> Evidence("registry token", g.auth.registryToken),
                              ends |-> 0, delay |-> 0]
    OBVIOUS
  <1>5. \/ Fail(c)
        \/ \E pc \in {"oauth", "basic"} : Goto(c, pc) /\ (pc = "oauth" => g.auth.method # "basic")
        \/ /\ g.auth.registryToken # ""
           /\ get' = [get EXCEPT ![c] = [g EXCEPT !.pc = "printed", !.token = token]]
    <2>1. PICK pc : pc = Endpoint(g.auth)
      OBVIOUS
    <2>2. pc \in {"oauth", "basic"} /\ (pc = "oauth" => g.auth.method # "basic")
      BY <2>1 DEF Endpoint
    <2> QED
      BY <1>2, <1>4, <2>1, <2>2 DEF Exchange
  <1>6. CASE Fail(c)
    BY <1>1, <1>6, FailStep
  <1>7. CASE \E pc \in {"oauth", "basic"} : Goto(c, pc) /\ (pc = "oauth" => g.auth.method # "basic")
    BY <1>1, <1>2, <1>7, GotoStep DEF Entered, Exchanging
  <1>8. CASE /\ g.auth.registryToken # ""
             /\ get' = [get EXCEPT ![c] = [g EXCEPT !.pc = "printed", !.token = token]]
    <2>1. PICK y : y = [g EXCEPT !.pc = "printed"]
      OBVIOUS
    <2>2. PICK x : x = [y EXCEPT !.token = token]
      OBVIOUS
    <2>3. y = [pc |-> "printed", uri |-> g.uri, auth |-> g.auth, expires |-> NoExpiry,
               token |-> g.token]
      BY <1>3, <2>1 DEF Asking
    <2>4. x = [pc |-> "printed", uri |-> g.uri, auth |-> g.auth, expires |-> NoExpiry,
               token |-> token]
      BY <2>2, <2>3
    <2>5. IsToken(token) /\ token.scope = deriveRepository(g.uri)
      BY <1>4 DEF IsToken
    <2>9. Speaks(g.uri, g.auth, token.sent, WithPassword)
      BY <1>4, <1>8 DEF Speaks
    <2>6. g.uri \in URIs
      BY <1>3 DEF Asking
    <2>7. Printed(x, WithPassword)
      BY <2>4, <2>5, <2>6, <2>9 DEF Printed
    <2>8. get' = [get EXCEPT ![c] = x]
      BY <1>8, <2>1, <2>2
    <2> QED
      BY <1>1, <2>7, <2>8, ProcessStep DEF GetInv
  <1> QED
    BY <1>5, <1>6, <1>7, <1>8

\* A token that is issued: the password of the chain was sent for it, or the
\* identity token that replaces it at the OAuth endpoint.
LEMMA IssueStep ==
    ASSUME OCIInv, NEW c \in Getters, get[c].pc \in {"oauth", "basic"},
           NEW response \in Responses, Issue(c, response),
           UNCHANGED <<setup, docker, logins, now, cache>>
    PROVE  OCIInv'
  <1>1. PICK g : g = get[c]
    OBVIOUS
  <1>2. Asking(g, WithPassword)
    BY <1>1, AtStep DEF Exchanging
  <1>3. PICK sent : sent = Sent(g.pc, g.auth)
    OBVIOUS
  <1>4. PICK token : token = [scope |-> deriveRepository(g.uri), sent |-> sent,
                              ends |-> now + Life(response), delay |-> 0]
    OBVIOUS
  <1>5. PICK x : x = [pc |-> "answered", uri |-> g.uri, auth |-> g.auth, response |-> response,
                      issued |-> now, token |-> token]
    OBVIOUS
  <1>6. get' = [get EXCEPT ![c] = x]
    BY <1>1, <1>3, <1>4, <1>5 DEF Issue, Life
  <1>7. now \in Nat /\ Life(response) \in Nat
    BY OCIAssumption, InputAssumption DEF OCIInv, WorldInv, Life
  <1>8. IsToken(token)
    BY <1>4, <1>7 DEF IsToken
  <1>9. g.uri \in URIs /\ Speaks(g.uri, g.auth, sent, WithPassword)
    <2>1. /\ g.uri \in URIs /\ Carries(g.uri, g.auth, WithPassword)
          /\ g.pc = "oauth" => g.auth.method # "basic"
      BY <1>1, <1>2 DEF Asking, Exchanging
    <2>2. PICK auth : auth = g.auth
      OBVIOUS
    <2>3. \A p : <<g.uri, p>> \in WithPassword => HasPassword(auth) /\ auth.password = p
      BY <2>1, <2>2 DEF Carries
    <2>4. HasPassword(auth) =>
            \/ sent = Evidence("password", auth.password)
            \/ /\ sent = Evidence("identity token", auth.identityToken)
               /\ auth.identityToken # "" /\ auth.method # "basic"
      BY <1>3, <2>1, <2>2 DEF Sent
    <2> QED
      BY <2>1, <2>2, <2>3, <2>4 DEF Speaks
  <1>10. Answered(x, WithPassword, now)
    BY <1>4, <1>5, <1>7, <1>8, <1>9 DEF Answered
  <1> QED
    BY <1>6, <1>10, ProcessStep DEF GetInv

LEMMA TokenSteps ==
    ASSUME OCIInv, NEW c \in Getters, BasicToken(c) \/ OAuthToken(c)
    PROVE  OCIInv'
  <1>1. get[c].pc \in {"oauth", "basic"} /\ UNCHANGED <<setup, docker, logins, now, cache>>
    BY DEF BasicToken, OAuthToken
  <1>2. Fail(c) \/ Goto(c, "basic") \/ \E response \in Responses : Issue(c, response)
    BY DEF BasicToken, OAuthToken
  <1>3. CASE Fail(c)
    BY <1>1, <1>3, FailStep
  <1>4. CASE Goto(c, "basic")
    BY <1>1, <1>4, GotoStep DEF Entered, Exchanging
  <1>5. CASE \E response \in Responses : Issue(c, response)
    BY <1>1, <1>5, IssueStep
  <1> QED
    BY <1>2, <1>3, <1>4, <1>5

\* The expiry exceeds the end of the token by the delay at most.
LEMMA ReceiveStep ==
    ASSUME OCIInv, NEW c \in Getters, Receive(c)
    PROVE  OCIInv'
  <1>1. PICK g : g = get[c]
    OBVIOUS
  <1>2. g.pc = "answered" /\ UNCHANGED <<setup, docker, logins, now, cache>>
    BY <1>1 DEF Receive
  <1>3. Answered(g, WithPassword, now)
    BY <1>1, <1>2, AtAnswer
  <1>4. PICK late : late = IF g.response.issuedAt = "told" THEN 0 ELSE now - g.issued
    OBVIOUS
  <1>5. PICK token : token = [g.token EXCEPT !.delay = late]
    OBVIOUS
  <1>6. PICK x : x = [pc |-> "printed", uri |-> g.uri, auth |-> g.auth,
                      expires |-> Convert(g.issued, g.response, now), token |-> token]
    OBVIOUS
  <1>7. get' = [get EXCEPT ![c] = x]
    BY <1>1, <1>4, <1>5, <1>6 DEF Receive, Request
  <1>8. now \in Nat /\ g.issued \in Nat /\ g.issued <= now /\ Life(g.response) \in Nat
    BY <1>3, OCIAssumption, InputAssumption DEF OCIInv, WorldInv, Life, Answered
  <1>9. late \in Nat
    BY <1>4, <1>8
  <1>10. /\ IsToken(token) /\ token.scope = g.token.scope /\ token.ends = g.token.ends
         /\ token.sent = g.token.sent /\ token.delay = late
    <2>1. PICK t : t = g.token
      OBVIOUS
    <2>2. t = [scope |-> t.scope, sent |-> t.sent, ends |-> t.ends, delay |-> t.delay]
          /\ t.ends \in Nat
      BY <1>3, <2>1 DEF Answered, IsToken
    <2>3. token = [scope |-> t.scope, sent |-> t.sent, ends |-> t.ends, delay |-> late]
      BY <1>5, <2>1, <2>2
    <2> QED
      BY <1>9, <2>1, <2>2, <2>3 DEF IsToken
  <1>11. /\ Convert(g.issued, g.response, now) \in Nat
         /\ Convert(g.issued, g.response, now) <= g.token.ends + late
    <2>1. g.token.ends = g.issued + Life(g.response)
      BY <1>3 DEF Answered
    <2>2. Convert(g.issued, g.response, now)
            = (IF g.response.issuedAt = "told" THEN g.issued ELSE now) + Life(g.response)
      BY DEF Convert, Life
    <2> QED
      BY <1>4, <1>8, <2>1, <2>2
  <1>12. Printed(x, WithPassword)
    BY <1>3, <1>6, <1>10, <1>11 DEF Printed, Answered
  <1> QED
    BY <1>2, <1>7, <1>12, ProcessStep DEF GetInv

\* What is stored is stored under the scope of the token.
LEMMA StoreStep ==
    ASSUME OCIInv, NEW c \in Getters, StoreAnswer(c)
    PROVE  OCIInv'
  <1>1. PICK g : g = get[c]
    OBVIOUS
  <1>2. g.pc = "printed" /\ UNCHANGED <<setup, docker, logins, now>> /\ Goto(c, "done")
    BY <1>1 DEF StoreAnswer
  <1>3. Printed(g, WithPassword)
    BY <1>1, <1>2, AtAnswer
  <1>4. PICK x : x = [g EXCEPT !.pc = "done"]
    OBVIOUS
  <1>5. get' = [get EXCEPT ![c] = x]
    BY <1>1, <1>2, <1>4 DEF Goto
  <1>6. GetInv(x, WithPassword, now)
    <2>1. x = [pc |-> "done", uri |-> g.uri, auth |-> g.auth, expires |-> g.expires,
               token |-> g.token]
      BY <1>3, <1>4 DEF Printed
    <2> QED
      BY <1>3, <2>1 DEF Printed, GetInv
  <1>7. PICK entry : entry = [expires |-> g.expires, headers |-> g.token]
    OBVIOUS
  <1>8. PICK key : key = CacheKey(g.uri)
    OBVIOUS
  <1>9. cache' = IF key # NoKey /\ g.expires # NoExpiry THEN [cache EXCEPT ![key] = entry] ELSE cache
    BY <1>1, <1>7, <1>8 DEF StoreAnswer, Store, Storable
  <1>10. key \in Keys /\ g.expires # NoExpiry => Kept(key, entry)
    <2> SUFFICES ASSUME key \in Keys, g.expires # NoExpiry
                 PROVE  Kept(key, entry)
      OBVIOUS
    <2>1. deriveRepository(g.uri).verdict = "pull" /\ key = deriveRepository(g.uri)
      BY <1>8, KeyIsScope
    <2> QED
      BY <1>2, <1>3, <1>7, <2>1 DEF Printed, Kept
  <1>11. cache' = [k \in Keys |-> cache'[k]] /\ \A k \in Keys : cache'[k] # Absent => Kept(k, cache'[k])
    <2>1. CASE key # NoKey /\ g.expires # NoExpiry
      <3>1. cache' = [k \in Keys |-> IF k = key THEN entry ELSE cache[k]]
        BY <1>9, <2>1 DEF OCIInv
      <3>2. \A k \in Keys : cache'[k] = IF k = key THEN entry ELSE cache[k]
        BY <3>1
      <3>3. cache' = [k \in Keys |-> cache'[k]]
        BY <3>1
      <3> QED
        BY <1>10, <2>1, <3>2, <3>3 DEF OCIInv
    <2>2. CASE ~(key # NoKey /\ g.expires # NoExpiry)
      BY <1>9, <2>2 DEF OCIInv
    <2> QED
      BY <2>1, <2>2
  <1>12. WithPassword' = WithPassword /\ WorldInv' /\ now' = now
    BY <1>2 DEF WithPassword, ChainPassword, World, Config, WorldInv, OCIInv
  <1>13. get' = [d \in Getters |-> IF d = c THEN x ELSE get[d]]
    BY <1>5 DEF OCIInv
  <1>14. get' = [d \in Getters |-> get'[d]] /\ \A d \in Getters : GetInv(get'[d], WithPassword, now)
    BY <1>6, <1>13 DEF OCIInv
  <1> QED
    BY <1>11, <1>12, <1>14 DEF OCIInv

LEMMA PruneStep ==
    ASSUME OCIInv, AgentPrune
    PROVE  OCIInv'
  <1>1. UNCHANGED <<setup, docker, logins, now, get>>
    BY DEF AgentPrune
  <1>2. WithPassword' = WithPassword /\ WorldInv'
    BY <1>1 DEF WithPassword, ChainPassword, World, Config, WorldInv, OCIInv
  <1>3. cache' = [k \in Keys |-> IF cache[k] # Absent /\ Evictable(cache[k], now)
                                 THEN Absent ELSE cache[k]]
    BY DEF AgentPrune, Prune
  <1>4. cache' = [k \in Keys |-> cache'[k]]
    BY <1>3
  <1>5. \A k \in Keys : cache'[k] # Absent => cache'[k] = cache[k]
    BY <1>3
  <1> QED
    BY <1>1, <1>2, <1>4, <1>5 DEF OCIInv

\* Time goes by while answers are under way.
LEMMA TickStep ==
    ASSUME OCIInv, Tick
    PROVE  OCIInv'
  <1>1. UNCHANGED <<setup, docker, logins, cache, get>> /\ now' = now + 1 /\ now < MaxTime
    BY DEF Tick
  <1>2. WithPassword' = WithPassword
    BY <1>1 DEF WithPassword, ChainPassword, World, Config
  <1>3. now \in Nat /\ WorldInv'
    BY <1>1, OCIAssumption DEF WorldInv, OCIInv
  <1>4. ASSUME NEW c \in Getters
        PROVE  GetInv(get[c], WithPassword, now')
    <2>1. GetInv(get[c], WithPassword, now)
      BY DEF OCIInv
    <2>2. Answered(get[c], WithPassword, now) => Answered(get[c], WithPassword, now')
      BY <1>1, <1>3 DEF Answered
    <2> QED
      BY <2>1, <2>2 DEF GetInv
  <1> QED
    BY <1>1, <1>2, <1>3, <1>4 DEF OCIInv

LEMMA DockerLoginStep ==
    ASSUME OCIInv, DockerLogin
    PROVE  OCIInv'
  <1>1. UNCHANGED <<setup, now, cache, get>> /\ docker' \in Dockers /\ logins' = logins + 1
        /\ logins < MaxLogins
    BY DEF DockerLogin
  <1>2. WithPassword' = WithPassword
    BY <1>1 DEF WithPassword, ChainPassword, World, Config
  <1>3. WorldInv'
    BY <1>1, OCIAssumption DEF WorldInv, OCIInv
  <1> QED
    BY <1>1, <1>2, <1>3 DEF OCIInv

LEMMA InitOCI ==
    ASSUME Init
    PROVE  OCIInv
  <1>1. \A c \in Getters : get[c] = [pc |-> "idle"]
    BY DEF Init
  <1>2. WorldInv
    BY OCIAssumption DEF Init, WorldInv
  <1>3. \A k \in Keys : cache[k] = Absent
    BY DEF Init, EmptyCache
  <1>4. cache = [k \in Keys |-> cache[k]] /\ get = [c \in Getters |-> get[c]]
    BY DEF Init, EmptyCache
  <1> QED
    BY <1>1, <1>2, <1>3, <1>4 DEF OCIInv, GetInv

LEMMA NextOCI ==
    ASSUME OCIInv, [Next]_vars
    PROVE  OCIInv'
  <1>1. CASE UNCHANGED vars
    <2>1. WithPassword' = WithPassword
      BY <1>1 DEF vars, WithPassword, ChainPassword, World, Config
    <2> QED
      BY <1>1, <2>1 DEF vars, OCIInv, WorldInv
  <1>2. CASE Next
    <2>1. ASSUME NEW c \in Getters, (\E u \in URIs : Start(c, u)) \/ Step(c)
          PROVE  OCIInv'
      BY <2>1, StartStep, WWWAuthenticateStep, ReadDockerStep, ReadChainStep, ExchangeStep,
         TokenSteps, ReceiveStep, StoreStep DEF Step
    <2> QED
      BY <1>2, <2>1, DockerLoginStep, PruneStep, TickStep DEF Next
  <1> QED
    BY <1>1, <1>2

\* The invariant holds in every state: the credentials of a process, the token
\* under way and the entries of the cache belong to the request.
THEOREM OCIInvariance == Spec => []OCIInv
  <1>1. OCIInv /\ [Next]_vars => OCIInv'
    BY NextOCI
  <1> QED
    BY <1>1, InitOCI, PTL DEF Spec

-----------------------------------------------------------------------------
(***************************************************************************)
(* What the invariant shows.                                               *)
(***************************************************************************)

\* Every variable keeps its type; what the agent stores has an expiry.
THEOREM TypeCorrect == Spec => []TypeOK
  <1>1. OCIInv => TypeOK
    <2> SUFFICES ASSUME OCIInv
                 PROVE  TypeOK
      OBVIOUS
    <2>1. \A k \in Keys : cache[k] # Absent => cache[k].expires \in Nat
      BY DEF OCIInv, Kept
    <2>2. ASSUME NEW c \in Getters
          PROVE  get[c].pc \in {"idle", "challenge", "docker", "chain", "exchange", "oauth",
                                "basic", "answered", "printed", "done", "failed"}
      <3>1. GetInv(get[c], WithPassword, now)
        BY DEF OCIInv
      <3> QED
        BY <3>1 DEF GetInv, Asking, Answered, Printed, Entered, Exchanging
    <2> QED
      BY <2>1, <2>2 DEF TypeOK, OCIInv, WorldInv
  <1> QED
    BY <1>1, OCIInvariance, PTL

\* No token of one repository or registry is given to a request for another.
THEOREM TokensFit == Spec => []TokenFitsRequest
  <1>1. OCIInv => TokenFitsRequest
    <2> SUFFICES ASSUME OCIInv, NEW c \in Getters, get[c].pc \in Ended,
                        deriveRepository(get[c].uri).verdict = "pull"
                 PROVE  /\ get[c].token.scope.registry = Host(get[c].uri)
                        /\ PullsFrom(get[c].uri, get[c].token.scope.repository)
      BY DEF TokenFitsRequest
    <2>1. Printed(get[c], WithPassword)
      BY AtAnswer DEF Ended
    <2>2. get[c].token.scope = deriveRepository(get[c].uri) /\ get[c].uri.path \in Seq(STRING)
      BY <2>1, InputAssumption DEF Printed
    <2> QED
      BY <2>2, RepositoryOfRequest
  <1> QED
    BY <1>1, OCIInvariance, PTL

\* A password that the lookup chain finds is the one that is sent, unless a
\* registry token or, at the OAuth endpoint, an identity token takes its place.
THEOREM PasswordsSent == Spec => []ChainPasswordIsSent
  <1>1. OCIInv => ChainPasswordIsSent
    <2> SUFFICES ASSUME OCIInv, NEW c \in Getters, get[c].pc \in {"answered", "printed"},
                        deriveRepository(get[c].uri).verdict = "pull",
                        Registry(c) \notin DOMAIN setup.custom,
                        NEW password,
                        password = Lookup(World, Config(Registry(c)).lookup_chain, "password"),
                        password \notin Errors, password # ""
                 PROVE  \/ get[c].token.sent = Evidence("password", password)
                        \/ /\ get[c].token.sent
                                = Evidence("registry token", get[c].auth.registryToken)
                           /\ get[c].auth.registryToken # ""
                        \/ /\ get[c].token.sent
                                = Evidence("identity token", get[c].auth.identityToken)
                           /\ get[c].auth.identityToken # "" /\ get[c].auth.method # "basic"
      BY DEF ChainPasswordIsSent
    <2>1. \/ get[c].pc = "answered" /\ Answered(get[c], WithPassword, now)
          \/ get[c].pc = "printed" /\ Printed(get[c], WithPassword)
      BY AtAnswer
    <2>2. get[c].uri \in URIs
      BY <2>1 DEF Answered, Printed
    <2>3. <<get[c].uri, password>> \in WithPassword
      BY <2>2 DEF WithPassword, ChainPassword, Registry
    <2>4. Speaks(get[c].uri, get[c].auth, get[c].token.sent, WithPassword)
      BY <2>1 DEF Answered, Printed
    <2> QED
      BY <2>3, <2>4 DEF Speaks
  <1> QED
    BY <1>1, OCIInvariance, PTL

\* The recorded expiry is beyond the token's end by the delay of the answer at
\* most.
THEOREM ExpiryBounded == Spec => []ExpiryWithinDelay
  <1>1. OCIInv => ExpiryWithinDelay
    BY DEF OCIInv, Kept, ExpiryWithinDelay
  <1> QED
    BY <1>1, OCIInvariance, PTL

-----------------------------------------------------------------------------
(***************************************************************************)
(* Every step of a Get leads on.                                           *)
(***************************************************************************)

\* The place of a step among the phases, behind them all at the end.
Place(pc) ==
    CASE pc = "idle" -> 1
      [] pc = "challenge" -> 2
      [] pc = "docker" -> 3
      [] pc = "chain" -> 4
      [] pc = "exchange" -> 5
      [] pc = "oauth" -> 6
      [] pc = "basic" -> 7
      [] pc = "answered" -> 8
      [] pc = "printed" -> 9
      [] OTHER -> 10

LEMMA PhasesPlaced ==
    /\ DOMAIN Phases = 1..9
    /\ \A i \in 1..9 : Place(Phases[i]) = i
    /\ \A pc : Place(pc) \in 1..10 /\ (Place(pc) # 10 => Phases[Place(pc)] = pc)
  <1>1. DOMAIN Phases = 1..9
    BY DEF Phases
  <1>2. ASSUME NEW i \in 1..9
        PROVE  Place(Phases[i]) = i
    <2>1. \/ i = 1 \/ i = 2 \/ i = 3 \/ i = 4 \/ i = 5 \/ i = 6 \/ i = 7 \/ i = 8 \/ i = 9
      OBVIOUS
    <2>2. /\ Place(Phases[1]) = 1 /\ Place(Phases[2]) = 2 /\ Place(Phases[3]) = 3
          /\ Place(Phases[4]) = 4 /\ Place(Phases[5]) = 5 /\ Place(Phases[6]) = 6
          /\ Place(Phases[7]) = 7 /\ Place(Phases[8]) = 8 /\ Place(Phases[9]) = 9
      BY DEF Place, Phases
    <2> QED
      BY <2>1, <2>2
  <1>3. ASSUME NEW pc
        PROVE  Place(pc) \in 1..10 /\ (Place(pc) # 10 => Phases[Place(pc)] = pc)
    BY DEF Place, Phases
  <1> QED
    BY <1>1, <1>2, <1>3

\* What is left from a step on.
LEMMA LeftFrom ==
    ASSUME NEW pc
    PROVE  Left(pc) = Place(pc)..9
  <1>1. PICK p : p = Place(pc)
    OBVIOUS
  <1>2. p \in 1..10 /\ (p # 10 => Phases[p] = pc)
    BY <1>1, PhasesPlaced
  <1>3. \A j \in 1..9 : Phases[j] = pc => j = p
    BY <1>1, PhasesPlaced
  <1>4. ASSUME NEW i \in 1..9
        PROVE  (\E j \in 1..i : Phases[j] = pc) <=> p <= i
    <2>1. ASSUME NEW j \in 1..i, Phases[j] = pc
          PROVE  p <= i
      <3>1. j \in 1..9
        OBVIOUS
      <3> QED
        BY <1>3, <2>1, <3>1
    <2>2. ASSUME p <= i
          PROVE  \E j \in 1..i : Phases[j] = pc
      <3>1. p \in 1..i /\ p # 10
        BY <1>2, <2>2
      <3> QED
        BY <1>2, <3>1
    <2> QED
      BY <2>1, <2>2
  <1>5. Left(pc) = {i \in 1..9 : p <= i}
    BY <1>4, PhasesPlaced DEF Left
  <1>6. {i \in 1..9 : p <= i} = p..9
    BY <1>2
  <1> QED
    BY <1>1, <1>5, <1>6

\* A later step leaves less.
LEMMA LeadsOn ==
    ASSUME NEW from, NEW to, Place(from) < Place(to)
    PROVE  Left(to) \subseteq Left(from) /\ Left(to) # Left(from)
  <1>1. PICK m : m = Place(from)
    OBVIOUS
  <1>2. PICK n : n = Place(to)
    OBVIOUS
  <1>3. m \in 1..10 /\ n \in 1..10 /\ m < n
    BY <1>1, <1>2, PhasesPlaced
  <1>4. n..9 \subseteq m..9 /\ m \in m..9 /\ m \notin n..9
    BY <1>3
  <1> QED
    BY <1>1, <1>2, <1>4, LeftFrom

\* A process other than c is left alone, and c gets to the step pc.
LEMMA GotoPlace ==
    ASSUME OCIInv, NEW c \in Getters, NEW x, get' = [get EXCEPT ![c] = x],
           Place(get[c].pc) < Place(x.pc), NEW d \in Getters, get'[d] # get[d]
    PROVE  Left(get'[d].pc) \subseteq Left(get[d].pc) /\ Left(get'[d].pc) # Left(get[d].pc)
  <1>1. get' = [e \in Getters |-> IF e = c THEN x ELSE get[e]]
    BY DEF OCIInv
  <1>2. d = c /\ get'[c] = x
    BY <1>1
  <1> QED
    BY <1>2, LeadsOn

\* A process that has begun has a step, and a new one if it is given one.
LEMMA StepGiven ==
    ASSUME OCIInv, NEW c \in Getters, get[c].pc # "failed", NEW pc, NEW value
    PROVE  /\ [get[c] EXCEPT !.pc = pc].pc = pc
           /\ [get[c] EXCEPT !.pc = pc, !.auth = value].pc = pc
           /\ [get[c] EXCEPT !.pc = pc, !.token = value].pc = pc
  <1>1. PICK g : g = get[c]
    OBVIOUS
  <1>2. "pc" \in DOMAIN g
    BY <1>1 DEF OCIInv, GetInv, Asking, Answered, Printed
  <1>3. PICK h : h = [g EXCEPT !.pc = pc]
    OBVIOUS
  <1>4. "pc" \in DOMAIN h /\ h.pc = pc
    BY <1>2, <1>3
  <1>5. [h EXCEPT !.auth = value].pc = pc /\ [h EXCEPT !.token = value].pc = pc
    BY <1>4
  <1> QED
    BY <1>1, <1>3, <1>4, <1>5

\* The same for Goto, from a state that has a step.
LEMMA GotoLater ==
    ASSUME OCIInv, NEW c \in Getters, NEW pc, Goto(c, pc),
           Place(get[c].pc) < Place(pc), get[c].pc # "failed", NEW d \in Getters, get'[d] # get[d]
    PROVE  Left(get'[d].pc) \subseteq Left(get[d].pc) /\ Left(get'[d].pc) # Left(get[d].pc)
  <1>1. PICK x : x = [get[c] EXCEPT !.pc = pc]
    OBVIOUS
  <1>2. get' = [get EXCEPT ![c] = x]
    BY <1>1 DEF Goto
  <1>3. x.pc = pc
    BY <1>1, StepGiven
  <1> QED
    BY <1>2, <1>3, GotoPlace

\* Every step of a Get leads on: no answer of a registry sends it back.
THEOREM GetsEnd == Spec => GetsLeadOn
  <1>1. ASSUME OCIInv, [Next]_vars
        PROVE  [\A c \in Getters : get'[c] # get[c] =>
                  Left(get'[c].pc) \subseteq Left(get[c].pc)
                    /\ Left(get'[c].pc) # Left(get[c].pc)]_vars
    <2> SUFFICES ASSUME NEW c \in Getters, (\E u \in URIs : Start(c, u)) \/ Step(c),
                        NEW d \in Getters, get'[d] # get[d]
                 PROVE  Left(get'[d].pc) \subseteq Left(get[d].pc)
                          /\ Left(get'[d].pc) # Left(get[d].pc)
      BY <1>1 DEF Next, vars, DockerLogin, AgentPrune, Tick
    <2>1. ASSUME NEW pc, Goto(c, pc), Place(get[c].pc) < Place(pc), get[c].pc # "failed"
          PROVE  Left(get'[d].pc) \subseteq Left(get[d].pc)
                   /\ Left(get'[d].pc) # Left(get[d].pc)
      BY <1>1, <2>1, GotoLater
    <2>2. ASSUME NEW x, get' = [get EXCEPT ![c] = x], Place(get[c].pc) < Place(x.pc)
          PROVE  Left(get'[d].pc) \subseteq Left(get[d].pc)
                   /\ Left(get'[d].pc) # Left(get[d].pc)
      BY <1>1, <2>2, GotoPlace
    <2>3. CASE \E u \in URIs : Start(c, u)
      <3>1. PICK u \in URIs : Start(c, u)
        BY <2>3
      <3>2. deriveRepository(u).verdict \in {"error", "ignore", "pull"}
        BY DEF deriveRepository, Refused, Ignored, Pull
      <3>3. PICK x : get' = [get EXCEPT ![c] = x]
                     /\ x.pc \in {"done", "failed", "printed", "challenge"}
        <4> DEFINE hit == Retrieve(cache, CacheKey(u))
        <4>1. PICK pc, token :
                /\ Request(c, pc, u, NoAuth, NoExpiry, token)
                /\ pc \in {"done", "failed", "printed", "challenge"}
          <5>1. CASE hit # Absent
            BY <3>1, <5>1 DEF Start
          <5>2. CASE hit = Absent /\ deriveRepository(u).verdict = "error"
            BY <3>1, <5>2 DEF Start
          <5>3. CASE hit = Absent /\ deriveRepository(u).verdict = "ignore"
            BY <3>1, <5>3 DEF Start
          <5>4. CASE hit = Absent /\ deriveRepository(u).verdict = "pull"
            BY <3>1, <5>4 DEF Start
          <5> QED
            BY <3>2, <5>1, <5>2, <5>3, <5>4
        <4>2. PICK x : x = [pc |-> pc, uri |-> u, auth |-> NoAuth, expires |-> NoExpiry,
                            token |-> token]
          OBVIOUS
        <4>3. get' = [get EXCEPT ![c] = x]
          BY <4>1, <4>2 DEF Request
        <4>4. x.pc = pc
          BY <4>2
        <4> QED
          BY <4>1, <4>3, <4>4
      <3>4. Place(get[c].pc) < Place(x.pc)
        BY <3>1, <3>3 DEF Start, Place
      <3> QED
        BY <2>2, <3>3, <3>4
    <2>4. CASE WWWAuthenticate(c)
      BY <2>1, <2>4 DEF WWWAuthenticate, Fail, Place
    <2>5. CASE ReadDocker(c)
      <3>1. \/ Goto(c, "failed") \/ Goto(c, "chain")
            \/ \E pc \in {"chain", "exchange"} : \E auth :
                  get' = [get EXCEPT ![c] = [get[c] EXCEPT !.pc = pc, !.auth = auth]]
        BY <2>5 DEF ReadDocker, Fail
      <3>2. get[c].pc = "docker"
        BY <2>5 DEF ReadDocker
      <3>3. CASE Goto(c, "failed") \/ Goto(c, "chain")
        BY <2>1, <3>2, <3>3 DEF Place
      <3>4. ASSUME NEW pc \in {"chain", "exchange"}, NEW auth,
                   get' = [get EXCEPT ![c] = [get[c] EXCEPT !.pc = pc, !.auth = auth]]
            PROVE  Left(get'[d].pc) \subseteq Left(get[d].pc)
                     /\ Left(get'[d].pc) # Left(get[d].pc)
        <4>1. Place(get[c].pc) < Place(pc)
          BY <3>2 DEF Place
        <4>2. [get[c] EXCEPT !.pc = pc, !.auth = auth].pc = pc
          BY <1>1, <3>2, StepGiven
        <4> QED
          BY <2>2, <3>4, <4>1, <4>2
      <3> QED
        BY <3>1, <3>3, <3>4
    <2>6. CASE ReadChain(c)
      <3>1. PICK auth : get' = [get EXCEPT ![c] = [get[c] EXCEPT !.pc = "exchange", !.auth = auth]]
        BY <2>6 DEF ReadChain
      <3>2. get[c].pc = "chain" /\ Place("chain") < Place("exchange")
        BY <2>6 DEF ReadChain, Place
      <3>3. [get[c] EXCEPT !.pc = "exchange", !.auth = auth].pc = "exchange"
        BY <1>1, <3>2, StepGiven
      <3> QED
        BY <2>2, <3>1, <3>2, <3>3
    <2>7. CASE Exchange(c)
      <3>1. Endpoint(get[c].auth) \in {"oauth", "basic"}
        BY DEF Endpoint
      <3>2. get[c].pc = "exchange"
        BY <2>7 DEF Exchange
      <3>3. \/ Goto(c, "failed") \/ Goto(c, "oauth") \/ Goto(c, "basic")
            \/ \E token :
                  get' = [get EXCEPT ![c] = [get[c] EXCEPT !.pc = "printed", !.token = token]]
        BY <2>7, <3>1 DEF Exchange, Fail
      <3>4. CASE Goto(c, "failed") \/ Goto(c, "oauth") \/ Goto(c, "basic")
        BY <2>1, <3>2, <3>4 DEF Place
      <3>5. ASSUME NEW token,
                   get' = [get EXCEPT ![c] = [get[c] EXCEPT !.pc = "printed", !.token = token]]
            PROVE  Left(get'[d].pc) \subseteq Left(get[d].pc)
                     /\ Left(get'[d].pc) # Left(get[d].pc)
        <4>1. Place(get[c].pc) < Place("printed")
          BY <3>2 DEF Place
        <4>2. [get[c] EXCEPT !.pc = "printed", !.token = token].pc = "printed"
          BY <1>1, <3>2, StepGiven
        <4> QED
          BY <2>2, <3>5, <4>1, <4>2
      <3> QED
        BY <3>3, <3>4, <3>5
    <2>8. CASE BasicToken(c) \/ OAuthToken(c)
      <3>1. get[c].pc \in {"oauth", "basic"}
        BY <2>8 DEF BasicToken, OAuthToken
      <3>2. \/ Goto(c, "failed")
            \/ get[c].pc = "oauth" /\ Goto(c, "basic")
            \/ \E x : x.pc = "answered" /\ get' = [get EXCEPT ![c] = x]
        BY <2>8 DEF BasicToken, OAuthToken, Fail, Issue
      <3>3. CASE Goto(c, "failed") \/ (get[c].pc = "oauth" /\ Goto(c, "basic"))
        BY <2>1, <3>1, <3>3 DEF Place
      <3>4. ASSUME NEW x, x.pc = "answered", get' = [get EXCEPT ![c] = x]
            PROVE  Left(get'[d].pc) \subseteq Left(get[d].pc)
                     /\ Left(get'[d].pc) # Left(get[d].pc)
        <4>1. Place(get[c].pc) < Place(x.pc)
          BY <3>1, <3>4 DEF Place
        <4> QED
          BY <2>2, <3>4, <4>1
      <3> QED
        BY <3>2, <3>3, <3>4
    <2>9. CASE Receive(c)
      <3>1. PICK x : x.pc = "printed" /\ get' = [get EXCEPT ![c] = x]
        BY <2>9 DEF Receive, Request
      <3>2. Place(get[c].pc) < Place(x.pc)
        BY <2>9, <3>1 DEF Receive, Place
      <3> QED
        BY <2>2, <3>1, <3>2
    <2>10. CASE StoreAnswer(c)
      BY <2>1, <2>10 DEF StoreAnswer, Place
    <2> QED
      BY <2>3, <2>4, <2>5, <2>6, <2>7, <2>8, <2>9, <2>10 DEF Step
  <1> QED
    BY <1>1, OCIInvariance, PTL DEF Spec, GetsLeadOn

=============================================================================
