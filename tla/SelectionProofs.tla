--------------------------- MODULE SelectionProofs --------------------------
(***************************************************************************)
(* Proofs about Selection, for every config file, every request and every  *)
(* set of plugins: the backtracking of globMatch decides what the patterns *)
(* mean, and the search of FindHelper ends at the first rule that matches. *)
(***************************************************************************)
EXTENDS Selection, TLAPS

-----------------------------------------------------------------------------
(***************************************************************************)
(* Laying a pattern along a candidate.                                     *)
(***************************************************************************)

\* cut lays the pattern behind its first i symbols along the candidate behind
\* its first j.
Lays(p, c, i, j, cut) ==
    /\ cut \in [i..Len(p) -> 0..Len(c)]
    /\ cut[i] = j
    /\ cut[Len(p)] = Len(c)
    /\ \A k \in i..Len(p) - 1 :
          IF p[k + 1] = "*"
          THEN cut[k] <= cut[k + 1]
          ELSE cut[k + 1] = cut[k] + 1 /\ c[cut[k + 1]] = p[k + 1]

\* MatchesFrom asks for such a cut.
LEMMA MatchesLays ==
    ASSUME NEW p, NEW c, NEW i, NEW j
    PROVE  MatchesFrom(p, c, i, j) <=> \E cut : Lays(p, c, i, j, cut)
  BY DEF MatchesFrom, Lays

\* A pattern that is used up matches the empty rest only.
LEMMA MatchesEnd ==
    ASSUME NEW p \in Seq(STRING), NEW c \in Seq(STRING), NEW j \in 0..Len(c)
    PROVE  MatchesFrom(p, c, Len(p), j) <=> j = Len(c)
  <1> DEFINE m == Len(p)
  <1>1. m \in Nat /\ Len(c) \in Nat
    OBVIOUS
  <1>2. ASSUME j = Len(c)
        PROVE  Lays(p, c, m, j, [k \in m..m |-> j])
    BY <1>1, <1>2 DEF Lays
  <1>3. ASSUME NEW cut, Lays(p, c, m, j, cut)
        PROVE  j = Len(c)
    BY <1>3 DEF Lays
  <1> QED
    BY <1>2, <1>3, MatchesLays

\* A cut goes on behind its first symbol.
LEMMA LaysRest ==
    ASSUME NEW p \in Seq(STRING), NEW c \in Seq(STRING),
           NEW i \in 0..Len(p), NEW j, NEW cut, Lays(p, c, i, j, cut), NEW k \in i..Len(p)
    PROVE  /\ cut[k] \in 0..Len(c)
           /\ Lays(p, c, k, cut[k], [l \in k..Len(p) |-> cut[l]])
  <1> DEFINE rest == [l \in k..Len(p) |-> cut[l]]
  <1>1. Len(p) \in Nat /\ Len(c) \in Nat
    OBVIOUS
  <1>2. ASSUME NEW l \in k..Len(p)
        PROVE  l \in i..Len(p) /\ rest[l] = cut[l] /\ cut[l] \in 0..Len(c)
    <2>1. l \in i..Len(p)
      BY <1>1
    <2> QED
      BY <2>1 DEF Lays
  <1>3. \A l \in k..Len(p) - 1 : l + 1 \in k..Len(p) /\ l \in k..Len(p) /\ l \in i..Len(p) - 1
    BY <1>1
  <1>4. rest \in [k..Len(p) -> 0..Len(c)] /\ rest[k] = cut[k] /\ rest[Len(p)] = Len(c)
    BY <1>1, <1>2 DEF Lays
  <1>5. ASSUME NEW l \in k..Len(p) - 1
        PROVE  IF p[l + 1] = "*"
               THEN rest[l] <= rest[l + 1]
               ELSE rest[l + 1] = rest[l] + 1 /\ c[rest[l + 1]] = p[l + 1]
    BY <1>2, <1>3 DEF Lays
  <1> QED
    BY <1>1, <1>2, <1>4, <1>5 DEF Lays

\* A cut can be continued to the front by what suits the symbol there.
LEMMA LaysFront ==
    ASSUME NEW p \in Seq(STRING), NEW c \in Seq(STRING),
           NEW i \in 0..Len(p) - 1, NEW j \in 0..Len(c), NEW rest,
           NEW next, Lays(p, c, i + 1, next, rest),
           IF p[i + 1] = "*" THEN j <= next
           ELSE next = j + 1 /\ c[next] = p[i + 1]
    PROVE  MatchesFrom(p, c, i, j)
  <1> DEFINE cut == [k \in i..Len(p) |-> IF k = i THEN j ELSE rest[k]]
  <1>1. Len(p) \in Nat /\ Len(c) \in Nat
    OBVIOUS
  <1>2. \A k \in i + 1..Len(p) : cut[k] = rest[k] /\ rest[k] \in 0..Len(c)
    BY <1>1 DEF Lays
  <1>3. cut[i] = j /\ cut[i + 1] = next
    BY <1>1, <1>2 DEF Lays
  <1>4. cut \in [i..Len(p) -> 0..Len(c)]
    <2>1. ASSUME NEW k \in i..Len(p)
          PROVE  (IF k = i THEN j ELSE rest[k]) \in 0..Len(c)
      <3>1. k = i \/ k \in i + 1..Len(p)
        BY <1>1
      <3> QED
        BY <1>2, <3>1
    <2> QED
      BY <2>1
  <1>5. cut[Len(p)] = Len(c)
    BY <1>1, <1>2 DEF Lays
  <1>6. ASSUME NEW k \in i..Len(p) - 1
        PROVE  IF p[k + 1] = "*"
               THEN cut[k] <= cut[k + 1]
               ELSE cut[k + 1] = cut[k] + 1 /\ c[cut[k + 1]] = p[k + 1]
    <2>1. CASE k = i
      BY <1>3, <2>1
    <2>2. CASE k \in i + 1..Len(p) - 1
      <3>1. k + 1 \in i + 1..Len(p) /\ k \in i + 1..Len(p)
        BY <1>1, <2>2
      <3> QED
        BY <1>2, <2>2, <3>1 DEF Lays
    <2> QED
      BY <1>1, <2>1, <2>2
  <1>7. Lays(p, c, i, j, cut)
    BY <1>3, <1>4, <1>5, <1>6 DEF Lays
  <1> QED
    BY <1>7, MatchesLays

\* An ordinary symbol has to be the next one of the candidate.
LEMMA MatchesOrdinary ==
    ASSUME NEW p \in Seq(STRING), NEW c \in Seq(STRING),
           NEW i \in 0..Len(p) - 1, NEW j \in 0..Len(c), p[i + 1] # "*"
    PROVE  MatchesFrom(p, c, i, j) <=>
              j < Len(c) /\ c[j + 1] = p[i + 1] /\ MatchesFrom(p, c, i + 1, j + 1)
  <1>1. Len(p) \in Nat /\ Len(c) \in Nat
    OBVIOUS
  <1>2. ASSUME NEW cut, Lays(p, c, i, j, cut)
        PROVE  j < Len(c) /\ c[j + 1] = p[i + 1] /\ MatchesFrom(p, c, i + 1, j + 1)
    <2>1. cut[i + 1] = j + 1 /\ c[j + 1] = p[i + 1]
      BY <1>1, <1>2 DEF Lays
    <2>2. /\ cut[i + 1] \in 0..Len(c)
          /\ \E rest : Lays(p, c, i + 1, cut[i + 1], rest)
      <3>1. i \in 0..Len(p) /\ i + 1 \in i..Len(p)
        BY <1>1
      <3> QED
        BY <1>2, <3>1, LaysRest
    <2> QED
      BY <1>1, <2>1, <2>2, MatchesLays
  <1>3. ASSUME NEW rest, Lays(p, c, i + 1, j + 1, rest), c[j + 1] = p[i + 1]
        PROVE  MatchesFrom(p, c, i, j)
    BY <1>3, LaysFront
  <1> QED
    BY <1>2, <1>3, MatchesLays

\* A wildcard matches nothing, or the next symbol and whatever it matches then.
LEMMA MatchesWildcard ==
    ASSUME NEW p \in Seq(STRING), NEW c \in Seq(STRING),
           NEW i \in 0..Len(p) - 1, NEW j \in 0..Len(c), p[i + 1] = "*"
    PROVE  MatchesFrom(p, c, i, j) <=>
              \/ MatchesFrom(p, c, i + 1, j)
              \/ j < Len(c) /\ MatchesFrom(p, c, i, j + 1)
  <1>1. Len(p) \in Nat /\ Len(c) \in Nat /\ i \in 0..Len(p) /\ i + 1 \in i..Len(p)
    OBVIOUS
  <1>2. ASSUME NEW cut, Lays(p, c, i, j, cut)
        PROVE  \/ MatchesFrom(p, c, i + 1, j)
               \/ j < Len(c) /\ MatchesFrom(p, c, i, j + 1)
    <2>1. j <= cut[i + 1]
      BY <1>1, <1>2 DEF Lays
    <2>2. PICK rest : cut[i + 1] \in 0..Len(c) /\ Lays(p, c, i + 1, cut[i + 1], rest)
      BY <1>1, <1>2, LaysRest
    <2>3. CASE cut[i + 1] = j
      BY <2>2, <2>3, MatchesLays
    <2>4. CASE cut[i + 1] # j
      <3>1. j + 1 \in 0..Len(c) /\ j + 1 <= cut[i + 1]
        BY <1>1, <2>1, <2>2, <2>4
      <3>2. MatchesFrom(p, c, i, j + 1)
        BY <2>2, <3>1, LaysFront
      <3> QED
        BY <1>1, <3>1, <3>2
    <2> QED
      BY <2>3, <2>4
  <1>3. ASSUME NEW rest, Lays(p, c, i + 1, j, rest)
        PROVE  MatchesFrom(p, c, i, j)
    BY <1>1, <1>3, LaysFront
  <1>4. ASSUME j < Len(c), NEW cut, Lays(p, c, i, j + 1, cut)
        PROVE  MatchesFrom(p, c, i, j)
    <2>1. j + 1 <= cut[i + 1]
      BY <1>1, <1>4 DEF Lays
    <2>2. PICK rest : cut[i + 1] \in 0..Len(c) /\ Lays(p, c, i + 1, cut[i + 1], rest)
      BY <1>1, <1>4, LaysRest
    <2>3. j <= cut[i + 1]
      BY <2>1, <2>2
    <2> QED
      BY <1>1, <2>2, <2>3, LaysFront
  <1> QED
    BY <1>2, <1>3, <1>4, MatchesLays

-----------------------------------------------------------------------------
(***************************************************************************)
(* globMatch.  The two pairs of cursors are two attempts: the one that is  *)
(* under way and the one to come back to.  A pattern matches iff one of    *)
(* them succeeds, although the cursors of all earlier wildcards are lost.  *)
(***************************************************************************)
Attempts(p, c, pi, ci, np, nc) ==
    \/ MatchesFrom(p, c, pi, ci)
    \/ nc \in 1..Len(c) /\ MatchesFrom(p, c, np, nc)

\* The second attempt starts at a wildcard.  Behind it the first attempt is
\* ahead of every way to lay the pattern that the second one may find, so a
\* later wildcard matches whatever the second attempt would.
Ahead(p, c, pi, ci, np, nc) ==
    /\ np < Len(p)
    /\ p[np + 1] = "*"
    /\ \/ pi = np /\ ci = nc
       \/ pi > np /\ \A cut : Lays(p, c, np, nc, cut) => cut[pi] > ci

GlobInv(p, c, pi, ci, np, nc) ==
    /\ Matches(p, c) <=> Attempts(p, c, pi, ci, np, nc)
    /\ nc # 0 => Ahead(p, c, pi, ci, np, nc)

\* The cursors are in their strings.
Cursors(p, c, pi, ci, np, nc) ==
    /\ p \in Seq(STRING) /\ c \in Seq(STRING)
    /\ pi \in 0..Len(p) /\ ci \in 0..Len(c)
    /\ np \in 0..Len(p) /\ nc \in 0..Len(c) + 1

\* Neither an ordinary symbol nor a wildcard can be matched.
GlobStuck(p, c, pi, ci) ==
    /\ pi < Len(p) \/ ci < Len(c)
    /\ ~(pi < Len(p) /\ p[pi + 1] = "*")
    /\ ~(pi < Len(p) /\ ci < Len(c) /\ c[ci + 1] = p[pi + 1])

\* The loop of globMatch starts in the invariant.
LEMMA GlobStart ==
    ASSUME NEW p, NEW c
    PROVE  GlobInv(p, c, 0, 0, 0, 0)
  BY DEF GlobInv, Attempts, Matches

\* Two equal symbols.
LEMMA GlobOrdinary ==
    ASSUME NEW p, NEW c, NEW pi, NEW ci, NEW np, NEW nc,
           Cursors(p, c, pi, ci, np, nc), GlobInv(p, c, pi, ci, np, nc),
           pi < Len(p), ci < Len(c), p[pi + 1] # "*", c[ci + 1] = p[pi + 1]
    PROVE  GlobInv(p, c, pi + 1, ci + 1, np, nc)
  <1>1. pi \in 0..Len(p) - 1 /\ ci \in 0..Len(c) /\ Len(p) \in Nat /\ Len(c) \in Nat
    BY DEF Cursors
  <1>2. MatchesFrom(p, c, pi, ci) <=> MatchesFrom(p, c, pi + 1, ci + 1)
    BY <1>1, MatchesOrdinary DEF Cursors
  <1>3. ASSUME nc # 0
        PROVE  Ahead(p, c, pi + 1, ci + 1, np, nc)
    <2>1. np < Len(p) /\ p[np + 1] = "*" /\ pi > np
      BY <1>3 DEF GlobInv, Ahead
    <2>2. ASSUME NEW cut, Lays(p, c, np, nc, cut)
          PROVE  cut[pi + 1] > ci + 1
      <3>1. cut[pi] > ci
        BY <1>3, <2>1, <2>2 DEF GlobInv, Ahead, Cursors
      <3>2. pi \in np..Len(p) - 1 /\ pi \in np..Len(p)
        BY <1>1, <2>1 DEF Cursors
      <3>3. cut[pi + 1] = cut[pi] + 1 /\ cut[pi] \in 0..Len(c)
        BY <2>2, <3>2 DEF Lays
      <3> QED
        BY <1>1, <3>1, <3>3
    <2> QED
      BY <1>1, <2>1, <2>2 DEF Ahead, Cursors
  <1> QED
    BY <1>2, <1>3 DEF GlobInv, Attempts

\* A wildcard: the attempt to come back to is forgotten for a new one.
LEMMA GlobWildcard ==
    ASSUME NEW p, NEW c, NEW pi, NEW ci, NEW np, NEW nc,
           Cursors(p, c, pi, ci, np, nc), GlobInv(p, c, pi, ci, np, nc),
           pi < Len(p), p[pi + 1] = "*"
    PROVE  GlobInv(p, c, pi + 1, ci, pi, ci + 1)
  <1>1. /\ pi \in 0..Len(p) - 1 /\ ci \in 0..Len(c) /\ Len(p) \in Nat /\ Len(c) \in Nat
        /\ p \in Seq(STRING) /\ c \in Seq(STRING) /\ np \in 0..Len(p)
    BY DEF Cursors
  <1>2. ASSUME nc \in 1..Len(c), MatchesFrom(p, c, np, nc)
        PROVE  MatchesFrom(p, c, pi, ci)
    <2>1. nc # 0
      BY <1>1, <1>2
    <2>2. CASE pi = np /\ ci = nc
      BY <1>2, <2>2
    <2>3. CASE pi > np /\ \A cut : Lays(p, c, np, nc, cut) => cut[pi] > ci
      <3>1. PICK cut : Lays(p, c, np, nc, cut)
        BY <1>2, MatchesLays
      <3>2. cut[pi] > ci
        BY <2>3, <3>1
      <3>3. pi \in np..Len(p) /\ pi + 1 \in np..Len(p) /\ pi \in np..Len(p) - 1
        BY <1>1, <2>3
      <3>4. cut[pi] <= cut[pi + 1]
        BY <3>1, <3>3 DEF Lays
      <3>5. /\ cut[pi] \in 0..Len(c) /\ cut[pi + 1] \in 0..Len(c)
            /\ \E rest : Lays(p, c, pi + 1, cut[pi + 1], rest)
        BY <1>1, <3>1, <3>3, LaysRest
      <3>6. ci <= cut[pi + 1]
        BY <1>1, <3>2, <3>4, <3>5
      <3> QED
        BY <1>1, <3>5, <3>6, LaysFront
    <2> QED
      BY <2>1, <2>2, <2>3 DEF GlobInv, Ahead
  <1>3. Matches(p, c) <=> MatchesFrom(p, c, pi, ci)
    BY <1>2 DEF GlobInv, Attempts
  <1>4. Matches(p, c) <=> Attempts(p, c, pi + 1, ci, pi, ci + 1)
    <2>1. ci + 1 \in 1..Len(c) <=> ci < Len(c)
      BY <1>1
    <2> QED
      BY <1>1, <1>3, <2>1, MatchesWildcard DEF Attempts
  <1>5. Ahead(p, c, pi + 1, ci, pi, ci + 1)
    <2>1. ASSUME NEW cut, Lays(p, c, pi, ci + 1, cut)
          PROVE  cut[pi + 1] > ci
      <3>1. pi \in pi..Len(p) - 1 /\ pi + 1 \in pi..Len(p)
        BY <1>1
      <3>2. ci + 1 <= cut[pi + 1] /\ cut[pi + 1] \in 0..Len(c)
        BY <2>1, <3>1 DEF Lays
      <3> QED
        BY <1>1, <3>2
    <2> QED
      BY <1>1, <2>1 DEF Ahead
  <1> QED
    BY <1>4, <1>5 DEF GlobInv

\* The attempt that is under way has failed.
LEMMA GlobFails ==
    ASSUME NEW p, NEW c, NEW pi, NEW ci, NEW np, NEW nc,
           Cursors(p, c, pi, ci, np, nc), GlobStuck(p, c, pi, ci)
    PROVE  ~MatchesFrom(p, c, pi, ci)
  <1>1. CASE pi < Len(p)
    <2>1. pi \in 0..Len(p) - 1
      BY <1>1 DEF Cursors
    <2> QED
      BY <1>1, <2>1, MatchesOrdinary DEF Cursors, GlobStuck
  <1>2. CASE ~(pi < Len(p))
    <2>1. pi = Len(p) /\ ci # Len(c)
      BY <1>2 DEF Cursors, GlobStuck
    <2> QED
      BY <2>1, MatchesEnd DEF Cursors
  <1> QED
    BY <1>1, <1>2

\* Going back.
LEMMA GlobBacktrack ==
    ASSUME NEW p, NEW c, NEW pi, NEW ci, NEW np, NEW nc,
           Cursors(p, c, pi, ci, np, nc), GlobInv(p, c, pi, ci, np, nc),
           GlobStuck(p, c, pi, ci), nc \in 1..Len(c)
    PROVE  GlobInv(p, c, np, nc, np, nc)
  <1>1. nc # 0
    BY DEF Cursors
  <1> QED
    BY <1>1, GlobFails DEF GlobInv, Attempts, Ahead

\* globMatch returns false.
LEMMA GlobMismatch ==
    ASSUME NEW p, NEW c, NEW pi, NEW ci, NEW np, NEW nc,
           Cursors(p, c, pi, ci, np, nc), GlobInv(p, c, pi, ci, np, nc),
           GlobStuck(p, c, pi, ci), nc \notin 1..Len(c)
    PROVE  ~Matches(p, c)
  BY GlobFails DEF GlobInv, Attempts

\* globMatch returns true.
LEMMA GlobMatch ==
    ASSUME NEW p, NEW c, NEW pi, NEW ci, NEW np, NEW nc,
           Cursors(p, c, pi, ci, np, nc), GlobInv(p, c, pi, ci, np, nc),
           ~(pi < Len(p)), ~(ci < Len(c))
    PROVE  Matches(p, c)
  <1>1. pi = Len(p) /\ ci = Len(c)
    BY DEF Cursors
  <1>2. MatchesFrom(p, c, Len(p), Len(c))
    BY MatchesEnd DEF Cursors
  <1> QED
    BY <1>1, <1>2 DEF GlobInv, Attempts

-----------------------------------------------------------------------------
(***************************************************************************)
(* The search.                                                             *)
(***************************************************************************)

\* The search has gone past a rule.
Passed(i) == rules[i].helper # "" /\ ~RuleMatches(rules[i], uri)

HostFits == rules[rule].host = <<>> \/ Matches(rules[rule].host, Host(uri))
PathFits == rules[rule].path = <<>> \/ Matches(rules[rule].path, PathString(uri))

\* What the search knows at each of its steps.
SearchInv ==
    /\ pc = "read" => rule = 1
    /\ pc \in {"rule", "host", "path", "select"} =>
        /\ file = "rules"
        /\ rules # <<>>
        /\ \A i \in 1..rule - 1 : Passed(i)
    /\ pc \in {"host", "path", "select"} =>
        /\ rule \in 1..Len(rules)
        /\ rules[rule].helper # ""
        /\ rules[rule].scheme \in {"", uri.scheme}
    /\ pc \in {"path", "select"} => HostFits
    /\ pc = "select" => PathFits
    /\ pc \in {"host", "path"} =>
        /\ GlobInv(Pattern, Candidate, patternIDX, candidateIDX, nextPatternIDX, nextCandidateIDX)
        /\ Pattern = <<>> =>
              /\ patternIDX = 0 /\ candidateIDX = 0
              /\ nextPatternIDX = 0 /\ nextCandidateIDX = 0

SelectionInv == TypeOK /\ SearchInv /\ FindsTheFirstMatch

\* The strings that globMatch is called with.
LEMMA InputTypes ==
    ASSUME TypeOK
    PROVE  /\ file \in {"absent", "unreadable", "rules"}
           /\ Len(rules) \in Nat
           /\ DOMAIN rules = 1..Len(rules)
           /\ rules = <<>> <=> Len(rules) = 0
           /\ \A i \in 1..Len(rules) :
                rules[i].host \in Seq(STRING) /\ rules[i].path \in Seq(STRING)
           /\ Host(uri) \in Seq(STRING)
           /\ PathString(uri) \in Seq(STRING)
  <1>1. PICK f \in Files : f = [file |-> file, rules |-> rules]
    BY DEF TypeOK
  <1>2. f.file = file /\ f.rules = rules
    BY <1>1
  <1>3. rules \in Seq({rules[i] : i \in DOMAIN rules})
    BY <1>1, <1>2, InputAssumption
  <1>4. uri \in Requests
    BY DEF TypeOK
  <1>5. /\ Len(rules) \in Nat
        /\ DOMAIN rules = 1..Len(rules)
        /\ rules = <<>> <=> Len(rules) = 0
    BY <1>3
  <1>6. /\ file \in {"absent", "unreadable", "rules"}
        /\ \A i \in 1..Len(rules) :
                rules[i].host \in Seq(STRING) /\ rules[i].path \in Seq(STRING)
    BY <1>1, <1>2, <1>5, InputAssumption
  <1> QED
    BY <1>4, <1>5, <1>6, InputAssumption

\* The cursors are in their strings while globMatch runs.
LEMMA InCursors ==
    ASSUME TypeOK, SearchInv, pc \in {"host", "path"}
    PROVE  Cursors(Pattern, Candidate, patternIDX, candidateIDX, nextPatternIDX, nextCandidateIDX)
  <1>1. Pattern \in Seq(STRING) /\ Candidate \in Seq(STRING)
    BY InputTypes DEF Pattern, Candidate, SearchInv
  <1> QED
    BY <1>1 DEF TypeOK, Cursors

\* The first rule that stops the search is the one FindHelper chooses.
LEMMA FirstStop ==
    ASSUME TypeOK, rules # <<>>, rule \in 1..Len(rules), \A i \in 1..rule - 1 : Passed(i),
           ~Passed(rule)
    PROVE  FindHelper(rules, uri) =
              IF rules[rule].helper = "" \/ HelperFromString(rules[rule].helper) = "nil"
              THEN Fatal
              ELSE Chosen(rules[rule].helper, rules[rule].config)
  <1> DEFINE stops == {i \in DOMAIN rules : rules[i].helper = "" \/ RuleMatches(rules[i], uri)}
             first == CHOOSE i \in stops : \A j \in stops : i <= j
  <1>1. DOMAIN rules = 1..Len(rules) /\ Len(rules) \in Nat
    BY InputTypes
  <1>2. rule \in stops
    BY <1>1 DEF Passed
  <1>3. ASSUME NEW i \in stops
        PROVE  rule <= i
    <2>1. i \in 1..Len(rules) /\ ~Passed(i)
      BY <1>1 DEF Passed
    <2>2. i \notin 1..rule - 1
      BY <2>1
    <2> HIDE DEF stops
    <2> QED
      BY <1>1, <2>1, <2>2
  <1>4. first \in stops /\ \A j \in stops : first <= j
    <2>1. \E i \in stops : \A j \in stops : i <= j
      BY <1>2, <1>3
    <2> QED
      BY <2>1
  <1>5. first = rule
    <2>1. first \in 1..Len(rules)
      BY <1>1, <1>4
    <2> HIDE DEF first, stops
    <2> QED
      BY <1>1, <1>2, <1>3, <1>4, <2>1
  <1>6. stops # {}
    BY <1>2
  <1>7. FindHelper(rules, uri) =
            IF rules = <<>> THEN Fatal
            ELSE IF stops = {} THEN Chosen("null", NoConfig)
            ELSE IF rules[first].helper = "" \/ HelperFromString(rules[first].helper) = "nil"
            THEN Fatal
            ELSE Chosen(rules[first].helper, rules[first].config)
    BY DEF FindHelper
  <1> HIDE DEF first, stops
  <1> QED
    BY <1>5, <1>6, <1>7

\* No rule stops the search.
LEMMA NoStop ==
    ASSUME TypeOK, rules # <<>>, \A i \in 1..Len(rules) : Passed(i)
    PROVE  FindHelper(rules, uri) = Chosen("null", NoConfig)
  <1>1. {i \in DOMAIN rules : rules[i].helper = "" \/ RuleMatches(rules[i], uri)} = {}
    BY InputTypes DEF Passed
  <1> QED
    BY <1>1 DEF FindHelper

\* A step that reaches a decision keeps the invariant if the decision is the
\* one of Configure.
LEMMA Decided ==
    ASSUME SelectionInv, UNCHANGED <<input, rule, tip, told>>, pc # "done",
           pc' = "chosen", outcome' = Configure(file, rules, uri, guess)
    PROVE  SelectionInv'
  BY DEF SelectionInv, TypeOK, SearchInv, FindsTheFirstMatch, input

\* util.Configure keeps the invariant.
LEMMA ConfiguredStep ==
    ASSUME SelectionInv, Configured
    PROVE  SelectionInv'
  <1>1. TypeOK /\ pc = "read" /\ UNCHANGED <<input, rule, glob, tip, told>>
    BY DEF SelectionInv, Configured
  <1>2. CASE pc' = "chosen" /\ outcome' = Configure(file, rules, uri, guess)
    BY <1>1, <1>2, Decided
  <1>3. CASE file = "rules" /\ rules # <<>> /\ pc' = "rule" /\ UNCHANGED outcome
    <2>1. rule = 1
      BY <1>1 DEF SelectionInv, SearchInv
    <2>2. TypeOK'
      BY <1>1, <1>3 DEF TypeOK, input
    <2>3. SearchInv' /\ FindsTheFirstMatch'
      BY <1>1, <1>3, <2>1 DEF SelectionInv, SearchInv, FindsTheFirstMatch, input
    <2> QED
      BY <2>2, <2>3 DEF SelectionInv
  <1>4. \/ pc' = "chosen" /\ outcome' = Configure(file, rules, uri, guess)
        \/ file = "rules" /\ rules # <<>> /\ pc' = "rule" /\ UNCHANGED outcome
    <2>1. file \in {"absent", "unreadable", "rules"}
      BY <1>1, InputTypes
    <2>2. FindHelper(<<>>, uri) = Fatal
      BY DEF FindHelper
    <2> QED
      BY <2>1, <2>2 DEF Configured, Choose, Configure
  <1> QED
    BY <1>2, <1>3, <1>4

\* A step that goes on to the next rule keeps the invariant if the rule at
\* hand does not match.
LEMMA Skipped ==
    ASSUME SelectionInv, pc \in {"rule", "host", "path"}, rule \in 1..Len(rules), SkipRule,
           Passed(rule), UNCHANGED <<input, tip, told>>
    PROVE  SelectionInv'
  <1>1. Len(rules) \in Nat
    BY InputTypes DEF SelectionInv
  <1>2. rule' \in 1..Len(rules') + 1
    BY <1>1 DEF SkipRule, input
  <1>3. TypeOK'
    BY <1>2 DEF SelectionInv, TypeOK, SkipRule, input
  <1>4. \A i \in 1..rule' - 1 : Passed(i)'
    <2>1. \A i \in 1..rule : Passed(i)
      <3>1. ASSUME NEW i \in 1..rule
            PROVE  i = rule \/ i \in 1..rule - 1
        BY <1>1
      <3> QED
        BY <3>1 DEF SelectionInv, SearchInv
    <2>2. rule' - 1 = rule
      BY <1>1 DEF SkipRule
    <2> QED
      BY <2>1, <2>2 DEF Passed, input
  <1>5. SearchInv'
    BY <1>4 DEF SelectionInv, SearchInv, SkipRule, input
  <1> QED
    BY <1>3, <1>5 DEF SelectionInv, FindsTheFirstMatch, SkipRule

\* The cursors at the start of a field are in its strings.
LEMMA ResetTypes ==
    ASSUME TypeOK, pc' \in {"host", "path"}, ResetGlob, UNCHANGED <<input, rule, tip, told>>,
           Len(Pattern') \in Nat, Len(Candidate') \in Nat
    PROVE  TypeOK'
  <1>1. /\ patternIDX' \in 0..Len(Pattern') /\ candidateIDX' \in 0..Len(Candidate')
        /\ nextPatternIDX' \in 0..Len(Pattern') /\ nextCandidateIDX' \in 0..Len(Candidate') + 1
    BY DEF ResetGlob
  <1> QED
    BY <1>1 DEF TypeOK, input

\* The head of the loop keeps the invariant.
LEMMA TryRuleStep ==
    ASSUME SelectionInv, TryRule
    PROVE  SelectionInv'
  <1>1. /\ TypeOK /\ pc = "rule" /\ UNCHANGED <<input, tip, told>>
        /\ file = "rules" /\ rules # <<>> /\ \A i \in 1..rule - 1 : Passed(i)
    BY DEF SelectionInv, SearchInv, TryRule
  <1>2. Len(rules) \in Nat /\ rule \in 1..Len(rules) + 1
    BY <1>1, InputTypes DEF TypeOK
  <1>3. CASE rule > Len(rules)
    <2>1. 1..rule - 1 = 1..Len(rules)
      BY <1>2, <1>3
    <2>2. FindHelper(rules, uri) = Chosen("null", NoConfig)
      BY <1>1, <2>1, NoStop
    <2>3. pc' = "chosen" /\ outcome' = Configure(file, rules, uri, guess) /\ UNCHANGED rule
      BY <1>1, <1>3, <2>2 DEF TryRule, Choose, Configure
    <2> QED
      BY <1>1, <2>3, Decided
  <1>4. CASE rule \in 1..Len(rules)
    <2>1. ~(rule > Len(rules))
      BY <1>2, <1>4
    <2>2. CASE rules[rule].helper = ""
      <3>1. FindHelper(rules, uri) = Fatal
        BY <1>1, <1>4, <2>2, FirstStop DEF Passed
      <3>2. pc' = "chosen" /\ outcome' = Configure(file, rules, uri, guess) /\ UNCHANGED rule
        BY <1>1, <2>1, <2>2, <3>1 DEF TryRule, Choose, Configure
      <3> QED
        BY <1>1, <3>2, Decided
    <2>3. CASE rules[rule].helper # "" /\ rules[rule].scheme \notin {"", uri.scheme}
      <3>1. SkipRule
        BY <2>1, <2>3 DEF TryRule
      <3>2. Passed(rule)
        BY <2>3 DEF Passed, RuleMatches
      <3> QED
        BY <1>1, <1>4, <3>1, <3>2, Skipped
    <2>4. Len(rules[rule].host) \in Nat /\ Len(Host(uri)) \in Nat
      BY <1>1, <1>4, InputTypes
    <2>5. CASE rules[rule].helper # "" /\ rules[rule].scheme \in {"", uri.scheme}
      <3>1. pc' = "host" /\ UNCHANGED <<outcome, rule>> /\ ResetGlob
        BY <2>1, <2>5 DEF TryRule
      <3>2. Pattern' = rules[rule].host /\ Candidate' = Host(uri)
        BY <1>1, <3>1 DEF Pattern, Candidate, input
      <3>3. TypeOK'
        BY <1>1, <2>4, <3>1, <3>2, ResetTypes
      <3>4. GlobInv(Pattern', Candidate', 0, 0, 0, 0)
        BY GlobStart
      <3>5. SearchInv'
        BY <1>1, <1>4, <2>5, <3>1, <3>4 DEF SearchInv, ResetGlob, Passed, input
      <3> QED
        BY <1>1, <3>1, <3>3, <3>5 DEF SelectionInv, FindsTheFirstMatch
    <2> QED
      BY <2>2, <2>3, <2>5
  <1> QED
    BY <1>2, <1>3, <1>4

\* A field that fits leads to the next field.
LEMMA FieldFits ==
    ASSUME SelectionInv, pc \in {"host", "path"}, pc' = NextField,
           Pattern = <<>> \/ Matches(Pattern, Candidate),
           ResetGlob,
           UNCHANGED <<input, rule, outcome, tip, told>>
    PROVE  SelectionInv'
  <1>1. TypeOK /\ rule \in 1..Len(rules)
    BY DEF SelectionInv, SearchInv
  <1>2. CASE pc = "host"
    <2>1. pc' = "path" /\ Pattern' = rules[rule].path /\ Candidate' = PathString(uri)
      BY <1>2 DEF NextField, Pattern, Candidate, input
    <2>2. Len(Pattern') \in Nat /\ Len(Candidate') \in Nat
      BY <1>1, <2>1, InputTypes
    <2>3. TypeOK'
      BY <1>1, <2>1, <2>2, ResetTypes
    <2>4. HostFits'
      BY <1>2 DEF HostFits, Pattern, Candidate, input
    <2>5. GlobInv(Pattern', Candidate', 0, 0, 0, 0)
      BY GlobStart
    <2>6. SearchInv'
      BY <1>2, <2>1, <2>4, <2>5 DEF SelectionInv, SearchInv, ResetGlob, Passed, input
    <2> QED
      BY <2>1, <2>3, <2>6 DEF SelectionInv, FindsTheFirstMatch
  <1>3. CASE pc = "path"
    <2>1. pc' = "select"
      BY <1>3 DEF NextField
    <2>2. TypeOK'
      BY <1>1, <2>1 DEF TypeOK, input
    <2>3. HostFits' /\ PathFits'
      BY <1>3 DEF SelectionInv, SearchInv, HostFits, PathFits, Pattern, Candidate, input
    <2>4. SearchInv'
      BY <1>3, <2>1, <2>3 DEF SelectionInv, SearchInv, Passed, input
    <2> QED
      BY <2>1, <2>2, <2>4 DEF SelectionInv, FindsTheFirstMatch
  <1> QED
    BY <1>2, <1>3

\* A pattern that is not given keeps the invariant.
LEMMA SkipFieldStep ==
    ASSUME SelectionInv, SkipField
    PROVE  SelectionInv'
  <1>1. ResetGlob
    BY DEF SelectionInv, SearchInv, SkipField, ResetGlob, glob
  <1> QED
    BY <1>1, FieldFits DEF SkipField

\* A rule whose fields fit is the one to use.
LEMMA SelectRuleStep ==
    ASSUME SelectionInv, SelectRule
    PROVE  SelectionInv'
  <1>1. /\ TypeOK /\ pc = "select" /\ UNCHANGED <<input, rule, tip, told>>
        /\ file = "rules" /\ rules # <<>> /\ \A i \in 1..rule - 1 : Passed(i)
        /\ rule \in 1..Len(rules) /\ rules[rule].helper # ""
    BY DEF SelectionInv, SearchInv, SelectRule
  <1>2. ~Passed(rule)
    BY <1>1 DEF SelectionInv, SearchInv, HostFits, PathFits, RuleMatches, Passed
  <1>3. pc' = "chosen" /\ outcome' = FindHelper(rules, uri)
    BY <1>1, <1>2, FirstStop DEF SelectRule, Choose
  <1>4. outcome' = Configure(file, rules, uri, guess)
    BY <1>1, <1>3 DEF Configure
  <1> QED
    BY <1>1, <1>3, <1>4, Decided

\* A round of globMatch that moves the cursors keeps the invariant if it
\* keeps the one of the cursors.
LEMMA CursorsMoved ==
    ASSUME SelectionInv, InGlob, UNCHANGED <<input, pc, rule, outcome, tip, told>>,
           patternIDX' \in 0..Len(Pattern), candidateIDX' \in 0..Len(Candidate),
           nextPatternIDX' \in 0..Len(Pattern), nextCandidateIDX' \in 0..Len(Candidate) + 1,
           GlobInv(Pattern, Candidate, patternIDX', candidateIDX', nextPatternIDX',
                   nextCandidateIDX')
    PROVE  SelectionInv'
  <1>1. Pattern' = Pattern /\ Candidate' = Candidate
    BY DEF Pattern, Candidate, input
  <1>2. TypeOK'
    BY <1>1 DEF SelectionInv, TypeOK, input
  <1>3. SearchInv'
    BY <1>1 DEF SelectionInv, SearchInv, InGlob, HostFits, PathFits, Passed, input
  <1> QED
    BY <1>2, <1>3 DEF SelectionInv, FindsTheFirstMatch, InGlob

\* The rounds of globMatch keep the invariant.
LEMMA GlobStep ==
    ASSUME SelectionInv, OrdinaryCharacter \/ Wildcard \/ Backtrack \/ Mismatch \/ Match
    PROVE  SelectionInv'
  <1> DEFINE p == Pattern
             c == Candidate
             pi == patternIDX
             ci == candidateIDX
             np == nextPatternIDX
             nc == nextCandidateIDX
  <1>1. InGlob /\ pc \in {"host", "path"} /\ TypeOK /\ SearchInv
    BY DEF OrdinaryCharacter, Wildcard, Backtrack, Mismatch, Match, Stuck, InGlob, SelectionInv
  <1>2. Cursors(p, c, pi, ci, np, nc) /\ GlobInv(p, c, pi, ci, np, nc)
    BY <1>1, InCursors DEF SearchInv
  <1>3. /\ Len(p) \in Nat /\ Len(c) \in Nat
        /\ pi \in 0..Len(p) /\ ci \in 0..Len(c)
        /\ np \in 0..Len(p) /\ nc \in 0..Len(c) + 1
    BY <1>2 DEF Cursors
  <1> HIDE DEF p, c
  <1>4. CASE OrdinaryCharacter
    <2>1. pi < Len(p) /\ ci < Len(c) /\ p[pi + 1] # "*" /\ c[ci + 1] = p[pi + 1]
      BY <1>4 DEF OrdinaryCharacter, AtEqual, AtStar, PatternLeft, CandidateLeft, p, c
    <2>2. GlobInv(p, c, pi + 1, ci + 1, np, nc)
      BY <1>2, <2>1, GlobOrdinary
    <2>3. pi + 1 \in 0..Len(p) /\ ci + 1 \in 0..Len(c)
      BY <1>3, <2>1
    <2> QED
      BY <1>1, <1>3, <1>4, <2>2, <2>3, CursorsMoved DEF OrdinaryCharacter, p, c
  <1>5. CASE Wildcard
    <2>1. pi < Len(p) /\ p[pi + 1] = "*"
      BY <1>5 DEF Wildcard, AtStar, PatternLeft, p
    <2>2. GlobInv(p, c, pi + 1, ci, pi, ci + 1)
      BY <1>2, <2>1, GlobWildcard
    <2>3. pi + 1 \in 0..Len(p) /\ ci + 1 \in 0..Len(c) + 1
      BY <1>3, <2>1
    <2> QED
      BY <1>1, <1>3, <1>5, <2>2, <2>3, CursorsMoved DEF Wildcard, p, c
  <1>6. ASSUME Stuck
        PROVE  GlobStuck(p, c, pi, ci)
    BY <1>6 DEF Stuck, AtStar, AtEqual, PatternLeft, CandidateLeft, GlobStuck, p, c
  <1>7. CASE Backtrack
    <2>1. nc \in 1..Len(c) /\ nc \in 0..Len(c)
      BY <1>3, <1>7 DEF Backtrack, c
    <2>2. GlobInv(p, c, np, nc, np, nc)
      BY <1>2, <1>6, <1>7, <2>1, GlobBacktrack DEF Backtrack
    <2> QED
      BY <1>1, <1>3, <1>7, <2>1, <2>2, CursorsMoved DEF Backtrack, p, c
  <1>8. CASE Mismatch
    <2>1. nc \notin 1..Len(c) /\ SkipRule /\ UNCHANGED <<input, tip, told>> /\ p # <<>>
      BY <1>8 DEF Mismatch, Stuck, InGlob, p, c
    <2>2. ~Matches(p, c)
      BY <1>2, <1>6, <1>8, <2>1, GlobMismatch DEF Mismatch
    <2>3. rule \in 1..Len(rules)
      BY <1>1 DEF SearchInv
    <2>4. Passed(rule)
      BY <1>1, <2>1, <2>2 DEF SearchInv, Passed, RuleMatches, Pattern, Candidate, p, c
    <2> QED
      BY <1>1, <2>1, <2>3, <2>4, Skipped
  <1>9. CASE Match
    <2>1. ~(pi < Len(p)) /\ ~(ci < Len(c))
      BY <1>9 DEF Match, PatternLeft, CandidateLeft, p, c
    <2>2. Matches(p, c)
      BY <1>2, <2>1, GlobMatch
    <2> QED
      BY <1>1, <1>9, <2>2, FieldFits DEF Match, p, c
  <1> QED
    BY <1>4, <1>5, <1>7, <1>8, <1>9

\* A Get that fails and setup-uri keep the invariant.
LEMMA TellStep ==
    ASSUME SelectionInv, GetFails \/ URIProcess
    PROVE  SelectionInv'
  <1>1. CASE GetFails
    <2>1. TypeOK'
      BY <1>1 DEF SelectionInv, TypeOK, GetFails, input, glob
    <2>2. SearchInv' /\ FindsTheFirstMatch'
      BY <1>1 DEF SelectionInv, SearchInv, FindsTheFirstMatch, GetFails, input
    <2> QED
      BY <2>1, <2>2 DEF SelectionInv
  <1>2. CASE URIProcess
    <2>1. TypeOK'
      BY <1>2 DEF SelectionInv, TypeOK, URIProcess, input, glob
    <2>2. SearchInv' /\ FindsTheFirstMatch'
      BY <1>2 DEF SelectionInv, SearchInv, FindsTheFirstMatch, URIProcess, input
    <2> QED
      BY <2>1, <2>2 DEF SelectionInv
  <1> QED
    BY <1>1, <1>2

\* The initial states satisfy the invariant.
LEMMA SelectionInit == Init => SelectionInv
  <1> SUFFICES ASSUME Init
               PROVE  SelectionInv
    OBVIOUS
  <1>1. [file |-> file, rules |-> rules] \in Files /\ Len(rules) \in Nat
    <2>1. PICK f \in Files : file = f.file /\ rules = f.rules
      BY DEF Init
    <2>2. /\ f = [file |-> f.file, rules |-> f.rules]
          /\ f.rules \in Seq({f.rules[i] : i \in DOMAIN f.rules})
      BY InputAssumption
    <2> QED
      BY <2>1, <2>2
  <1>2. TypeOK
    <2>1. rule \in 1..Len(rules) + 1
      BY <1>1 DEF Init
    <2> QED
      BY <1>1, <2>1 DEF Init, TypeOK
  <1> QED
    BY <1>2 DEF Init, SelectionInv, SearchInv, FindsTheFirstMatch

\* The invariant holds in every reachable state.
THEOREM SelectionInvariance == Spec => []SelectionInv
  <1>1. SelectionInv /\ [Next]_vars => SelectionInv'
    <2> SUFFICES ASSUME SelectionInv, [Next]_vars
                 PROVE  SelectionInv'
      OBVIOUS
    <2>1. CASE UNCHANGED vars
      <3>1. Pattern' = Pattern /\ Candidate' = Candidate
        BY <2>1 DEF vars, input, Pattern, Candidate
      <3>2. TypeOK'
        BY <2>1, <3>1 DEF SelectionInv, TypeOK, vars, input, glob
      <3>3. SearchInv' /\ FindsTheFirstMatch'
        BY <2>1, <3>1 DEF SelectionInv, SearchInv, FindsTheFirstMatch, HostFits,
                          PathFits, Passed, vars, input, glob
      <3> QED
        BY <3>2, <3>3 DEF SelectionInv
    <2> QED
      BY <2>1, ConfiguredStep, TryRuleStep, SkipFieldStep, SelectRuleStep, GlobStep, TellStep
         DEF Next, Search
  <1> QED
    BY <1>1, SelectionInit, PTL DEF Spec

\* The cursors of globMatch stay in their strings, whatever the patterns.
THEOREM TypeCorrect == Spec => []TypeOK
  <1>1. SelectionInv => TypeOK
    BY DEF SelectionInv
  <1> QED
    BY <1>1, SelectionInvariance, PTL

\* The search finds the helper of the first rule that matches by the meaning
\* of its globs, for every pattern and every candidate (FindHelper, globMatch).
THEOREM SearchIsRight == Spec => []FindsTheFirstMatch
  <1>1. SelectionInv => FindsTheFirstMatch
    BY DEF SelectionInv
  <1> QED
    BY <1>1, SelectionInvariance, PTL

=============================================================================
