--------------------------- MODULE HelperSelection --------------------------
(***************************************************************************)
(* Which helper answers a URI: the first matching rule of the config file  *)
(* (config/config.go) or, without a config file, the built-in choice by    *)
(* host (helperfactory/fallback).  A helper is its name in the registry.   *)
(*                                                                         *)
(* A rule is a record with the fields scheme, host, path, helper and       *)
(* config; a pattern is a sequence of symbols in which "*" stands for any  *)
(* sequence of symbols, and <<>> is a pattern that is not given.           *)
(***************************************************************************)
EXTENDS OCIPaths

CONSTANTS
    Registered  \* the names registered with registry.Register by plugins

BuiltIn == {"gcs", "gar", "azstorage", "github", "null", "oci", "remoteapis", "s3"}

\* HelperFromString returns nil for any other name.
HelperFromString(name) == IF name \in BuiltIn \cup Registered THEN name ELSE "nil"

NoConfig == [f \in {} |-> f]

\* The outcomes of FindHelper and Configure.
Chosen(helper, config) == [helper |-> helper, config |-> config]
Fatal == Chosen("fatal", NoConfig)

(***************************************************************************)
(* What a glob pattern means: the pattern behind its first i symbols can   *)
(* be laid along the candidate behind its first j, such that cut[k]        *)
(* symbols of the candidate are used up by the first k of the pattern.     *)
(***************************************************************************)
MatchesFrom(pattern, candidate, i, j) ==
    \E cut \in [i..Len(pattern) -> 0..Len(candidate)] :
        /\ cut[i] = j
        /\ cut[Len(pattern)] = Len(candidate)
        /\ \A k \in i..Len(pattern) - 1 :
              IF pattern[k + 1] = "*"
              THEN cut[k] <= cut[k + 1]
              ELSE cut[k + 1] = cut[k] + 1 /\ candidate[cut[k + 1]] = pattern[k + 1]

Matches(pattern, candidate) == MatchesFrom(pattern, candidate, 0, 0)

\* The path as FindHelper sees it, slashes included.
PathString(u) ==
    FlattenSeq([i \in DOMAIN u.path |->
        IF u.path[i] = "" THEN <<"/">> ELSE <<"/", u.path[i]>>])

RuleMatches(rule, u) ==
    /\ rule.scheme = "" \/ rule.scheme = u.scheme
    /\ rule.host = <<>> \/ Matches(rule.host, Host(u))
    /\ rule.path = <<>> \/ Matches(rule.path, PathString(u))

(***************************************************************************)
(* Config.FindHelper: a rule without a helper is an error only if the      *)
(* search gets to it.                                                      *)
(***************************************************************************)
FindHelper(rules, u) ==
    LET stops == {i \in DOMAIN rules : rules[i].helper = "" \/ RuleMatches(rules[i], u)}
        rule == rules[CHOOSE i \in stops : \A j \in stops : i <= j]
    IN IF rules = <<>> THEN Fatal
       ELSE IF stops = {} THEN Chosen("null", NoConfig)
       ELSE IF rule.helper = "" \/ HelperFromString(rule.helper) = "nil" THEN Fatal
       ELSE Chosen(rule.helper, rule.config)

\* GuessOCIRegistry: only if $CREDENTIAL_HELPER_GUESS_OCI_REGISTRY is "1".
GuessOCIRegistry(u, guess) == guess /\ deriveRepository(u).verdict = "pull"

\* The registries that are known by their full name.
KnownRegistries ==
    {<<"cgr", ".", "dev">>, <<"docker", ".", "elastic", ".", "co">>, <<"gcr", ".", "io">>,
     GhcrIo, IndexDockerIo, <<"nvcr", ".", "io">>, <<"public", ".", "ecr", ".", "aws">>,
     <<"quay", ".", "io">>, <<"registry", ".">> \o Com("gitlab")}

\* The built-in choice.  No host satisfies two of the cases.
FallbackHelperFactory(u, guess) ==
    LET host == Hostname(u) IN
    CASE HasSuffix(host, Below(AmazonAws)) -> "s3"
      [] EqualFold(host, StorageGoogleapis) -> "gcs"
      [] \/ EqualFold(host, GitHubCom)
         \/ HasSuffix(ToLower(Host(u)), Below(GitHubCom))
         \/ EqualFold(host, RawGitHub) -> "github"
      [] HasSuffix(ToLower(host), Below(R2Cloudflare)) /\ "X-Amz-Expires" \notin u.query -> "s3"
      [] HasSuffix(host, Below(Buildbuddy)) -> "remoteapis"
      [] HasSuffix(host, PkgDev) -> "gar"
      [] HasSuffix(host, BlobWindows) -> "azstorage"
      [] \/ HasSuffix(host, Below(<<"azurecr", ".", "io">>))
         \/ HasSuffix(host, <<".", "app", ".">> \o Com("snowflake"))
         \/ \E r \in KnownRegistries : EqualFold(host, r) -> "oci"
      [] OTHER -> IF GuessOCIRegistry(u, guess) THEN "oci" ELSE "null"

(***************************************************************************)
(* util.Configure.  file is "absent", "unreadable" or "rules"; a failure   *)
(* ends the process.                                                       *)
(***************************************************************************)
Configure(file, rules, u, guess) ==
    CASE file = "unreadable" -> Fatal
      [] file = "absent" -> Chosen(FallbackHelperFactory(u, guess), NoConfig)
      [] file = "rules" -> FindHelper(rules, u)

=============================================================================
