----------------------------- MODULE Selection ------------------------------
(***************************************************************************)
(* How the helper of a URI is found, step by step: util.Configure, the     *)
(* search through the rules of the config file with its backtracking glob  *)
(* matcher (config/config.go), and what `get` and `setup-uri` tell the     *)
(* user about a helper whose Get failed.                                   *)
(* HelperSelection.tla says what is to be found.                           *)
(***************************************************************************)
EXTENDS HelperSelection

CONSTANTS
    Files,              \* contents of the config file: [file, rules]
    Requests,           \* the requested URIs
    SetsUp,             \* plugins that implement api.URISetupper
    ResolverSetsUp      \* plugins whose resolver implements api.URISetupper

\* What yaml and url.Parse return: lists of rules and strings of symbols.
ASSUME InputAssumption ==
    /\ \A f \in Files :
          /\ f = [file |-> f.file, rules |-> f.rules]
          /\ f.file \in {"absent", "unreadable", "rules"}
          /\ f.rules \in Seq({f.rules[i] : i \in DOMAIN f.rules})
          /\ \A i \in DOMAIN f.rules :
                f.rules[i].host \in Seq(STRING) /\ f.rules[i].path \in Seq(STRING)
    /\ \A u \in Requests : Host(u) \in Seq(STRING) /\ PathString(u) \in Seq(STRING)

VARIABLES
    file, rules, uri, guess,                      \* the input
    pc,                                           \* where the search is
    rule,                                         \* the rule being tried
    patternIDX, candidateIDX,                     \* variables of globMatch,
    nextPatternIDX, nextCandidateIDX,             \*   with their values
    outcome,                                      \* the helper, once found
    tip,                                          \* a failed get points to setup-uri
    told                                          \* what setup-uri printed

input == <<file, rules, uri, guess>>
glob == <<patternIDX, candidateIDX, nextPatternIDX, nextCandidateIDX>>
vars == <<input, pc, rule, glob, outcome, tip, told>>

Pattern == IF pc = "host" THEN rules[rule].host ELSE rules[rule].path
Candidate == IF pc = "host" THEN Host(uri) ELSE PathString(uri)

\* Types of all the variables; the cursors of globMatch stay in their strings.
TypeOK ==
    /\ [file |-> file, rules |-> rules] \in Files
    /\ uri \in Requests
    /\ guess \in BOOLEAN
    /\ pc \in {"read", "rule", "host", "path", "select", "chosen", "failed", "done"}
    /\ rule \in 1..Len(rules) + 1
    /\ pc \in {"host", "path"} =>
          /\ patternIDX \in 0..Len(Pattern)
          /\ candidateIDX \in 0..Len(Candidate)
          /\ nextPatternIDX \in 0..Len(Pattern)
          /\ nextCandidateIDX \in 0..Len(Candidate) + 1
    /\ tip \in BOOLEAN
    /\ told \in {"nothing", "instructions", "no instructions", "error"}

Init ==
    /\ \E f \in Files : file = f.file /\ rules = f.rules
    /\ uri \in Requests
    /\ guess \in BOOLEAN
    /\ pc = "read"
    /\ rule = 1
    /\ patternIDX = 0 /\ candidateIDX = 0 /\ nextPatternIDX = 0 /\ nextCandidateIDX = 0
    /\ outcome = Fatal
    /\ tip = FALSE
    /\ told = "nothing"

ResetGlob ==
    /\ patternIDX' = 0 /\ candidateIDX' = 0 /\ nextPatternIDX' = 0 /\ nextCandidateIDX' = 0

Choose(choice) ==
    /\ pc' = "chosen"
    /\ outcome' = choice

-----------------------------------------------------------------------------
(***************************************************************************)
(* Configure and the loop of FindHelper.                                   *)
(***************************************************************************)
Configured ==
    /\ pc = "read"
    /\ CASE file = "absent" -> Choose(Chosen(FallbackHelperFactory(uri, guess), NoConfig))
         [] file = "unreadable" -> Choose(Fatal)
         [] file = "rules" /\ rules = <<>> -> Choose(Fatal)
         [] file = "rules" /\ rules # <<>> -> pc' = "rule" /\ UNCHANGED outcome
    /\ UNCHANGED <<input, rule, glob, tip, told>>

SkipRule ==
    /\ rule' = rule + 1
    /\ pc' = "rule"
    /\ UNCHANGED outcome

\* The head of the loop: the helper must be named and the scheme must match.
TryRule ==
    /\ pc = "rule"
    /\ IF rule > Len(rules) THEN Choose(Chosen("null", NoConfig)) /\ UNCHANGED rule
       ELSE IF rules[rule].helper = "" THEN Choose(Fatal) /\ UNCHANGED rule
       ELSE IF rules[rule].scheme \notin {"", uri.scheme} THEN SkipRule
       ELSE pc' = "host" /\ UNCHANGED <<outcome, rule>>
    /\ ResetGlob
    /\ UNCHANGED <<input, tip, told>>

NextField == IF pc = "host" THEN "path" ELSE "select"

\* A pattern that is not given is not matched.
SkipField ==
    /\ pc \in {"host", "path"}
    /\ Pattern = <<>>
    /\ pc' = NextField
    /\ UNCHANGED <<input, rule, glob, outcome, tip, told>>

SelectRule ==
    /\ pc = "select"
    /\ Choose(IF HelperFromString(rules[rule].helper) = "nil"
              THEN Fatal
              ELSE Chosen(rules[rule].helper, rules[rule].config))
    /\ UNCHANGED <<input, rule, glob, tip, told>>

-----------------------------------------------------------------------------
(***************************************************************************)
(* One round of the loop of globMatch.                                     *)
(***************************************************************************)
InGlob == pc \in {"host", "path"} /\ Pattern # <<>>

PatternLeft == patternIDX < Len(Pattern)
CandidateLeft == candidateIDX < Len(Candidate)
AtStar == PatternLeft /\ Pattern[patternIDX + 1] = "*"
AtEqual == PatternLeft /\ CandidateLeft /\ ~AtStar
             /\ Candidate[candidateIDX + 1] = Pattern[patternIDX + 1]

OrdinaryCharacter ==
    /\ InGlob /\ AtEqual
    /\ patternIDX' = patternIDX + 1
    /\ candidateIDX' = candidateIDX + 1
    /\ UNCHANGED <<input, pc, rule, nextPatternIDX, nextCandidateIDX, outcome, tip, told>>

WildcardNotRemembered ==
    /\ InGlob /\ AtStar
    /\ patternIDX' = patternIDX + 1
    /\ UNCHANGED <<input, pc, rule, candidateIDX, nextPatternIDX, nextCandidateIDX, outcome, tip, told>>

WildcardStuck ==
    /\ InGlob /\ AtStar
    /\ nextPatternIDX' = patternIDX
    /\ nextCandidateIDX' = IF candidateIDX = 0 THEN 1 ELSE candidateIDX
    /\ patternIDX' = patternIDX + 1
    /\ UNCHANGED <<input, pc, rule, candidateIDX, outcome, tip, told>>

\* Remember to come back here with one more symbol matched by the wildcard.
Wildcard ==
    /\ InGlob /\ AtStar
    /\ nextPatternIDX' = patternIDX
    /\ nextCandidateIDX' = candidateIDX + 1
    /\ patternIDX' = patternIDX + 1
    /\ UNCHANGED <<input, pc, rule, candidateIDX, outcome, tip, told>>

Stuck == InGlob /\ (PatternLeft \/ CandidateLeft) /\ ~AtStar /\ ~AtEqual

BacktrackPastTheEnd ==
    /\ Stuck
    /\ nextCandidateIDX > 0
    /\ patternIDX' = nextPatternIDX
    /\ candidateIDX' = nextCandidateIDX
    /\ UNCHANGED <<input, pc, rule, nextPatternIDX, nextCandidateIDX, outcome, tip, told>>

Backtrack ==
    /\ Stuck
    /\ nextCandidateIDX \in 1..Len(Candidate)
    /\ patternIDX' = nextPatternIDX
    /\ candidateIDX' = nextCandidateIDX
    /\ UNCHANGED <<input, pc, rule, nextPatternIDX, nextCandidateIDX, outcome, tip, told>>

\* globMatch returns false: the next rule is tried.
Mismatch ==
    /\ Stuck
    /\ nextCandidateIDX \notin 1..Len(Candidate)
    /\ SkipRule
    /\ UNCHANGED <<input, glob, tip, told>>

\* globMatch returns true.
Match ==
    /\ InGlob
    /\ ~PatternLeft /\ ~CandidateLeft
    /\ pc' = NextField
    /\ ResetGlob
    /\ UNCHANGED <<input, rule, outcome, tip, told>>

-----------------------------------------------------------------------------
(***************************************************************************)
(* A Get that fails, and setup-uri for the same URI.  github, s3, oci, ... *)
(* implement api.URISetupper, null does not; of the built-in resolvers     *)
(* only the one of remoteapis does.                                        *)
(***************************************************************************)
CanSetupViaAuthenticator(helper) == helper \in (BuiltIn \ {"null"}) \cup SetsUp
CanSetupViaResolver(helper) == helper \in {"remoteapis"} \cup ResolverSetsUp

\* Get fails: the message has the tip to run setup-uri.
GetFails ==
    /\ pc = "chosen"
    /\ outcome # Fatal
    /\ pc' = "failed"
    /\ tip' = (CanSetupViaAuthenticator(outcome.helper) \/ CanSetupViaResolver(outcome.helper))
    /\ UNCHANGED <<input, rule, glob, outcome, told>>

\* As a fallback the resolver of a plugin is made, which may fail, and asked;
\* but its `ok` is a variable of the inner scope.
URIProcess ==
    /\ pc = "failed"
    /\ pc' = "done"
    /\ IF CanSetupViaAuthenticator(outcome.helper)
       THEN told' = "instructions"
       ELSE told' = "no instructions" \/ (outcome.helper \in Registered /\ told' = "error")
    /\ UNCHANGED <<input, rule, glob, outcome, tip>>

Search == Configured \/ TryRule \/ SkipField \/ SelectRule
            \/ OrdinaryCharacter \/ Wildcard \/ Backtrack \/ Mismatch \/ Match

Next == Search \/ GetFails \/ URIProcess

Spec == Init /\ [][Next]_vars /\ WF_vars(Search)

-----------------------------------------------------------------------------
\* The search ends with the helper and the config of the first rule that
\* matches by the meaning of its globs, with an error for the first rule that
\* names no or an unknown helper, with null if no rule matches, and with the
\* built-in choice only without a config file: the backtracking of globMatch
\* loses no match and invents none.
FindsTheFirstMatch ==
    pc \in {"chosen", "failed", "done"} => outcome = Configure(file, rules, uri, guess)

\* The tip of a failed get is true: when it says to run setup-uri for setup
\* instructions, setup-uri does not answer that there are none.
TipIsTrue == tip => told # "no instructions"

\* The search ends, however often globMatch goes back.
SearchEnds == <>(pc \in {"chosen", "failed", "done"})

=============================================================================
