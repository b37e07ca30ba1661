----------------------------- MODULE PolicyAudit -----------------------------
(***************************************************************************)
(* An audit evaluates a site's robots.txt for the crawlers of a release,   *)
(* compares the results with what the domain's preset expects, and         *)
(* proposes lines to append.  The site's owner may append them, and may    *)
(* write lines of his own; then the site is audited again.                 *)
(*                                                                         *)
(* Only the two conflicts that lead to a proposal are modelled.            *)
(***************************************************************************)
EXTENDS RobotsRules

CONSTANTS
    Registry,           \* the crawlers to evaluate, in order: their tokens and purposes
    NoReport

CONSTANTS               \* bounds of the model, not of the code
    MaxLines,           \* that the owner writes
    MaxApplied          \* proposals the owner appends

Purposes == {"search", "training", "user_triggered", "agent",
             "advertising_validation", "research", "mixed", "unknown"}

\* Tokens are unique: validateReleaseCandidate refuses a release where they are not.
ASSUME AuditAssumption ==
    /\ Registry \in Seq([token: Tokens, purpose: Purposes])
    /\ \A i, k \in DOMAIN Registry : Registry[i].token = Registry[k].token => i = k
    /\ "/" \in Matching /\ PatternLength["/"] = 1
    /\ MaxLines \in Nat /\ MaxApplied \in Nat

VARIABLES
    preset,             \* domains.preset
    file,               \* the site's robots.txt
    report,             \* the last audit of this file, or NoReport
    former,             \* history: the report whose proposal was appended
    applied

policyVars == <<preset, file, report, former, applied>>

Report ==
    [file: Seq(Line), proposedText: Seq(Line),
     results: [DOMAIN Registry -> [result: {"allowed", "blocked", "no_explicit_rule"}, lineNumber: Nat]]]

-----------------------------------------------------------------------------
(* Presets *)

Presets == {"maximum_ai_visibility", "allow_search_block_training",
            "publisher_protection", "block_known_ai_crawlers"}

ExpectationFor(p, purpose) ==
    CASE p = "maximum_ai_visibility" ->
            IF purpose \in {"advertising_validation", "unknown"} THEN "no_expectation"
            ELSE "expect_allowed"
      [] p = "allow_search_block_training" ->
            CASE purpose \in {"search", "user_triggered"} -> "expect_allowed"
              [] purpose \in {"training", "research"} -> "expect_blocked"
              [] purpose = "mixed" -> "expect_explicit_decision"
              [] OTHER -> "no_expectation"
      [] p = "publisher_protection" ->
            IF purpose \in {"training", "research"} THEN "expect_blocked"
            ELSE "expect_explicit_decision"
      [] OTHER -> "expect_blocked"

EvaluateAlignment(p, purpose, result) ==
    LET expectation == ExpectationFor(p, purpose)
    IN  IF expectation = "no_expectation" THEN "not_applicable"
        ELSE IF result \notin {"allowed", "blocked"} THEN "review_needed"
        ELSE IF \/ expectation = "expect_explicit_decision"
                \/ (expectation = "expect_allowed") = (result = "allowed")
             THEN "aligned" ELSE "misaligned"

-----------------------------------------------------------------------------
(* Conflicts and proposals *)

\* The rule a conflict of crawler c calls for.
Proposal(p, c, result) ==
    LET misaligned == EvaluateAlignment(p, c.purpose, result) = "misaligned"
    IN  CASE misaligned /\ c.purpose = "search" /\ result = "blocked" -> "allow"
          [] misaligned /\ c.purpose = "training" /\ result = "allowed" -> "disallow"
          [] OTHER -> "none"

\* A group of its own for each crawler with a proposal, in the order of the registry.
GroupsUpTo(agents, p, results) ==
    LET lines[i \in 0..Len(Registry)] ==
            IF i = 0 THEN <<>>
            ELSE IF Proposal(p, Registry[i], results[i].result) = "none" THEN lines[i - 1]
            ELSE lines[i - 1] \o
                    <<[field |-> "user-agent", value |-> agents[i]],
                      [field |-> Proposal(p, Registry[i], results[i].result), value |-> "/"]>>
    IN  lines

Groups(agents, p, results) == GroupsUpTo(agents, p, results)[Len(Registry)]

\* A faulty variant: the rules are for every crawler.
GenerateRecommendationsForAll(p, results) ==
    Groups([i \in DOMAIN Registry |-> AnyAgent], p, results)

GenerateRecommendations(p, results) ==
    Groups([i \in DOMAIN Registry |-> Registry[i].token], p, results)

\* fullProposedText: blank lines separate nothing.
FullProposedText(original, additions) == original \o additions

-----------------------------------------------------------------------------
(* Actions *)

\* The owner writes a line.
SiteChanges(line) ==
    /\ Len(file) < MaxLines
    /\ file' = Append(file, line)
    /\ report' = NoReport /\ former' = NoReport
    /\ UNCHANGED <<preset, applied>>

ResultsOf(text) ==
    LET groups == ParseRobotsTxt(text)
    IN  [i \in DOMAIN Registry |-> EvaluateRobots(groups, Registry[i].token)]

ReportOf(text) ==
    [file |-> text, results |-> ResultsOf(text),
     proposedText |-> FullProposedText(text, GenerateRecommendations(preset, ResultsOf(text)))]

RunAudit ==
    /\ report = NoReport
    /\ report' = ReportOf(file)
    /\ UNCHANGED <<preset, file, former, applied>>

\* The owner takes the proposal over.
ApplyProposal ==
    /\ report # NoReport /\ report.proposedText # file
    /\ applied < MaxApplied
    /\ applied' = applied + 1
    /\ file' = report.proposedText
    /\ former' = report /\ report' = NoReport
    /\ UNCHANGED preset

PolicyTypeOK ==
    /\ preset \in Presets /\ file \in Seq(Line)
    /\ {report, former} \subseteq Report \cup {NoReport}
    /\ applied \in 0..MaxApplied

PolicyInit ==
    /\ preset \in Presets
    /\ file = <<>> /\ report = NoReport /\ former = NoReport /\ applied = 0

PolicyNext == (\E line \in Line : SiteChanges(line)) \/ RunAudit \/ ApplyProposal

PolicySpec == PolicyInit /\ [][PolicyNext]_policyVars

-----------------------------------------------------------------------------
(* Properties *)

\* An audit says of a crawler what RFC 9309 does, and cites for a block one of
\* the rules that decide, unless a Disallow without a value is all there is.
ResultsFollowTheFile ==
    report # NoReport => \A i \in DOMAIN Registry :
        \/ OnlyEmptyRules(file, Registry[i].token)
        \/ /\ report.results[i].result = RFCResult(file, Registry[i].token)
           /\ report.results[i].result = "blocked" =>
                report.results[i].lineNumber \in Decisive(file, Registry[i].token)

\* parser.test.ts has "an empty Disallow value as allow-all for that group": no
\* crawler is reported blocked for such rules.
EmptyDisallowAllowsAll ==
    report # NoReport => \A i \in DOMAIN Registry :
        OnlyEmptyRules(file, Registry[i].token) => report.results[i].result # "blocked"

\* What the former report proposed for crawler i.
Advised(i) == Proposal(preset, Registry[i], former.results[i].result)

\* The agents at the end of a file that have no rule yet: the first group
\* appended is theirs too.
TrailingAgents(f) ==
    {f[j].value : j \in {k \in DOMAIN f : /\ f[k].field = "user-agent"
                                           /\ \A l \in (k + 1)..Len(f) : f[l].field \notin RuleFields}}

\* The rules the file had for the crawler by name, of which one beats "/": a
\* longer Disallow, or an Allow that is not shorter.
OutweighsAdvice(i) ==
    LET token == Registry[i].token
    IN  /\ Named(former.file, token)
        /\ \E k \in RulesFor(former.file, token) :
            /\ former.file[k].value \in Matching
            /\ IF Advised(i) = "allow"
               THEN former.file[k].field = "disallow" /\ PatternLength[former.file[k].value] > 1
               ELSE former.file[k].field = "allow" /\ PatternLength[former.file[k].value] >= 1

\* Appended, a proposal has the crawler evaluated as the preset expects, unless
\* rules of its own outweigh it or another crawler's group became its own.
AdviceTakesEffect ==
    report # NoReport /\ former # NoReport => \A i \in DOMAIN Registry :
        Advised(i) # "none" =>
            \/ EvaluateAlignment(preset, Registry[i].purpose, report.results[i].result) = "aligned"
            \/ OutweighsAdvice(i)
            \/ Registry[i].token \in TrailingAgents(former.file)

\* Appended, a proposal changes the result of no crawler it is not for, unless
\* that crawler's group or the group of "*" was still without rules at the end.
AdviceBindsOnlyItsCrawlers ==
    report # NoReport /\ former # NoReport => \A i \in DOMAIN Registry :
        Advised(i) = "none" =>
            \/ report.results[i].result = former.results[i].result
            \/ TrailingAgents(former.file) \cap {Registry[i].token, AnyAgent} # {}
=============================================================================
