----------------------------- MODULE RobotsRules -----------------------------
(***************************************************************************)
(* How robots.txt is read and applied (packages/robots): the parser puts   *)
(* lines into groups, the evaluator picks the groups of a crawler and the  *)
(* rule that decides about a path.                                         *)
(*                                                                         *)
(* An audit only ever asks about "/", so of a rule's value no more matters *)
(* than the length of its pattern and whether the pattern matches "/".     *)
(* Lines come with their comments and white space stripped and agents in   *)
(* lower case.                                                             *)
(***************************************************************************)
EXTENDS Naturals, Sequences

CONSTANTS
    Tokens,             \* user-agent tokens of crawlers
    Patterns,           \* values of allow and disallow lines
    PatternLength,      \* their length, without a final $
    Matching            \* those that match "/"

Empty == ""             \* the value of a field that has none
AnyAgent == "*"

ASSUME RobotsAssumption ==
    /\ {Empty, AnyAgent} \cap Tokens = {}
    /\ Empty \in Matching /\ Matching \subseteq Patterns
    /\ PatternLength \in [Patterns -> Nat]
    /\ \A p \in Matching : PatternLength[p] = 0 <=> p = Empty

RuleFields == {"allow", "disallow"}

\* "other" stands for a sitemap, a crawl-delay and an unknown field.
Line == [field: {"user-agent"}, value: Tokens \cup {AnyAgent, Empty}]
            \cup [field: RuleFields, value: Patterns]
            \cup [field: {"other"}, value: {Empty}]

-----------------------------------------------------------------------------
(* The parser *)

\* groups: those begun, the last one still open.
NothingRead == [groups |-> <<>>, hasRules |-> FALSE]
OpenGroup(parsed) == parsed.groups[Len(parsed.groups)]
NewGroup == [agents |-> {}, rules |-> <<>>]

WithOpenGroup(parsed, group) ==
    [parsed EXCEPT !.groups[Len(parsed.groups)] = group]

\* A faulty variant: each agent begins a group of its own.
ClosesGroupAlways(parsed) == TRUE

\* The first agent after a rule begins another group.
ClosesGroup(parsed) == parsed.groups = <<>> \/ parsed.hasRules

ReadAgent(parsed, agent) ==
    LET open == IF ClosesGroup(parsed)
                THEN [groups |-> Append(parsed.groups, NewGroup), hasRules |-> FALSE]
                ELSE parsed
    IN  IF agent = Empty THEN open
        ELSE WithOpenGroup(open, [OpenGroup(open) EXCEPT !.agents = @ \cup {agent}])

\* A rule of no agent is dropped.
ReadRule(parsed, line, number) ==
    LET rule == [type |-> line.field, pattern |-> line.value, lineNumber |-> number]
    IN  IF parsed.groups = <<>> \/ OpenGroup(parsed).agents = {} THEN parsed
        ELSE [WithOpenGroup(parsed, [OpenGroup(parsed) EXCEPT !.rules = Append(@, rule)])
              EXCEPT !.hasRules = TRUE]

ReadLine(parsed, line, number) ==
    CASE line.field = "user-agent" -> ReadAgent(parsed, line.value)
      [] line.field \in RuleFields -> ReadRule(parsed, line, number)
      [] OTHER -> parsed

\* What has been read after each line.
Readings(file) ==
    LET read[i \in 0..Len(file)] ==
            IF i = 0 THEN NothingRead ELSE ReadLine(read[i - 1], file[i], i)
    IN  read

ParseRobotsTxt(file) == Readings(file)[Len(file)].groups

-----------------------------------------------------------------------------
(* The evaluator *)

\* Groups by their index.
GroupsNaming(groups, agent) == {k \in DOMAIN groups : agent \in groups[k].agents}

FindApplicableGroups(groups, token) ==
    IF GroupsNaming(groups, token) # {} THEN GroupsNaming(groups, token)
    ELSE GroupsNaming(groups, AnyAgent)

\* The rules of the applicable groups: of the first group, of the first two, and so on.
RulesUpTo(groups, applicable) ==
    LET upTo[k \in 0..Len(groups)] ==
            IF k = 0 THEN <<>>
            ELSE IF k \in applicable THEN upTo[k - 1] \o groups[k].rules ELSE upTo[k - 1]
    IN  upTo

AllRules(groups, applicable) == RulesUpTo(groups, applicable)[Len(groups)]

Specificity(rule) == PatternLength[rule.pattern]

\* A faulty variant: of two rules of one length the first wins.
IsBetterThanEqual(rule, best) == Specificity(rule) > Specificity(best)

IsBetter(rule, best) ==
    \/ Specificity(rule) > Specificity(best)
    \/ Specificity(rule) = Specificity(best) /\ rule.type = "allow" /\ best.type = "disallow"

NoRule == [type |-> "none", pattern |-> Empty, lineNumber |-> 0]

\* The best of the matching rules among the first ones.
BestUpTo(rules) ==
    LET best[i \in 0..Len(rules)] ==
            IF i = 0 THEN NoRule
            ELSE IF /\ rules[i].pattern \in Matching
                    /\ best[i - 1] = NoRule \/ IsBetter(rules[i], best[i - 1])
                 THEN rules[i] ELSE best[i - 1]
    IN  best

BestRule(rules) == BestUpTo(rules)[Len(rules)]

Trace(result, lineNumber) == [result |-> result, lineNumber |-> lineNumber]

EvaluateRobots(groups, token) ==
    LET applicable == FindApplicableGroups(groups, token)
        best == BestRule(AllRules(groups, applicable))
    IN  IF applicable = {} THEN Trace("no_explicit_rule", 0)
        ELSE IF best = NoRule THEN Trace("allowed", 0)
        ELSE Trace(IF best.type = "allow" THEN "allowed" ELSE "blocked", best.lineNumber)

-----------------------------------------------------------------------------
(* What RFC 9309 says, of the file as a whole *)

Named(file, agent) == [field |-> "user-agent", value |-> agent] \in
                        {file[i] : i \in DOMAIN file}

\* Line j names an agent and rule i is of its group: between the two no other
\* group begins.
Governs(file, j, i) ==
    /\ j < i /\ file[i].field \in RuleFields
    /\ \A k, l \in (j + 1)..(i - 1) :
            k < l /\ file[k].field \in RuleFields => file[l].field # "user-agent"

\* The rules, by their lines, that bind a crawler: those of its own groups,
\* and of the groups of "*" only if nothing names it.
RulesFor(file, token) ==
    {i \in DOMAIN file : \E j \in DOMAIN file :
        /\ file[j] = [field |-> "user-agent",
                      value |-> IF Named(file, token) THEN token ELSE AnyAgent]
        /\ Governs(file, j, i)}

\* Those that match "/"; a rule without a value restricts nothing.
Decisive(file, token) ==
    LET hits == {i \in RulesFor(file, token) : file[i].value \in Matching \ {Empty}}
    IN  {i \in hits : \A k \in hits : PatternLength[file[k].value] <= PatternLength[file[i].value]}

MayCrawl(file, token) ==
    \/ Decisive(file, token) = {}
    \/ \E i \in Decisive(file, token) : file[i].field = "allow"

RFCResult(file, token) ==
    IF ~Named(file, token) /\ ~Named(file, AnyAgent) THEN "no_explicit_rule"
    ELSE IF MayCrawl(file, token) THEN "allowed" ELSE "blocked"

\* No other rule says anything of "/", and one without a value is there.
OnlyEmptyRules(file, token) ==
    /\ Decisive(file, token) = {}
    /\ \E i \in RulesFor(file, token) : file[i] = [field |-> "disallow", value |-> Empty]
=============================================================================
