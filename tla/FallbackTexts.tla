------------------------------ MODULE FallbackTexts ------------------------------
(***************************************************************************)
(* FallbackAgents by itself: a text grows mention by mention, over paths   *)
(* that repeat, overlap or hide a parameter without a name, and is planned *)
(* generated, reviewed and simulated without an LLM at every size.         *)
(***************************************************************************)
EXTENDS FallbackAgents

CONSTANTS
  Project,        \* the project of the request
  Mentions,       \* what a text may mention
  Queries,        \* the values of its query clause, None for no clause
  MaxMentions     \* bound on the mentions of a text

ASSUME TextsAssumption ==
  /\ Project \in Projects
  /\ Queries \subseteq Values
  /\ MaxMentions \in Nat \ {0}
  /\ 1 .. MaxMentions \subseteq DOMAIN KeyOf
  /\ \A mention \in Mentions :
       mention.path \in Paths /\ mention.method \in Methods /\ mention.delay \in Nat

VARIABLE text

Mentioned(mention) ==
  /\ Len(text.mentions) < MaxMentions
  /\ text' = Text(Append(text.mentions, mention), text.query)

Init == text \in {Text(<< >>, query) : query \in Queries}
Next == \E mention \in Mentions : Mentioned(mention)
Spec == Init /\ [][Next]_text

--------------------------------------------------------------------------------
\* The planner's sample of a segment is one that the matcher takes for the segment
\* or for its parameter: a "?" and emptiness survive the sampling, a parameter has a
\* name, and what is no parameter is decoded like its sample.
Legible(raw) ==
  LET cut == BeforeQuery[raw]
  IN  /\ BeforeQuery[Sample[raw]] = Sample[cut]
      /\ cut = raw <=> Sample[cut] = Sample[raw]
      /\ cut = Empty <=> Sample[cut] = Empty
      /\ IF IsParam(Unquote[cut]) THEN ParamName[Unquote[cut]] # NoName
                                  ELSE Unquote[Sample[cut]] = Unquote[cut]

ASSUME HealthAssumption == Legible("generated-health")

\* The endpoint of one mention would answer the scenario of another as well.
Overlap(mention, other) ==
  /\ mention.method = other.method
  /\ MatchSegments(SplitPath(mention.path), SplitPath(ScenarioOf(other).path))

\* Nothing in the text is out of range or illegible and no two mentions get in each
\* other's way.
Plain ==
  /\ \A i \in DOMAIN text.mentions :
       /\ ValidStatus(PlannedStatus(text.mentions[i]))
       /\ \A k \in DOMAIN text.mentions[i].path : Legible(text.mentions[i].path[k])
  /\ \A i, j \in DOMAIN text.mentions :
       i # j => ~ Overlap(text.mentions[i], text.mentions[j])

\* Without an LLM, planner, code generation, critic and sandbox agree on every
\* text whose mentions do not overlap: the scenario planned for a mention finds
\* that mention's endpoint through the route matcher, with the status both were
\* given, and the rule of the query clause does not get in the way.
FallbackUsable == Plain => OfflineResult(Project, text) = "passed"

\* README.md, section 9: the fallbacks of planner, code generation and critic
\* make "the workflow yield a usable result even with no LLM transport configured".
OfflineUsable == OfflineResult(Project, text) = "passed"
================================================================================
