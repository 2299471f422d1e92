------------------------------- MODULE RuleEngine -------------------------------
(***************************************************************************)
(* Stage 2 of the DEO pipeline, deo/rule_engine.py: the operators and the  *)
(* first-match evaluation of an endpoint's rules.                          *)
(*                                                                         *)
(* A value is a record [kind, num, text, items]: num is the number of a    *)
(* "num", text what str() prints, items the members of a "list" or the     *)
(* keys of a "map".  A "huge" is an integer that no float can hold.  What  *)
(* depends on the characters of texts is given by constants.  An operator  *)
(* answers "yes" or "no", or "raise" where the Python code lets an         *)
(* exception through.                                                      *)
(***************************************************************************)
EXTENDS Integers, Sequences

CONSTANTS
  Values,         \* the values requests and rules hold
  None,           \* Python's None, the value of a missing field
  SubstringOf,    \* the pairs <<a, b>> of texts with a in b
  FloatOfText,    \* text of a numeral -> its number
  BadPatterns,    \* the texts re.compile rejects
  PatternHits     \* the pairs <<p, t>> with re.search(p, t) not None

ASSUME ValueAssumption ==
  /\ None \in Values
  /\ None.kind = "none"

\* Numbers are ordered like integers; infinities are the ends of the order.  NaN,
\* which float() also reads, is left out.
ASSUME NumberAssumption ==
  /\ \A value \in Values : value.kind = "num" => value.num \in Int
  /\ \A text \in DOMAIN FloatOfText : FloatOfText[text] \in Int

TextValue(text) == [kind |-> "str", num |-> 0, text |-> text, items |-> {}]

YesNo(condition) == IF condition THEN "yes" ELSE "no"

Equals(actual, expected) == YesNo(actual = expected)
NotEquals(actual, expected) == YesNo(actual # expected)

\* _contains: membership in a dict hashes the expected value first.
ContainsOp(actual, expected) ==
  CASE actual.kind = "map" /\ expected.kind \in {"list", "map"} -> "raise"
    [] actual.kind = "map" /\ expected.kind \notin {"list", "map"} ->
         YesNo(expected \in actual.items)
    [] actual.kind = "list" -> YesNo(expected \in actual.items)
    [] actual.kind = "str"  -> YesNo(<<expected.text, actual.text>> \in SubstringOf)
    [] OTHER -> "no"

Exists(actual, expected) == YesNo(actual # None)

\* float(value): a number, "error" for what _gt and _lt catch (TypeError,
\* ValueError), or "overflow" for the OverflowError they do not catch.
FloatKind(value) ==
  CASE value.kind = "num"  -> "number"
    [] value.kind = "str"  -> IF value.text \in DOMAIN FloatOfText THEN "number" ELSE "error"
    [] value.kind = "huge" -> "overflow"
    [] OTHER -> "error"

FloatOf(value) == IF value.kind = "num" THEN value.num ELSE FloatOfText[value.text]

\* What stops the comparison: the operand that does not convert, actual first.
Converted(actual, expected) ==
  IF FloatKind(actual) = "number" THEN FloatKind(expected) ELSE FloatKind(actual)

\* The common shape of _gt and _lt.
Compared(actual, expected, holds) ==
  CASE Converted(actual, expected) = "error"    -> "no"
    [] Converted(actual, expected) = "overflow" -> "raise"
    [] Converted(actual, expected) = "number"   -> YesNo(holds)

Gt(actual, expected) == Compared(actual, expected, FloatOf(actual) > FloatOf(expected))

\* Mutant: lt holds of equal numbers.
LtOrEqual(actual, expected) == Compared(actual, expected, FloatOf(actual) <= FloatOf(expected))

Lt(actual, expected) == Compared(actual, expected, FloatOf(actual) < FloatOf(expected))

\* Mutant: the pattern is compiled before the value is looked at.
RegexCompiledFirst(actual, expected) ==
  IF expected.text \in BadPatterns THEN "raise"
  ELSE IF actual = None \/ expected = None THEN "no"
  ELSE YesNo(<<expected.text, actual.text>> \in PatternHits)

\* _regex: a pattern is compiled only when there is a value to search.
Regex(actual, expected) ==
  IF actual = None \/ expected = None THEN "no"
  ELSE IF expected.text \in BadPatterns THEN "raise"
  ELSE YesNo(<<expected.text, actual.text>> \in PatternHits)

OPERATOR_REGISTRY ==
  {"equals", "not_equals", "contains", "exists", "gt", "lt", "regex"}

\* The call of the operator a rule names; an unregistered name is skipped.
Apply(operator, actual, expected) ==
  CASE operator = "equals"     -> Equals(actual, expected)
    [] operator = "not_equals" -> NotEquals(actual, expected)
    [] operator = "contains"   -> ContainsOp(actual, expected)
    [] operator = "exists"     -> Exists(actual, expected)
    [] operator = "gt"         -> Gt(actual, expected)
    [] operator = "lt"         -> Lt(actual, expected)
    [] operator = "regex"      -> Regex(actual, expected)
    [] OTHER -> "no"

\* _extract_value: path conditions read the path parameters, the others the
\* request's fields, given as a function of <<condition type, dotted field>>.
ExtractValue(rule, ctx, params) ==
  IF rule.condition_type = "path"
    THEN IF rule.field \in DOMAIN params THEN TextValue(params[rule.field]) ELSE None
    ELSE IF <<rule.condition_type, rule.field>> \in DOMAIN ctx.fields
           THEN ctx.fields[<<rule.condition_type, rule.field>>]
           ELSE None

Outcome(rule, ctx, params) ==
  Apply(rule.operator, ExtractValue(rule, ctx, params), rule.value)

NoRule == 0

\* Mutant: the last rule that does not answer "no" decides.
LastDecisive(rules, mine, ctx, params) ==
  LET decisive == {i \in mine : Outcome(rules[i], ctx, params) # "no"}
  IN  IF decisive = {} THEN NoRule
      ELSE CHOOSE i \in decisive : \A j \in decisive : j <= i

\* evaluate, over the rules at the positions in mine: the first rule that
\* does not answer "no" ends the loop, by matching or by raising.
FirstDecisive(rules, mine, ctx, params) ==
  LET decisive == {i \in mine : Outcome(rules[i], ctx, params) # "no"}
  IN  IF decisive = {} THEN NoRule
      ELSE CHOOSE i \in decisive : \A j \in decisive : i <= j

Raises(rules, mine, ctx, params) ==
  LET i == FirstDecisive(rules, mine, ctx, params)
  IN  i # NoRule /\ Outcome(rules[i], ctx, params) = "raise"
================================================================================
