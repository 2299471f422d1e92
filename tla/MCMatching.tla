------------------------------- MODULE MCMatching -------------------------------
(***************************************************************************)
(* A small alphabet for Matching: paths with doubled and trailing slashes, *)
(* a query mark, a percent-encoded segment, parameters of one name, of two *)
(* names and of none; rules with every operator and every value of a small *)
(* domain that has a value of each kind.                                   *)
(***************************************************************************)
EXTENDS Matching, TLC

CONSTANT MaxPath

MCRaw         == {"", "a", "%61", "a?x", "{p}", "{q}", "{}"}
MCBeforeQuery == [raw \in MCRaw |-> IF raw = "a?x" THEN "a" ELSE raw]
MCUnquote     == [raw \in MCRaw |-> IF raw = "%61" THEN "a" ELSE raw]
MCParamName   == "{p}" :> "p" @@ "{q}" :> "q" @@ "{}" :> ""

PathsUpTo(alphabet, n) == UNION {[1 .. k -> alphabet] : k \in 0 .. n}
MCTemplates    == PathsUpTo(MCRaw, MaxPath)
MCRequestPaths == PathsUpTo({"", "%61", "{p}"}, MaxPath + 1)

Value(kind, num, text, items) == [kind |-> kind, num |-> num, text |-> text, items |-> items]
VNone == Value("none", 0, "None", {})
VTwo  == Value("num", 2, "2", {})
VTen  == Value("num", 10, "10", {})
VTenS == Value("str", 0, "10", {})
VHuge == Value("huge", 0, "1e400", {})
VOpen == Value("str", 0, "[", {})
VList == Value("list", 0, "['10']", {VTenS})
VMap  == Value("map", 0, "{'10': 1}", {VTenS})

MCValues      == {VNone, VTwo, VTen, VTenS, VHuge, VOpen, VList, VMap}
MCFloatOfText == "10" :> 10
MCSubstringOf == {<<"10", "10">>, <<"[", "[">>}
MCPatternHits == {<<"2", "2">>, <<"10", "10">>, <<"10", "['10']">>, <<"10", "{'10': 1}">>}

MCOperators == OPERATOR_REGISTRY \cup {"startswith"}
================================================================================
