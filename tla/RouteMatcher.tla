------------------------------ MODULE RouteMatcher ------------------------------
(***************************************************************************)
(* Stage 1 of the DEO pipeline, deo/route_matcher.py, and the path         *)
(* normalisation the repository uses for endpoint signatures.              *)
(*                                                                         *)
(* A path is the sequence of its raw segments, the texts between slashes:  *)
(* "/payments/{id}" is <<"payments", "{id}">>, a doubled or trailing slash *)
(* is an Empty segment.  What the code does to the text of one segment is  *)
(* given by functions: BeforeQuery cuts a segment at its "?", Unquote      *)
(* percent-decodes it, ParamName reads the name inside "{...}".            *)
(***************************************************************************)
EXTENDS Integers, Sequences, FiniteSets

CONSTANTS
  RawSegments,    \* the raw segments paths are made of
  Empty,          \* the empty segment
  BeforeQuery,    \* raw segment -> the raw segment in front of its "?"
  Unquote,        \* raw segment -> the decoded segment
  ParamName,      \* decoded segment "{...}" -> the stripped name inside it
  NoName          \* the empty name, of "{}" and "{ }"

ASSUME SegmentAssumption ==
  /\ Empty \in RawSegments
  /\ BeforeQuery \in [RawSegments -> RawSegments]
  /\ BeforeQuery[Empty] = Empty
  /\ DOMAIN Unquote = RawSegments

Paths == Seq(RawSegments)

\* The part of a path in front of its first "?".
PathWithoutQuery(path) ==
  LET marked == {i \in DOMAIN path : BeforeQuery[path[i]] # path[i]}
      first  == CHOOSE i \in marked : \A j \in marked : i <= j
  IN  IF marked = {} THEN path
      ELSE Append(SubSeq(path, 1, first - 1), BeforeQuery[path[first]])

\* Mutant: empty segments are kept.
SplitKeepingEmpty(path) ==
  LET cut == PathWithoutQuery(path) IN [k \in DOMAIN cut |-> Unquote[cut[k]]]

\* _split_path: the decoded non-empty segments in front of the query.  The
\* k-th of them stands at the position with k - 1 non-empty ones before it.
SplitPath(path) ==
  LET cut     == PathWithoutQuery(path)
      kept    == {i \in DOMAIN cut : cut[i] # Empty}
      rank(i) == Cardinality({j \in kept : j <= i})
  IN  [k \in 1 .. Cardinality(kept) |-> Unquote[cut[CHOOSE i \in kept : rank(i) = k]]]

IsParam(segment) == segment \in DOMAIN ParamName

\* Mutant: the lengths are not compared, zip ends with the template.
MatchSegmentsPrefix(template, segments) ==
  /\ Len(template) <= Len(segments)
  /\ \A i \in DOMAIN template :
       IF IsParam(template[i]) THEN ParamName[template[i]] # NoName
                               ELSE template[i] = segments[i]

\* _match_segments returns a dictionary rather than None.
MatchSegments(template, segments) ==
  /\ Len(template) = Len(segments)
  /\ \A i \in DOMAIN template :
       IF IsParam(template[i]) THEN ParamName[template[i]] # NoName
                               ELSE template[i] = segments[i]

\* The dictionary _match_segments returns: of two segments with the same
\* parameter name the later one wins.
PathParams(template, segments) ==
  LET named == {i \in DOMAIN template : IsParam(template[i])}
      last(name) == CHOOSE i \in named :
                      /\ ParamName[template[i]] = name
                      /\ \A j \in named : ParamName[template[j]] = name => j <= i
  IN  [name \in {ParamName[template[i]] : i \in named} |-> segments[last(name)]]

StaticCount(template) ==
  Cardinality({i \in DOMAIN template : ~ IsParam(template[i])})

\* The positions in endpoints that survive the loop of match; active holds
\* the positions of the endpoints the caller passes.
Candidates(endpoints, active, method, path) ==
  {i \in active :
     /\ endpoints[i].is_active
     /\ endpoints[i].method = method
     /\ MatchSegments(SplitPath(endpoints[i].path), SplitPath(path))}

\* Mutant: the first match in the table wins.
EarlierPreferred(endpoints, i, j) == i <= j

\* Mutant: of several maximal items the last is kept.
LaterPreferred(endpoints, i, j) ==
  LET here  == StaticCount(SplitPath(endpoints[i].path))
      there == StaticCount(SplitPath(endpoints[j].path))
  IN  here > there \/ (here = there /\ j <= i)

\* max() keeps the first of several maximal items.
Preferred(endpoints, i, j) ==
  LET here  == StaticCount(SplitPath(endpoints[i].path))
      there == StaticCount(SplitPath(endpoints[j].path))
  IN  here > there \/ (here = there /\ i <= j)

NoMatch == 0

\* match: the position of the chosen endpoint, or NoMatch.
Match(endpoints, active, method, path) ==
  LET found == Candidates(endpoints, active, method, path)
  IN  IF found = {} THEN NoMatch
      ELSE CHOOSE i \in found : \A j \in found : Preferred(endpoints, i, j)

\* repository._normalize_path: one leading slash is ensured and the trailing
\* slashes go.  The query and inner empty segments stay.
NormalizePath(path) ==
  LET filled == {i \in DOMAIN path : path[i] # Empty}
      last   == CHOOSE i \in filled : \A j \in filled : j <= i
  IN  IF filled = {} THEN << >> ELSE SubSeq(path, 1, last)

\* build_request_context: the path of a mock call loses the slashes at both ends.
StripSlashes(path) ==
  LET filled == {i \in DOMAIN path : path[i] # Empty}
      first  == CHOOSE i \in filled : \A j \in filled : i <= j
      last   == CHOOSE i \in filled : \A j \in filled : j <= i
  IN  IF filled = {} THEN << >> ELSE SubSeq(path, first, last)
================================================================================
