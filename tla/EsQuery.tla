------------------------------- MODULE EsQuery -------------------------------
(***************************************************************************)
(* translate/es: the body of an ES search becomes a plan.  Its query (or   *)
(* the filter of its knn clause) becomes the boolean expression that       *)
(* Milvus evaluates; from, size, k, sort and _source become the page, the  *)
(* order and the fields that come back.                                    *)
(*                                                                         *)
(* parseBool pins minimum_should_match, fold removes the boolean           *)
(* identities, buildExpr lowers the tree and negated complements the       *)
(* must_not clauses.  The result is held against what the query means: ES  *)
(* asks of a clause only whether it matched, Milvus is three-valued, and a *)
(* row with a null drops out of whatever comes out unknown.                *)
(*                                                                         *)
(* must and filter are one group here: the code treats them alike.         *)
(***************************************************************************)
EXTENDS MilvusExpr, SequencesExt

CONSTANTS
  Fields,    \* field names
  TextField, \* the subset of Fields that match treats as analyzed text
  Nullable,  \* the subset of Fields that NullableSchema reports
  Rows,      \* the rows a query is evaluated on
  Bodies,    \* the searches as written: query or knn filter, and the other members
  Bad,       \* a value coerceValue refuses for its field, or no integer at all
  Score,     \* _score or _doc as a sort key
  MaxInt,    \* the largest int
  Window,    \* maxResultWindow
  DefaultSize,
  Depth      \* how deep queries nest, the bool around a knn filter included

ASSUME PagingAssumption ==
  /\ MaxInt \in Nat /\ Window \in 0..MaxInt /\ DefaultSize \in 0..Window

(***************************************************************************)
(* The query tree (query.go).                                              *)
(***************************************************************************)
MatchAll == [k |-> "all"]
MatchNone == [k |-> "none"]
Term(f, v) == [k |-> "term", f |-> f, v |-> v]
Terms(f, vs) == [k |-> "terms", f |-> f, vs |-> vs]
Match(f, toks, op) == [k |-> "match", f |-> f, toks |-> toks, op |-> op]
Bounds(f, bs) == [k |-> "range", f |-> f, bs |-> bs]
Exists(f) == [k |-> "exists", f |-> f]
Bool(must, should, mustNot, msm) ==
  [k |-> "bool", must |-> must, should |-> should, mustNot |-> mustNot, msm |-> msm]

\* What fold and buildExpr return with an error.
Error == [k |-> "error", e |-> "error"]

\* The leaves, and the queries of so many levels over them.  A range has a bound
\* at least; the text of a match may have no token, another value is itself.
Clauses ==
  [k : {"all", "none"}]
  \cup [k : {"term"}, f : Names, v : Values]
  \cup [k : {"terms"}, f : Names, vs : SUBSET Values]
  \cup [k : {"match"}, f : TextField, toks : Seq(Values), op : {"and", "or"}]
  \cup [k : {"match"}, f : Names \ TextField, toks : Seq(Values) \ {<<>>}, op : {"and", "or"}]
  \cup [k : {"range"}, f : Names, bs : Seq([op : Operators, v : Values]) \ {<<>>}]
  \cup [k : {"exists"}, f : Names]

QueryLevels[n \in 0..Depth] ==
  IF n = 0 THEN Clauses
  ELSE LET group == Seq(QueryLevels[n - 1])
       IN Clauses \cup [k : {"bool"}, must : group, should : group, mustNot : group, msm : Nat]

Queries == QueryLevels[Depth]

Mapped(f, s) == [i \in DOMAIN s |-> f[s[i]]]

(***************************************************************************)
(* Parsing and folding.                                                    *)
(***************************************************************************)
\* parseBool: should clauses that are the only constraint need one match at least.
Pin(b) ==
  IF b.should # <<>> /\ b.must = <<>> /\ b.msm < 1 THEN [b EXCEPT !.msm = 1] ELSE b

Parse[q \in Queries] ==
  CASE q.k = "bool" ->
         Pin(Bool(Mapped(Parse, q.must), Mapped(Parse, q.should), Mapped(Parse, q.mustNot), q.msm))
    [] q.k = "terms" -> IF q.vs = {} THEN MatchNone ELSE q
    [] OTHER -> q

\* (mutant) Several should clauses are refused whatever the minimum.
FoldShouldStrict(should, msm) ==
  [err |-> Len(should) > 1, none |-> FALSE, should |-> Without(should, MatchNone)]

\* What becomes of the should group: an error, a bool that matches nothing, or
\* the clauses of which one must match.
FoldShould(should, msm) ==
  LET left == Without(should, MatchNone)
      res(err, none, s) == [err |-> err, none |-> none, should |-> s]
  IN IF Some(should, MatchAll) /\ msm = 1 THEN res(FALSE, FALSE, <<>>)
     ELSE IF left # <<>> /\ msm = 0 THEN res(FALSE, FALSE, <<>>)
     ELSE IF left # <<>> /\ msm > Len(left) THEN res(FALSE, TRUE, <<>>)
     ELSE IF left # <<>> /\ msm > 1 THEN res(TRUE, FALSE, <<>>)
     ELSE IF left = <<>> /\ Some(should, MatchNone) /\ msm >= 1 THEN res(FALSE, TRUE, <<>>)
     ELSE res(FALSE, FALSE, left)

\* One bool whose clauses are folded.
FoldBool(b) ==
  LET s == FoldShould(b.should, b.msm)
      folded == Bool(Without(b.must, MatchAll), s.should, Without(b.mustNot, MatchNone), b.msm)
  IN IF \E g \in {b.must, b.should, b.mustNot} : Some(g, Error) THEN Error
     ELSE IF Some(b.must, MatchNone) \/ Some(b.mustNot, MatchAll) THEN MatchNone
     ELSE IF s.err THEN Error
     ELSE IF s.none THEN MatchNone
     ELSE IF folded.must = <<>> /\ folded.should = <<>> /\ folded.mustNot = <<>> THEN MatchAll
     ELSE folded

Fold[q \in Queries] ==
  IF q.k # "bool" THEN q
  ELSE FoldBool(Bool(Mapped(Fold, q.must), Mapped(Fold, q.should), Mapped(Fold, q.mustNot), q.msm))

(***************************************************************************)
(* Lowering.                                                               *)
(***************************************************************************)
FieldOf(x) == IF x.e \in {"cmp", "in", "text"} THEN {x.f} ELSE {}

\* (mutant) The complement of a comparison is a bare not.
ComplementBare(x) == Not(x)

\* The complement of a leaf that can come out unknown keeps the rows whose field
\* is missing.
Complement(x) ==
  IF FieldOf(x) \cap Nullable # {}
  THEN Or(<<IsNull(x.f), Not(x)>>)
  ELSE Not(x)

Negated[x \in Exprs] ==
  CASE x.e = "and" -> IF x.cs = <<>> THEN Never ELSE Or(Mapped(Negated, x.cs))
    [] x.e = "or" -> IF x.cs = <<>> THEN Never ELSE And(Mapped(Negated, x.cs))
    [] x.e = "not" -> x.c
    [] x.e = "notnull" -> IsNull(x.f)
    [] x.e = "isnull" -> NotNull(x.f)
    [] OTHER -> Complement(x)

MatchExpr(q) ==
  IF q.f \notin TextField THEN Compare("=", q.f, q.toks[1])
  ELSE IF q.toks = <<>> THEN Never
  ELSE IF q.op = "and" THEN And([i \in DOMAIN q.toks |-> TextMatch(q.f, {q.toks[i]})])
  ELSE TextMatch(q.f, ToSet(q.toks))

RangeExpr(q) ==
  LET cs == [i \in DOMAIN q.bs |-> Compare(q.bs[i].op, q.f, q.bs[i].v)]
  IN IF Len(cs) = 1 THEN cs[1] ELSE And(cs)

\* A group of clauses: nothing, its one clause, or the join of all.
Join(cs, op) ==
  IF Len(cs) <= 1 THEN cs ELSE <<IF op = "and" THEN And(cs) ELSE Or(cs)>>

\* (mutant) Clauses without a filter stay in their groups.
BoolExprKeepsNil(must, should, mustNot) ==
  LET children == Join(must, "and") \o Join(should, "or")
                  \o Mapped(Negated, mustNot)
      whole == Join(children, "and")
  IN IF \E g \in {must, should, mustNot} : Some(g, Error) THEN Error
     ELSE IF whole = <<>> THEN Nil ELSE whole[1]

\* boolExpr, the clauses being lowered already; those without a filter drop out.
BoolExpr(must, should, mustNot) ==
  LET children == Join(Without(must, Nil), "and")
                  \o Join(Without(should, Nil), "or")
                  \o Mapped(Negated, Without(mustNot, Nil))
      whole == Join(children, "and")
  IN IF \E g \in {must, should, mustNot} : Some(g, Error) THEN Error
     ELSE IF whole = <<>> THEN Nil ELSE whole[1]

\* The values of a leaf that go through coerceValue.
Coerced(q) ==
  CASE q.k = "term" -> {q.v}
    [] q.k = "terms" -> q.vs
    [] q.k = "range" -> {q.bs[i].v : i \in DOMAIN q.bs}
    [] q.k = "match" -> IF q.f \in TextField THEN {} ELSE {q.toks[1]}
    [] OTHER -> {}

LeafExpr(q) ==
  IF Bad \in Coerced(q) THEN Error
  ELSE CASE q.k = "all" -> Nil
         [] q.k = "none" -> Never
         [] q.k = "term" -> Compare("=", q.f, q.v)
         [] q.k = "terms" -> InList(q.f, q.vs)
         [] q.k = "match" -> MatchExpr(q)
         [] q.k = "range" -> RangeExpr(q)
         [] OTHER -> NotNull(q.f)

BuildExpr[q \in Queries] ==
  IF q.k # "bool" THEN LeafExpr(q)
  ELSE BoolExpr(Mapped(BuildExpr, q.must), Mapped(BuildExpr, q.should), Mapped(BuildExpr, q.mustNot))

(***************************************************************************)
(* The other members of the body.  An optional member is a set of at most  *)
(* one value.                                                              *)
(***************************************************************************)
Or0(o, default) == IF o = {} THEN default ELSE CHOOSE v \in o : TRUE

\* decodeInt fails, or the integer is below what the member allows.
BadCount(o, least) == \E v \in o : v = Bad \/ v < least

Wrap(x) == ((x + MaxInt + 1) % (2 * MaxInt + 2)) - MaxInt - 1

\* parsePaging.
PagingRefused(b) ==
  \/ BadCount(b.from, 0) \/ BadCount(b.size, 0)
  \/ Wrap(Or0(b.from, 0) + Or0(b.size, DefaultSize)) > Window

\* parseSort: _score and _doc drop out before the order of a plain clause is looked
\* at, after that of an options object is.  How the rest sorts is ReadPath's.
SortKeys(b) == {c \in ToSet(b.sort) : c.f # Score}
SortRefused(b) ==
  \E c \in ToSet(b.sort) :
    c.order \notin {"asc", "desc"} /\ (c.form = "options" \/ c \in SortKeys(b))

\* A _source pattern: a name, "*", "prefix.*" (no field name has a dot), or
\* another wildcard.
Name(f) == [p |-> "name", f |-> f]
Star == [p |-> "star"]
Under == [p |-> "under"]
Wild == [p |-> "wild"]
Patterns == {Name(f) : f \in Fields} \cup {Star, Under, Wild}

\* filterSourcePatterns: "*" is dropped, other wildcards are refused.
SourceRefused(src) == Wild \in ToSet(src.includes \o src.excludes)
Cleaned(src) == [src EXCEPT !.includes = Without(@, Star), !.excludes = Without(@, Star)]

\* (mutant) Excludes count only without includes.
ResolveSourceEither(src) ==
  IF ~src.fetch THEN {}
  ELSE IF src.includes # <<>> THEN {f \in Fields : Name(f) \in ToSet(src.includes)}
  ELSE {f \in Fields : Name(f) \notin ToSet(src.excludes)}

\* resolveSourceFields in the store: the fields of a hit.
ResolveSource(src) ==
  IF ~src.fetch THEN {}
  ELSE {f \in Fields :
          /\ src.includes = <<>> \/ Name(f) \in ToSet(src.includes)
          /\ Name(f) \notin ToSet(src.excludes)}

(***************************************************************************)
(* The searches as written.                                                *)
(***************************************************************************)
\* A leaf under must_not lowers to two levels more, a bool to one around that.
ASSUME QueryAssumption ==
  /\ Depth \in Nat \ {0} /\ Nesting >= 3 * Depth + 1
  /\ TextField \subseteq Names
  /\ \A row \in Rows : \A f \in Names : row[f] = Null => f \in Nullable

ASSUME BodiesAssumption ==
  Bodies \subseteq
    [query : QueryLevels[Depth - 1], knn : BOOLEAN, both : BOOLEAN,
     from : SUBSET ({Bad} \cup Int), size : SUBSET ({Bad} \cup Int), k : SUBSET ({Bad} \cup Int),
     sort : Seq([f : Fields \cup {Score}, form : {"plain", "options"},
                 order : {"asc", "desc", "other"}]),
     source : [fetch : BOOLEAN, includes : Seq(Patterns), excludes : Seq(Patterns)]]

(***************************************************************************)
(* Translate: parse, fold, lower.                                          *)
(***************************************************************************)
VARIABLES
  body,     \* the search as written; its query holds the clauses of a knn filter
  node,     \* the tree under translation
  expr,     \* the plan's Expr
  noMatch,  \* the plan's NoMatch
  page,     \* the plan's Offset and Limit
  source,   \* the plan's SourceFilter
  stage     \* how far the translation has come

vars == <<body, node, expr, noMatch, page, source, stage>>

query == body.query
knn == body.knn

Init ==
  /\ body \in Bodies
  /\ node = MatchAll /\ expr = Nil /\ noMatch = FALSE
  /\ page = [offset |-> 0, limit |-> 0]
  /\ source = [fetch |-> TRUE, includes |-> <<>>, excludes |-> <<>>]
  /\ stage = "written"

\* A knn clause comes without query and sort, and its k is positive.
KnnRefused(b) == b.knn /\ (b.both \/ SortKeys(b) # {} \/ BadCount(b.k, 1))

\* The members around the query, then parseQueryNode on the query, or parseKnn on
\* the filter: the filter's clauses become a bool of their own.  A k takes the
\* place of the size that parsePaging has checked.
ParseStep ==
  /\ stage = "written"
  /\ IF PagingRefused(body) \/ SortRefused(body) \/ SourceRefused(body.source) \/ KnnRefused(body)
     THEN stage' = "refused" /\ UNCHANGED <<node, page, source>>
     ELSE /\ node' = IF knn THEN Bool(<<Parse[query]>>, <<>>, <<>>, 0) ELSE Parse[query]
          /\ page' = [offset |-> Or0(body.from, 0),
                      limit |-> Or0(IF knn THEN body.k ELSE {}, Or0(body.size, DefaultSize))]
          /\ source' = Cleaned(body.source)
          /\ stage' = "parsed"
  /\ UNCHANGED <<body, expr, noMatch>>

\* The query is folded; the filter of a knn clause is not (its bool replaces the
\* folded root).
FoldStep ==
  /\ stage = "parsed"
  /\ IF knn \/ Fold[node] # Error
     THEN stage' = "folded" /\ node' = (IF knn THEN node ELSE Fold[node])
     ELSE stage' = "refused" /\ UNCHANGED node
  /\ UNCHANGED <<body, expr, noMatch, page, source>>

\* buildExpr, unless the query is known to match nothing.
BuildStep ==
  /\ stage = "folded"
  /\ noMatch' = (node = MatchNone)
  /\ IF node # MatchNone /\ BuildExpr[node] = Error
     THEN stage' = "refused" /\ UNCHANGED expr
     ELSE stage' = "planned" /\ expr' = (IF node = MatchNone THEN Nil ELSE BuildExpr[node])
  /\ UNCHANGED <<body, node, page, source>>

Finished == stage \in {"planned", "refused"} /\ UNCHANGED vars

Next == ParseStep \/ FoldStep \/ BuildStep \/ Finished

Spec == Init /\ [][Next]_vars

(***************************************************************************)
(* What a query means in Elasticsearch (the reference).                    *)
(***************************************************************************)
Matches(q, row) ==
  LET match[c \in Queries] ==
        CASE c.k = "all" -> TRUE
          [] c.k = "none" -> FALSE
          [] c.k = "exists" -> row[c.f] # Null
          [] c.k = "term" -> row[c.f] # Null /\ row[c.f] = c.v
          [] c.k = "terms" -> row[c.f] # Null /\ row[c.f] \in c.vs
          [] c.k = "range" ->
               row[c.f] # Null /\ \A i \in DOMAIN c.bs : Holds(c.bs[i].op, row[c.f], c.bs[i].v)
          [] c.k = "match" ->
               /\ row[c.f] # Null
               /\ IF c.f \notin TextField THEN row[c.f] = c.toks[1]
                  ELSE IF c.op = "and" THEN c.toks # <<>> /\ ToSet(c.toks) \subseteq row[c.f]
                  ELSE ToSet(c.toks) \cap row[c.f] # {}
          [] OTHER ->
               LET matching(s) == {i \in DOMAIN s : match[s[i]]}
                   need == IF c.must = <<>> /\ c.msm = 0 THEN 1 ELSE c.msm
               IN /\ matching(c.must) = DOMAIN c.must
                  /\ matching(c.mustNot) = {}
                  /\ c.should = <<>> \/ Cardinality(matching(c.should)) >= need
  IN match[q]

Selected(row) == ~noMatch /\ Selects(expr, row)

\* A planned search selects exactly the rows that the query matches in ES: null
\* cells under must_not, folded identities and nested bools included.
TranslationFaithful ==
  stage = "planned" /\ ~knn => \A row \in Rows : Selected(row) <=> Matches(query, row)

\* Some bool asks for more than one of its should clauses.
AsksForSeveral[q \in Queries] ==
  q.k = "bool" /\ (\/ q.should # <<>> /\ q.msm > 1
                   \/ \E s \in {q.must, q.should, q.mustNot} :
                        \E i \in DOMAIN s : AsksForSeveral[s[i]])

HasBad[q \in Queries] ==
  IF q.k # "bool" THEN Bad \in Coerced(q)
  ELSE \E s \in {q.must, q.should, q.mustNot} : \E i \in DOMAIN s : HasBad[s[i]]

\* A member of the body has a value outside what it may hold, or a knn clause
\* comes with what it cannot be combined with.
MemberAtFault ==
  \/ \E o \in {body.from, body.size} : \E v \in o : v = Bad \/ v < 0
  \/ Or0(body.from, 0) + Or0(body.size, DefaultSize) > Window
  \/ \E c \in ToSet(body.sort) : c.order = "other"
  \/ SourceRefused(body.source)
  \/ knn /\ (body.both \/ body.sort # <<>> \/ \E v \in body.k : v = Bad \/ v < 1)

\* A search is refused only for a value that does not fit its field, a
\* minimum_should_match above one or another member at fault: no combination of
\* supported clauses is lost.
RefusedForCause ==
  stage = "refused" => AsksForSeveral[query] \/ HasBad[query] \/ MemberAtFault

\* No plan carries a filter whose text Milvus cannot parse, the unfolded filters
\* of knn clauses included.
PlanRenders ==
  stage = "planned" => Rendered[expr] # Garbled

PatternMatches(p, f) == p = Star \/ p = Name(f)

\* A hit shows the fields that _source asks for: those included (all, if none is
\* named) and not excluded.  It does not hold for a "*" next to other includes
\* or among the excludes.
SourceFaithful ==
  LET src == body.source
      in == ToSet(src.includes)
      out == ToSet(src.excludes)
  IN stage = "planned" /\ (Star \in in => in = {Star}) /\ Star \notin out =>
       ResolveSource(source) =
         {f \in Fields :
            /\ src.fetch
            /\ in = {} \/ \E p \in in : PatternMatches(p, f)
            /\ ~\E p \in out : PatternMatches(p, f)}

\* The comment in Translate: the knn filter takes the fold and buildExpr path, so
\* that match_all and match_none mean the same as in a query.
KnnFilterFaithful ==
  stage = "planned" /\ knn => \A row \in Rows : Selected(row) <=> Matches(query, row)
=============================================================================
