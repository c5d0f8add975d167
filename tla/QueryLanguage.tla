---------------------------- MODULE QueryLanguage ----------------------------
(***************************************************************************)
(* The query language of lists and searches (utils/search_query.py): a     *)
(* lexer and a parser, a visitor that filters a table, with the conditions *)
(* of db/filters, and a visitor that writes a query of PostgreSQL's text   *)
(* search.                                                                 *)
(*                                                                         *)
(* A word is a sequence of characters.  "q" stands for the quote.          *)
(***************************************************************************)
EXTENDS Integers, Sequences, SequencesExt, FiniteSets

SpecialChars == {"|", "-", "*", "(", ")", ":", "q"}

\* Characters that end a word, '-' is none of them.
Boundary == (SpecialChars \ {"-"}) \cup {" ", "<", ">", "!"}

Tok(t, w) == [t |-> t, w |-> w]

\* Words and phrases, and what is built from them.
Node(kind, word, kids) == [kind |-> kind, word |-> word, kids |-> kids]
Word(w)        == Node("Word", w, <<>>)
PrefixWord(w)  == Node("PrefixWord", w, <<>>)
Phrase(words)  == Node("Phrase", <<>>, words)
KVTerm(k, v)   == Node("KVTerm", <<>>, <<k, v>>)
ValueGroup(vs) == Node("ValueGroup", <<>>, vs)
Negation(term) == Node("Negation", <<>>, <<term>>)
Group(exprs)   == Node("Group", <<>>, exprs)
And(terms)     == Node("AndExpression", <<>>, terms)
Query(exprs)   == Node("Query", <<>>, exprs)
NoNode         == Node("None", <<>>, <<>>)
ParseError     == Node("Error", <<>>, <<>>)

-----------------------------------------------------------------------------
(* Lexer and parser *)

\* Lexer.read_word
RECURSIVE WordLength(_)
WordLength(s) == IF s = <<>> \/ Head(s) \in Boundary THEN 0 ELSE 1 + WordLength(Tail(s))

RECURSIVE Lex(_)
Lex(s) ==
  IF s = <<>> THEN <<Tok("END", <<>>)>>
  ELSE IF Head(s) \in SpecialChars THEN <<Tok(Head(s), <<>>)>> \o Lex(Tail(s))
  ELSE IF Head(s) \in Boundary THEN Lex(Tail(s))
  ELSE LET n == WordLength(s) IN <<Tok("WORD", SubSeq(s, 1, n))>> \o Lex(SubSeq(s, n + 1, Len(s)))

\* What a function of the parser returns: a node, and the tokens that are left.
Parsed(node, rest) == [node |-> node, rest |-> rest]
Fails == Parsed(ParseError, <<>>)

Ahead(r)  == Head(r.rest).t
Failed(r) == r.node.kind = "Error"

\* expect, and then the node that was built.
Expect(t, r, node) ==
  IF Failed(r) \/ Ahead(r) # t THEN Fails ELSE Parsed(node, Tail(r.rest))

ParseSearchWord(ts) ==
  IF ts[2].t = "*" THEN Parsed(PrefixWord(ts[1].w), SubSeq(ts, 3, Len(ts)))
  ELSE Parsed(Word(ts[1].w), Tail(ts))

RECURSIVE ParseWords(_, _)
ParseWords(ts, words) ==
  IF Head(ts).t # "WORD" THEN Parsed(Phrase(words), ts)
  ELSE LET r == ParseSearchWord(ts) IN ParseWords(r.rest, Append(words, r.node))

ParseValue(ts) ==
  CASE Head(ts).t = "q"    -> LET r == ParseWords(Tail(ts), <<>>) IN Expect("q", r, r.node)
    [] Head(ts).t = "WORD" -> ParseSearchWord(ts)
    [] OTHER               -> Parsed(NoNode, ts)

\* After the first value: others may be missing.
RECURSIVE ParseAlternatives(_, _)
ParseAlternatives(ts, values) ==
  CASE Head(ts).t = ")" -> Parsed(ValueGroup(values), Tail(ts))
    [] Head(ts).t = "|" ->
         LET r == ParseValue(Tail(ts))
         IN  IF Failed(r) THEN Fails
             ELSE ParseAlternatives(r.rest, IF r.node = NoNode THEN values ELSE Append(values, r.node))
    [] OTHER -> Fails

ParseValueGroup(ts) ==
  LET first == ParseValue(Tail(ts))
  IN  IF Failed(first) \/ first.node = NoNode THEN first ELSE ParseAlternatives(first.rest, <<first.node>>)

RECURSIVE ParseTerms(_, _), ParseQuery(_, _)

\* A key with its value, which may not be empty.
KeyWith(key, r) ==
  IF Failed(r) \/ r.node \in {NoNode, Phrase(<<>>)} THEN Fails ELSE Parsed(KVTerm(key, r.node), r.rest)

\* A value is followed by another one after a colon.
AfterValue(value) ==
  LET after == Tail(value.rest)
  IN  IF Failed(value) \/ value.node = NoNode \/ Ahead(value) # ":" THEN value
      ELSE KeyWith(value.node, IF Head(after).t = "(" THEN ParseValueGroup(after) ELSE ParseValue(after))

AfterGroup(r) == Expect(")", r, Group(r.node.kids))

ParsePositiveTerm(ts) ==
  IF Head(ts).t = "(" THEN AfterGroup(ParseQuery(Tail(ts), <<>>)) ELSE AfterValue(ParseValue(ts))

Negated(r) == IF Failed(r) \/ r.node = NoNode THEN r ELSE Parsed(Negation(r.node), r.rest)

ParseTerm(ts) ==
  IF Head(ts).t # "-" THEN ParsePositiveTerm(ts) ELSE Negated(ParsePositiveTerm(Tail(ts)))

\* parse_and_expression
AfterTerm(r, terms) ==
  CASE Failed(r) -> Fails
    [] ~Failed(r) /\ r.node = NoNode -> Parsed(IF terms = <<>> THEN NoNode ELSE And(terms), r.rest)
    [] OTHER -> ParseTerms(r.rest, Append(terms, r.node))

ParseTerms(ts, terms) == AfterTerm(ParseTerm(ts), terms)

AfterExpression(r, exprs) ==
  LET all == IF r.node = NoNode THEN exprs ELSE Append(exprs, r.node)
  IN  CASE Failed(r)               -> Fails
        [] Ahead(r) \in {"END", ")"} -> Parsed(Query(all), r.rest)
        [] Ahead(r) = "|"           -> ParseQuery(Tail(r.rest), all)
        [] OTHER                   -> Fails

ParseQuery(ts, exprs) == AfterExpression(ParseTerms(ts, <<>>), exprs)

\* Parser(Lexer(search_query).lex()).parse()
AfterQuery(r) == Expect("END", r, r.node)
Parse(source) == AfterQuery(ParseQuery(Lex(source), <<>>)).node

-----------------------------------------------------------------------------
(* SQLAlchemyVisitor, with the conditions of inferred_filter.py *)

\* A row has a string or none, an exact one, a number or none, and a Boolean.
None == <<>>
Rows == [s : {None, <<"a">>, <<"a", "b">>}, e : {<<"a", "b">>}, n : {None, <<"1">>, <<"2">>}, b : {<<"t">>, <<"f">>}]

\* camel_to_snake, where "S" is the only capital.
CamelToSnake(w) ==
  LET Lower(i) == i \in DOMAIN w /\ w[i] # "S"
  IN  FlattenSeq([i \in DOMAIN w |->
        IF Lower(i) THEN <<w[i]>> ELSE IF i > 1 /\ (Lower(i - 1) \/ Lower(i + 1)) THEN <<"_", "s">> ELSE <<"s">>])

\* The columns that the mappings have conditions for.
Columns == {"s", "e", "n", "b"}
Mapped(key) == Len(key) = 1 /\ CamelToSnake(key)[1] \in Columns
Column(key) == CamelToSnake(key)[1]

HasPart(text, word) == \E i \in 0..(Len(text) - Len(word)) : SubSeq(text, i + 1, i + Len(word)) = word

\* _phrase_to_ilike_str: the words of a phrase make up the text, the last one perhaps a prefix.
MatchesPhrase(text, words) ==
  LET joined == FlattenSeq([i \in DOMAIN words |-> IF i = 1 THEN words[i].word ELSE <<" ">> \o words[i].word])
  IN  IF Last(words).kind = "PrefixWord" THEN IsPrefix(joined, text) ELSE text = joined

\* _filter_string, by the setting FILTER_BY_MODE.
FilterString(text, node, exact) ==
  CASE node.kind = "Phrase" -> MatchesPhrase(text, node.kids)
    [] node.kind # "Phrase" /\ exact -> text = node.word
    [] OTHER -> HasPart(text, node.word)

\* filter_exact
FilterExact(text, node, exact) ==
  CASE node.kind = "Word" -> text = node.word
    [] node.kind = "PrefixWord" -> IsPrefix(node.word, text)
    [] OTHER -> FilterString(text, node, exact)

\* _filter_bool: of a phrase the words that are true count.
FilterBool(value, node) ==
  IF node.kind = "Phrase" THEN value \in {w.word : w \in {v \in ToSet(node.kids) : v.word = <<"t">>}}
  ELSE value = node.word

\* _filter_comparable: a range of a column that is NULL is NULL.
Digit(word) == IF word = <<"1">> THEN 1 ELSE 2
FilterComparable(value, node, exact) ==
  LET bound == Tail(node.word)
  IN  CASE node.kind = "Phrase" \/ Head(node.word) \notin {"<", ">"} ->
             IF FilterString(value, node, exact) THEN "true" ELSE "false"
        [] OTHER ->
             IF value = None THEN "null"
             ELSE IF (Head(node.word) = ">" /\ Digit(value) > Digit(bound)) \/
                     (Head(node.word) = "<" /\ Digit(value) < Digit(bound)) THEN "true" ELSE "false"

\* The value of a condition on a column: true, false or null.
Condition(column, row, node, exact) ==
  LET Truth(p) == IF p THEN "true" ELSE "false"
  IN  CASE column = "s" -> Truth(FilterString(row.s, node, exact))
        [] column = "e" -> Truth(FilterExact(row.e, node, exact))
        [] column = "n" -> FilterComparable(row.n, node, exact)
        [] column = "b" -> Truth(FilterBool(row.b, node))

AnyOf(values) == IF "true" \in values THEN "true" ELSE IF "null" \in values THEN "null" ELSE "false"

\* stmt.where(cond), or its negation.
Where(stmt, cond, negated) == {r \in stmt : cond[r] = IF negated THEN "false" ELSE "true"}

VisitSearchWord(stmt, node, negated, exact) ==
  Where(stmt, [r \in stmt |-> AnyOf({Condition(c, r, node, exact) : c \in Columns})], negated)

\* An unknown column selects nothing; a key that is no word is ignored.
VisitKV(stmt, key, value, negated, exact) ==
  LET word   == IF key.kind = "Phrase" /\ Len(key.kids) = 1 THEN key.kids[1] ELSE key
      values == IF value.kind = "ValueGroup" THEN ToSet(value.kids) ELSE {value}
  IN  IF word.kind # "Word" THEN stmt
      ELSE IF ~Mapped(word.word) THEN {}
      ELSE Where(stmt, [r \in stmt |-> AnyOf({Condition(Column(word.word), r, v, exact) : v \in values})], negated)

\* visit_group joins the statement with a subquery of its own; negated, it keeps what has no
\* partner there.
VisitGroup(stmt, sub, negated) == IF negated THEN stmt \ sub ELSE stmt \cap sub

RECURSIVE VisitTerm(_, _, _, _), VisitAnd(_, _, _), VisitQuery(_, _)
VisitTerm(stmt, node, negated, exact) ==
  CASE node.kind = "KVTerm"   -> VisitKV(stmt, node.kids[1], node.kids[2], negated, exact)
    [] node.kind = "Negation" -> VisitTerm(stmt, node.kids[1], TRUE, exact)
    [] node.kind = "Group"    -> VisitGroup(stmt, VisitQuery(node.kids, exact), negated)
    [] OTHER                  -> VisitSearchWord(stmt, node, negated, exact)

VisitAnd(stmt, terms, exact) == FoldLeft(LAMBDA s, t : VisitTerm(s, t, FALSE, exact), stmt, terms)

\* visit_query: a union over the base statement.
VisitQuery(exprs, exact) == UNION {VisitAnd(Rows, exprs[i].kids, exact) : i \in DOMAIN exprs}

\* _filter_to_node: the parts of the value of a filter are alternatives.
FilterToNode(key, negated, parts) ==
  LET value == IF Len(parts) > 1 THEN ValueGroup([i \in DOMAIN parts |-> Word(parts[i])]) ELSE Word(parts[1])
      term  == KVTerm(Word(key), value)
  IN  IF negated THEN Negation(term) ELSE term

\* generic_filter_from_clauses: filters on unknown columns are reported and left out.
ApplyFilters(filters, exact) ==
  VisitAnd(Rows, SelectSeq(filters, LAMBDA f : LET t == IF f.kind = "Negation" THEN f.kids[1] ELSE f
                                               IN  Mapped(t.kids[1].word)), exact)

-----------------------------------------------------------------------------
(* TSQueryVisitor: what it writes, as tokens *)

\* _split_term: the parts of a word between characters that the text search ignores.
RECURSIVE SplitTerm(_)
SplitTerm(w) ==
  LET glue == {i \in DOMAIN w : w[i] = "-"}
      n    == IF glue = {} THEN Len(w) ELSE (CHOOSE i \in glue : \A j \in glue : i <= j) - 1
      part == IF n = 0 THEN <<>> ELSE <<SubSeq(w, 1, n)>>
  IN  IF w = <<>> THEN <<>> ELSE part \o SplitTerm(SubSeq(w, n + 2, Len(w)))

Sign(t) == <<Tok(t, <<>>)>>

Joined(parts, sign) == FlattenSeq([i \in DOMAIN parts |-> IF i = 1 THEN parts[i] ELSE Sign(sign) \o parts[i]])

Parenthesised(ts) == Sign("(") \o ts \o Sign(")")

TsSearchWord(node) ==
  LET parts == SplitTerm(node.word)
      last  == IF node.kind = "PrefixWord" THEN "PREFIX" ELSE "WORD"
      all   == Joined([i \in DOMAIN parts |-> <<Tok(IF i = Len(parts) THEN last ELSE "WORD", parts[i])>>], "<->")
  IN  IF Len(parts) > 1 THEN Parenthesised(all) ELSE all

RECURSIVE TsTerm(_)

TsNegation(term) ==
  Sign("!") \o IF term.kind \in {"Phrase", "KVTerm"} THEN Parenthesised(TsTerm(term)) ELSE TsTerm(term)

TsAnd(expr) == Joined([i \in DOMAIN expr.kids |-> TsTerm(expr.kids[i])], "&")

TsOr(exprs) == Joined([i \in DOMAIN exprs |-> TsAnd(exprs[i])], "|")

TsTerm(node) ==
  CASE node.kind \in {"Word", "PrefixWord"} -> TsSearchWord(node)
    [] node.kind = "Phrase"     -> Joined([i \in DOMAIN node.kids |-> TsSearchWord(node.kids[i])], "<->")
    [] node.kind = "ValueGroup" -> Parenthesised(Joined([i \in DOMAIN node.kids |-> TsTerm(node.kids[i])], "|"))
    [] node.kind = "KVTerm"     ->
         LET key == node.kids[1]
         IN  TsTerm(IF key.kind = "Word" THEN Word(CamelToSnake(key.word)) ELSE key) \o Sign("<->") \o TsTerm(node.kids[2])
    [] node.kind = "Group"      -> Parenthesised(TsOr(node.kids))
    [] node.kind = "Negation"   -> TsNegation(node.kids[1])

\* create_ts_query_string
TsQuery(tree) == TsOr(tree.kids)

\* How PostgreSQL reads it: the places of a text where the query matches, by the precedence
\* of its operators.
Depth(ts, i) == Cardinality({j \in 1..i : ts[j].t = "("}) - Cardinality({j \in 1..i : ts[j].t = ")"})
Outer(ts, sign) == {i \in DOMAIN ts : ts[i].t = sign /\ Depth(ts, i) = 0}

RECURSIVE Places(_, _)
Places(ts, text) ==
  LET Split(sign) == CHOOSE i \in Outer(ts, sign) : \A j \in Outer(ts, sign) : j <= i
      Left(sign)  == Places(SubSeq(ts, 1, Split(sign) - 1), text)
      Right(sign) == Places(SubSeq(ts, Split(sign) + 1, Len(ts)), text)
  IN  CASE Outer(ts, "|") # {} -> Left("|") \cup Right("|")
        [] Outer(ts, "|") = {} /\ Outer(ts, "&") # {} ->
             IF Left("&") = {} \/ Right("&") = {} THEN {} ELSE Left("&") \cup Right("&")
        [] Outer(ts, "|") \cup Outer(ts, "&") = {} /\ Outer(ts, "<->") # {} ->
             {<<m[1][1], m[2][2]>> : m \in {n \in Left("<->") \X Right("<->") : n[2][1] = n[1][2] + 1}}
        [] Outer(ts, "|") \cup Outer(ts, "&") \cup Outer(ts, "<->") = {} ->
             CASE ts[1].t = "!"      -> IF Places(Tail(ts), text) = {} THEN {<<0, 0>>} ELSE {}
               [] ts[1].t = "("      -> Places(SubSeq(ts, 2, Len(ts) - 1), text)
               [] ts[1].t = "WORD"   -> {<<i, i>> : i \in {j \in DOMAIN text : text[j] = ts[1].w}}
               [] ts[1].t = "PREFIX" -> {<<i, i>> : i \in {j \in DOMAIN text : IsPrefix(ts[1].w, text[j])}}

-----------------------------------------------------------------------------
(* The reference *)

RECURSIVE Printed(_)
Printed(node) ==
  LET Each(sep) == FlattenSeq([i \in DOMAIN node.kids |->
                     IF i = 1 THEN Printed(node.kids[i]) ELSE <<sep>> \o Printed(node.kids[i])])
  IN  CASE node.kind = "Word" -> node.word
        [] node.kind = "PrefixWord" -> Append(node.word, "*")
        [] node.kind = "Phrase" -> <<"q">> \o Each(" ") \o <<"q">>
        [] node.kind = "KVTerm" -> Each(":")
        [] node.kind \in {"ValueGroup", "Group"} -> <<"(">> \o Each("|") \o <<")">>
        [] node.kind = "Negation" -> <<"-">> \o Each(" ")
        [] node.kind = "AndExpression" -> Each(" ")
        [] node.kind = "Query" -> Each("|")

\* The terms without negations and groups.
RECURSIVE Basics(_)
Basics(node) ==
  IF node.kind \in {"Query", "Group", "AndExpression", "Negation"}
  THEN UNION {Basics(k) : k \in ToSet(node.kids)} ELSE {node}

\* What a query means, when these are the basic terms that hold.
RECURSIVE Satisfies(_, _)
Satisfies(node, holding) ==
  CASE node.kind \in {"Query", "Group"} -> \E k \in ToSet(node.kids) : Satisfies(k, holding)
    [] node.kind = "AndExpression" -> \A k \in ToSet(node.kids) : Satisfies(k, holding)
    [] node.kind = "Negation" -> ~Satisfies(node.kids[1], holding)
    [] OTHER -> node \in holding

Alternatives(value) == IF value.kind = "ValueGroup" THEN ToSet(value.kids) ELSE {value}

RowFits(node, row) ==
  IF node.kind = "KVTerm"
  THEN \E v \in Alternatives(node.kids[2]) : Condition(Column(node.kids[1].word), row, v, FALSE) = "true"
  ELSE \E c \in Columns : Condition(c, row, node, FALSE) = "true"

\* The sequences of words a term stands for, with prefixes marked.
RECURSIVE Phrases(_)
Phrases(node) ==
  CASE node.kind \in {"Word", "PrefixWord"} ->
         LET parts == SplitTerm(node.word)
         IN  {[i \in DOMAIN parts |-> <<parts[i], node.kind = "PrefixWord" /\ i = Len(parts)>>]}
    [] node.kind = "Phrase" -> {FlattenSeq([i \in DOMAIN node.kids |-> CHOOSE p \in Phrases(node.kids[i]) : TRUE])}
    [] node.kind = "ValueGroup" -> UNION {Phrases(k) : k \in ToSet(node.kids)}
    [] node.kind = "KVTerm" ->
         LET key == node.kids[1]
         IN  {p \o q : p \in Phrases(IF key.kind = "Word" THEN Word(CamelToSnake(key.word)) ELSE key),
                       q \in Phrases(node.kids[2])}

TextFits(node, text) ==
  \E p \in Phrases(node) : \E at \in 0..(Len(text) - Len(p)) :
    \A i \in DOMAIN p : IF p[i][2] THEN IsPrefix(p[i][1], text[at + i]) ELSE text[at + i] = p[i][1]

-----------------------------------------------------------------------------
(* What is claimed of it *)

a == <<"a">>
b == <<"b">>

SearchWords == {Word(a), Word(b), PrefixWord(a), Word(<<"a", "-", "b">>)}
PhraseNodes == {Phrase(<<Word(a)>>), Phrase(<<Word(a), Word(b)>>), Phrase(<<Word(<<"a", "-", "b">>), PrefixWord(a)>>)}
KVs(keys) == {KVTerm(k, v) : k \in keys, v \in {Word(a), Phrase(<<Word(a), Word(b)>>), ValueGroup(<<Word(a), Word(b)>>)}}
             \cup {KVTerm(Word(<<"n">>), Word(<<"1">>)), KVTerm(Word(<<"b">>), Word(<<"f">>))}

\* Keys of columns, and others.
ColumnKeys == {Word(<<"s">>), Word(<<"S">>), Word(<<"e">>)}
OtherKeys  == {Word(<<"z">>), Phrase(<<Word(b), Word(a)>>), PrefixWord(a)}

Negations(ts) == {Negation(t) : t \in ts}

\* Queries of two terms, with groups of two.
Trees(keys) ==
  LET positive == SearchWords \cup PhraseNodes \cup KVs(keys)
      terms == positive \cup Negations(positive)
      few   == {Word(a), Negation(Word(b)), KVTerm(CHOOSE k \in keys : TRUE, ValueGroup(<<Word(a), Word(b)>>)),
                Negation(Phrase(<<Word(a), Word(b)>>))}
      Pairs(ts, us) == UNION {{<<And(<<t, u>>)>>, <<And(<<t>>), And(<<u>>)>>} : t \in ts, u \in us}
      groups == {Group(g) : g \in Pairs(few, few)}
  IN  {Query(q) : q \in {<<And(<<t>>)>> : t \in terms} \cup Pairs(terms, few) \cup
                       Pairs(groups \cup Negations(groups), {Word(b), Negation(Word(a))})}

\* What is printed is parsed as it was, and the parser comes to an end on any text.
ParserExact(keys) ==
  /\ \A tree \in Trees(keys) : Parse(Printed(tree)) = tree
  /\ \A source \in UNION {[1..n -> SpecialChars \cup {"a", " "}] : n \in 0..4} :
       LET tree == Parse(source) IN tree.kind = "Error" \/ Parse(Printed(tree)).kind # "Error"

\* A table is filtered by what a query means.
SqlExact(keys) ==
  \A tree \in Trees(keys) :
    VisitQuery(tree.kids, FALSE) = {r \in Rows : Satisfies(tree, {t \in Basics(tree) : RowFits(t, r)})}

\* So is text, by what PostgreSQL makes of the query that is written for it.
TextExact(keys) ==
  \A tree \in Trees(keys) :
    \A text \in [1..3 -> {a, b, <<"s">>}] :
      Places(TsQuery(tree), text) # {} <=> Satisfies(tree, {t \in Basics(tree) : TextFits(t, text)})

\* Filters of lists select the rows that have one of the values, or none of them when
\* negated; rows without a number are left out of a range and of its negation alike.
FiltersExact ==
  LET Values == {<<Word(a).word>>, <<a, b>>, <<<<">", "1">>>>, <<<<"<", "2">>, <<"2">>>>}
      Filter(key, negated, parts) == [key |-> key, negated |-> negated, parts |-> parts]
      filters == {Filter(<<k>>, neg, v) : k \in {"s", "n", "z"}, neg \in BOOLEAN, v \in Values}
      Selected(f, row) ==
        LET column == Column(f.key)
            values == {Condition(column, row, Word(p), FALSE) : p \in ToSet(f.parts)}
        IN  IF f.negated THEN values = {"false"} ELSE "true" \in values
  IN  \A f, g \in filters :
        ApplyFilters(<<FilterToNode(f.key, f.negated, f.parts), FilterToNode(g.key, g.negated, g.parts)>>, FALSE) =
          {r \in Rows : \A h \in {f, g} : h.key = <<"z">> \/ Selected(h, r)}

\* A phrase of one word is that word, to the letter; but for "false".
PhrasesExact ==
  \A row \in Rows, column \in Columns, w \in {a, <<"1">>, <<"t">>, <<"f">>} :
    column # "b" \/ w # <<"f">> =>
      Condition(column, row, Phrase(<<Word(w)>>), FALSE) = Condition(column, row, Word(w), TRUE)

=============================================================================
