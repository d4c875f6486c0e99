------------------------------- MODULE Filter -------------------------------
(***************************************************************************)
(* Filter expressions (src/src/resource/filter.ts): the parser, and the    *)
(* two evaluations of what it returns, by the database and in memory. A    *)
(* list, a count and the snapshot of a subscription use the first; events  *)
(* of a subscription, capabilities and the search index use the second.    *)
(*                                                                         *)
(* A filter is a sequence of tokens: comparisons, separators, parentheses. *)
(* A comparison is of a text (equality, sets, patterns, lengths) or of a   *)
(* number (order, ranges) with a literal of its type. Dates, booleans,     *)
(* regular expressions and the order of texts are left out.                *)
(***************************************************************************)
EXTENDS Integers, SequencesExt

CONSTANTS
    Null,
    Terms,          \* the comparisons that may be written, by name
    Rows,           \* rows: functions from columns to texts, numbers or Null
    Vocabularies,   \* bound: by name, a set of tokens and the length of what is written with it
    MaxNodes,       \* config.maxNodes
    MaxDepth        \* config.maxDepth

ASSUME FilterAssumption ==
    /\ \A v \in DOMAIN Vocabularies : Vocabularies[v].length \in Nat
    /\ MaxNodes \in Nat /\ MaxDepth \in Nat

VARIABLES
    text, vocabulary,
    parsed          \* what the server makes of the text
filterVars == <<text, vocabulary, parsed>>

IsTerm(token) == token \in DOMAIN Terms
Is(s, i, token) == i <= Len(s) /\ s[i] = token

-----------------------------------------------------------------------------
(* The parser: what is read from position i on, when n terms and parentheses were read before
   and d parentheses are open. *)

Empty == [op |-> "empty"]
Failed == [ok |-> FALSE]
Read(expr, i, n) == [ok |-> TRUE, expr |-> expr, at |-> i, nodes |-> n]

\* How parseAnd and parseOr add an expression to what they have.
Joined(op, expr, more) ==
    CASE expr.op = "empty" -> more
      [] expr.op = op -> [expr EXCEPT !.args = Append(@, more)]
      [] OTHER -> [op |-> op, args |-> <<expr, more>>]

RECURSIVE ParseOr(_, _, _, _, _)

ParseTerm(s, i, n, d) ==
    IF n >= MaxNodes \/ d > MaxDepth \/ i > Len(s) THEN Failed
    ELSE IF s[i] = "("
    THEN LET inner == ParseOr(s, i + 1, n + 1, d + 1, Empty) IN
         IF inner.ok /\ Is(s, inner.at, ")") THEN [inner EXCEPT !.at = @ + 1] ELSE Failed
    ELSE IF IsTerm(s[i]) THEN Read([op |-> "term", term |-> Terms[s[i]]], i + 1, n + 1) ELSE Failed

RECURSIVE ParseAnd(_, _, _, _, _)
ParseAnd(s, i, n, d, expr) ==
    IF i > Len(s) THEN Read(expr, i, n)
    ELSE LET next == ParseTerm(s, i, n, d) IN
         IF ~next.ok THEN Failed
         ELSE LET all == Joined("and", expr, next.expr) IN
              IF Is(s, next.at, ";") THEN ParseAnd(s, next.at + 1, next.nodes, d, all)
              ELSE [next EXCEPT !.expr = all]

ParseOr(s, i, n, d, expr) ==
    IF i > Len(s) THEN Read(expr, i, n)
    ELSE LET next == ParseAnd(s, i, n, d, Empty) IN
         IF ~next.ok THEN Failed
         ELSE LET all == Joined("or", expr, next.expr) IN
              IF Is(s, next.at, ",") THEN ParseOr(s, next.at + 1, next.nodes, d, all)
              ELSE [next EXCEPT !.expr = all]

\* parseFilterExpression: nothing may be left over.
Parse(s) ==
    LET all == ParseOr(s, 1, 0, 0, Empty) IN IF all.ok /\ all.at <= Len(s) THEN Failed ELSE all

-----------------------------------------------------------------------------
(* Texts: sequences of letters. Number columns hold integers. *)

Lower(c) == CASE c = "A" -> "a" [] c = "B" -> "b" [] OTHER -> c
Folded(t) == [i \in DOMAIN t |-> Lower(t[i])]
Fold(t, folds) == IF folds THEN Folded(t) ELSE t

\* LIKE, and the regular expression of likePatternToRegex.
RECURSIVE Like(_, _)
Like(t, pattern) ==
    IF pattern = <<>> THEN t = <<>>
    ELSE CASE Head(pattern) = "%" -> \E i \in 1..(Len(t) + 1) : Like(SubSeq(t, i, Len(t)), Tail(pattern))
           [] Head(pattern) = "_" -> t # <<>> /\ Like(Tail(t), Tail(pattern))
           [] OTHER -> t # <<>> /\ Head(t) = Head(pattern) /\ Like(Tail(t), Tail(pattern))

Within(t, part) == \E i \in 1..(Len(t) + 1) : IsPrefix(part, SubSeq(t, i, Len(t)))

\* Operators on texts: what is matched, whether case is ignored, whether the result is negated.
TextOperator(op) ==
    CASE op = "%="  -> <<"like", FALSE, FALSE>>       [] op = "!%=" -> <<"like", FALSE, TRUE>>
      [] op = "=ilike=" -> <<"like", TRUE, FALSE>>    [] op = "=nilike=" -> <<"like", TRUE, TRUE>>
      [] op = "=ieq=" -> <<"equal", TRUE, FALSE>>     [] op = "=ine=" -> <<"equal", TRUE, TRUE>>
      [] op = "=contains=" -> <<"within", FALSE, FALSE>>
      [] op = "=icontains=" -> <<"within", TRUE, FALSE>>
      [] op = "=startswith=" -> <<"start", FALSE, FALSE>>
      [] op = "=istartswith=" -> <<"start", TRUE, FALSE>>
      [] op = "=endswith=" -> <<"end", FALSE, FALSE>>
      [] op = "=iendswith=" -> <<"end", TRUE, FALSE>>
TextOperators == {"%=", "!%=", "=ilike=", "=nilike=", "=ieq=", "=ine=", "=contains=", "=icontains=",
                  "=startswith=", "=istartswith=", "=endswith=", "=iendswith="}

\* safeCompare of numbers; a missing one is compared as the text "null", after every digit.
Compare(x, y) == IF x = Null THEN 1 ELSE x - y
Ordered(op, c) == CASE op \in {">=", "=ge="} -> c >= 0 [] op \in {"<=", "=le="} -> c <= 0
                    [] op \in {">", "=gt="} -> c > 0 [] op \in {"<", "=lt="} -> c < 0
Orders == {">=", "<=", ">", "<", "=ge=", "=le=", "=gt=", "=lt="}
Lengths == {"=length=", "=minlength=", "=maxlength="}
Measured(op, n, m) == CASE op = "=length=" -> n = m [] op = "=minlength=" -> n >= m
                        [] op = "=maxlength=" -> n <= m

-----------------------------------------------------------------------------
(* In memory: execute. *)

\* String(lhs) of a missing text.
NullText == <<"n", "u", "l", "l">>
Str(x) == IF x = Null THEN NullText ELSE x

MatchInMemory(op, lhs, rhs) ==
    LET how == TextOperator(op)
        t == Fold(Str(lhs), how[2])
        pat == Fold(rhs, how[2])
    IN (CASE how[1] = "like" -> Like(t, pat)
          [] how[1] = "equal" -> t = pat
          [] how[1] = "within" -> Within(t, pat)
          [] how[1] = "start" -> IsPrefix(pat, t)
          [] how[1] = "end" -> IsSuffix(pat, t)) # how[3]

\* Mutant of EqualInMemory: what is missing equals nothing.
EqualInMemoryNever(lhs, rhs) == lhs # Null /\ Str(lhs) = Str(rhs)

\* == : only what is missing equals null, but it also equals a text that reads "null".
EqualInMemory(lhs, rhs) == IF rhs = Null THEN lhs = Null ELSE Str(lhs) = rhs
OneOf(lhs, set) == \E x \in set : Str(x) = Str(lhs)

ExecuteTerm(t, row) ==
    LET lhs == row[t.field] IN
    CASE t.op = "==" -> EqualInMemory(lhs, t.rhs)
      [] t.op = "!=" -> ~EqualInMemory(lhs, t.rhs)
      [] t.op \in Orders -> Ordered(t.op, Compare(lhs, t.rhs))
      [] t.op = "=between=" -> Compare(lhs, t.rhs[1]) >= 0 /\ Compare(lhs, t.rhs[2]) <= 0
      [] t.op = "=nbetween=" -> Compare(lhs, t.rhs[1]) < 0 \/ Compare(lhs, t.rhs[2]) > 0
      [] t.op = "=isnull=" -> (lhs = Null) = t.rhs
      [] t.op = "=isempty=" -> (lhs \in {Null, <<>>}) = t.rhs
      [] t.op = "=in=" -> OneOf(lhs, t.rhs)
      [] t.op = "=out=" -> ~OneOf(lhs, t.rhs)
      [] t.op \in TextOperators -> MatchInMemory(t.op, lhs, t.rhs)
      [] t.op \in Lengths -> Measured(t.op, Len(Str(lhs)), t.rhs)

RECURSIVE Execute(_, _)
Execute(expr, row) ==
    CASE expr.op = "empty" -> TRUE
      [] expr.op = "term" -> ExecuteTerm(expr.term, row)
      [] expr.op = "and" -> \A i \in DOMAIN expr.args : Execute(expr.args[i], row)
      [] expr.op = "or" -> \E i \in DOMAIN expr.args : Execute(expr.args[i], row)

-----------------------------------------------------------------------------
(* In the database: convert, in three-valued logic. Whether LIKE ignores case is the database's
   choice: SQLite's does, Postgres's does not. *)

False == 0
Unknown == 1
True == 2
Decided(b) == IF b THEN True ELSE False
Unless(x, b) == IF x = Null THEN Unknown ELSE Decided(b)

\* The pattern that convert builds from the literal, whose own wildcards stay active.
PatternOf(how, rhs) ==
    CASE how = "like" -> rhs [] how = "within" -> <<"%">> \o rhs \o <<"%">>
      [] how = "start" -> rhs \o <<"%">> [] how = "end" -> <<"%">> \o rhs

MatchInSql(op, lhs, rhs, folds) ==
    LET how == TextOperator(op)
        ignore == how[2] \/ (folds /\ how[1] # "equal")
    IN IF how[1] = "equal" THEN (Fold(lhs, ignore) = Fold(rhs, ignore)) # how[3]
       ELSE Like(Fold(lhs, ignore), Fold(PatternOf(how[1], rhs), ignore)) # how[3]

SqlTerm(t, row, folds) ==
    LET lhs == row[t.field] IN
    CASE t.op = "==" -> IF t.rhs = Null THEN Decided(lhs = Null) ELSE Unless(lhs, lhs = t.rhs)
      [] t.op = "!=" -> IF t.rhs = Null THEN Decided(lhs # Null) ELSE Unless(lhs, lhs # t.rhs)
      [] t.op \in Orders -> Unless(lhs, Ordered(t.op, lhs - t.rhs))
      [] t.op = "=between=" -> Unless(lhs, lhs \in t.rhs[1]..t.rhs[2])
      [] t.op = "=nbetween=" -> Unless(lhs, lhs \notin t.rhs[1]..t.rhs[2])
      [] t.op = "=isnull=" -> Decided((lhs = Null) = t.rhs)
      [] t.op = "=isempty=" -> Decided((lhs \in {Null, <<>>}) = t.rhs)
      [] t.op = "=in=" -> IF lhs \in t.rhs \ {Null} THEN True
                          ELSE IF Null \in t.rhs THEN Unknown ELSE Unless(lhs, FALSE)
      [] t.op = "=out=" -> IF lhs \in t.rhs \ {Null} THEN False
                           ELSE IF Null \in t.rhs THEN Unknown ELSE Unless(lhs, TRUE)
      [] t.op \in TextOperators -> Unless(lhs, MatchInSql(t.op, lhs, t.rhs, folds))
      [] t.op \in Lengths -> Unless(lhs, Measured(t.op, Len(lhs), t.rhs))

RECURSIVE Sql(_, _, _)
Sql(expr, row, folds) ==
    LET of == [i \in DOMAIN expr.args |-> Sql(expr.args[i], row, folds)] IN
    CASE expr.op = "empty" -> True
      [] expr.op = "term" -> SqlTerm(expr.term, row, folds)
      [] expr.op = "and" -> Min(Range(of))
      [] expr.op = "or" -> Max(Range(of))

-----------------------------------------------------------------------------
(* A filter is written token by token. *)

FilterInit == text = <<>> /\ vocabulary \in DOMAIN Vocabularies /\ parsed = Parse(<<>>)

AppendToken(token) ==
    /\ Len(text) < Vocabularies[vocabulary].length
    /\ text' = Append(text, token)
    /\ parsed' = Parse(text')
    /\ UNCHANGED vocabulary

FilterNext == \E token \in Vocabularies[vocabulary].tokens : AppendToken(token)
FilterSpec == FilterInit /\ [][FilterNext]_filterVars

-----------------------------------------------------------------------------
(* Properties *)

\* The grammar of the README, read from the outside in: a filter is split at the commas outside
\* of parentheses, its parts at the semicolons. One separator may be left at the end.
Depth(s, i) == Len(SelectSeq(SubSeq(s, 1, i - 1), LAMBDA x : x = "("))
               - Len(SelectSeq(SubSeq(s, 1, i - 1), LAMBDA x : x = ")"))
Parts(s, separator) ==
    LET cuts == SetToSortSeq({0, Len(s) + 1} \cup
                             {i \in DOMAIN s : s[i] = separator /\ Depth(s, i) = 0}, <)
    IN {SubSeq(s, cuts[k] + 1, cuts[k + 1] - 1) : k \in 1..(Len(cuts) - 1)}

RECURSIVE WellFormed(_)
WellFormed(s) ==
    \A part \in Parts(s, ",") : \A p \in Parts(part, ";") :
        \/ Len(p) = 1 /\ IsTerm(p[1])
        \/ Len(p) > 2 /\ p[1] = "(" /\ Last(p) = ")" /\ WellFormed(SubSeq(p, 2, Len(p) - 1))

RECURSIVE Meaning(_, _)
Meaning(s, row) ==
    \E part \in Parts(s, ",") : \A p \in Parts(part, ";") :
        IF Len(p) = 1 THEN ExecuteTerm(Terms[p[1]], row) ELSE Meaning(SubSeq(p, 2, Len(p) - 1), row)

Modest(s) == /\ Len(SelectSeq(s, LAMBDA x : x = "(" \/ IsTerm(x))) <= MaxNodes
             /\ \A i \in DOMAIN s : s[i] = "(" \/ IsTerm(s[i]) => Depth(s, i) <= MaxDepth
Written(s) == IF s # <<>> /\ Last(s) \in {";", ","} THEN Front(s) ELSE s

\* What is accepted is exactly what the grammar allows within the limits, and it means what the
\* grammar says: commas bind less than semicolons, however the expressions were put together.
ParsesAsWritten ==
    IF text = <<>> THEN parsed.ok /\ parsed.expr = Empty
    ELSE /\ parsed.ok = (WellFormed(Written(text)) /\ Modest(text))
         /\ parsed.ok => \A row \in Rows : Execute(parsed.expr, row) = Meaning(Written(text), row)

\* Where a pattern operator does not mean the same in both: its literal holds a wildcard that is
\* taken literally in memory only, or the database ignores case where the operator does not.
Ambiguous(t, folds) ==
    t.op \in TextOperators /\
       LET how == TextOperator(t.op) IN
       \/ how[1] \in {"within", "start", "end"} /\ {"%", "_"} \cap Range(t.rhs) # {}
       \/ how[1] # "equal" /\ folds /\ ~how[2]

Used == {Terms[x] : x \in {y \in Range(text) : IsTerm(y)}}
Comparable(folds) == parsed.ok /\ \A t \in Used : ~Ambiguous(t, folds)

\* "The same expression filters database queries, subscription scopes, and auth scopes"
\* (README.md:816): a row that a query returns is never refused by the matcher in memory, so no
\* subscriber loses a row of its snapshot to the filter that put it there.
NothingRefused ==
    \A folds \in BOOLEAN : Comparable(folds) =>
        \A row \in Rows : Sql(parsed.expr, row, folds) = True => Execute(parsed.expr, row)

\* And the matcher accepts no more than the query where nothing compared is missing.
Complete(t, row) == row[t.field] # Null /\ (t.op \in {"=in=", "=out="} => Null \notin t.rhs)
NothingAdded ==
    \A folds \in BOOLEAN : Comparable(folds) =>
        \A row \in Rows :
            (\A t \in Used : Complete(t, row)) /\ Execute(parsed.expr, row)
            => Sql(parsed.expr, row, folds) = True
=============================================================================
