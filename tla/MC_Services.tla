---------------------------- MODULE MC_Services -----------------------------
(* The feeds of MC_LiveFeed, a store of two rows, filters over six names and *)
(* two sizes, walks over three rows, and files on each of their ways.       *)
EXTENDS MC_LiveFeed, Services

CONSTANTS h1, h2

ServicesSym == FeedSym \cup Permutations(Hands)
SomeAsks == [r \in Routes |-> IF r = "signed" THEN 4 ELSE 5]
SomeMishaps == [r \in Routes |-> IF r = "whole" THEN 2 ELSE 1]

\* Walks over three rows by nothing, one field or two; others write where the order is simpler.
SomeSorts ==
    LET By(field, dir) == [field |-> field, dir |-> dir] IN
    {<<>>} \cup {<<By("x", d)>> : d \in {"asc", "desc"}}
    \cup {<<By("x", d), By("y", e)>> : d, e \in {"asc", "desc"}}
SomeContents == (0 :> [x : {0}, y : {0}]) @@ (1 :> [x : 0..2, y : {0}]) @@ (2 :> [x : 0..1, y : 0..1])
SomeChanges == (0 :> 1) @@ (1 :> 1) @@ (2 :> 0)

Term(field, op, rhs) == [field |-> field, op |-> op, rhs |-> rhs]

\* Every operator, with literals that tell apart what it does.
SomeTerms ==
    [like |-> Term("name", "%=", <<"a">>), nlike |-> Term("name", "!%=", <<"a">>),
     ilike |-> Term("name", "=ilike=", <<"a">>), nilike |-> Term("name", "=nilike=", <<"a">>),
     ieq |-> Term("name", "=ieq=", <<"a">>), ine |-> Term("name", "=ine=", <<"a">>),
     contains |-> Term("name", "=contains=", <<"a">>),
     icontains |-> Term("name", "=icontains=", <<"a">>),
     startswith |-> Term("name", "=startswith=", <<"a">>),
     istartswith |-> Term("name", "=istartswith=", <<"a">>),
     endswith |-> Term("name", "=endswith=", <<"a">>),
     iendswith |-> Term("name", "=iendswith=", <<"a">>), eq |-> Term("name", "==", <<"a">>),
     ne |-> Term("name", "!=", <<"a">>), missing |-> Term("name", "==", Null),
     present |-> Term("name", "!=", Null), wild |-> Term("name", "=contains=", <<"_">>),
     prefix |-> Term("name", "%=", <<"A", "%">>), single |-> Term("name", "=ilike=", <<"_">>),
     isempty |-> Term("name", "=isempty=", TRUE), in |-> Term("name", "=in=", {<<"a">>, Null}),
     out |-> Term("name", "=out=", {<<"a">>, Null}), out1 |-> Term("name", "=out=", {<<"a">>}),
     between |-> Term("size", "=between=", <<1, 2>>),
     nbetween |-> Term("size", "=nbetween=", <<2, 3>>),
     isnull |-> Term("size", "=isnull=", TRUE), gt |-> Term("size", ">", 1),
     ge |-> Term("size", ">=", 2), lt |-> Term("size", "<", 2), le |-> Term("size", "<=", 2),
     gt2 |-> Term("size", "=gt=", 2), ge2 |-> Term("size", "=ge=", 2),
     lt2 |-> Term("size", "=lt=", 2), le2 |-> Term("size", "=le=", 2),
     length |-> Term("name", "=length=", 2), minlength |-> Term("name", "=minlength=", 2),
     maxlength |-> Term("name", "=maxlength=", 2)]

SomeRows == [name : {Null, <<>>, <<"a">>, <<"A">>, <<"a", "b">>, <<"n", "u", "l", "l">>}, size : {Null, 1, 2}]

\* Two comparisons in every arrangement; every operator, alone and joined with another.
SomeVocabularies ==
    [arrangements |-> [tokens |-> {"eq", "gt", ";", ",", "(", ")"}, length |-> 6],
     operators |-> [tokens |-> DOMAIN SomeTerms, length |-> 1],
     joined |-> [tokens |-> {"nlike", "ieq", "missing", "ne", "out", "between", "gt", "isempty", ";", ","}, length |-> 3]]
=============================================================================
