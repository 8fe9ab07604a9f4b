---------------------------- MODULE MCStatements ----------------------------
(* The dictionaries, handles and calls TLC tries. *)
EXTENDS Statements, TLC

MCTableColumns == <<"id", "name">>

NoKw == Empty
ByDict(d)      == [kind |-> "dict", dict |-> d]
ByList(pairs)  == [kind |-> "list", pairs |-> pairs]
ByColumns(f)   == [kind |-> "columns", items |-> f]
ByKw(f)        == [args |-> <<>>, kw |-> f]
Single(update) == [args |-> <<update>>, kw |-> NoKw]

One(key, value) == [k \in {key} |-> value]

MCInitialItems == {NoKw, One("name", 1) @@ One("nope", 1)}

MCUpsertCalls ==
    { Single(ByDict("d")), ByKw(NoKw), ByKw(One("name", 1)),
      Single(ByList(<<>>)), Single(ByList(<< <<"name", 1>>, <<"id", 2>> >>)),
      Single(ByList(<< <<"nope", 1>>, <<"name", 2>> >>)),
      Single(ByList(<< <<"id", 1>>, <<"id", 2>> >>)),
      Single(ByColumns([k \in {"id", "name"} |-> 1])), Single(ByColumns(NoKw)),
      Single([kind |-> "other"]),
      [args |-> <<ByDict("d"), ByDict("d")>>, kw |-> NoKw],
      [args |-> <<ByDict("d")>>, kw |-> One("id", 1)] }

\* Handles and tables are interchangeable.
MCSymmetry == Permutations(Inserts) \cup Permutations(Merges) \cup Permutations(Sources)
=============================================================================
