----------------------------- MODULE Statements -----------------------------
(****************************************************************************)
(* The statements a client builds with sqlalchemy_cubrid.dml and .merge, and *)
(* what the compiler makes of them. on_duplicate_key_update is generative:   *)
(* it changes a copy of the Insert. Merge's methods change the Merge itself  *)
(* and return it. Both keep the dictionaries they are given, which the       *)
(* client may go on changing.                                                *)
(*                                                                           *)
(* A dictionary is a function of its keys. A handle is a variable of the     *)
(* client's program that holds a statement.                                  *)
(****************************************************************************)
EXTENDS Integers, Sequences, Functions

CONSTANTS
    TableColumns,       \* the keys of statement.table.c, in order
    Keys,               \* the keys of dictionaries, some of them no columns
    Values,
    Dicts,              \* the client's dictionaries
    InitialItems,       \* what they hold to begin with
    Inserts,            \* handles for Insert statements
    Merges,             \* handles for Merge statements
    Sources,            \* tables to merge from
    Conditions,         \* conditions, of ON and of WHEN clauses
    UpsertCalls,        \* the arguments of on_duplicate_key_update tried
    None,
    MaxCalls

Empty == [key \in {} |-> None]
Items == UNION {[keys -> Values] : keys \in SUBSET Keys}

\* The `update` argument of OnDuplicateClause: the positional one, or **kw.
UpdateOf(call) ==
    IF call.args # <<>> THEN call.args[1] ELSE [kind |-> "kw", items |-> call.kw]

IsUpdate(update) ==
    \/ update.kind = "dict" /\ update.dict \in Dicts
    \/ update.kind \in {"kw", "columns"} /\ update.items \in Items
    \/ update.kind = "list" /\ update.pairs \in Seq(Keys \X Values)
    \/ update.kind = "other"

Clauses == [ordering : Seq(Keys), dict : Dicts \cup {None}, items : Items]

ASSUME StatementsAssumption ==
    /\ MaxCalls \in Nat
    /\ Values # {}
    /\ TableColumns \in Seq(Keys)
    /\ InitialItems \subseteq Items
    /\ \A call \in UpsertCalls :
          /\ IsUpdate(UpdateOf(call))
          /\ \A held \in [Dicts -> Items] : None # [update |-> UpdateOf(call), dict |-> held]
    /\ None \notin Dicts \cup Sources \cup Conditions \cup Clauses

VARIABLES
    dict,               \* what each dictionary holds
    insert,             \* the Insert each handle holds: its clause, or None
    askedUpsert,        \* history: what the clause was asked for, or None
    object,             \* the Merge each handle holds: the handle it was made for
    merge,              \* the state of each Merge object
    askedMerge,         \* history: the calls by which a handle came to its Merge
    informed,           \* history: the handles that came to an object by all its calls
    raised,             \* what the last call raised, or "nothing"
    calls

vars == <<dict, insert, askedUpsert, object, merge, askedMerge, informed, raised, calls>>

----------------------------------------------------------------------------
\* INSERT ... ON DUPLICATE KEY UPDATE

\* dict(list of pairs): the last value of a key counts.
FromPairs(pairs) ==
    [ key \in {pairs[i][1] : i \in DOMAIN pairs} |->
        LET last == CHOOSE i \in DOMAIN pairs :
                        pairs[i][1] = key /\ \A j \in i + 1..Len(pairs) : pairs[j][1] # key
        IN  pairs[last][2] ]

\* Mutant: emptiness is not looked at.
AcceptedOfAnySize(update) == update.kind # "other"

\* OnDuplicateClause takes a dictionary or a list of tuples, neither of them
\* empty, or a ColumnCollection.
Accepted(update) ==
    \/ update.kind = "dict" /\ dict[update.dict] # Empty
    \/ update.kind = "kw" /\ update.items # Empty
    \/ update.kind = "list" /\ update.pairs # <<>>
    \/ update.kind = "columns"

\* OnDuplicateClause.__init__: a dictionary of the client's is kept, anything
\* else becomes a dictionary of its own; a list also gives the order.
OnDuplicateClause(update) ==
    CASE update.kind = "dict" ->
           [ordering |-> <<>>, dict |-> update.dict, items |-> Empty]
      [] update.kind = "kw" ->
           [ordering |-> <<>>, dict |-> None, items |-> update.items]
      [] update.kind = "list" ->
           [ ordering |-> [i \in DOMAIN update.pairs |-> update.pairs[i][1]],
             dict     |-> None,
             items    |-> FromPairs(update.pairs) ]
      [] update.kind = "columns" ->
           [ordering |-> <<>>, dict |-> None, items |-> update.items]

\* What Insert.on_duplicate_key_update raises.
Raises(statement, call) ==
    IF statement # None THEN "InvalidRequestError"
    ELSE IF call.args # <<>> /\ call.kw # Empty THEN "ArgumentError"
    ELSE IF Len(call.args) > 1 THEN "ArgumentError"
    ELSE IF ~Accepted(UpdateOf(call)) THEN "ValueError"
    ELSE "nothing"

ClauseItems(clause) == IF clause.dict # None THEN dict[clause.dict] ELSE clause.items

\* [c for c in seq if c in set]. (SelectSeq, in a form that can be proved about.)
Keeping(seq, set) ==
    LET kept[n \in 0..Len(seq)] ==
          IF n = 0 THEN <<>>
          ELSE IF seq[n] \in set THEN Append(kept[n - 1], seq[n]) ELSE kept[n - 1]
    IN  kept[Len(seq)]

\* Mutant: columns named in the list come again among the rest.
AllColumns(ordering) == TableColumns

\* The columns a list does not name.
OtherColumns(ordering) == Keeping(TableColumns, Range(TableColumns) \ Range(ordering))

\* CubridCompiler.visit_on_duplicate_key_update: columns of the list first, the
\* others in table order. What is no column of the table is left out.
VisitOnDuplicateKeyUpdate(clause) ==
    LET items == ClauseItems(clause)
        columns == Keeping(Keeping(clause.ordering, Range(TableColumns))
                             \o OtherColumns(clause.ordering),
                           DOMAIN items)
    IN  [i \in DOMAIN columns |-> <<columns[i], items[columns[i]]>>]

----------------------------------------------------------------------------
\* MERGE

\* Merge.__init__
NewMerge ==
    [ source |-> None, on |-> None,
      update |-> [values |-> None, condition |-> None],
      delete |-> [asked |-> FALSE, condition |-> None],
      insert |-> [values |-> None, condition |-> None] ]

Using(m, source) == [m EXCEPT !.source = source]
On(m, condition) == [m EXCEPT !.on = condition]

\* Mutant: a condition stays unless another is given.
UpdateKeepingCondition(m, values, condition) ==
    [m EXCEPT !.update = [ values    |-> values,
                           condition |-> IF condition = None THEN @.condition ELSE condition ]]

WhenMatchedThenUpdate(m, values, condition) ==
    [m EXCEPT !.update = [values |-> values, condition |-> condition]]
WhenMatchedThenDelete(m, condition) ==
    [m EXCEPT !.delete = [asked |-> TRUE, condition |-> condition]]
WhenNotMatchedThenInsert(m, values, condition) ==
    [m EXCEPT !.insert = [values |-> values, condition |-> condition]]

Clause(kind, items, condition) == [kind |-> kind, items |-> items, condition |-> condition]

\* A clause whose dictionary is empty when the statement is compiled is left out.
ValuesClause(kind, part) ==
    IF part.values # None /\ dict[part.values] # Empty
      THEN <<Clause(kind, dict[part.values], part.condition)>>
      ELSE <<>>

\* CubridCompiler.visit_cubrid_merge. The clauses come in this order, whatever the
\* order of the calls; without using() or on() compiling raises.
VisitMerge(m) ==
    IF None \in {m.source, m.on}
      THEN None
      ELSE [ using |-> m.source,
             on    |-> m.on,
             whens |-> ValuesClause("update", m.update)
                       \o (IF m.delete.asked
                             THEN <<Clause("delete", Empty, m.delete.condition)>>
                             ELSE <<>>)
                       \o ValuesClause("insert", m.insert) ]

----------------------------------------------------------------------------
\* A call of a method of Merge, with what its dictionary held.
Asked(kind, d, argument) ==
    [ kind |-> kind, dict |-> d, items |-> IF d = None THEN Empty ELSE dict[d],
      argument |-> argument ]

\* Merges start as Merge(target).using(...).on(...).
Init ==
    /\ dict \in [Dicts -> InitialItems]
    /\ insert = [h \in Inserts |-> None]
    /\ askedUpsert = [h \in Inserts |-> None]
    /\ object = [h \in Merges |-> h]
    /\ \E source \in Sources, condition \in Conditions :
          /\ merge = [h \in Merges |-> On(Using(NewMerge, source), condition)]
          /\ askedMerge = [h \in Merges |->
                             << Asked("using", None, source), Asked("on", None, condition) >>]
    /\ informed = [h \in Merges |-> {h}]
    /\ raised = "nothing"
    /\ calls = 0

Count == calls < MaxCalls /\ calls' = calls + 1

\* The client changes a dictionary of its own.
ChangeDict ==
    /\ Count
    /\ \E d \in Dicts, key \in Keys :
          dict' = [dict EXCEPT ![d] =
                     IF key \in DOMAIN @
                       THEN [k \in DOMAIN @ \ {key} |-> @[k]]
                       ELSE [k \in DOMAIN @ \cup {key} |->
                               IF k = key THEN CHOOSE v \in Values : TRUE ELSE @[k]]]
    /\ raised' = "nothing"
    /\ UNCHANGED <<insert, askedUpsert, object, merge, askedMerge, informed>>

\* Mutant: the statement itself is changed.
NotGenerative(h, g) == {h, g}

\* @_generative: the statement the method was called on is left as it was.
Generated(h, g) == {g}

\* g = h.on_duplicate_key_update(...); nothing happens to h, or if it raises to g.
OnDuplicateKeyUpdate ==
    /\ Count
    /\ \E h, g \in Inserts, call \in UpsertCalls :
          /\ raised' = Raises(insert[h], call)
          /\ IF raised' # "nothing"
               THEN UNCHANGED <<insert, askedUpsert>>
               ELSE LET clause == OnDuplicateClause(UpdateOf(call))
                    IN  /\ insert' = [s \in Inserts |->
                                        IF s \in Generated(h, g) THEN clause ELSE insert[s]]
                        /\ askedUpsert' = [askedUpsert EXCEPT ![g] =
                              [update |-> UpdateOf(call), dict |-> dict]]
    /\ UNCHANGED <<dict, object, merge, askedMerge, informed>>

\* g = h.method(...): the object changes, and g is one more name for it.
MergeCall(h, g, m, asked) ==
    /\ Count
    /\ merge' = [merge EXCEPT ![object[h]] = m]
    /\ object' = [object EXCEPT ![g] = object[h]]
    /\ askedMerge' = [askedMerge EXCEPT ![g] = Append(askedMerge[h], asked)]
    /\ informed' = [o \in Merges |->
                       IF o # object[h] THEN informed[o] \ {g}
                       ELSE IF h \in informed[o] THEN {g} ELSE {}]
    /\ raised' = "nothing"
    /\ UNCHANGED <<dict, insert, askedUpsert>>

CallUsing ==
    \E h, g \in Merges, source \in Sources :
        MergeCall(h, g, Using(merge[object[h]], source), Asked("using", None, source))

CallOn ==
    \E h, g \in Merges, c \in Conditions :
        MergeCall(h, g, On(merge[object[h]], c), Asked("on", None, c))

CallUpdate ==
    \E h, g \in Merges, d \in Dicts, c \in Conditions \cup {None} :
        MergeCall(h, g, WhenMatchedThenUpdate(merge[object[h]], d, c), Asked("update", d, c))

CallDelete ==
    \E h, g \in Merges, c \in Conditions \cup {None} :
        MergeCall(h, g, WhenMatchedThenDelete(merge[object[h]], c), Asked("delete", None, c))

CallInsert ==
    \E h, g \in Merges, d \in Dicts, c \in Conditions \cup {None} :
        MergeCall(h, g, WhenNotMatchedThenInsert(merge[object[h]], d, c), Asked("insert", d, c))

Next ==
    \/ ChangeDict \/ OnDuplicateKeyUpdate
    \/ CallUsing \/ CallOn \/ CallUpdate \/ CallDelete \/ CallInsert

Spec == Init /\ [][Next]_vars

----------------------------------------------------------------------------
IsItems(f) == DOMAIN f \subseteq Keys

\* Type invariant; at most one ON DUPLICATE KEY clause reaches a statement, and a
\* clause that is kept was not empty when it was made, but for a ColumnCollection.
TypeOK ==
    /\ \A d \in Dicts : dict[d] \in Items
    /\ \A h \in Inserts :
          insert[h] # None =>
            /\ insert[h].dict \in Dicts \cup {None}
            /\ IsItems(insert[h].items)
            /\ insert[h].dict = None /\ askedUpsert[h].update.kind # "columns" =>
                  insert[h].items # Empty
    /\ object \in [Merges -> Merges]
    /\ \A h \in Merges :
          /\ {merge[h].update.values, merge[h].insert.values} \subseteq Dicts \cup {None}
          /\ { merge[h].update.condition, merge[h].insert.condition,
               merge[h].delete.condition } \subseteq Conditions \cup {None}
          /\ informed[h] \subseteq Merges
    /\ raised \in {"nothing", "ArgumentError", "InvalidRequestError", "ValueError"}
    /\ calls \in 0..MaxCalls

\* What the client passed, when it passed it.
Given(asked) ==
    CASE asked.update.kind = "dict" -> asked.dict[asked.update.dict]
      [] asked.update.kind = "list" -> FromPairs(asked.update.pairs)
      [] asked.update.kind \in {"kw", "columns"} -> asked.update.items

\* What the client may since have changed, or written twice.
Reliable(asked) ==
    CASE asked.update.kind = "dict" -> dict[asked.update.dict] = Given(asked)
      [] asked.update.kind = "list" -> IsInjective([i \in DOMAIN asked.update.pairs |-> asked.update.pairs[i][1]])
      [] asked.update.kind \in {"kw", "columns"} -> TRUE

\* The order asked for: the list's, or the table's.
OrderGiven(asked) ==
    Keeping(IF asked.update.kind = "list"
              THEN [i \in DOMAIN asked.update.pairs |-> asked.update.pairs[i][1]]
              ELSE TableColumns,
            Range(TableColumns) \cap DOMAIN Given(asked))

\* A handle's Insert updates exactly the columns its own call named, each once, to
\* the values they were given and in the order of the list: whatever was called on
\* other handles of the same Insert, and whatever calls were refused. Not so when
\* the client has changed the dictionary since, which is kept by reference, or
\* named a column twice in a list; keys that are no columns are left out silently.
UpsertAsAsked ==
    \A h \in Inserts :
        /\ (insert[h] = None) = (askedUpsert[h] = None)
        /\ insert[h] # None /\ Reliable(askedUpsert[h]) =>
              LET order == OrderGiven(askedUpsert[h])
              IN  VisitOnDuplicateKeyUpdate(insert[h]) =
                     [i \in DOMAIN order |-> <<order[i], Given(askedUpsert[h])[order[i]]>>]

\* The last call of a method counts, with the condition it came with.
IsLastCall(kind, asked, i) ==
    /\ i \in DOMAIN asked
    /\ asked[i].kind = kind
    /\ \A j \in i + 1..Len(asked) : asked[j].kind # kind

LastCall(kind, asked) == asked[CHOOSE i \in DOMAIN asked : IsLastCall(kind, asked, i)]

WhenAsked(kind, asked) ==
    IF \A i \in DOMAIN asked : asked[i].kind # kind
      THEN <<>>
      ELSE LET last == LastCall(kind, asked)
           IN  IF kind # "delete" /\ last.items = Empty
                 THEN <<>>
                 ELSE <<Clause(kind, last.items, last.argument)>>

\* A MERGE has the source, the condition and the WHEN clauses of the calls by which
\* its handle came to it, each with its own values and condition, unless a method
\* was called on another name of the same object, which changes it for both, or a
\* dictionary was changed.
MergeAsAsked ==
    \A h \in Merges :
        /\ h \in informed[object[h]]
        /\ \A i \in DOMAIN askedMerge[h] :
              LET call == askedMerge[h][i] IN call.dict # None => dict[call.dict] = call.items
        => VisitMerge(merge[object[h]]) =
              [ using |-> LastCall("using", askedMerge[h]).argument,
                on    |-> LastCall("on", askedMerge[h]).argument,
                whens |-> WhenAsked("update", askedMerge[h]) \o WhenAsked("delete", askedMerge[h])
                            \o WhenAsked("insert", askedMerge[h]) ]
=============================================================================
