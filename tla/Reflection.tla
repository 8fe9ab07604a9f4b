------------------------------ MODULE Reflection ------------------------------
(****************************************************************************)
(* CubridDialect's reflection methods (dialect.py), asked about one name     *)
(* while other sessions create, alter and drop what it stands for.           *)
(*                                                                           *)
(* A method is one or more statements, and DDL may be committed between any  *)
(* two. What answers remember lives in the info_cache of an Inspector. No    *)
(* two methods share a key of that cache (has_index and has_sequence keep    *)
(* keys of their own), so a behaviour asks one method, again and again.      *)
(*                                                                           *)
(* An answer is a sequence of version numbers: which definition of the name  *)
(* each part of it was read from. A list of names, or a yes, is <<0>> when   *)
(* it has the name and <<>> when not; <<>> is also the empty list and None.  *)
(****************************************************************************)
EXTENDS Integers, Sequences

CONSTANTS
    Versions,           \* the definitions a table or view may get
    Under,              \* those of a table that has a parent
    Indexed             \* those with an index, the one has_index asks about

ASSUME ReflectionAssumption ==
    /\ Versions \subseteq Nat \ {0}
    /\ Under \subseteq Versions
    /\ Indexed \subseteq Versions

VARIABLES
    catalog,            \* the server: what the name stands for
    method,             \* the method this Inspector is asked for
    pc,                 \* the statement to send next, or "idle"
    held,               \* rows read by an earlier statement of the call
    cache,              \* the method's entry in info_cache
    outcome,            \* how the last call ended
    fresh,              \* history: the last call was not answered from cache
    refused,            \* history: a statement of it was refused
    seen,               \* history: what the catalog held during it
    first               \* history: the first answer since the cache was empty

vars == <<catalog, method, pc, held, cache, outcome, fresh, refused, seen, first>>

Absent == [kind |-> "NONE", version |-> 0]

\* The class types of db_class, and the serials of db_serial.
Objects == [kind : {"CLASS", "VCLASS", "SERIAL"}, version : Versions]
Catalogs == Objects \cup {Absent}

\* Methods that check with _has_object before they query.
Guarded == {"pk_constraint", "unique_constraints", "indexes", "check_constraints", "has_index"}

\* The functions of inheritance.py, which take a connection, and has_table.
Uncached == {"has_table", "get_super_class", "get_sub_classes", "get_inherited_columns"}

Methods ==
    Guarded \cup Uncached \cup
    { "table_names", "view_names", "sequence_names", "has_sequence",
      "columns", "foreign_keys", "table_comment", "view_definition",
      "super_class_name", "sub_class_names", "oid_columns" }

Answers ==
    {<<>>} \cup {<<v>> : v \in Versions \cup {0}}
           \cup {<<v, w>> : v \in Versions, w \in Versions \cup {0}}

Answer(rows)  == [raised |-> "nothing", rows |-> rows]
Raise(error)  == [raised |-> error, rows |-> <<>>]
NoSuchTable   == Raise("NoSuchTableError")

\* No entry, no answer yet.
Miss == Raise("miss")

\* DatabaseError stands for it and for its subclass ProgrammingError, the
\* errors the methods catch; an InterfaceError is neither.
DBErrors == {"DatabaseError", "InterfaceError"}

Outcomes == {Answer(rows) : rows \in Answers} \cup {Raise(e) : e \in DBErrors} \cup {NoSuchTable, Miss}

TypeOK ==
    /\ catalog \in Catalogs
    /\ method \in Methods
    /\ pc \in {"idle", "exists", "query", "show", "comments", "show_create", "is_view"}
    /\ held \in Answers
    /\ cache \in {Answer(rows) : rows \in Answers} \cup {Miss}
    /\ outcome \in Outcomes
    /\ fresh \in BOOLEAN
    /\ refused \in BOOLEAN
    /\ seen \subseteq Catalogs
    /\ first \in {Answer(rows) : rows \in Answers} \cup {Miss}

Init ==
    /\ catalog \in Catalogs
    /\ method \in Methods
    /\ pc = "idle"
    /\ held = <<>>
    /\ cache = Miss
    /\ outcome = Miss
    /\ fresh = FALSE
    /\ refused = FALSE
    /\ seen = {}
    /\ first = Miss

-----------------------------------------------------------------------------
(* What the statements find in a catalog. *)

HasObject(c) == c.kind \in {"CLASS", "VCLASS"}
IsView(c)    == c.kind = "VCLASS"

Listed(b) == IF b THEN <<0>> ELSE <<>>
Part(c, kinds) == IF c.kind \in kinds THEN <<c.version>> ELSE <<>>

GetTableNames(c)    == Listed(c.kind = "CLASS")
HasTable(c)         == Listed(c.kind = "CLASS")
GetViewNames(c)     == Listed(c.kind = "VCLASS")
GetSequenceNames(c) == Listed(c.kind = "SERIAL")

\* The rows of db_index: a view has none.
GetPkConstraint(c)      == Part(c, {"CLASS"})
GetUniqueConstraints(c) == Part(c, {"CLASS"})
GetIndexes(c)           == IF c.version \in Indexed THEN Part(c, {"CLASS"}) ELSE <<>>

\* None for a class without a parent.
GetSuperClassName(c) == IF c.version \in Under THEN Part(c, {"CLASS"}) ELSE <<>>
GetSubClassNames(c)  == Part(c, {"CLASS", "VCLASS"})
GetOidColumns(c)     == Part(c, {"CLASS", "VCLASS"})

\* inheritance.py; the attributes of a class, or of nothing.
GetSuperClass(c)       == IF c.version \in Under THEN Part(c, {"CLASS"}) ELSE <<>>
GetSubClasses(c)       == Part(c, {"CLASS", "VCLASS"})
GetInheritedColumns(c) == Part(c, {"CLASS", "VCLASS"})

OrNoSuchTable(rows) == IF rows = <<>> THEN NoSuchTable ELSE Answer(rows)

GetTableComment(c)   == OrNoSuchTable(Part(c, {"CLASS", "VCLASS"}))
GetViewDefinition(c) == OrNoSuchTable(Part(c, {"VCLASS"}))

\* The last statement of a method that ends with a query.
Query(m, c) ==
    CASE m = "table_names"                        -> Answer(GetTableNames(c))
      [] m = "has_table"                          -> Answer(HasTable(c))
      [] m = "view_names"                         -> Answer(GetViewNames(c))
      [] m \in {"sequence_names", "has_sequence"} -> Answer(GetSequenceNames(c))
      [] m = "pk_constraint"                      -> Answer(GetPkConstraint(c))
      [] m = "unique_constraints"                 -> Answer(GetUniqueConstraints(c))
      [] m \in {"indexes", "has_index"}           -> Answer(GetIndexes(c))
      [] m = "super_class_name"                   -> Answer(GetSuperClassName(c))
      [] m = "sub_class_names"                    -> Answer(GetSubClassNames(c))
      [] m = "oid_columns"                        -> Answer(GetOidColumns(c))
      [] m = "get_super_class"                    -> Answer(GetSuperClass(c))
      [] m = "get_sub_classes"                    -> Answer(GetSubClasses(c))
      [] m = "get_inherited_columns"              -> Answer(GetInheritedColumns(c))
      [] m = "table_comment"                      -> GetTableComment(c)
      [] m = "view_definition"                    -> GetViewDefinition(c)

-----------------------------------------------------------------------------
(* The info_cache and the ends of a call. *)

\* has_index takes an error for "no indexes".
Swallowed(out) ==
    IF method = "has_index" /\ out.raised \in {"NoSuchTableError", "DatabaseError"}
      THEN Answer(<<>>)
      ELSE out

\* has_index looks its index up in the list, cached or not.
HasIndex(out) ==
    IF method = "has_index" /\ out.raised = "nothing"
      THEN Answer(Listed(out.rows # <<>>))
      ELSE out

\* Mutant: nothing is stored.
RememberNothing(out) == cache

\* Mutant: the exception is stored too.
RememberErrors(out) == out

\* What reflection.cache, has_index and has_sequence store. An exception is
\* not stored, has_table and the functions have no cache, and a None counts as no entry.
Remember(out) ==
    IF \/ out.raised # "nothing"
       \/ method \in Uncached
       \/ method = "super_class_name" /\ out.rows = <<>>
      THEN cache
      ELSE out

Return(out) ==
    LET o == Swallowed(out)
    IN  /\ pc' = "idle"
        /\ cache' = Remember(o)
        /\ outcome' = HasIndex(o)
        /\ first' = IF first = Miss /\ o.raised = "nothing" THEN HasIndex(o) ELSE first

CallFromCache ==
    /\ pc = "idle"
    /\ cache # Miss
    /\ outcome' = HasIndex(cache)
    /\ fresh' = FALSE
    /\ refused' = FALSE
    /\ seen' = {catalog}
    /\ UNCHANGED <<catalog, method, pc, held, cache, first>>

FirstStep ==
    CASE method \in Guarded        -> "exists"
      [] method = "columns"        -> "show"
      [] method = "foreign_keys"   -> "show_create"
      [] OTHER                     -> "query"

Call ==
    /\ pc = "idle"
    /\ cache = Miss
    /\ pc' = FirstStep
    /\ held' = <<>>
    /\ fresh' = TRUE
    /\ refused' = FALSE
    /\ seen' = {catalog}
    /\ UNCHANGED <<catalog, method, cache, outcome, first>>

\* A new Inspector, or Inspector.clear_cache().
ClearCache ==
    /\ pc = "idle"
    /\ cache' = Miss
    /\ first' = Miss
    /\ UNCHANGED <<catalog, method, pc, held, outcome, fresh, refused, seen>>

-----------------------------------------------------------------------------
(* The statements of the methods. *)

GoOn(step, rows) ==
    /\ pc' = step
    /\ held' = rows
    /\ UNCHANGED <<cache, outcome, first>>

AskExists ==
    /\ pc = "exists"
    /\ \/ ~HasObject(catalog) /\ Return(NoSuchTable) /\ UNCHANGED held
       \/ /\ HasObject(catalog)
          /\ method = "check_constraints"
          /\ Return(Answer(<<>>))
          /\ UNCHANGED held
       \/ /\ HasObject(catalog)
          /\ method # "check_constraints"
          /\ GoOn("query", <<>>)
    /\ UNCHANGED <<catalog, method, fresh, refused, seen>>

AskQuery ==
    /\ pc = "query"
    /\ Return(Query(method, catalog))
    /\ UNCHANGED <<catalog, method, held, fresh, refused, seen>>

\* get_columns: SHOW COLUMNS fails for what is not there.
ShowColumns ==
    /\ pc = "show"
    /\ IF HasObject(catalog)
         THEN GoOn("comments", <<catalog.version>>)
         ELSE Return(NoSuchTable) /\ UNCHANGED held
    /\ UNCHANGED <<catalog, method, fresh, refused, seen>>

\* get_columns: the comments are put to the columns by name.
AskComments ==
    /\ pc = "comments"
    /\ Return(Answer(Append(held, IF HasObject(catalog) THEN catalog.version ELSE 0)))
    /\ UNCHANGED <<catalog, method, held, fresh, refused, seen>>

\* Mutant: a failing SHOW CREATE TABLE is always a view's.
ShowCreateOrNothing ==
    /\ pc = "show_create"
    /\ Return(Answer(Part(catalog, {"CLASS"})))
    /\ UNCHANGED <<catalog, method, held, fresh, refused, seen>>

\* get_foreign_keys: SHOW CREATE TABLE fails for a view too.
ShowCreateTable ==
    /\ pc = "show_create"
    /\ IF catalog.kind = "CLASS"
         THEN Return(Answer(<<catalog.version>>)) /\ UNCHANGED held
         ELSE GoOn("is_view", <<>>)
    /\ UNCHANGED <<catalog, method, fresh, refused, seen>>

AskIsView ==
    /\ pc = "is_view"
    /\ Return(IF IsView(catalog) THEN Answer(<<>>) ELSE NoSuchTable)
    /\ UNCHANGED <<catalog, method, held, fresh, refused, seen>>

\* The server, or the link to it, fails a statement.
Refuse(e) ==
    /\ pc # "idle"
    /\ refused' = TRUE
    /\ \/ /\ e = "DatabaseError"
          /\ pc = "show"
          /\ Return(NoSuchTable)
          /\ UNCHANGED held
       \/ /\ e = "DatabaseError"
          /\ pc = "comments"
          /\ Return(Answer(Append(held, 0)))
          /\ UNCHANGED held
       \/ /\ e = "DatabaseError"
          /\ pc = "show_create"
          /\ GoOn("is_view", <<>>)
       \/ /\ e = "DatabaseError" => pc \notin {"show", "comments", "show_create"}
          /\ Return(Raise(e))
          /\ UNCHANGED held
    /\ UNCHANGED <<catalog, method, fresh, seen>>

-----------------------------------------------------------------------------
(* The other sessions: each DDL statement commits. *)

Witnessed == seen' = IF pc = "idle" THEN seen ELSE seen \cup {catalog'}

CreateOrDrop ==
    /\ \/ catalog = Absent /\ catalog' \in Objects
       \/ catalog # Absent /\ catalog' = Absent
    /\ Witnessed
    /\ UNCHANGED <<method, pc, held, cache, outcome, fresh, refused, first>>

Alter ==
    /\ catalog # Absent
    /\ \E v \in Versions \ {catalog.version} : catalog' = [catalog EXCEPT !.version = v]
    /\ Witnessed
    /\ UNCHANGED <<method, pc, held, cache, outcome, fresh, refused, first>>

Next ==
    \/ CallFromCache
    \/ Call
    \/ ClearCache
    \/ AskExists
    \/ AskQuery
    \/ ShowColumns
    \/ AskComments
    \/ ShowCreateTable
    \/ AskIsView
    \/ \E e \in DBErrors : Refuse(e)
    \/ CreateOrDrop
    \/ Alter

Spec == Init /\ [][Next]_vars

-----------------------------------------------------------------------------
(* Properties *)

\* What a call would answer if the catalog held c from its start to its end.
AtOnce(m, c) ==
    CASE m = "columns" ->
           IF HasObject(c) THEN Answer(<<c.version, c.version>>) ELSE NoSuchTable
      [] m = "foreign_keys" ->
           IF HasObject(c) THEN Answer(Part(c, {"CLASS"})) ELSE NoSuchTable
      [] m = "check_constraints" ->
           IF HasObject(c) THEN Answer(<<>>) ELSE NoSuchTable
      [] m = "has_index" ->
           Answer(Listed(GetIndexes(c) # <<>>))
      [] m \in Guarded \ {"check_constraints", "has_index"} ->
           IF HasObject(c) THEN Query(m, c) ELSE NoSuchTable
      [] OTHER -> Query(m, c)

Asked == pc = "idle" /\ fresh /\ outcome # Miss
OfAMoment == outcome \in {AtOnce(method, c) : c \in seen}

\* get_columns reads its columns and its comments at two moments.
TornColumns ==
    /\ method = "columns"
    /\ \E c, d \in seen : outcome = Answer(<<c.version, d.version>>)

\* _has_object found it, the query did not.
VanishedMeanwhile ==
    method \in Guarded /\ Absent \in seen /\ outcome = Answer(<<>>)

\* The statements of one method, with DDL between them: what it answers, or
\* that it raises NoSuchTableError, was right at some moment of the call. The
\* only answers no moment had are columns with the comments of another
\* definition, and the empty lists of a table dropped half-way.
AnswerOfAMoment ==
    Asked /\ ~refused => OfAMoment \/ TornColumns \/ VanishedMeanwhile

\* reflection.cache, has_index, has_sequence: what an Inspector has answered
\* it answers again until its cache is cleared, whatever DDL was committed
\* and whatever was refused since. Not so has_table and the functions, which have
\* no cache, and get_super_class_name, whose None the cache does not keep.
AnswersAreRepeated ==
    (pc = "idle" /\ first # Miss /\ method \notin Uncached \cup {"super_class_name"})
      => outcome = first

\* docs/en/introspection.md:317: NoSuchTableError means that the object does
\* not exist, whatever made a statement fail.
NoSuchTableIsTrue ==
    (Asked /\ outcome = NoSuchTable) => \E c \in seen : AtOnce(method, c) = NoSuchTable
=============================================================================
