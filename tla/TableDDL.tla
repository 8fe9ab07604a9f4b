------------------------------ MODULE TableDDL ------------------------------
(****************************************************************************)
(* CREATE TABLE in its three forms: of a Table (compiler.py), of a           *)
(* CreateTableUnder (inheritance.py) and of a CreateTableDontReuseOID        *)
(* (oid.py). What is kept of a statement is which columns are                *)
(* AUTO_INCREMENT and whether OID columns may refer to the class.            *)
(*                                                                           *)
(* A column is a record of what get_column_specification looks at: type,     *)
(* primary_key, autoincrement ("auto", "true" or "false"), default ("none",  *)
(* "sequence" or "scalar") and server_default ("none", "identity" or         *)
(* "other"). A version is a tuple of integers.                               *)
(****************************************************************************)
EXTENDS ColumnTypes, FiniteSets

\* The elements of a sequence at some of its positions, in their order.
At(seq, positions) ==
    LET Rank(i) == Cardinality({j \in positions : j <= i})
    IN  [k \in 1..Cardinality(positions) |-> seq[CHOOSE i \in positions : Rank(i) = k]]

\* CubridDialect._cubrid_version before initialize, as the compiler reads it.
UnknownVersion == <<0>>

\* What get_server_version returns, split at the dots. A component without
\* leading digits has no number.
NoNumber == -1

\* CubridDialect._get_server_version_info
GetServerVersionInfo(components) ==
    LET numbered == {i \in DOMAIN components : components[i].number # NoNumber}
    IN  IF numbered = {}
          THEN UnknownVersion
          ELSE LET kept == At(components, numbered)
               IN  [i \in DOMAIN kept |-> kept[i].number]

\* Python's v >= w: (11,) is less than (11, 0).
AtLeast(v, w) ==
    \/ Len(v) >= Len(w) /\ SubSeq(v, 1, Len(w)) = w
    \/ \E i \in DOMAIN v \cap DOMAIN w :
          v[i] > w[i] /\ SubSeq(v, 1, i - 1) = SubSeq(w, 1, i - 1)

\* Mutant: greater than (11, 0).
SupportsDontReuseOidAfter(version) == AtLeast(version, <<11, 0>>) /\ version # <<11, 0>>

\* What an OID column of this server may refer to must be created with
\* DONT_REUSE_OID, which it knows from 11.0.
SupportsDontReuseOid(version) == AtLeast(version, <<11, 0>>)

----------------------------------------------------------------------------
IntegerAffinity == {"INTEGER", "SMALLINT", "BIGINT"}

\* Table._autoincrement_column: the positions it may have, none or one. A key
\* of several columns has none unless one of them says so.
AutoincrementColumns(columns) ==
    LET key == {i \in DOMAIN columns : columns[i].primary_key}
    IN  { i \in key :
            \/ columns[i].autoincrement = "true"
            \/ /\ key = {i}
               /\ columns[i].autoincrement = "auto"
               /\ columns[i].type.class \in IntegerAffinity \cup {"NUMERIC"}
               /\ columns[i].default # "scalar"
               /\ columns[i].server_default # "other" }

\* Mutant: every integer column of the key.
ColumnSpecificationOfKey(columns, i, hasTable) ==
    [ type           |-> Compile(columns[i].type),
      auto_increment |->
         columns[i].primary_key /\ columns[i].type.class \in IntegerAffinity ]

\* CubridDDLCompiler.get_column_specification, for the i-th of the columns.
\* A column of CreateTableUnder or CreateTableDontReuseOID has no table.
ColumnSpecification(columns, i, hasTable) ==
    LET column == columns[i]
    IN  [ type           |-> Compile(column.type),
          auto_increment |->
             /\ column.default # "sequence"
             /\ column.primary_key
             /\ column.autoincrement # "false"
             /\ column.type.class \in IntegerAffinity
             /\ column.server_default \in {"none", "identity"}
             /\ hasTable => i \in AutoincrementColumns(columns) ]

Specifications(element, hasTable) ==
    [i \in DOMAIN element.columns |-> ColumnSpecification(element.columns, i, hasTable)]

Statement(specifications, options) ==
    [ auto_increment |-> {i \in DOMAIN specifications : specifications[i].auto_increment},
      options        |-> options ]

\* CubridDDLCompiler.post_create_table
PostCreateTable(element, version) ==
    IF element.dont_reuse_oid /\ SupportsDontReuseOid(version) THEN {"DONT_REUSE_OID"} ELSE {}

\* visit_create_table_dont_reuse_oid
CreateTableDontReuseOID(element, version) ==
    Statement(Specifications(element, FALSE),
              IF SupportsDontReuseOid(version) THEN {"DONT_REUSE_OID"} ELSE {})

\* visit_create_table_under
CreateTableUnder(element) == Statement(Specifications(element, FALSE), {})

\* CREATE TABLE as the element's construct renders it, for a dialect that takes
\* the server for this version.
CreateTable(element, version) ==
    CASE element.construct = "Table" ->
           Statement(Specifications(element, TRUE), PostCreateTable(element, version))
      [] element.construct = "CreateTableDontReuseOID" -> CreateTableDontReuseOID(element, version)
      [] element.construct = "CreateTableUnder"        -> CreateTableUnder(element)

\* A class made by CreateTableUnder is dropped by DropTableInheritance, which asks
\* for no error when the class is gone.
DropTableInheritance(element) == element.construct = "CreateTableUnder"

\* The construct was asked for a class that OID columns may refer to.
AsksReferable(element) ==
    element.construct = "CreateTableDontReuseOID" \/ element.dont_reuse_oid
=============================================================================
