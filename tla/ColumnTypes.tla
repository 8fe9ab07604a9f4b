----------------------------- MODULE ColumnTypes -----------------------------
(****************************************************************************)
(* A column's type on its way through the dialect: the SQLAlchemy type of a  *)
(* model, the text the type compiler sends, the domain the server keeps, the *)
(* text SHOW COLUMNS prints, and the type reflection makes of that text.     *)
(*                                                                           *)
(* A type is a class with its arguments. Text is a name and what stands in   *)
(* parentheses after it. Arguments are integers (a length, a precision and   *)
(* scale) or words (labels, an element type, a class name). A domain is text *)
(* with every default filled in.                                             *)
(****************************************************************************)
EXTENDS Integers, Sequences

MaxLength == 1073741823

Type(class, ints, words) == [class |-> class, ints |-> ints, words |-> words]
Plain(class) == Type(class, <<>>, <<>>)
NullType == Plain("NullType")

Text(base, ints, words) == [base |-> base, ints |-> ints, words |-> words]
Bare(base) == Text(base, <<>>, <<>>)

CollectionClasses == {"CubridSet", "CubridMultiset", "CubridList"}

\* _CollectionType's default element, which is what the server makes of VARCHAR.
DefaultElement == "VARCHAR(1073741823)"

----------------------------------------------------------------------------
\* Reflection: from the text of SHOW COLUMNS to a type.

\* The keys of CubridDialect._type_map.
TypeNames ==
    { "INTEGER", "INT", "BIGINT", "SHORT", "SMALLINT", "FLOAT", "REAL", "DOUBLE",
      "DOUBLE PRECISION", "NUMERIC", "DECIMAL", "STRING", "CHARACTER VARYING", "VARCHAR",
      "CHAR", "CHARACTER", "DATETIME", "DATETIMELTZ", "DATETIMETZ", "TIMESTAMP",
      "TIMESTAMPLTZ", "TIMESTAMPTZ", "DATE", "TIME", "BLOB", "CLOB", "JSON", "BIT",
      "BIT VARYING", "ENUM", "SET", "SET_OF", "MULTISET", "MULTISET_OF", "LIST",
      "LIST_OF", "SEQUENCE", "SEQUENCE_OF" }

\* CubridDialect._type_map; a name not listed is the name of its class.
TypeMap ==
    [ base \in TypeNames |->
        CASE base = "INT"                                           -> "INTEGER"
          [] base = "SHORT"                                         -> "SMALLINT"
          [] base = "REAL"                                          -> "FLOAT"
          [] base = "DOUBLE PRECISION"                              -> "DOUBLE"
          [] base = "DECIMAL"                                       -> "NUMERIC"
          [] base \in {"STRING", "CHARACTER VARYING"}               -> "VARCHAR"
          [] base = "CHARACTER"                                     -> "CHAR"
          [] base \in {"DATETIMELTZ", "DATETIMETZ"}                 -> "DATETIME"
          [] base \in {"TIMESTAMPLTZ", "TIMESTAMPTZ"}               -> "TIMESTAMP"
          [] base \in {"BIT", "BIT VARYING"}                        -> "LargeBinary"
          [] base = "ENUM"                                          -> "Enum"
          [] base \in {"SET", "SET_OF"}                             -> "CubridSet"
          [] base \in {"MULTISET", "MULTISET_OF"}                   -> "CubridMultiset"
          [] base \in {"LIST", "LIST_OF", "SEQUENCE", "SEQUENCE_OF"} -> "CubridList"
          [] OTHER                                                  -> base ]

\* Mutant: int(params), for NUMERIC as well.
OneIntegerOnly == [class \in {"VARCHAR", "CHAR", "FLOAT", "LargeBinary", "NUMERIC"} |-> {1}]

\* How many integers the constructor is called with, where it takes any.
Arities ==
    [ class \in {"VARCHAR", "CHAR", "FLOAT", "LargeBinary", "NUMERIC"} |->
        IF class = "NUMERIC" THEN {1, 2} ELSE {1} ]

\* Parameters that are not the integers expected are dropped without a word.
ResolveType(text) ==
    IF text.base \notin DOMAIN TypeMap
      THEN NullType
      ELSE LET class == TypeMap[text.base]
           IN CASE class \in CollectionClasses ->
                     Type(class, <<>>, IF text.words = <<>> THEN <<DefaultElement>> ELSE text.words)
                [] class = "Enum" ->
                     Type(class, <<>>, text.words)
                [] class \in DOMAIN Arities /\ text.words = <<>> ->
                     Type(class, IF Len(text.ints) \in Arities[class] THEN text.ints ELSE <<>>, <<>>)
                [] OTHER -> Plain(class)

----------------------------------------------------------------------------
\* The type compiler: from a type to the text of its DDL.

\* CubridTypeCompiler's methods that look at no argument. LargeBinary's
\* length is ignored; visit_large_binary always asks for the longest.
FixedTexts ==
    [ class \in { "Boolean", "Text", "UnicodeText", "DATETIME", "TIMESTAMP", "DATE", "TIME",
                  "BLOB", "CLOB", "DOUBLE", "JSON", "LargeBinary" } |->
        CASE class = "Boolean"                 -> Bare("SMALLINT")
          [] class \in {"Text", "UnicodeText"} -> Bare("STRING")
          [] class = "LargeBinary"             -> Text("BIT VARYING", <<MaxLength>>, <<>>)
          [] OTHER                             -> Bare(class) ]

\* Mutant: SQLAlchemy's names, which the server no longer knows.
NationalNames == [NCHAR |-> "NCHAR", NVARCHAR |-> "NVARCHAR", Unicode |-> "VARCHAR"]

\* visit_NCHAR, visit_NVARCHAR and visit_unicode: the national types are gone.
NationalTexts == [NCHAR |-> "CHAR", NVARCHAR |-> "VARCHAR", Unicode |-> "VARCHAR"]

\* SQLAlchemy's GenericTypeCompiler, for what the dialect does not override.
GenericTexts == [class \in {"INTEGER", "BIGINT", "SMALLINT", "NUMERIC", "VARCHAR", "CHAR"} |-> class]

\* An Enum is a VARCHAR as long as its longest label.
EnumText(labels) ==
    LET Lengths == {Len(labels[i]) : i \in DOMAIN labels}
        Longest == CHOOSE n \in Lengths : \A m \in Lengths : m <= n
    IN  Text("VARCHAR", IF labels = <<>> THEN <<>> ELSE <<Longest>>, <<>>)

FloatText(precision) ==
    Bare(IF precision # <<>> /\ precision[1] <= 7 THEN "FLOAT" ELSE "DOUBLE")

\* The _collection_keyword of each class, with get_col_spec's suffix.
CollectionTexts ==
    [CubridSet |-> "SET_OF", CubridMultiset |-> "MULTISET_OF", CubridList |-> "SEQUENCE_OF"]

CollectionKeywords == {CollectionTexts[class] : class \in CollectionClasses}

\* The only class that columns of type CubridOID refer to.
Referred == "person"

\* A tuple of n.
IsTuple(s, n) == DOMAIN s = 1..n /\ s = [i \in 1..n |-> s[i]]

\* The types a column can be compiled with, and the arguments they take.
IntegerCounts(class) ==
    CASE class = "NUMERIC" -> 0..2
      [] class \in {"VARCHAR", "CHAR", "FLOAT", "LargeBinary"} \cup DOMAIN NationalTexts -> 0..1
      [] OTHER -> {0}

IsType(type) ==
    /\ type = Type(type.class, type.ints, type.words)
    /\ type.class \in DOMAIN FixedTexts \cup DOMAIN NationalTexts \cup DOMAIN GenericTexts
                       \cup DOMAIN CollectionTexts \cup {"FLOAT", "Enum", "CubridOID"}
    /\ \E n \in IntegerCounts(type.class) : IsTuple(type.ints, n)
    /\ CASE type.class \in CollectionClasses -> IsTuple(type.words, 1)
         [] type.class = "Enum"               -> TRUE
         [] type.class = "CubridOID"          -> type.words = <<Referred>>
         [] OTHER                             -> type.words = <<>>

\* SQLAlchemy raises CompileError for a NullType.
Compilable(type) == type.class # "NullType"

Compile(type) ==
    LET class == type.class
    IN CASE class \in DOMAIN FixedTexts      -> FixedTexts[class]
         [] class \in DOMAIN NationalTexts   -> Text(NationalTexts[class], type.ints, <<>>)
         [] class \in DOMAIN GenericTexts    -> Text(GenericTexts[class], type.ints, <<>>)
         [] class \in DOMAIN CollectionTexts -> Text(CollectionTexts[class], <<>>, type.words)
         [] class = "FLOAT"                  -> FloatText(type.ints)
         [] class = "Enum"                   -> EnumText(type.words)
         [] class = "CubridOID"              -> Bare(type.words[1])

----------------------------------------------------------------------------
\* The server, as the documentation and the tests show it.

\* Element types the server spells otherwise than a model may.
ElementDomain(element) ==
    CASE element = "varchar(50)" -> "VARCHAR(50)"
      [] element = "VARCHAR"     -> DefaultElement
      [] element = "INT"         -> "INTEGER"
      [] OTHER                   -> element

\* The domains the server has.
IsDomain(domain) ==
    /\ domain = Text(domain.base, domain.ints, domain.words)
    /\ CASE domain.base \in {"VARCHAR", "CHAR", "BIT", "BIT VARYING"} ->
              IsTuple(domain.ints, 1) /\ domain.words = <<>>
         [] domain.base = "NUMERIC" ->
              IsTuple(domain.ints, 2) /\ domain.words = <<>>
         [] domain.base \in CollectionKeywords ->
              /\ domain.ints = <<>> /\ IsTuple(domain.words, 1)
              /\ ElementDomain(domain.words[1]) = domain.words[1]
         [] domain.base = "ENUM" -> domain.ints = <<>>
         [] OTHER ->
              /\ domain.base \in { "INTEGER", "BIGINT", "SMALLINT", "FLOAT", "DOUBLE",
                    "DATETIME", "TIMESTAMP", "DATE", "TIME", "BLOB", "CLOB", "JSON",
                    "DATETIMETZ", "DATETIMELTZ", "TIMESTAMPTZ", "TIMESTAMPLTZ", Referred }
              /\ domain.ints = <<>> /\ domain.words = <<>>

\* What the server keeps of a column declared so. NUMERIC alone is NUMERIC(15,0).
Domain(text) ==
    CASE text.base = "STRING" -> Text("VARCHAR", <<MaxLength>>, <<>>)
      [] text.base = "VARCHAR" /\ text.ints = <<>> -> Text("VARCHAR", <<MaxLength>>, <<>>)
      [] text.base = "CHAR" /\ text.ints = <<>> -> Text("CHAR", <<1>>, <<>>)
      [] text.base = "NUMERIC" /\ text.ints = <<>> -> Text("NUMERIC", <<15, 0>>, <<>>)
      [] text.base = "NUMERIC" /\ Len(text.ints) = 1 ->
           Text("NUMERIC", <<text.ints[1], 0>>, <<>>)
      [] text.base \in CollectionKeywords ->
           Text(text.base, <<>>, <<ElementDomain(text.words[1])>>)
      [] OTHER -> text

\* What SHOW COLUMNS prints for a domain: SHORT for SMALLINT, and where a domain
\* has a second name, one or the other, depending on the server.
SecondName(domain) ==
    CASE domain = Text("VARCHAR", <<MaxLength>>, <<>>) -> Bare("STRING")
      [] domain.base = "VARCHAR" /\ domain.ints # <<MaxLength>> ->
           Text("CHARACTER VARYING", domain.ints, <<>>)
      [] domain.base = "SEQUENCE_OF" -> Text("LIST_OF", <<>>, domain.words)
      [] OTHER -> domain

ShowColumns(domain, bySecondName) ==
    IF domain.base = "SMALLINT" THEN Bare("SHORT")
    ELSE IF bySecondName THEN SecondName(domain)
    ELSE domain

----------------------------------------------------------------------------
\* Alembic's questions about types.

\* str.strip().upper() of an element type.
Upper(element) == IF element = "varchar(50)" THEN "VARCHAR(50)" ELSE element

\* DefaultImpl.compare_type: names must agree, and arguments if both have as many.
GenericTypesDiffer(conn, meta) ==
    \/ conn.base # meta.base
    \/ Len(conn.ints) = Len(meta.ints) /\ conn.ints # meta.ints

IsCollection(type) == type.class \in CollectionClasses

\* Mutant: element types are compared as they are spelled.
CompareTypeVerbatim(conn, meta) ==
    CASE IsCollection(conn) /\ IsCollection(meta) -> conn # meta
      [] IsCollection(conn) # IsCollection(meta) -> TRUE
      [] OTHER -> GenericTypesDiffer(Compile(conn), Compile(meta))

\* Mutant: only the kinds of two collections are compared.
CompareTypeKinds(conn, meta) ==
    CASE IsCollection(conn) /\ IsCollection(meta) -> conn.class # meta.class
      [] IsCollection(conn) # IsCollection(meta) -> TRUE
      [] OTHER -> GenericTypesDiffer(Compile(conn), Compile(meta))

\* CubridImpl.compare_type
CompareType(conn, meta) ==
    CASE IsCollection(conn) /\ IsCollection(meta) ->
           conn.class # meta.class \/ Upper(conn.words[1]) # Upper(meta.words[1])
      [] IsCollection(conn) # IsCollection(meta) -> TRUE
      [] OTHER -> GenericTypesDiffer(Compile(conn), Compile(meta))

\* CubridImpl.render_type: the call a revision script makes to build the type,
\* and the names the script must import for it. Other types are Alembic's own.
RenderType(type) ==
    [ call    |-> type,
      imports |-> IF IsCollection(type) THEN {type.class} ELSE {} ]

----------------------------------------------------------------------------
\* What the round trips cannot keep.

\* Types that reflection does not give back, or not as what they were: the
\* server's FLOAT compiles to DOUBLE without a precision, BIT becomes BIT VARYING
\* and that as long as can be, ENUM becomes VARCHAR, and time zones are dropped.
Lossy(domain) ==
    \/ domain.base \in { "FLOAT", "BIT", "ENUM", "DATETIMETZ", "DATETIMELTZ", "TIMESTAMPTZ",
                          "TIMESTAMPLTZ" }
    \/ domain.base = "BIT VARYING" /\ domain.ints # <<MaxLength>>

\* Model types that autogenerate proposes to change over and over: Text, which
\* the server keeps as VARCHAR; Float of single precision, which is reflected
\* without it; and collections whose element type the server spells differently.
ReflectsDifferently(type) ==
    \/ Compile(type) \in {Bare("STRING"), Bare("FLOAT")}
    \/ IsCollection(type) /\ ElementDomain(type.words[1]) # Upper(type.words[1])
=============================================================================
