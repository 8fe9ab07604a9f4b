--------------------------- MODULE ColumnTypesProofs ---------------------------
(****************************************************************************)
(* What becomes of any type and of any domain on the way through the         *)
(* dialect: the type compiler asks for domains the server has, reflection    *)
(* gives back the domain but for a few, and what it reads compares as equal. *)
(****************************************************************************)
EXTENDS ColumnTypes, TLAPS

\* The class of what reflection makes of a domain.
LEMMA Lookup ==
  /\ \A base \in TypeNames : base \in DOMAIN TypeMap
  /\ \A base : base \notin TypeNames => base \notin DOMAIN TypeMap
  /\ DOMAIN Arities = {"VARCHAR", "CHAR", "FLOAT", "LargeBinary", "NUMERIC"}
  /\ Arities["NUMERIC"] = {1, 2}
  /\ \A class \in {"VARCHAR", "CHAR", "FLOAT", "LargeBinary"} : Arities[class] = {1}
  BY DEF TypeMap, Arities

LEMMA OneTuple ==
  ASSUME NEW s, IsTuple(s, 1)
  PROVE  s = <<s[1]>> /\ Len(s) = 1
<1>1. s = [i \in 1..1 |-> s[i]]
  BY DEF IsTuple
<1>2. [i \in 1..1 |-> s[i]] = <<s[1]>>
  OBVIOUS
<1>3. QED
  BY <1>1, <1>2

LEMMA TwoTuple ==
  ASSUME NEW s, IsTuple(s, 2)
  PROVE  s = <<s[1], s[2]>> /\ Len(s) = 2
<1>1. s = [i \in 1..2 |-> s[i]]
  BY DEF IsTuple
<1>2. [i \in 1..2 |-> s[i]] = <<s[1], s[2]>>
  OBVIOUS
<1>3. QED
  BY <1>1, <1>2

LEMMA NoTuple ==
  ASSUME NEW s, IsTuple(s, 0)
  PROVE  s = <<>> /\ Len(s) = 0
<1>1. s = [i \in 1..0 |-> s[i]]
  BY DEF IsTuple
<1>2. [i \in 1..0 |-> s[i]] = <<>>
  OBVIOUS
<1>3. QED
  BY <1>1, <1>2

LEMMA TuplesAreTuples ==
  /\ IsTuple(<<>>, 0)
  /\ \A x : IsTuple(<<x>>, 1)
  /\ \A x, y : IsTuple(<<x, y>>, 2)
<1>1. IsTuple(<<>>, 0)
  BY DEF IsTuple
<1>2. \A x : IsTuple(<<x>>, 1)
  <2> SUFFICES ASSUME NEW x PROVE IsTuple(<<x>>, 1)
    OBVIOUS
  <2>1. <<x>> = [i \in 1..1 |-> <<x>>[i]]
    OBVIOUS
  <2>2. QED
    BY <2>1 DEF IsTuple
<1>3. \A x, y : IsTuple(<<x, y>>, 2)
  <2> SUFFICES ASSUME NEW x, NEW y PROVE IsTuple(<<x, y>>, 2)
    OBVIOUS
  <2>1. <<x, y>> = [i \in 1..2 |-> <<x, y>>[i]]
    OBVIOUS
  <2>2. QED
    BY <2>1 DEF IsTuple
<1>4. QED
  BY <1>1, <1>2, <1>3

-----------------------------------------------------------------------------
\* The forms of types and domains, one by one.

PlainClasses ==
    { "Boolean", "Text", "UnicodeText", "DATETIME", "TIMESTAMP", "DATE", "TIME", "BLOB",
      "CLOB", "DOUBLE", "JSON", "INTEGER", "BIGINT", "SMALLINT" }
LengthClasses == {"VARCHAR", "CHAR", "NCHAR", "NVARCHAR", "Unicode", "FLOAT", "LargeBinary"}

LEMMA TypeForms ==
  ASSUME NEW type, IsType(type)
  PROVE  \/ \E class \in PlainClasses \cup LengthClasses \cup {"NUMERIC"} : type = Plain(class)
         \/ \E class \in LengthClasses \cup {"NUMERIC"} : \E x : type = Type(class, <<x>>, <<>>)
         \/ \E x, y : type = Type("NUMERIC", <<x, y>>, <<>>)
         \/ \E class \in CollectionClasses : \E w : type = Type(class, <<>>, <<w>>)
         \/ \E words : type = Type("Enum", <<>>, words)
         \/ type = Type("CubridOID", <<>>, <<Referred>>)
<1>1. type = Type(type.class, type.ints, type.words)
  BY DEF IsType
<1>2. /\ DOMAIN FixedTexts = {"Boolean", "Text", "UnicodeText", "DATETIME", "TIMESTAMP",
                              "DATE", "TIME", "BLOB", "CLOB", "DOUBLE", "JSON", "LargeBinary"}
      /\ DOMAIN NationalTexts = {"NCHAR", "NVARCHAR", "Unicode"}
      /\ DOMAIN GenericTexts = {"INTEGER", "BIGINT", "SMALLINT", "NUMERIC", "VARCHAR", "CHAR"}
      /\ DOMAIN CollectionTexts = CollectionClasses
  BY DEF FixedTexts, NationalTexts, GenericTexts, CollectionTexts, CollectionClasses
<1>3. type.class \in PlainClasses \cup LengthClasses \cup CollectionClasses
                       \cup {"NUMERIC", "Enum", "CubridOID"}
  BY <1>2 DEF IsType, PlainClasses, LengthClasses, CollectionClasses
<1>4. \E n \in IntegerCounts(type.class) : IsTuple(type.ints, n)
  BY DEF IsType
<1>5. CASE type.class \in PlainClasses
  <2>1. IntegerCounts(type.class) = {0} /\ type.words = <<>>
    BY <1>2, <1>5 DEF IntegerCounts, PlainClasses, IsType, CollectionClasses
  <2>2. type.ints = <<>>
    BY <1>4, <2>1, NoTuple
  <2>3. QED
    BY <1>1, <1>5, <2>1, <2>2 DEF Plain
<1>6. CASE type.class \in LengthClasses
  <2>1. IntegerCounts(type.class) = 0..1 /\ type.words = <<>>
    BY <1>2, <1>6 DEF IntegerCounts, LengthClasses, IsType, CollectionClasses
  <2>2. IsTuple(type.ints, 0) \/ IsTuple(type.ints, 1)
    BY <1>4, <2>1
  <2>3. type.ints = <<>> \/ type.ints = <<type.ints[1]>>
    BY <2>2, NoTuple, OneTuple
  <2>4. QED
    BY <1>1, <1>6, <2>1, <2>3 DEF Plain
<1>7. CASE type.class = "NUMERIC"
  <2>1. IntegerCounts(type.class) = 0..2 /\ type.words = <<>>
    BY <1>2, <1>7 DEF IntegerCounts, IsType, CollectionClasses
  <2>2. IsTuple(type.ints, 0) \/ IsTuple(type.ints, 1) \/ IsTuple(type.ints, 2)
    BY <1>4, <2>1
  <2>3. \/ type.ints = <<>> \/ type.ints = <<type.ints[1]>>
        \/ type.ints = <<type.ints[1], type.ints[2]>>
    BY <2>2, NoTuple, OneTuple, TwoTuple
  <2>4. QED
    BY <1>1, <1>7, <2>1, <2>3 DEF Plain
<1>8. CASE type.class \in CollectionClasses
  <2>1. IntegerCounts(type.class) = {0} /\ IsTuple(type.words, 1)
    BY <1>2, <1>8 DEF IntegerCounts, IsType, CollectionClasses
  <2>2. type.ints = <<>> /\ type.words = <<type.words[1]>>
    BY <1>4, <2>1, NoTuple, OneTuple
  <2>3. QED
    BY <1>1, <1>8, <2>2
<1>9. CASE type.class \in {"Enum", "CubridOID"}
  <2>1. IntegerCounts(type.class) = {0}
    BY <1>2, <1>9 DEF IntegerCounts
  <2>2. type.ints = <<>> /\ (type.class = "CubridOID" => type.words = <<Referred>>)
    BY <1>4, <2>1, NoTuple DEF IsType, CollectionClasses
  <2>3. QED
    BY <1>1, <1>9, <2>2
<1>10. QED
  BY <1>3, <1>5, <1>6, <1>7, <1>8, <1>9

PlainBases ==
    { "INTEGER", "BIGINT", "SMALLINT", "FLOAT", "DOUBLE", "DATETIME", "TIMESTAMP", "DATE",
      "TIME", "BLOB", "CLOB", "JSON", "DATETIMETZ", "DATETIMELTZ", "TIMESTAMPTZ",
      "TIMESTAMPLTZ" }

LEMMA Keywords == CollectionKeywords = {"SET_OF", "MULTISET_OF", "SEQUENCE_OF"}
  BY DEF CollectionKeywords, CollectionTexts, CollectionClasses

LEMMA DomainForms ==
  ASSUME NEW domain, IsDomain(domain)
  PROVE  \/ \E base \in PlainBases \cup {Referred} : domain = Bare(base)
         \/ \E base \in {"VARCHAR", "CHAR", "BIT", "BIT VARYING"} : \E x :
                domain = Text(base, <<x>>, <<>>)
         \/ \E x, y : domain = Text("NUMERIC", <<x, y>>, <<>>)
         \/ \E base \in CollectionKeywords : \E w :
                domain = Text(base, <<>>, <<w>>) /\ ElementDomain(w) = w
         \/ \E words : domain = Text("ENUM", <<>>, words)
<1>1. domain = Text(domain.base, domain.ints, domain.words)
  BY DEF IsDomain
<1>2. domain.base \in PlainBases \cup {Referred} \cup CollectionKeywords
                        \cup {"VARCHAR", "CHAR", "BIT", "BIT VARYING", "NUMERIC", "ENUM"}
  BY Keywords DEF IsDomain, PlainBases, Referred
<1>3. CASE domain.base \in PlainBases \cup {Referred}
  <2>1. domain.ints = <<>> /\ domain.words = <<>>
    BY <1>3, Keywords DEF IsDomain, PlainBases, Referred
  <2>2. QED
    BY <1>1, <1>3, <2>1 DEF Bare
<1>4. CASE domain.base \in {"VARCHAR", "CHAR", "BIT", "BIT VARYING"}
  <2>1. IsTuple(domain.ints, 1) /\ domain.words = <<>>
    BY <1>4, Keywords DEF IsDomain
  <2>2. QED
    BY <1>1, <1>4, <2>1, OneTuple
<1>5. CASE domain.base = "NUMERIC"
  <2>1. IsTuple(domain.ints, 2) /\ domain.words = <<>>
    BY <1>5, Keywords DEF IsDomain
  <2>2. domain.ints = <<domain.ints[1], domain.ints[2]>>
    BY <2>1, TwoTuple
  <2>3. domain = Text("NUMERIC", <<domain.ints[1], domain.ints[2]>>, <<>>)
    BY <1>1, <1>5, <2>1, <2>2
  <2>4. QED
    BY <2>3
<1>6. CASE domain.base \in CollectionKeywords
  <2>1. /\ domain.ints = <<>> /\ IsTuple(domain.words, 1)
        /\ ElementDomain(domain.words[1]) = domain.words[1]
    BY <1>6, Keywords DEF IsDomain
  <2>2. domain.words = <<domain.words[1]>>
    BY <2>1, OneTuple
  <2>3. QED
    BY <1>1, <1>6, <2>1, <2>2
<1>7. CASE domain.base = "ENUM"
  <2>1. domain.ints = <<>>
    BY <1>7, Keywords DEF IsDomain
  <2>2. QED
    BY <1>1, <1>7, <2>1
<1>8. QED
  BY <1>2, <1>3, <1>4, <1>5, <1>6, <1>7

-----------------------------------------------------------------------------
\* What each form is compiled to, kept as and read back as.

Varchars == {"VARCHAR", "NVARCHAR", "Unicode"}
Chars == {"CHAR", "NCHAR"}
Longest == Text("VARCHAR", <<MaxLength>>, <<>>)
LongestBits == Text("BIT VARYING", <<MaxLength>>, <<>>)

LEMMA Compiles ==
  /\ Compile(Plain("Boolean")) = Bare("SMALLINT")
  /\ \A class \in {"Text", "UnicodeText"} : Compile(Plain(class)) = Bare("STRING")
  /\ \A class \in PlainClasses \ {"Boolean", "Text", "UnicodeText"} :
        Compile(Plain(class)) = Bare(class)
  /\ \A class \in Varchars : \A ints : Compile(Type(class, ints, <<>>)) = Text("VARCHAR", ints, <<>>)
  /\ \A class \in Chars : \A ints : Compile(Type(class, ints, <<>>)) = Text("CHAR", ints, <<>>)
  /\ \A ints : Compile(Type("NUMERIC", ints, <<>>)) = Text("NUMERIC", ints, <<>>)
  /\ \A ints : Compile(Type("LargeBinary", ints, <<>>)) = LongestBits
  /\ \A ints : Compile(Type("FLOAT", ints, <<>>)) \in {Bare("FLOAT"), Bare("DOUBLE")}
  /\ \A class \in CollectionClasses : \A w :
        Compile(Type(class, <<>>, <<w>>)) = Text(CollectionTexts[class], <<>>, <<w>>)
  /\ \A words : \E ints : /\ ints = <<>> \/ \E n : ints = <<n>>
                          /\ Compile(Type("Enum", <<>>, words)) = Text("VARCHAR", ints, <<>>)
  /\ Compile(Type("CubridOID", <<>>, <<Referred>>)) = Bare(Referred)
<1>1. /\ DOMAIN FixedTexts = {"Boolean", "Text", "UnicodeText", "DATETIME", "TIMESTAMP",
                              "DATE", "TIME", "BLOB", "CLOB", "DOUBLE", "JSON", "LargeBinary"}
      /\ FixedTexts["Boolean"] = Bare("SMALLINT")
      /\ \A class \in {"Text", "UnicodeText"} : FixedTexts[class] = Bare("STRING")
      /\ FixedTexts["LargeBinary"] = LongestBits
      /\ \A class \in {"DATETIME", "TIMESTAMP", "DATE", "TIME", "BLOB", "CLOB", "DOUBLE", "JSON"} :
             FixedTexts[class] = Bare(class)
  BY DEF FixedTexts, LongestBits
<1>2. /\ DOMAIN NationalTexts = {"NCHAR", "NVARCHAR", "Unicode"}
      /\ NationalTexts["NCHAR"] = "CHAR" /\ NationalTexts["NVARCHAR"] = "VARCHAR"
      /\ NationalTexts["Unicode"] = "VARCHAR"
  BY DEF NationalTexts
<1>3. /\ DOMAIN GenericTexts = {"INTEGER", "BIGINT", "SMALLINT", "NUMERIC", "VARCHAR", "CHAR"}
      /\ \A class \in DOMAIN GenericTexts : GenericTexts[class] = class
  BY DEF GenericTexts
<1>4. DOMAIN CollectionTexts = CollectionClasses
  BY DEF CollectionTexts, CollectionClasses
<1>5. \A class, ints, words : /\ Type(class, ints, words).class = class
                              /\ Type(class, ints, words).ints = ints
                              /\ Type(class, ints, words).words = words
  BY DEF Type
<1>6. ASSUME NEW type
      PROVE  /\ type.class \in DOMAIN FixedTexts => Compile(type) = FixedTexts[type.class]
             /\ type.class \in DOMAIN NationalTexts =>
                  Compile(type) = Text(NationalTexts[type.class], type.ints, <<>>)
             /\ type.class \in DOMAIN GenericTexts =>
                  Compile(type) = Text(GenericTexts[type.class], type.ints, <<>>)
             /\ type.class \in DOMAIN CollectionTexts =>
                  Compile(type) = Text(CollectionTexts[type.class], <<>>, type.words)
             /\ type.class = "FLOAT" => Compile(type) = FloatText(type.ints)
             /\ type.class = "Enum" => Compile(type) = EnumText(type.words)
             /\ type.class = "CubridOID" => Compile(type) = Bare(type.words[1])
  <2>1. CASE type.class \in DOMAIN FixedTexts
    BY <1>1, <1>2, <1>3, <1>4, <2>1 DEF Compile, CollectionClasses
  <2>2. CASE type.class \in DOMAIN NationalTexts
    BY <1>1, <1>2, <1>3, <1>4, <2>2 DEF Compile, CollectionClasses
  <2>3. CASE type.class \in DOMAIN GenericTexts
    BY <1>1, <1>2, <1>3, <1>4, <2>3 DEF Compile, CollectionClasses
  <2>4. CASE type.class \in DOMAIN CollectionTexts
    BY <1>1, <1>2, <1>3, <1>4, <2>4 DEF Compile, CollectionClasses
  <2>5. CASE type.class \in {"FLOAT", "Enum", "CubridOID"}
    BY <1>1, <1>2, <1>3, <1>4, <2>5 DEF Compile, CollectionClasses
  <2>6. QED
    BY <2>1, <2>2, <2>3, <2>4, <2>5
<1>7. /\ Compile(Plain("Boolean")) = Bare("SMALLINT")
      /\ \A class \in {"Text", "UnicodeText"} : Compile(Plain(class)) = Bare("STRING")
      /\ \A class \in PlainClasses \ {"Boolean", "Text", "UnicodeText"} :
            Compile(Plain(class)) = Bare(class)
  <2>1. ASSUME NEW class \in DOMAIN FixedTexts PROVE Compile(Plain(class)) = FixedTexts[class]
    BY <1>5, <1>6 DEF Plain
  <2>2. ASSUME NEW class \in {"INTEGER", "BIGINT", "SMALLINT"} PROVE Compile(Plain(class)) = Bare(class)
    BY <1>3, <1>5, <1>6 DEF Plain, Bare
  <2>3. QED
    BY <1>1, <2>1, <2>2 DEF PlainClasses
<1>8. /\ \A class \in Varchars : \A ints :
            Compile(Type(class, ints, <<>>)) = Text("VARCHAR", ints, <<>>)
      /\ \A class \in Chars : \A ints :
            Compile(Type(class, ints, <<>>)) = Text("CHAR", ints, <<>>)
      /\ \A ints : Compile(Type("NUMERIC", ints, <<>>)) = Text("NUMERIC", ints, <<>>)
      /\ \A ints : Compile(Type("LargeBinary", ints, <<>>)) = LongestBits
      /\ \A ints : Compile(Type("FLOAT", ints, <<>>)) = FloatText(ints)
  <2> SUFFICES ASSUME NEW ints
               PROVE  /\ \A class \in Varchars : Compile(Type(class, ints, <<>>)) = Text("VARCHAR", ints, <<>>)
                      /\ \A class \in Chars : Compile(Type(class, ints, <<>>)) = Text("CHAR", ints, <<>>)
                      /\ Compile(Type("NUMERIC", ints, <<>>)) = Text("NUMERIC", ints, <<>>)
                      /\ Compile(Type("LargeBinary", ints, <<>>)) = LongestBits
                      /\ Compile(Type("FLOAT", ints, <<>>)) = FloatText(ints)
    OBVIOUS
  <2>1. ASSUME NEW class \in DOMAIN NationalTexts
        PROVE  Compile(Type(class, ints, <<>>)) = Text(NationalTexts[class], ints, <<>>)
    BY <1>5, <1>6
  <2>2. ASSUME NEW class \in DOMAIN GenericTexts
        PROVE  Compile(Type(class, ints, <<>>)) = Text(class, ints, <<>>)
    BY <1>3, <1>5, <1>6
  <2>3. Compile(Type("LargeBinary", ints, <<>>)) = LongestBits
    BY <1>1, <1>5, <1>6
  <2>4. Compile(Type("FLOAT", ints, <<>>)) = FloatText(ints)
    BY <1>5, <1>6
  <2>5. QED
    BY <1>2, <1>3, <2>1, <2>2, <2>3, <2>4 DEF Varchars, Chars
<1>9. \A class \in CollectionClasses : \A w :
        Compile(Type(class, <<>>, <<w>>)) = Text(CollectionTexts[class], <<>>, <<w>>)
  BY <1>4, <1>5, <1>6
<1>11. \A ints : FloatText(ints) \in {Bare("FLOAT"), Bare("DOUBLE")}
  BY DEF FloatText
<1>12. \A words : Compile(Type("Enum", <<>>, words)) = EnumText(words)
  BY <1>5, <1>6
<1>13. \A words : \E ints : /\ ints = <<>> \/ \E n : ints = <<n>>
                           /\ EnumText(words) = Text("VARCHAR", ints, <<>>)
  BY DEF EnumText
<1>14. Compile(Type("CubridOID", <<>>, <<Referred>>)) = Bare(Referred)
  BY <1>5, <1>6
<1>15. QED
  BY <1>7, <1>8, <1>9, <1>11, <1>12, <1>13, <1>14

\* The branches of Domain.
LEMMA DomainBranches ==
  ASSUME NEW text
  PROVE  /\ text.base = "STRING" => Domain(text) = Longest
         /\ text.base = "VARCHAR" /\ text.ints = <<>> => Domain(text) = Longest
         /\ text.base = "CHAR" /\ text.ints = <<>> => Domain(text) = Text("CHAR", <<1>>, <<>>)
         /\ text.base = "NUMERIC" /\ text.ints = <<>> => Domain(text) = Text("NUMERIC", <<15, 0>>, <<>>)
         /\ text.base = "NUMERIC" /\ text.ints # <<>> /\ Len(text.ints) = 1 =>
              Domain(text) = Text("NUMERIC", <<text.ints[1], 0>>, <<>>)
         /\ text.base = "NUMERIC" /\ text.ints # <<>> /\ Len(text.ints) = 2 => Domain(text) = text
         /\ text.base \in {"VARCHAR", "CHAR"} /\ text.ints # <<>> => Domain(text) = text
         /\ text.base \in CollectionKeywords =>
              Domain(text) = Text(text.base, <<>>, <<ElementDomain(text.words[1])>>)
         /\ text.base \in PlainBases \cup {Referred, "BIT", "BIT VARYING"} => Domain(text) = text
<1>1. CASE text.base \in {"STRING", "VARCHAR", "CHAR"}
  BY <1>1, Keywords DEF Domain, PlainBases, Referred, Longest
<1>2. CASE text.base = "NUMERIC"
  BY <1>2, Keywords DEF Domain, PlainBases, Referred, Longest
<1>3. CASE text.base \in CollectionKeywords
  BY <1>3, Keywords DEF Domain, PlainBases, Referred, Longest
<1>4. CASE text.base \in PlainBases \cup {Referred, "BIT", "BIT VARYING"}
  BY <1>4, Keywords DEF Domain, PlainBases, Referred, Longest
<1>5. QED
  BY <1>1, <1>2, <1>3, <1>4

\* The server's defaults are filled in; a domain stays as it is.
LEMMA Keeps ==
  /\ Domain(Bare("STRING")) = Longest
  /\ \A base \in PlainBases \cup {Referred} : Domain(Bare(base)) = Bare(base)
  /\ Domain(Bare("VARCHAR")) = Longest
  /\ Domain(Bare("CHAR")) = Text("CHAR", <<1>>, <<>>)
  /\ Domain(Bare("NUMERIC")) = Text("NUMERIC", <<15, 0>>, <<>>)
  /\ \A base \in {"VARCHAR", "CHAR", "BIT", "BIT VARYING"} : \A x :
        Domain(Text(base, <<x>>, <<>>)) = Text(base, <<x>>, <<>>)
  /\ \A x : Domain(Text("NUMERIC", <<x>>, <<>>)) = Text("NUMERIC", <<x, 0>>, <<>>)
  /\ \A x, y : Domain(Text("NUMERIC", <<x, y>>, <<>>)) = Text("NUMERIC", <<x, y>>, <<>>)
  /\ \A class \in CollectionClasses : \A w :
        Domain(Text(CollectionTexts[class], <<>>, <<w>>))
          = Text(CollectionTexts[class], <<>>, <<ElementDomain(w)>>)
<1>1. ASSUME NEW base \in PlainBases \cup {Referred} PROVE Domain(Bare(base)) = Bare(base)
  <2>1. Bare(base).base = base
    BY DEF Bare, Text
  <2>2. QED
    BY <2>1, DomainBranches
<1>2. /\ Domain(Bare("STRING")) = Longest
      /\ Domain(Bare("VARCHAR")) = Longest
      /\ Domain(Bare("CHAR")) = Text("CHAR", <<1>>, <<>>)
      /\ Domain(Bare("NUMERIC")) = Text("NUMERIC", <<15, 0>>, <<>>)
  <2>1. \A base : Bare(base).base = base /\ Bare(base).ints = <<>>
    BY DEF Bare, Text
  <2>2. QED
    BY <2>1, DomainBranches
<1>3. ASSUME NEW base \in {"VARCHAR", "CHAR", "BIT", "BIT VARYING"}, NEW x
      PROVE  Domain(Text(base, <<x>>, <<>>)) = Text(base, <<x>>, <<>>)
  <2> DEFINE text == Text(base, <<x>>, <<>>)
  <2>1. text.base = base /\ text.ints # <<>>
    BY DEF Text
  <2> HIDE DEF text
  <2>2. Domain(text) = text
    BY <2>1, DomainBranches
  <2>3. QED
    BY <2>2 DEF text
<1>4. ASSUME NEW x
      PROVE  Domain(Text("NUMERIC", <<x>>, <<>>)) = Text("NUMERIC", <<x, 0>>, <<>>)
  <2> DEFINE text == Text("NUMERIC", <<x>>, <<>>)
  <2>1. text.base = "NUMERIC" /\ text.ints # <<>> /\ Len(text.ints) = 1 /\ text.ints[1] = x
    BY DEF Text
  <2> HIDE DEF text
  <2>2. Domain(text) = Text("NUMERIC", <<x, 0>>, <<>>)
    BY <2>1, DomainBranches
  <2>3. QED
    BY <2>2 DEF text
<1>5. ASSUME NEW x, NEW y
      PROVE  Domain(Text("NUMERIC", <<x, y>>, <<>>)) = Text("NUMERIC", <<x, y>>, <<>>)
  <2> DEFINE text == Text("NUMERIC", <<x, y>>, <<>>)
  <2>1. text.base = "NUMERIC" /\ text.ints # <<>> /\ Len(text.ints) = 2
    BY DEF Text
  <2> HIDE DEF text
  <2>2. Domain(text) = text
    BY <2>1, DomainBranches
  <2>3. QED
    BY <2>2 DEF text
<1>6. ASSUME NEW class \in CollectionClasses, NEW w
      PROVE  Domain(Text(CollectionTexts[class], <<>>, <<w>>))
               = Text(CollectionTexts[class], <<>>, <<ElementDomain(w)>>)
  <2> DEFINE text == Text(CollectionTexts[class], <<>>, <<w>>)
  <2>1. text.base = CollectionTexts[class] /\ text.words[1] = w
    BY DEF Text
  <2>2. CollectionTexts[class] \in CollectionKeywords
    BY DEF CollectionKeywords
  <2> HIDE DEF text
  <2>3. Domain(text) = Text(CollectionTexts[class], <<>>, <<ElementDomain(w)>>)
    BY <2>1, <2>2, DomainBranches
  <2>4. QED
    BY <2>3 DEF text
<1>7. QED
  BY <1>1, <1>2, <1>3, <1>4, <1>5, <1>6

\* What reflection reads of a domain.
ReadBack(domain, bySecondName) == ResolveType(ShowColumns(domain, bySecondName))

\* The class of each keyword of SHOW COLUMNS.
CollectionClass(base) ==
    CASE base = "SET_OF" -> "CubridSet"
      [] base = "MULTISET_OF" -> "CubridMultiset"
      [] base \in {"SEQUENCE_OF", "LIST_OF"} -> "CubridList"

\* The branches of ResolveType.
LEMMA ResolveBranches ==
  ASSUME NEW text
  PROVE  /\ text.base \notin TypeNames => ResolveType(text) = NullType
         /\ text.base \in {"INTEGER", "BIGINT", "SMALLINT", "DOUBLE", "DATETIME", "TIMESTAMP",
                            "DATE", "TIME", "BLOB", "CLOB", "JSON"}
              => ResolveType(text) = Plain(text.base)
         /\ text.base = "SHORT" => ResolveType(text) = Plain("SMALLINT")
         /\ text.base \in {"DATETIMETZ", "DATETIMELTZ"} => ResolveType(text) = Plain("DATETIME")
         /\ text.base \in {"TIMESTAMPTZ", "TIMESTAMPLTZ"} => ResolveType(text) = Plain("TIMESTAMP")
         /\ text.base = "ENUM" => ResolveType(text) = Type("Enum", <<>>, text.words)
         /\ text.base \in CollectionKeywords \cup {"LIST_OF"} /\ text.words # <<>> =>
              ResolveType(text) = Type(CollectionClass(text.base), <<>>, text.words)
         /\ text.words = <<>> /\ Len(text.ints) = 1 =>
              /\ text.base \in {"VARCHAR", "CHARACTER VARYING"} =>
                   ResolveType(text) = Type("VARCHAR", text.ints, <<>>)
              /\ text.base = "CHAR" => ResolveType(text) = Type("CHAR", text.ints, <<>>)
              /\ text.base \in {"BIT", "BIT VARYING"} =>
                   ResolveType(text) = Type("LargeBinary", text.ints, <<>>)
         /\ text.words = <<>> /\ Len(text.ints) = 0 /\ text.base = "STRING" =>
              ResolveType(text) = Plain("VARCHAR")
         /\ text.words = <<>> /\ Len(text.ints) = 0 /\ text.base = "FLOAT" =>
              ResolveType(text) = Plain("FLOAT")
         /\ text.words = <<>> /\ Len(text.ints) = 2 /\ text.base = "NUMERIC" =>
              ResolveType(text) = Type("NUMERIC", text.ints, <<>>)
<1>1. DOMAIN TypeMap = TypeNames
  BY DEF TypeMap
<1>2. CASE text.base \notin TypeNames
  <2>1. ResolveType(text) = NullType
    BY <1>1, <1>2 DEF ResolveType
  <2>2. QED
    BY <1>2, <2>1, Keywords DEF TypeNames
<1>3. CASE text.base \in TypeNames
  <2> DEFINE class == TypeMap[text.base]
  <2>1. ResolveType(text) =
          CASE class \in CollectionClasses ->
                 Type(class, <<>>, IF text.words = <<>> THEN <<DefaultElement>> ELSE text.words)
            [] class = "Enum" ->
                 Type(class, <<>>, text.words)
            [] class \in DOMAIN Arities /\ text.words = <<>> ->
                 Type(class, IF Len(text.ints) \in Arities[class] THEN text.ints ELSE <<>>, <<>>)
            [] OTHER -> Plain(class)
    BY <1>1, <1>3 DEF ResolveType
  <2>2. CASE text.base \in {"INTEGER", "BIGINT", "SMALLINT", "DOUBLE", "DATETIME", "TIMESTAMP",
                            "DATE", "TIME", "BLOB", "CLOB", "JSON"}
    <3>1. class = text.base
      BY <1>3, <2>2 DEF TypeMap
    <3> HIDE DEF class
    <3>2. QED
      BY <2>1, <2>2, <3>1, <1>3, Lookup, Keywords DEF CollectionClasses
  <2>3. CASE text.base \in {"SHORT", "DATETIMETZ", "DATETIMELTZ", "TIMESTAMPTZ", "TIMESTAMPLTZ"}
    <3>1. class = IF text.base = "SHORT" THEN "SMALLINT"
                  ELSE IF text.base \in {"DATETIMETZ", "DATETIMELTZ"} THEN "DATETIME"
                  ELSE "TIMESTAMP"
      BY <1>3, <2>3 DEF TypeMap
    <3> HIDE DEF class
    <3>2. QED
      BY <2>1, <2>3, <3>1, <1>3, Lookup, Keywords DEF CollectionClasses
  <2>4. CASE text.base = "ENUM" \/ text.base \in CollectionKeywords \cup {"LIST_OF"}
    <3>1. class = IF text.base = "ENUM" THEN "Enum" ELSE CollectionClass(text.base)
      BY <1>3, <2>4, Keywords DEF TypeMap, CollectionClass
    <3>2. text.base # "ENUM" => class \in CollectionClasses
      BY <2>4, <3>1, Keywords DEF CollectionClass, CollectionClasses
    <3> HIDE DEF class
    <3>3. QED
      BY <2>1, <2>4, <3>1, <3>2, <1>3, Lookup, Keywords DEF CollectionClasses
  <2>5. CASE text.base \in {"VARCHAR", "CHARACTER VARYING", "CHAR", "BIT", "BIT VARYING", "STRING",
                            "FLOAT", "NUMERIC"}
    <3>1. class = IF text.base \in {"VARCHAR", "CHARACTER VARYING", "STRING"} THEN "VARCHAR"
                  ELSE IF text.base \in {"BIT", "BIT VARYING"} THEN "LargeBinary" ELSE text.base
      BY <1>3, <2>5 DEF TypeMap
    <3>2. class \in DOMAIN Arities /\ class \notin CollectionClasses /\ class # "Enum"
      BY <2>5, <3>1, Lookup DEF CollectionClasses
    <3>3. Arities[class] = IF class = "NUMERIC" THEN {1, 2} ELSE {1}
      BY <3>2 DEF Arities
    <3> HIDE DEF class
    <3>4. text.words = <<>> =>
            ResolveType(text) = Type(class, IF Len(text.ints) \in Arities[class] THEN text.ints ELSE <<>>, <<>>)
      BY <2>1, <3>2
    <3>5. text.words = <<>> =>
            ResolveType(text) = Type(class, IF \/ Len(text.ints) = 1
                                               \/ Len(text.ints) = 2 /\ class = "NUMERIC"
                                              THEN text.ints ELSE <<>>, <<>>)
      BY <3>3, <3>4
    <3> DEFINE read == ResolveType(text)
    <3>11. /\ text.words = <<>> /\ Len(text.ints) = 0 => read = Plain(class)
           /\ text.words = <<>> /\ Len(text.ints) = 1 => read = Type(class, text.ints, <<>>)
           /\ text.words = <<>> /\ Len(text.ints) = 2 /\ class = "NUMERIC" =>
                read = Type(class, text.ints, <<>>)
      BY <3>5 DEF Plain
    <3> HIDE DEF read
    <3>6. CASE text.base \in {"VARCHAR", "CHARACTER VARYING", "STRING"}
      <4>1. class = "VARCHAR"
        BY <3>1, <3>6
      <4>2. QED
        BY <1>3, <3>6, <3>11, <4>1, Keywords DEF read
    <3>7. CASE text.base \in {"CHAR", "FLOAT"}
      <4>1. class = text.base
        BY <3>1, <3>7
      <4>2. QED
        BY <1>3, <3>7, <3>11, <4>1, Keywords DEF read
    <3>8. CASE text.base \in {"BIT", "BIT VARYING"}
      <4>1. class = "LargeBinary"
        BY <3>1, <3>8
      <4>2. QED
        BY <1>3, <3>8, <3>11, <4>1, Keywords DEF read
    <3>9. CASE text.base \in {"NUMERIC"}
      <4>1. class = "NUMERIC"
        BY <3>1, <3>9
      <4>2. QED
        BY <1>3, <3>9, <3>11, <4>1, Keywords DEF read
    <3>10. QED
      BY <2>5, <3>6, <3>7, <3>8, <3>9
  <2>6. QED
    BY <1>3, <2>2, <2>3, <2>4, <2>5, Keywords
<1>4. QED
  BY <1>2, <1>3

\* What reflection makes of each form.
LEMMA Reads ==
  ASSUME NEW second \in BOOLEAN
  PROVE  /\ \A base \in {"INTEGER", "BIGINT", "SMALLINT", "FLOAT", "DOUBLE", "DATETIME", "TIMESTAMP",
                         "DATE", "TIME", "BLOB", "CLOB", "JSON"} :
              ReadBack(Bare(base), second) = Plain(base)
         /\ \A base \in {"DATETIMETZ", "DATETIMELTZ"} : ReadBack(Bare(base), second) = Plain("DATETIME")
         /\ \A base \in {"TIMESTAMPTZ", "TIMESTAMPLTZ"} : ReadBack(Bare(base), second) = Plain("TIMESTAMP")
         /\ ReadBack(Bare(Referred), second) = NullType
         /\ \A x : \/ ReadBack(Text("VARCHAR", <<x>>, <<>>), second) = Type("VARCHAR", <<x>>, <<>>)
                   \/ x = MaxLength /\ ReadBack(Text("VARCHAR", <<x>>, <<>>), second) = Plain("VARCHAR")
         /\ \A x : ReadBack(Text("CHAR", <<x>>, <<>>), second) = Type("CHAR", <<x>>, <<>>)
         /\ \A base \in {"BIT", "BIT VARYING"} : \A x :
              ReadBack(Text(base, <<x>>, <<>>), second) = Type("LargeBinary", <<x>>, <<>>)
         /\ \A x, y : ReadBack(Text("NUMERIC", <<x, y>>, <<>>), second) = Type("NUMERIC", <<x, y>>, <<>>)
         /\ \A base \in CollectionKeywords : \A w :
              ReadBack(Text(base, <<>>, <<w>>), second) = Type(CollectionClass(base), <<>>, <<w>>)
         /\ \A words : ReadBack(Text("ENUM", <<>>, words), second) = Type("Enum", <<>>, words)
<1>1. ASSUME NEW base, NEW ints, NEW words
      PROVE  /\ Text(base, ints, words).base = base
             /\ Text(base, ints, words).ints = ints
             /\ Text(base, ints, words).words = words
  BY DEF Text
<1>2. ASSUME NEW base
      PROVE  Bare(base).base = base /\ Bare(base).ints = <<>> /\ Bare(base).words = <<>>
  BY DEF Text, Bare
<1>3. ASSUME NEW domain, domain.base \notin {"SMALLINT", "VARCHAR", "SEQUENCE_OF"}
      PROVE  ShowColumns(domain, second) = domain
  <2>1. domain # Text("VARCHAR", <<MaxLength>>, <<>>)
    BY <1>1, <1>3
  <2>2. SecondName(domain) = domain
    BY <1>3, <2>1 DEF SecondName
  <2>3. QED
    BY <1>3, <2>2 DEF ShowColumns
<1>4. ASSUME NEW base \in {"INTEGER", "BIGINT", "FLOAT", "DOUBLE", "DATETIME", "TIMESTAMP",
                         "DATE", "TIME", "BLOB", "CLOB", "JSON", "DATETIMETZ", "DATETIMELTZ",
                         "TIMESTAMPTZ", "TIMESTAMPLTZ", Referred}
      PROVE  ReadBack(Bare(base), second) = ResolveType(Bare(base))
  <2>1. base \notin {"SMALLINT", "VARCHAR", "SEQUENCE_OF"}
    BY DEF Referred
  <2>2. QED
    BY <1>2, <1>3, <2>1 DEF ReadBack
<1>5. /\ \A base \in {"INTEGER", "BIGINT", "DOUBLE", "DATETIME", "TIMESTAMP", "DATE", "TIME", "BLOB",
                      "CLOB", "JSON"} : ResolveType(Bare(base)) = Plain(base)
      /\ ResolveType(Bare("FLOAT")) = Plain("FLOAT")
      /\ \A base \in {"DATETIMETZ", "DATETIMELTZ"} : ResolveType(Bare(base)) = Plain("DATETIME")
      /\ \A base \in {"TIMESTAMPTZ", "TIMESTAMPLTZ"} : ResolveType(Bare(base)) = Plain("TIMESTAMP")
      /\ ResolveType(Bare(Referred)) = NullType
      /\ ResolveType(Bare("SHORT")) = Plain("SMALLINT")
      /\ ResolveType(Bare("STRING")) = Plain("VARCHAR")
  <2>1. Referred \notin TypeNames
    BY DEF Referred, TypeNames
  <2>2. ASSUME NEW base
        PROVE  LET text == Bare(base) IN
               text.base = base /\ text.words = <<>> /\ Len(text.ints) = 0
    BY <1>2
  <2>3. QED
    BY <2>1, <2>2, ResolveBranches
<1>6. ReadBack(Bare("SMALLINT"), second) = Plain("SMALLINT")
  <2>1. Bare("SMALLINT").base = "SMALLINT"
    BY <1>2
  <2>2. ShowColumns(Bare("SMALLINT"), second) = Bare("SHORT")
    BY <2>1 DEF ShowColumns
  <2>3. QED
    BY <1>5, <2>2 DEF ReadBack
<1>7. ASSUME NEW x
      PROVE  \/ ReadBack(Text("VARCHAR", <<x>>, <<>>), second) = Type("VARCHAR", <<x>>, <<>>)
             \/ x = MaxLength /\ ReadBack(Text("VARCHAR", <<x>>, <<>>), second) = Plain("VARCHAR")
  <2> DEFINE domain == Text("VARCHAR", <<x>>, <<>>)
  <2>1. domain.base = "VARCHAR" /\ domain.ints = <<x>> /\ domain.words = <<>>
    BY DEF Text
  <2>2. /\ ShowColumns(domain, second) \in {domain, SecondName(domain)}
        /\ SecondName(domain) = IF domain = Text("VARCHAR", <<MaxLength>>, <<>>) THEN Bare("STRING")
                                ELSE IF domain.ints # <<MaxLength>>
                                       THEN Text("CHARACTER VARYING", domain.ints, <<>>)
                                       ELSE domain
    <3> HIDE DEF domain
    <3>1. ShowColumns(domain, second) \in {domain, SecondName(domain)}
      BY <2>1 DEF ShowColumns
    <3>2. CASE domain = Text("VARCHAR", <<MaxLength>>, <<>>)
      <4>1. domain.base = "VARCHAR" /\ domain.ints = <<MaxLength>>
        BY <3>2 DEF Text
      <4>2. QED
        BY <3>1, <3>2, <4>1 DEF SecondName
    <3>3. CASE domain # Text("VARCHAR", <<MaxLength>>, <<>>)
      BY <2>1, <3>1, <3>3 DEF SecondName
    <3>4. QED
      BY <3>2, <3>3
  <2>3. domain = Text("VARCHAR", <<MaxLength>>, <<>>) <=> x = MaxLength
    BY DEF Text
  <2>4. /\ LET text == Text("CHARACTER VARYING", <<x>>, <<>>) IN
              text.base = "CHARACTER VARYING" /\ text.ints = <<x>> /\ text.words = <<>>
        /\ Len(<<x>>) = 1
    BY DEF Text
  <2> HIDE DEF domain
  <2>5. ResolveType(domain) = Type("VARCHAR", <<x>>, <<>>)
    BY <2>1, <2>4, ResolveBranches
  <2>6. ResolveType(Text("CHARACTER VARYING", <<x>>, <<>>)) = Type("VARCHAR", <<x>>, <<>>)
    BY <2>4, ResolveBranches
  <2>7. CASE x = MaxLength
    BY <1>5, <2>2, <2>3, <2>5, <2>7 DEF ReadBack, domain
  <2>8. CASE x # MaxLength
    <3>1. ShowColumns(domain, second) \in {domain, Text("CHARACTER VARYING", <<x>>, <<>>)}
      BY <2>1, <2>2, <2>3, <2>8
    <3>2. QED
      BY <2>5, <2>6, <3>1 DEF ReadBack, domain
  <2>9. QED
    BY <2>7, <2>8
<1>8. ASSUME NEW base \in {"CHAR", "BIT", "BIT VARYING"}, NEW x
      PROVE  ReadBack(Text(base, <<x>>, <<>>), second)
               = Type(IF base = "CHAR" THEN "CHAR" ELSE "LargeBinary", <<x>>, <<>>)
  <2> DEFINE text == Text(base, <<x>>, <<>>)
  <2>1. text.base = base /\ text.ints = <<x>> /\ Len(text.ints) = 1 /\ text.words = <<>>
    BY DEF Text
  <2> HIDE DEF text
  <2>2. ShowColumns(text, second) = text
    BY <1>3, <2>1
  <2>3. ResolveType(text) = Type(IF base = "CHAR" THEN "CHAR" ELSE "LargeBinary", <<x>>, <<>>)
    BY <2>1, ResolveBranches
  <2>4. QED
    BY <2>2, <2>3 DEF ReadBack, text
<1>9. ASSUME NEW x, NEW y
      PROVE  ReadBack(Text("NUMERIC", <<x, y>>, <<>>), second) = Type("NUMERIC", <<x, y>>, <<>>)
  <2> DEFINE text == Text("NUMERIC", <<x, y>>, <<>>)
  <2>1. text.base = "NUMERIC" /\ text.ints = <<x, y>> /\ Len(text.ints) = 2 /\ text.words = <<>>
    BY DEF Text
  <2> HIDE DEF text
  <2>2. ShowColumns(text, second) = text
    BY <1>3, <2>1
  <2>3. ResolveType(text) = Type("NUMERIC", <<x, y>>, <<>>)
    BY <2>1, ResolveBranches
  <2>4. QED
    BY <2>2, <2>3 DEF ReadBack, text
<1>10. ASSUME NEW base \in CollectionKeywords, NEW w
       PROVE  ReadBack(Text(base, <<>>, <<w>>), second) = Type(CollectionClass(base), <<>>, <<w>>)
  <2> DEFINE domain == Text(base, <<>>, <<w>>)
             listOf == Text("LIST_OF", <<>>, <<w>>)
  <2>1. domain.base = base /\ domain.words = <<w>> /\ domain.words # <<>>
    BY DEF Text
  <2>2. listOf.base = "LIST_OF" /\ listOf.words = <<w>> /\ listOf.words # <<>>
    BY DEF Text
  <2>3. ResolveType(domain) = Type(CollectionClass(base), <<>>, <<w>>)
    <3> HIDE DEF domain
    <3>1. QED
      BY <2>1, ResolveBranches
  <2>4. ResolveType(listOf) = Type("CubridList", <<>>, <<w>>)
    <3> HIDE DEF listOf
    <3>1. CollectionClass("LIST_OF") = "CubridList"
      BY DEF CollectionClass
    <3>2. QED
      BY <2>2, <3>1, ResolveBranches
  <2>5. CASE base = "SEQUENCE_OF"
    <3>1. ShowColumns(domain, second) \in {domain, listOf}
      <4>1. SecondName(domain) = listOf
        BY <2>5 DEF SecondName, Text
      <4> HIDE DEF domain, listOf
      <4>2. QED
        BY <2>1, <2>5, <4>1 DEF ShowColumns
    <3>2. CollectionClass(base) = "CubridList"
      BY <2>5 DEF CollectionClass
    <3> HIDE DEF listOf
    <3>3. QED
      BY <2>3, <2>4, <3>1, <3>2 DEF ReadBack
  <2>6. CASE base # "SEQUENCE_OF"
    <3>1. ShowColumns(domain, second) = domain
      <4> HIDE DEF domain
      <4>1. QED
        BY <1>3, <2>1, <2>6, Keywords
    <3>2. QED
      BY <2>3, <3>1 DEF ReadBack
  <2>7. QED
    BY <2>5, <2>6
<1>11. ASSUME NEW words
       PROVE  ReadBack(Text("ENUM", <<>>, words), second) = Type("Enum", <<>>, words)
  <2> DEFINE text == Text("ENUM", <<>>, words)
  <2>1. text.base = "ENUM" /\ text.words = words
    BY DEF Text
  <2> HIDE DEF text
  <2>2. ShowColumns(text, second) = text
    BY <1>3, <2>1
  <2>3. ResolveType(text) = Type("Enum", <<>>, words)
    BY <2>1, ResolveBranches
  <2>4. QED
    BY <2>2, <2>3 DEF ReadBack, text
<1>12. QED
  BY <1>4, <1>5, <1>6, <1>7, <1>8, <1>9, <1>10, <1>11

-----------------------------------------------------------------------------
\* What follows for every type and every domain.

LEMMA ElementKept ==
  ASSUME NEW w
  PROVE  ElementDomain(ElementDomain(w)) = ElementDomain(w)
  BY DEF ElementDomain, DefaultElement

\* The forms are domains.
LEMMA AreDomains ==
  /\ \A base \in PlainBases \cup {Referred} : IsDomain(Bare(base))
  /\ \A base \in {"VARCHAR", "CHAR", "BIT", "BIT VARYING"} : \A x : IsDomain(Text(base, <<x>>, <<>>))
  /\ \A x, y : IsDomain(Text("NUMERIC", <<x, y>>, <<>>))
  /\ \A base \in CollectionKeywords : \A w : IsDomain(Text(base, <<>>, <<ElementDomain(w)>>))
<1>1. ASSUME NEW base, NEW ints, NEW words
      PROVE  /\ Text(base, ints, words).base = base
             /\ Text(base, ints, words).ints = ints
             /\ Text(base, ints, words).words = words
  BY DEF Text
<1>2. ASSUME NEW base \in PlainBases \cup {Referred} PROVE IsDomain(Bare(base))
  <2> DEFINE d == Bare(base)
  <2>1. d.base = base /\ d.ints = <<>> /\ d.words = <<>> /\ d = Text(base, <<>>, <<>>)
    BY <1>1 DEF Bare
  <2> HIDE DEF d
  <2>2. IsDomain(d)
    BY <2>1, Keywords DEF IsDomain, PlainBases, Referred
  <2>3. QED
    BY <2>2 DEF d
<1>3. ASSUME NEW base \in {"VARCHAR", "CHAR", "BIT", "BIT VARYING"}, NEW x
      PROVE  IsDomain(Text(base, <<x>>, <<>>))
  <2> DEFINE d == Text(base, <<x>>, <<>>)
  <2>1. d.base = base /\ d.ints = <<x>> /\ d.words = <<>> /\ d = Text(base, <<x>>, <<>>)
    BY DEF Text
  <2> HIDE DEF d
  <2>2. IsDomain(d)
    BY <2>1, Keywords, TuplesAreTuples DEF IsDomain
  <2>3. QED
    BY <2>2 DEF d
<1>4. ASSUME NEW x, NEW y PROVE IsDomain(Text("NUMERIC", <<x, y>>, <<>>))
  <2> DEFINE d == Text("NUMERIC", <<x, y>>, <<>>)
  <2>1. d.base = "NUMERIC" /\ d.ints = <<x, y>> /\ d.words = <<>> /\ d = Text("NUMERIC", <<x, y>>, <<>>)
    BY <1>1
  <2> HIDE DEF d
  <2>2. IsDomain(d)
    BY <2>1, Keywords, TuplesAreTuples DEF IsDomain
  <2>3. QED
    BY <2>2 DEF d
<1>5. ASSUME NEW base \in CollectionKeywords, NEW w PROVE IsDomain(Text(base, <<>>, <<ElementDomain(w)>>))
  <2> DEFINE e == ElementDomain(w)
             d == Text(base, <<>>, <<e>>)
  <2>1. /\ d.base = base /\ d.ints = <<>> /\ d.words = <<e>> /\ d.words[1] = e
        /\ d = Text(base, <<>>, <<e>>) /\ ElementDomain(e) = e
    BY <1>1, ElementKept
  <2> HIDE DEF d, e
  <2>2. IsDomain(d)
    BY <2>1, Keywords, TuplesAreTuples DEF IsDomain
  <2>3. QED
    BY <2>2 DEF d, e
<1>6. QED
  BY <1>2, <1>3, <1>4, <1>5

LEMMA DeclaredIsDomain ==
  ASSUME NEW ints, ints = <<>> \/ \E x : ints = <<x>>
  PROVE  /\ IsDomain(Domain(Text("VARCHAR", ints, <<>>)))
         /\ IsDomain(Domain(Text("CHAR", ints, <<>>)))
         /\ IsDomain(Domain(Text("NUMERIC", ints, <<>>)))
<1>1. CASE ints = <<>>
  <2>1. /\ Text("VARCHAR", ints, <<>>) = Bare("VARCHAR") /\ Text("CHAR", ints, <<>>) = Bare("CHAR")
        /\ Text("NUMERIC", ints, <<>>) = Bare("NUMERIC")
    BY <1>1 DEF Bare
  <2>2. /\ Domain(Bare("VARCHAR")) = Text("VARCHAR", <<MaxLength>>, <<>>)
        /\ Domain(Bare("CHAR")) = Text("CHAR", <<1>>, <<>>)
        /\ Domain(Bare("NUMERIC")) = Text("NUMERIC", <<15, 0>>, <<>>)
    BY Keeps DEF Longest
  <2>3. QED
    BY <2>1, <2>2, AreDomains
<1>2. ASSUME NEW x, ints = <<x>>
      PROVE  /\ IsDomain(Domain(Text("VARCHAR", ints, <<>>)))
             /\ IsDomain(Domain(Text("CHAR", ints, <<>>)))
             /\ IsDomain(Domain(Text("NUMERIC", ints, <<>>)))
  <2>1. /\ Domain(Text("VARCHAR", <<x>>, <<>>)) = Text("VARCHAR", <<x>>, <<>>)
        /\ Domain(Text("CHAR", <<x>>, <<>>)) = Text("CHAR", <<x>>, <<>>)
        /\ Domain(Text("NUMERIC", <<x>>, <<>>)) = Text("NUMERIC", <<x, 0>>, <<>>)
    BY Keeps
  <2>2. /\ IsDomain(Text("VARCHAR", <<x>>, <<>>)) /\ IsDomain(Text("CHAR", <<x>>, <<>>))
        /\ IsDomain(Text("NUMERIC", <<x, 0>>, <<>>))
    BY AreDomains
  <2>3. QED
    BY <1>2, <2>1, <2>2
<1>3. QED
  BY <1>1, <1>2

\* The type compiler asks for a domain the server has, whatever the type.
LEMMA CompiledIsDomain ==
  ASSUME NEW type, IsType(type)
  PROVE  IsDomain(Domain(Compile(type)))
<1>1. CASE \E class \in PlainClasses : type = Plain(class)
  <2>1. PICK class \in PlainClasses : type = Plain(class)
    BY <1>1
  <2>2. Compile(type) \in {Bare("SMALLINT"), Bare("STRING"), Bare(class)}
    BY <2>1, Compiles
  <2>3. CASE class \in {"Text", "UnicodeText"}
    BY <2>1, <2>3, Compiles, Keeps, AreDomains DEF Longest
  <2>4. CASE class = "Boolean"
    BY <2>1, <2>4, Compiles, Keeps, AreDomains DEF PlainBases
  <2>5. CASE class \notin {"Text", "UnicodeText", "Boolean"}
    <3>1. Compile(type) = Bare(class) /\ class \in PlainBases
      BY <2>1, <2>5, Compiles DEF PlainClasses, PlainBases
    <3>2. QED
      BY <3>1, Keeps, AreDomains
  <2>6. QED
    BY <2>3, <2>4, <2>5
<1>2. CASE \E class \in LengthClasses \cup {"NUMERIC"} : type = Plain(class) \/ \E x : type = Type(class, <<x>>, <<>>)
  <2>1. PICK class \in LengthClasses \cup {"NUMERIC"} : type = Plain(class) \/ \E x : type = Type(class, <<x>>, <<>>)
    BY <1>2
  <2>2. PICK ints : type = Type(class, ints, <<>>) /\ (ints = <<>> \/ \E x : ints = <<x>>)
    BY <2>1 DEF Plain
  <2>3. CASE class \in Varchars
    <3>1. Compile(type) = Text("VARCHAR", ints, <<>>)
      BY <2>2, <2>3, Compiles
    <3>2. QED
      BY <2>2, <3>1, DeclaredIsDomain
  <2>4. CASE class \in Chars
    <3>1. Compile(type) = Text("CHAR", ints, <<>>)
      BY <2>2, <2>4, Compiles
    <3>2. QED
      BY <2>2, <3>1, DeclaredIsDomain
  <2>5. CASE class = "FLOAT"
    <3>1. Compile(type) \in {Bare("FLOAT"), Bare("DOUBLE")}
      BY <2>2, <2>5, Compiles
    <3>2. /\ Domain(Bare("FLOAT")) = Bare("FLOAT") /\ IsDomain(Bare("FLOAT"))
          /\ Domain(Bare("DOUBLE")) = Bare("DOUBLE") /\ IsDomain(Bare("DOUBLE"))
      BY Keeps, AreDomains DEF PlainBases
    <3>3. QED
      BY <3>1, <3>2
  <2>6. CASE class = "LargeBinary"
    <3>1. Compile(type) = LongestBits
      BY <2>2, <2>6, Compiles
    <3>2. QED
      BY <3>1, Keeps, AreDomains DEF LongestBits
  <2>7. CASE class = "NUMERIC"
    <3>1. Compile(type) = Text("NUMERIC", ints, <<>>)
      BY <2>2, <2>7, Compiles
    <3>2. QED
      BY <2>2, <3>1, DeclaredIsDomain
  <2>8. QED
    BY <2>3, <2>4, <2>5, <2>6, <2>7 DEF LengthClasses, Varchars, Chars
<1>3. CASE \E x, y : type = Type("NUMERIC", <<x, y>>, <<>>)
  <2>1. PICK x, y : type = Type("NUMERIC", <<x, y>>, <<>>)
    BY <1>3
  <2>2. Compile(type) = Text("NUMERIC", <<x, y>>, <<>>)
    BY <2>1, Compiles
  <2>3. Domain(Compile(type)) = Text("NUMERIC", <<x, y>>, <<>>)
    BY <2>2, Keeps
  <2>4. QED
    BY <2>3, AreDomains
<1>4. CASE \E class \in CollectionClasses : \E w : type = Type(class, <<>>, <<w>>)
  <2>1. PICK class \in CollectionClasses : \E w : type = Type(class, <<>>, <<w>>)
    BY <1>4
  <2>2. PICK w : type = Type(class, <<>>, <<w>>)
    BY <2>1
  <2>3. Domain(Compile(type)) = Text(CollectionTexts[class], <<>>, <<ElementDomain(w)>>)
    BY <2>2, Compiles, Keeps
  <2>4. CollectionTexts[class] \in CollectionKeywords
    BY DEF CollectionKeywords
  <2>5. QED
    BY <2>3, <2>4, AreDomains
<1>5. CASE \E words : type = Type("Enum", <<>>, words)
  <2>1. PICK ints : /\ ints = <<>> \/ \E n : ints = <<n>>
                    /\ Compile(type) = Text("VARCHAR", ints, <<>>)
    BY <1>5, Compiles
  <2>2. QED
    BY <2>1, DeclaredIsDomain
<1>6. CASE type = Type("CubridOID", <<>>, <<Referred>>)
  BY <1>6, Compiles, Keeps, AreDomains
<1>7. QED
  BY <1>1, <1>2, <1>3, <1>4, <1>5, <1>6, TypeForms

\* The forms are types.
LEMMA AreTypes ==
  /\ \A class \in PlainClasses \cup LengthClasses \cup {"NUMERIC"} : IsType(Plain(class))
  /\ \A class \in LengthClasses : \A x : IsType(Type(class, <<x>>, <<>>))
  /\ \A x, y : IsType(Type("NUMERIC", <<x, y>>, <<>>))
  /\ \A class \in CollectionClasses : \A w : IsType(Type(class, <<>>, <<w>>))
  /\ \A words : IsType(Type("Enum", <<>>, words))
<1>1. /\ DOMAIN FixedTexts = {"Boolean", "Text", "UnicodeText", "DATETIME", "TIMESTAMP",
                              "DATE", "TIME", "BLOB", "CLOB", "DOUBLE", "JSON", "LargeBinary"}
      /\ DOMAIN NationalTexts = {"NCHAR", "NVARCHAR", "Unicode"}
      /\ DOMAIN GenericTexts = {"INTEGER", "BIGINT", "SMALLINT", "NUMERIC", "VARCHAR", "CHAR"}
      /\ DOMAIN CollectionTexts = CollectionClasses
  BY DEF FixedTexts, NationalTexts, GenericTexts, CollectionTexts, CollectionClasses
<1>2. ASSUME NEW class, NEW ints, NEW words
      PROVE  LET type == Type(class, ints, words) IN
             type.class = class /\ type.ints = ints /\ type.words = words
  BY DEF Type
<1>3. ASSUME NEW class \in PlainClasses \cup LengthClasses \cup {"NUMERIC"}, NEW ints, NEW n \in IntegerCounts(class),
             IsTuple(ints, n)
      PROVE  IsType(Type(class, ints, <<>>))
  <2> DEFINE type == Type(class, ints, <<>>)
  <2>1. type.class = class /\ type.ints = ints /\ type.words = <<>> /\ type = Type(class, ints, <<>>)
    BY <1>2
  <2>2. class \notin CollectionClasses \cup {"Enum", "CubridOID"}
    BY DEF PlainClasses, LengthClasses, CollectionClasses
  <2>3. class \in DOMAIN FixedTexts \cup DOMAIN NationalTexts \cup DOMAIN GenericTexts \cup {"FLOAT"}
    BY <1>1 DEF PlainClasses, LengthClasses
  <2> HIDE DEF type
  <2>4. IsType(type)
    BY <1>3, <2>1, <2>2, <2>3 DEF IsType
  <2>5. QED
    BY <2>4 DEF type
<1>4. ASSUME NEW class \in PlainClasses \cup LengthClasses \cup {"NUMERIC"}
      PROVE  IsType(Plain(class))
  <2>1. 0 \in IntegerCounts(class)
    BY DEF IntegerCounts
  <2>2. QED
    BY <1>3, <2>1, TuplesAreTuples DEF Plain
<1>5. ASSUME NEW class \in LengthClasses, NEW x
      PROVE  IsType(Type(class, <<x>>, <<>>))
  <2>1. 1 \in IntegerCounts(class)
    BY <1>1 DEF IntegerCounts, LengthClasses
  <2>2. QED
    BY <1>3, <2>1, TuplesAreTuples
<1>6. ASSUME NEW x, NEW y
      PROVE  IsType(Type("NUMERIC", <<x, y>>, <<>>))
  <2>1. 2 \in IntegerCounts("NUMERIC")
    BY <1>1 DEF IntegerCounts
  <2>2. QED
    BY <1>3, <2>1, TuplesAreTuples
<1>7. ASSUME NEW class \in CollectionClasses \cup {"Enum"}, NEW words, class # "Enum" => IsTuple(words, 1)
      PROVE  IsType(Type(class, <<>>, words))
  <2> DEFINE type == Type(class, <<>>, words)
  <2>1. type.class = class /\ type.ints = <<>> /\ type.words = words /\ type = Type(class, <<>>, words)
    BY <1>2
  <2>2. 0 \in IntegerCounts(class)
    BY DEF IntegerCounts
  <2> HIDE DEF type
  <2>3. IsType(type)
    BY <1>1, <1>7, <2>1, <2>2, TuplesAreTuples DEF IsType, CollectionClasses
  <2>4. QED
    BY <2>3 DEF type
<1>8. QED
  BY <1>4, <1>5, <1>6, <1>7, TuplesAreTuples DEF CollectionClasses

\* A domain and what reflection makes of it.
KeptBases ==
    { "INTEGER", "BIGINT", "SMALLINT", "DOUBLE", "DATETIME", "TIMESTAMP", "DATE", "TIME", "BLOB",
      "CLOB", "JSON" }
LostBases == {"FLOAT", "DATETIMETZ", "DATETIMELTZ", "TIMESTAMPTZ", "TIMESTAMPLTZ"}

ReadSame(d, conn) == \E base \in KeptBases : d = Bare(base) /\ conn = Plain(base)
ReadLost(d, conn) ==
    \E base \in LostBases :
        d = Bare(base) /\ conn \in {Plain("FLOAT"), Plain("DATETIME"), Plain("TIMESTAMP")}
ReadReference(d, conn) == d = Bare(Referred) /\ conn = NullType
ReadVarchar(d, conn) ==
    \E x : /\ d = Text("VARCHAR", <<x>>, <<>>)
           /\ conn = Type("VARCHAR", <<x>>, <<>>) \/ (x = MaxLength /\ conn = Plain("VARCHAR"))
ReadChar(d, conn) == \E x : d = Text("CHAR", <<x>>, <<>>) /\ conn = Type("CHAR", <<x>>, <<>>)
ReadBits(d, conn) ==
    \E base \in {"BIT", "BIT VARYING"} : \E x :
        d = Text(base, <<x>>, <<>>) /\ conn = Type("LargeBinary", <<x>>, <<>>)
ReadNumeric(d, conn) ==
    \E x, y : d = Text("NUMERIC", <<x, y>>, <<>>) /\ conn = Type("NUMERIC", <<x, y>>, <<>>)
ReadCollection(d, conn) ==
    \E class \in CollectionClasses : \E w :
        /\ d = Text(CollectionTexts[class], <<>>, <<w>>) /\ ElementDomain(w) = w
        /\ conn = Type(class, <<>>, <<w>>)
ReadEnum(d, conn) == \E words : d = Text("ENUM", <<>>, words) /\ conn = Type("Enum", <<>>, words)

LEMMA ReadForms ==
  ASSUME NEW d, IsDomain(d), NEW second \in BOOLEAN
  PROVE  LET conn == ReadBack(d, second) IN
         \/ ReadSame(d, conn) \/ ReadLost(d, conn) \/ ReadReference(d, conn)
         \/ ReadVarchar(d, conn) \/ ReadChar(d, conn) \/ ReadBits(d, conn)
         \/ ReadNumeric(d, conn) \/ ReadCollection(d, conn) \/ ReadEnum(d, conn)
<1>1. CASE \E base \in PlainBases \cup {Referred} : d = Bare(base)
  <2>1. PICK base \in PlainBases \cup {Referred} : d = Bare(base)
    BY <1>1
  <2>2. CASE base \in KeptBases
    BY <2>1, <2>2, Reads DEF KeptBases, ReadSame
  <2>3. CASE base \in LostBases
    BY <2>1, <2>3, Reads DEF LostBases, ReadLost
  <2>4. CASE base = Referred
    BY <2>1, <2>4, Reads DEF ReadReference
  <2>5. QED
    BY <2>2, <2>3, <2>4 DEF PlainBases, KeptBases, LostBases
<1>2. CASE \E base \in {"VARCHAR", "CHAR", "BIT", "BIT VARYING"} : \E x : d = Text(base, <<x>>, <<>>)
  <2>1. PICK base \in {"VARCHAR", "CHAR", "BIT", "BIT VARYING"} : \E x : d = Text(base, <<x>>, <<>>)
    BY <1>2
  <2>2. PICK x : d = Text(base, <<x>>, <<>>)
    BY <2>1
  <2>3. CASE base = "VARCHAR"
    BY <2>2, <2>3, Reads DEF ReadVarchar
  <2>4. CASE base = "CHAR"
    <3>1. ReadBack(d, second) = Type("CHAR", <<x>>, <<>>)
      BY <2>2, <2>4, Reads
    <3>2. QED
      BY <2>2, <2>4, <3>1 DEF ReadChar
  <2>5. CASE base \in {"BIT", "BIT VARYING"}
    <3>1. ReadBack(d, second) = Type("LargeBinary", <<x>>, <<>>)
      BY <2>2, <2>5, Reads
    <3>2. QED
      BY <2>2, <2>5, <3>1 DEF ReadBits
  <2>6. QED
    BY <2>3, <2>4, <2>5
<1>3. CASE \E x, y : d = Text("NUMERIC", <<x, y>>, <<>>)
  <2>1. PICK x, y : d = Text("NUMERIC", <<x, y>>, <<>>)
    BY <1>3
  <2>2. \A a, b : ReadBack(Text("NUMERIC", <<a, b>>, <<>>), second) = Type("NUMERIC", <<a, b>>, <<>>)
    BY Reads
  <2>3. ReadBack(d, second) = Type("NUMERIC", <<x, y>>, <<>>)
    BY <2>1, <2>2
  <2>4. QED
    BY <2>1, <2>3 DEF ReadNumeric
<1>4. CASE \E base \in CollectionKeywords : \E w :
             d = Text(base, <<>>, <<w>>) /\ ElementDomain(w) = w
  <2>1. PICK base \in CollectionKeywords : \E w : d = Text(base, <<>>, <<w>>) /\ ElementDomain(w) = w
    BY <1>4
  <2>2. PICK w : d = Text(base, <<>>, <<w>>) /\ ElementDomain(w) = w
    BY <2>1
  <2>3. ReadBack(d, second) = Type(CollectionClass(base), <<>>, <<w>>)
    BY <2>2, Reads
  <2>4. CollectionClass(base) \in CollectionClasses /\ CollectionTexts[CollectionClass(base)] = base
    BY <2>1, Keywords DEF CollectionClass, CollectionClasses, CollectionTexts
  <2>5. QED
    BY <2>2, <2>3, <2>4 DEF ReadCollection
<1>5. CASE \E words : d = Text("ENUM", <<>>, words)
  <2>1. PICK words : d = Text("ENUM", <<>>, words)
    BY <1>5
  <2>2. ReadBack(d, second) = Type("Enum", <<>>, words)
    BY <2>1, Reads
  <2>3. QED
    BY <2>1, <2>2 DEF ReadEnum
<1>6. QED
  BY <1>1, <1>2, <1>3, <1>4, <1>5, DomainForms

\* Through SHOW COLUMNS, _resolve_type and the type compiler a domain comes back,
\* unless it is one of the lossy ones.
THEOREM RoundTrip ==
  ASSUME NEW d, IsDomain(d), NEW second \in BOOLEAN
  PROVE  LET conn == ResolveType(ShowColumns(d, second)) IN
         \/ conn = NullType /\ d = Bare(Referred)
         \/ IsType(conn) /\ (Domain(Compile(conn)) = d \/ Lossy(d))
<1> DEFINE conn == ReadBack(d, second)
<1> SUFFICES \/ conn = NullType /\ d = Bare(Referred)
             \/ IsType(conn) /\ (Domain(Compile(conn)) = d \/ Lossy(d))
  BY DEF ReadBack
<1> HIDE DEF conn
<1>1. ASSUME NEW base \in KeptBases, d = Bare(base), conn = Plain(base)
      PROVE  IsType(conn) /\ Domain(Compile(conn)) = d
  <2>1. base \in PlainClasses \ {"Boolean", "Text", "UnicodeText"} /\ base \in PlainBases
    BY DEF KeptBases, PlainClasses, PlainBases
  <2>2. QED
    BY <1>1, <2>1, Compiles, Keeps, AreTypes
<1>2. ASSUME NEW base \in LostBases, d = Bare(base),
             conn \in {Plain("FLOAT"), Plain("DATETIME"), Plain("TIMESTAMP")}
      PROVE  IsType(conn) /\ Lossy(d)
  <2>1. Bare(base).base = base
    BY DEF Bare, Text
  <2>2. Lossy(d)
    BY <1>2, <2>1 DEF Lossy, LostBases
  <2>3. QED
    BY <1>2, <2>2, AreTypes DEF PlainClasses, LengthClasses
<1>3. ASSUME NEW x, d = Text("VARCHAR", <<x>>, <<>>),
             conn = Type("VARCHAR", <<x>>, <<>>) \/ (x = MaxLength /\ conn = Plain("VARCHAR"))
      PROVE  IsType(conn) /\ Domain(Compile(conn)) = d
  <2>1. CASE conn = Type("VARCHAR", <<x>>, <<>>)
    <3>1. Compile(conn) = d
      BY <1>3, <2>1, Compiles DEF Varchars
    <3>2. QED
      BY <1>3, <2>1, <3>1, Keeps, AreTypes DEF LengthClasses
  <2>2. CASE x = MaxLength /\ conn = Plain("VARCHAR")
    <3>1. Compile(conn) = Bare("VARCHAR")
      BY <2>2, Compiles DEF Varchars, Plain, Bare
    <3>2. QED
      BY <1>3, <2>2, <3>1, Keeps, AreTypes DEF LengthClasses, Longest
  <2>3. QED
    BY <1>3, <2>1, <2>2
<1>4. ASSUME NEW x, d = Text("CHAR", <<x>>, <<>>), conn = Type("CHAR", <<x>>, <<>>)
      PROVE  IsType(conn) /\ Domain(Compile(conn)) = d
  <2>1. Compile(conn) = d
    BY <1>4, Compiles DEF Chars
  <2>2. QED
    BY <1>4, <2>1, Keeps, AreTypes DEF LengthClasses
<1>5. ASSUME NEW base \in {"BIT", "BIT VARYING"}, NEW x,
             d = Text(base, <<x>>, <<>>), conn = Type("LargeBinary", <<x>>, <<>>)
      PROVE  IsType(conn) /\ (Domain(Compile(conn)) = d \/ Lossy(d))
  <2>1. IsType(conn)
    BY <1>5, AreTypes DEF LengthClasses
  <2>2. CASE Lossy(d)
    BY <2>1, <2>2
  <2>3. CASE ~Lossy(d)
    <3>1. d.base = base /\ d.ints = <<x>>
      BY <1>5 DEF Text
    <3>2. base = "BIT VARYING" /\ <<x>> = <<MaxLength>>
      BY <2>3, <3>1 DEF Lossy
    <3>3. d = LongestBits
      BY <1>5, <3>2 DEF LongestBits
    <3>4. Compile(conn) = d
      BY <1>5, <3>3, Compiles
    <3>5. QED
      BY <1>5, <2>1, <3>4, Keeps
  <2>4. QED
    BY <2>2, <2>3
<1>6. ASSUME NEW x, NEW y, d = Text("NUMERIC", <<x, y>>, <<>>), conn = Type("NUMERIC", <<x, y>>, <<>>)
      PROVE  IsType(conn) /\ Domain(Compile(conn)) = d
  <2>1. Compile(conn) = d
    BY <1>6, Compiles
  <2>2. Domain(Text("NUMERIC", <<x, y>>, <<>>)) = Text("NUMERIC", <<x, y>>, <<>>)
    BY Keeps
  <2>3. IsType(Type("NUMERIC", <<x, y>>, <<>>))
    BY AreTypes
  <2>4. QED
    BY <1>6, <2>1, <2>2, <2>3
<1>7. ASSUME NEW class \in CollectionClasses, NEW w, ElementDomain(w) = w,
             d = Text(CollectionTexts[class], <<>>, <<w>>), conn = Type(class, <<>>, <<w>>)
      PROVE  IsType(conn) /\ Domain(Compile(conn)) = d
  <2>1. Compile(conn) = d
    BY <1>7, Compiles
  <2>2. Domain(d) = d
    BY <1>7, Keeps
  <2>3. QED
    BY <1>7, <2>1, <2>2, AreTypes
<1>8. ASSUME NEW words, d = Text("ENUM", <<>>, words), conn = Type("Enum", <<>>, words)
      PROVE  IsType(conn) /\ Lossy(d)
  BY <1>8, AreTypes DEF Lossy, Text
<1>9. QED
  <2> DEFINE holds == IsType(conn) /\ (Domain(Compile(conn)) = d \/ Lossy(d))
  <2>1. ReadSame(d, conn) => holds
    BY <1>1 DEF ReadSame
  <2>2. ReadLost(d, conn) => holds
    BY <1>2 DEF ReadLost
  <2>3. ReadVarchar(d, conn) => holds
    BY <1>3 DEF ReadVarchar
  <2>4. ReadChar(d, conn) => holds
    BY <1>4 DEF ReadChar
  <2>5. ReadBits(d, conn) => holds
    BY <1>5 DEF ReadBits
  <2>6. ReadNumeric(d, conn) => holds
    BY <1>6 DEF ReadNumeric
  <2>7. ReadCollection(d, conn) => holds
    BY <1>7 DEF ReadCollection
  <2>8. ReadEnum(d, conn) => holds
    BY <1>8 DEF ReadEnum
  <2> HIDE DEF holds
  <2>9. holds \/ ReadReference(d, conn)
    BY <2>1, <2>2, <2>3, <2>4, <2>5, <2>6, <2>7, <2>8, ReadForms DEF conn
  <2>10. QED
    BY <2>9 DEF holds, ReadReference

-----------------------------------------------------------------------------
\* Where compare_type sees no difference between a column and a model's type.

\* Arguments of which both sides have as many are the same.
LEMMA SameText ==
  ASSUME NEW base, NEW words, NEW ints, NEW other, NEW otherInts,
         ~GenericTypesDiffer(Text(base, ints, words), Text(other, otherInts, words))
  PROVE  /\ base = other
         /\ Len(ints) # Len(otherInts) \/ Text(base, ints, words) = Text(other, otherInts, words)
<1>1. /\ Text(base, ints, words).base = base /\ Text(base, ints, words).ints = ints
      /\ Text(other, otherInts, words).base = other /\ Text(other, otherInts, words).ints = otherInts
  BY DEF Text
<1>2. base = other /\ (Len(ints) # Len(otherInts) \/ ints = otherInts)
  BY <1>1 DEF GenericTypesDiffer
<1>3. QED
  BY <1>2

\* Two types that are no collections are compared as they compile.
LEMMA Compared ==
  ASSUME NEW conn, NEW meta, ~IsCollection(conn)
  PROVE  /\ IsCollection(meta) => CompareType(conn, meta)
         /\ ~IsCollection(meta) => (CompareType(conn, meta) <=> GenericTypesDiffer(Compile(conn), Compile(meta)))
<1>1. CASE IsCollection(meta)
  BY <1>1 DEF CompareType, IsCollection
<1>2. CASE ~IsCollection(meta)
  BY <1>2 DEF CompareType, IsCollection
<1>3. QED
  BY <1>1, <1>2

\* What the type compiler may send for a type that is no collection.
LEMMA KeptTexts ==
  ASSUME NEW type, IsType(type), ~IsCollection(type)
  PROVE  \/ Compile(type) \in {Bare("STRING"), Bare("FLOAT"), Bare(Referred), LongestBits}
         \/ \E base \in KeptBases : Compile(type) = Bare(base)
         \/ \E base \in {"VARCHAR", "CHAR"} : \E ints :
                /\ Compile(type) = Text(base, ints, <<>>)
                /\ ints = <<>> \/ \E x : ints = <<x>>
         \/ \E ints : /\ Compile(type) = Text("NUMERIC", ints, <<>>)
                      /\ ints = <<>> \/ (\E x : ints = <<x>>) \/ (\E x, y : ints = <<x, y>>)
<1>1. CASE \E class \in PlainClasses : type = Plain(class)
  <2>1. PICK class \in PlainClasses : type = Plain(class)
    BY <1>1
  <2>2. CASE class \in {"Text", "UnicodeText", "Boolean"}
    BY <2>1, <2>2, Compiles DEF KeptBases
  <2>3. CASE class \notin {"Text", "UnicodeText", "Boolean"}
    <3>1. Compile(type) = Bare(class) /\ class \in KeptBases
      BY <2>1, <2>3, Compiles DEF PlainClasses, KeptBases
    <3>2. QED
      BY <3>1
  <2>4. QED
    BY <2>2, <2>3
<1>2. CASE \E class \in LengthClasses \cup {"NUMERIC"} : type = Plain(class) \/ \E x : type = Type(class, <<x>>, <<>>)
  <2>1. PICK class \in LengthClasses \cup {"NUMERIC"} : type = Plain(class) \/ \E x : type = Type(class, <<x>>, <<>>)
    BY <1>2
  <2>2. PICK ints : type = Type(class, ints, <<>>) /\ (ints = <<>> \/ \E x : ints = <<x>>)
    BY <2>1 DEF Plain
  <2>3. CASE class \in Varchars
    <3>1. Compile(type) = Text("VARCHAR", ints, <<>>)
      BY <2>2, <2>3, Compiles
    <3>2. QED
      BY <2>2, <3>1
  <2>4. CASE class \in Chars
    <3>1. Compile(type) = Text("CHAR", ints, <<>>)
      BY <2>2, <2>4, Compiles
    <3>2. QED
      BY <2>2, <3>1
  <2>5. CASE class = "FLOAT"
    <3>1. Compile(type) \in {Bare("FLOAT"), Bare("DOUBLE")}
      BY <2>2, <2>5, Compiles
    <3>2. QED
      BY <3>1 DEF KeptBases
  <2>6. CASE class = "LargeBinary"
    <3>1. Compile(type) = LongestBits
      BY <2>2, <2>6, Compiles
    <3>2. QED
      BY <3>1
  <2>7. CASE class = "NUMERIC"
    <3>1. Compile(type) = Text("NUMERIC", ints, <<>>)
      BY <2>2, <2>7, Compiles
    <3>2. QED
      BY <2>2, <3>1
  <2>8. QED
    BY <2>3, <2>4, <2>5, <2>6, <2>7 DEF LengthClasses, Varchars, Chars
<1>3. CASE \E x, y : type = Type("NUMERIC", <<x, y>>, <<>>)
  <2>1. PICK x, y : type = Type("NUMERIC", <<x, y>>, <<>>)
    BY <1>3
  <2>2. Compile(type) = Text("NUMERIC", <<x, y>>, <<>>)
    BY <2>1, Compiles
  <2>3. QED
    BY <2>2
<1>4. CASE \E class \in CollectionClasses : \E w : type = Type(class, <<>>, <<w>>)
  BY <1>4 DEF IsCollection, Type
<1>5. CASE \E words : type = Type("Enum", <<>>, words)
  <2>1. PICK ints : /\ ints = <<>> \/ \E n : ints = <<n>>
                    /\ Compile(type) = Text("VARCHAR", ints, <<>>)
    BY <1>5, Compiles
  <2>2. QED
    BY <2>1
<1>6. CASE type = Type("CubridOID", <<>>, <<Referred>>)
  BY <1>6, Compiles
<1>7. QED
  BY <1>1, <1>2, <1>3, <1>4, <1>5, <1>6, TypeForms

LEMMA PartsOfText ==
  ASSUME NEW base, NEW ints, NEW words
  PROVE  /\ Text(base, ints, words).base = base
         /\ Text(base, ints, words).ints = ints
         /\ Text(base, ints, words).words = words
  BY DEF Text

LEMMA PartsOfBits == LongestBits.base = "BIT VARYING" /\ LongestBits.ints = <<MaxLength>>
  BY DEF LongestBits, Text

LEMMA PartsOfType ==
  ASSUME NEW class, NEW ints, NEW words
  PROVE  /\ Type(class, ints, words).class = class
         /\ Type(class, ints, words).ints = ints
         /\ Type(class, ints, words).words = words
  BY DEF Type

LEMMA NoWords ==
  ASSUME NEW type, IsType(type), ~IsCollection(type)
  PROVE  Compile(type) = Text(Compile(type).base, Compile(type).ints, <<>>)
<1>1. \E base : \E ints : Compile(type) = Text(base, ints, <<>>)
  BY KeptTexts DEF Bare, LongestBits
<1>2. PICK base, ints : Compile(type) = Text(base, ints, <<>>)
  BY <1>1
<1>3. QED
  BY <1>2, PartsOfText

LEMMA SpelledAlike ==
  ASSUME NEW w, NEW v, ElementDomain(w) = w, Upper(w) = Upper(v)
  PROVE  ElementDomain(v) = w
  BY DEF ElementDomain, Upper, DefaultElement

LEMMA CollectionForm ==
  ASSUME NEW type, IsType(type), IsCollection(type)
  PROVE  \E class \in CollectionClasses : \E w : type = Type(class, <<>>, <<w>>)
<1>1. type.class \in CollectionClasses
  BY DEF IsCollection
<1>2. ASSUME NEW class, NEW ints, NEW words, type = Type(class, ints, words)
      PROVE  class \in CollectionClasses
  BY <1>1, <1>2, PartsOfType
<1>3. \A class \in PlainClasses \cup LengthClasses \cup {"NUMERIC", "Enum", "CubridOID"} :
         class \notin CollectionClasses
  BY DEF PlainClasses, LengthClasses, CollectionClasses
<1>4. /\ ~ \E class \in PlainClasses \cup LengthClasses \cup {"NUMERIC"} : type = Plain(class)
      /\ ~ \E class \in LengthClasses \cup {"NUMERIC"} : \E x : type = Type(class, <<x>>, <<>>)
  BY <1>2, <1>3 DEF Plain
<1>5. /\ ~ \E x, y : type = Type("NUMERIC", <<x, y>>, <<>>)
      /\ ~ \E words : type = Type("Enum", <<>>, words)
      /\ type # Type("CubridOID", <<>>, <<Referred>>)
  BY <1>2, <1>3
<1>6. QED
  BY <1>4, <1>5, TypeForms

\* The names whose texts have no choice of arguments.
LEMMA OneText ==
  ASSUME NEW type, IsType(type), ~IsCollection(type)
  PROVE  /\ Compile(type).base \in KeptBases => Compile(type).ints = <<>>
         /\ Compile(type).base = "BIT VARYING" => Compile(type).ints = <<MaxLength>>
<1> DEFINE text == Compile(type)
<1> SUFFICES /\ text.base \in KeptBases => text.ints = <<>>
             /\ text.base = "BIT VARYING" => text.ints = <<MaxLength>>
  OBVIOUS
<1>1. /\ KeptBases \cap {"STRING", "FLOAT", "VARCHAR", "CHAR", "NUMERIC", "BIT VARYING"} = {}
      /\ "STRING" # "BIT VARYING" /\ "FLOAT" # "BIT VARYING" /\ "person" # "BIT VARYING"
      /\ \A base \in {"VARCHAR", "CHAR", "NUMERIC"} : base # "BIT VARYING"
  BY DEF KeptBases
<1>2. ASSUME NEW base, text = Bare(base), base # "BIT VARYING"
      PROVE  text.ints = <<>> /\ text.base # "BIT VARYING"
  <2>1. Bare(base).base = base /\ Bare(base).ints = <<>>
    BY PartsOfText DEF Bare
  <2> HIDE DEF text
  <2>2. QED
    BY <1>2, <2>1
<1>3. ASSUME NEW base \in {"VARCHAR", "CHAR", "NUMERIC"}, NEW ints, text = Text(base, ints, <<>>)
      PROVE  text.base \notin KeptBases \cup {"BIT VARYING"}
  <2>1. Text(base, ints, <<>>).base = base
    BY PartsOfText
  <2> HIDE DEF text
  <2>2. QED
    BY <1>1, <1>3, <2>1
<1>4. CASE text = LongestBits
  <2> HIDE DEF text
  <2>1. QED
    BY <1>1, <1>4, PartsOfBits
<1>5. CASE text \in {Bare("STRING"), Bare("FLOAT"), Bare(Referred)}
  <2> HIDE DEF text
  <2>1. QED
    BY <1>1, <1>2, <1>5 DEF Referred
<1>6. CASE \E base \in KeptBases : text = Bare(base)
  <2> HIDE DEF text
  <2>1. QED
    BY <1>1, <1>2, <1>6
<1>7. CASE \E base \in {"VARCHAR", "CHAR", "NUMERIC"} : \E ints : text = Text(base, ints, <<>>)
  <2> HIDE DEF text
  <2>1. QED
    BY <1>3, <1>7
<1>8. QED
  <2>1. \/ text \in {Bare("STRING"), Bare("FLOAT"), Bare(Referred)} \/ text = LongestBits
        \/ \E base \in KeptBases : text = Bare(base)
        \/ \E base \in {"VARCHAR", "CHAR"} : \E ints : text = Text(base, ints, <<>>)
        \/ \E ints : text = Text("NUMERIC", ints, <<>>)
    BY KeptTexts
  <2> HIDE DEF text
  <2>2. QED
    BY <1>4, <1>5, <1>6, <1>7, <2>1

\* Two texts of one name: the same text, or texts with other numbers of arguments.
LEMMA QuietTexts ==
  ASSUME NEW conn, IsType(conn), ~IsCollection(conn), NEW meta, IsType(meta),
         ~CompareType(conn, meta)
  PROVE  /\ ~IsCollection(meta)
         /\ Compile(conn).base = Compile(meta).base
         /\ \/ Compile(conn) = Compile(meta)
            \/ Len(Compile(conn).ints) # Len(Compile(meta).ints)
<1>1. ~IsCollection(meta) /\ ~GenericTypesDiffer(Compile(conn), Compile(meta))
  BY Compared
<1>2. /\ Compile(conn) = Text(Compile(conn).base, Compile(conn).ints, <<>>)
      /\ Compile(meta) = Text(Compile(meta).base, Compile(meta).ints, <<>>)
  BY <1>1, NoWords
<1>3. \A had, asked : /\ had = Text(had.base, had.ints, <<>>)
                      /\ asked = Text(asked.base, asked.ints, <<>>)
                      /\ ~GenericTypesDiffer(had, asked)
        => had.base = asked.base /\ (had = asked \/ Len(had.ints) # Len(asked.ints))
  <2> SUFFICES ASSUME NEW had, NEW asked, had = Text(had.base, had.ints, <<>>),
                      asked = Text(asked.base, asked.ints, <<>>), ~GenericTypesDiffer(had, asked)
               PROVE  had.base = asked.base /\ (had = asked \/ Len(had.ints) # Len(asked.ints))
    OBVIOUS
  <2>1. had.base = asked.base /\ (Len(had.ints) # Len(asked.ints) \/ had.ints = asked.ints)
    BY DEF GenericTypesDiffer
  <2>2. QED
    BY <2>1
<1>4. QED
  BY <1>1, <1>2, <1>3

Fewer(conn, meta) == conn.class \in DOMAIN Arities /\ Len(conn.ints) # Len(Compile(meta).ints)

\* What a type reflected without loss compiles to, and with which arguments.
LEMMA Faithful ==
  ASSUME NEW d, IsDomain(d), NEW second \in BOOLEAN,
         ReadBack(d, second) # NullType, ~Lossy(d), ~IsCollection(ReadBack(d, second))
  PROVE  LET conn == ReadBack(d, second) IN
         \/ Compile(conn).base \in KeptBases \cup {"BIT VARYING"}
         \/ conn.class \in DOMAIN Arities /\ Compile(conn).ints = conn.ints
<1> DEFINE P(conn) == \/ Compile(conn).base \in KeptBases \cup {"BIT VARYING"}
                      \/ conn.class \in DOMAIN Arities /\ Compile(conn).ints = conn.ints
<1>1. ASSUME NEW conn, conn = ReadBack(d, second)
      PROVE  P(conn)
  <2>1. ASSUME NEW class \in {"VARCHAR", "CHAR", "NUMERIC"}, NEW ints, conn = Type(class, ints, <<>>)
        PROVE  P(conn)
    <3>1. Compile(conn) = Text(class, ints, <<>>)
      BY <2>1, Compiles DEF Varchars, Chars
    <3>2. conn.class = class /\ conn.ints = ints /\ Text(class, ints, <<>>).ints = ints
      BY <2>1, PartsOfType, PartsOfText
    <3>3. QED
      BY <3>1, <3>2, Lookup
  <2>2. CASE ReadSame(d, conn)
    <3>1. PICK base \in KeptBases : conn = Plain(base)
      BY <2>2 DEF ReadSame
    <3>2. Compile(conn) = Bare(base) /\ Bare(base).base = base
      BY <3>1, Compiles, PartsOfText DEF KeptBases, PlainClasses, Bare
    <3>3. QED
      BY <3>2
  <2>3. CASE ReadLost(d, conn)
    <3>1. PICK base \in LostBases : d = Bare(base)
      BY <2>3 DEF ReadLost
    <3>2. d.base = base
      BY <3>1, PartsOfText DEF Bare
    <3>3. QED
      BY <3>2 DEF Lossy, LostBases
  <2>4. CASE ReadReference(d, conn)
    BY <1>1, <2>4 DEF ReadReference
  <2>5. CASE ReadVarchar(d, conn) \/ ReadChar(d, conn) \/ ReadNumeric(d, conn)
    <3>1. \E class \in {"VARCHAR", "CHAR", "NUMERIC"} : \E ints : conn = Type(class, ints, <<>>)
      BY <2>5 DEF ReadVarchar, ReadChar, ReadNumeric, Plain
    <3>2. QED
      BY <2>1, <3>1
  <2>6. CASE ReadBits(d, conn)
    <3>1. PICK x : conn = Type("LargeBinary", <<x>>, <<>>)
      BY <2>6 DEF ReadBits
    <3>2. Compile(conn) = LongestBits
      BY <3>1, Compiles
    <3>3. QED
      BY <3>2, PartsOfBits
  <2>7. CASE ReadCollection(d, conn)
    <3>1. PICK class \in CollectionClasses, w \in {d.words[1]} : conn = Type(class, <<>>, <<w>>)
      <4>1. PICK class \in CollectionClasses : \E w : /\ d = Text(CollectionTexts[class], <<>>, <<w>>)
                                                      /\ conn = Type(class, <<>>, <<w>>)
        BY <2>7 DEF ReadCollection
      <4>2. PICK w : d = Text(CollectionTexts[class], <<>>, <<w>>) /\ conn = Type(class, <<>>, <<w>>)
        BY <4>1
      <4>3. d.words[1] = w
        BY <4>2, PartsOfText
      <4>4. QED
        BY <4>2, <4>3
    <3>2. conn.class = class
      BY <3>1, PartsOfType
    <3>3. QED
      BY <1>1, <3>2 DEF IsCollection
  <2>8. CASE ReadEnum(d, conn)
    <3>1. PICK words : d = Text("ENUM", <<>>, words)
      BY <2>8 DEF ReadEnum
    <3>2. d.base = "ENUM"
      BY <3>1, PartsOfText
    <3>3. QED
      BY <3>2 DEF Lossy
  <2>9. \/ ReadSame(d, conn) \/ ReadLost(d, conn) \/ ReadReference(d, conn)
        \/ ReadVarchar(d, conn) \/ ReadChar(d, conn) \/ ReadBits(d, conn)
        \/ ReadNumeric(d, conn) \/ ReadCollection(d, conn) \/ ReadEnum(d, conn)
    BY <1>1, ReadForms
  <2> HIDE DEF P
  <2>10. QED
    BY <2>2, <2>3, <2>4, <2>5, <2>6, <2>7, <2>8, <2>9
<1>2. P(ReadBack(d, second))
  <2> HIDE DEF P
  <2>1. QED
    BY <1>1
<1>3. QED
  BY <1>2

\* A collection that compares equal is kept as the same domain.
LEMMA QuietCollection ==
  ASSUME NEW d, NEW second \in BOOLEAN, NEW meta, IsType(meta),
         IsType(ReadBack(d, second)), Domain(Compile(ReadBack(d, second))) = d,
         IsCollection(ReadBack(d, second)), ~CompareType(ReadBack(d, second), meta)
  PROVE  Domain(Compile(meta)) = d
<1>1. PICK conn \in {ReadBack(d, second)} : TRUE
  OBVIOUS
<1>2. IsCollection(meta) /\ conn.class = meta.class /\ Upper(conn.words[1]) = Upper(meta.words[1])
  BY <1>1 DEF CompareType
<1>3. PICK class \in CollectionClasses : \E w : conn = Type(class, <<>>, <<w>>)
  BY <1>1, CollectionForm
<1>4. PICK w : conn = Type(class, <<>>, <<w>>)
  BY <1>3
<1>5. PICK other \in CollectionClasses : \E v : meta = Type(other, <<>>, <<v>>)
  BY <1>2, CollectionForm
<1>6. PICK v : meta = Type(other, <<>>, <<v>>)
  BY <1>5
<1>7. conn.class = class /\ conn.words[1] = w /\ meta.class = other /\ meta.words[1] = v
  BY <1>4, <1>6, PartsOfType
<1>8. class = other /\ Upper(w) = Upper(v)
  BY <1>2, <1>7
<1>9. d = Text(CollectionTexts[class], <<>>, <<ElementDomain(w)>>)
  <2>1. Compile(conn) = Text(CollectionTexts[class], <<>>, <<w>>)
    BY <1>4, Compiles
  <2>2. Domain(Text(CollectionTexts[class], <<>>, <<w>>)) = Text(CollectionTexts[class], <<>>, <<ElementDomain(w)>>)
    BY Keeps
  <2>3. QED
    BY <1>1, <2>1, <2>2
<1>10. Domain(Compile(meta)) = Text(CollectionTexts[class], <<>>, <<ElementDomain(v)>>)
  <2>1. Compile(meta) = Text(CollectionTexts[class], <<>>, <<v>>)
    BY <1>6, <1>8, Compiles
  <2>2. Domain(Text(CollectionTexts[class], <<>>, <<v>>)) = Text(CollectionTexts[class], <<>>, <<ElementDomain(v)>>)
    BY Keeps
  <2>3. QED
    BY <2>1, <2>2
<1>11. ElementDomain(w) = w
  <2>1. CollectionTexts[class] \in CollectionKeywords
    BY DEF CollectionKeywords
  <2>2. ReadBack(Text(CollectionTexts[class], <<>>, <<ElementDomain(w)>>), second)
          = Type(CollectionClass(CollectionTexts[class]), <<>>, <<ElementDomain(w)>>)
    BY <2>1, Reads
  <2>3. conn = Type(CollectionClass(CollectionTexts[class]), <<>>, <<ElementDomain(w)>>)
    BY <1>1, <1>9, <2>2
  <2>4. conn.words = <<ElementDomain(w)>>
    BY <2>3, PartsOfType
  <2>5. QED
    BY <1>7, <2>4
<1>12. ElementDomain(v) = w
  BY <1>8, <1>11, SpelledAlike
<1>13. QED
  BY <1>9, <1>10, <1>11, <1>12

\* Autogenerate overlooks a difference only where reflection loses the type or the
\* two sides give different numbers of arguments.
THEOREM QuietIsSame ==
  ASSUME NEW d, IsDomain(d), NEW second \in BOOLEAN, NEW meta, IsType(meta),
         ~CompareType(ResolveType(ShowColumns(d, second)), meta)
  PROVE  LET conn == ResolveType(ShowColumns(d, second)) IN
         \/ Domain(Compile(meta)) = d
         \/ conn = NullType \/ Lossy(d)
         \/ conn.class \in DOMAIN Arities /\ Len(conn.ints) # Len(Compile(meta).ints)
<1>1. ASSUME NEW conn, conn = ReadBack(d, second), conn # NullType, ~Lossy(d)
      PROVE  Domain(Compile(meta)) = d \/ Fewer(conn, meta)
  <2>1. IsType(conn) /\ Domain(Compile(conn)) = d /\ ~CompareType(conn, meta)
    BY <1>1, RoundTrip DEF ReadBack
  <2>2. CASE IsCollection(conn)
    BY <1>1, <2>1, <2>2, QuietCollection
  <2>3. CASE ~IsCollection(conn)
    <3>1. /\ ~IsCollection(meta)
          /\ Compile(conn).base = Compile(meta).base
          /\ \/ Compile(conn) = Compile(meta)
             \/ Len(Compile(conn).ints) # Len(Compile(meta).ints)
      BY <2>1, <2>3, QuietTexts
    <3>2. CASE Compile(conn) = Compile(meta)
      BY <2>1, <3>2
    <3>3. CASE Len(Compile(conn).ints) # Len(Compile(meta).ints)
      <4>1. /\ Compile(conn).base \in KeptBases =>
                 Compile(conn).ints = <<>> /\ Compile(meta).ints = <<>>
            /\ Compile(conn).base = "BIT VARYING" =>
                 Compile(conn).ints = <<MaxLength>> /\ Compile(meta).ints = <<MaxLength>>
        BY <2>1, <2>3, <3>1, OneText
      <4>2. conn.class \in DOMAIN Arities /\ Compile(conn).ints = conn.ints
        BY <1>1, <2>3, <3>3, <4>1, Faithful
      <4>3. QED
        BY <3>3, <4>2 DEF Fewer
    <3>4. QED
      BY <3>1, <3>2, <3>3
  <2>4. QED
    BY <2>2, <2>3
<1>2. QED
  BY <1>1 DEF ReadBack, Fewer

\* Two types of one name, with the same arguments or another number of them,
\* compare equal.
LEMMA NoDifference ==
  ASSUME NEW conn, ~IsCollection(conn), NEW meta, ~IsCollection(meta),
         NEW base, NEW ints, NEW others,
         Compile(conn) = Text(base, ints, <<>>), Compile(meta) = Text(base, others, <<>>),
         ints = others \/ Len(ints) # Len(others)
  PROVE  ~CompareType(conn, meta)
<1>1. CompareType(conn, meta) <=> GenericTypesDiffer(Text(base, ints, <<>>), Text(base, others, <<>>))
  BY Compared
<1>2. /\ Text(base, ints, <<>>).base = base /\ Text(base, ints, <<>>).ints = ints
      /\ Text(base, others, <<>>).base = base /\ Text(base, others, <<>>).ints = others
  BY PartsOfText
<1>3. ~GenericTypesDiffer(Text(base, ints, <<>>), Text(base, others, <<>>))
  BY <1>2 DEF GenericTypesDiffer
<1>4. QED
  BY <1>1, <1>3

LEMMA NotCollections ==
  /\ \A base \in KeptBases : ~IsCollection(Plain(base))
  /\ \A class \in {"VARCHAR", "CHAR", "NUMERIC", "LargeBinary"} : \A ints :
        ~IsCollection(Type(class, ints, <<>>))
<1>1. ASSUME NEW class \in KeptBases \cup {"VARCHAR", "CHAR", "NUMERIC", "LargeBinary"}, NEW ints
      PROVE  ~IsCollection(Type(class, ints, <<>>))
  <2>1. Type(class, ints, <<>>).class = class
    BY PartsOfType
  <2>2. class \notin CollectionClasses
    BY DEF KeptBases, CollectionClasses
  <2>3. QED
    BY <2>1, <2>2 DEF IsCollection
<1>2. QED
  BY <1>1 DEF Plain

\* A collection comes back with its element type spelled as the server does.
LEMMA CollectionReadsAlike ==
  ASSUME NEW second \in BOOLEAN, NEW meta, IsType(meta), IsCollection(meta), ~ReflectsDifferently(meta)
  PROVE  ~CompareType(ReadBack(Domain(Compile(meta)), second), meta)
<1>1. PICK class \in CollectionClasses : \E w : meta = Type(class, <<>>, <<w>>)
  BY CollectionForm
<1>2. PICK w : meta = Type(class, <<>>, <<w>>)
  BY <1>1
<1>3. meta.class = class /\ meta.words[1] = w
  BY <1>2, PartsOfType
<1>4. Domain(Compile(meta)) = Text(CollectionTexts[class], <<>>, <<ElementDomain(w)>>)
  <2>1. Compile(meta) = Text(CollectionTexts[class], <<>>, <<w>>)
    BY <1>2, Compiles
  <2>2. Domain(Text(CollectionTexts[class], <<>>, <<w>>)) = Text(CollectionTexts[class], <<>>, <<ElementDomain(w)>>)
    BY Keeps
  <2>3. QED
    BY <2>1, <2>2
<1>5. ASSUME NEW conn, conn = ReadBack(Domain(Compile(meta)), second)
      PROVE  ~CompareType(conn, meta)
  <2>1. CollectionTexts[class] \in CollectionKeywords
    BY DEF CollectionKeywords
  <2>2. ReadBack(Text(CollectionTexts[class], <<>>, <<ElementDomain(w)>>), second)
          = Type(CollectionClass(CollectionTexts[class]), <<>>, <<ElementDomain(w)>>)
    BY <2>1, Reads
  <2>3. CollectionClass(CollectionTexts[class]) = class
    BY DEF CollectionClass, CollectionTexts, CollectionClasses
  <2>4. conn = Type(class, <<>>, <<ElementDomain(w)>>)
    BY <1>4, <1>5, <2>2, <2>3
  <2>5. conn.class = class /\ conn.words[1] = ElementDomain(w)
    BY <2>4, PartsOfType
  <2>6. ElementDomain(w) = Upper(w)
    BY <1>3 DEF ReflectsDifferently
  <2>7. Upper(Upper(w)) = Upper(w)
    BY DEF Upper
  <2>8. IsCollection(conn)
    BY <2>5 DEF IsCollection
  <2>9. QED
    BY <1>3, <2>5, <2>6, <2>7, <2>8 DEF CompareType
<1>6. QED
  BY <1>5

\* Autogenerate has nothing to change in a column just made from its model, unless the
\* server keeps the type otherwise or reflection does not know it.
THEOREM FreshColumnIsQuiet ==
  ASSUME NEW second \in BOOLEAN, NEW meta, IsType(meta)
  PROVE  LET conn == ResolveType(ShowColumns(Domain(Compile(meta)), second)) IN
         conn = NullType \/ ~CompareType(conn, meta) \/ ReflectsDifferently(meta)
<1> SUFFICES ASSUME ~ReflectsDifferently(meta)
             PROVE  LET conn == ReadBack(Domain(Compile(meta)), second) IN
                    conn = NullType \/ ~CompareType(conn, meta)
  BY DEF ReadBack
<1>1. CASE IsCollection(meta)
  BY <1>1, CollectionReadsAlike
<1>2. ASSUME ~IsCollection(meta), NEW conn, conn = ReadBack(Domain(Compile(meta)), second)
      PROVE  conn = NullType \/ ~CompareType(conn, meta)
  <2>1. Compile(meta) \notin {Bare("STRING"), Bare("FLOAT")}
    BY DEF ReflectsDifferently
  <2>2. CASE Compile(meta) = Bare(Referred)
    <3>1. Domain(Bare(Referred)) = Bare(Referred) /\ ReadBack(Bare(Referred), second) = NullType
      BY Keeps, Reads
    <3>2. QED
      BY <1>2, <2>2, <3>1
  <2>3. CASE Compile(meta) = LongestBits
    <3>1. Domain(LongestBits) = LongestBits
      BY Keeps DEF LongestBits
    <3>2. ReadBack(LongestBits, second) = Type("LargeBinary", <<MaxLength>>, <<>>)
      BY Reads DEF LongestBits
    <3>3. conn = Type("LargeBinary", <<MaxLength>>, <<>>)
      BY <1>2, <2>3, <3>1, <3>2
    <3>4. Compile(conn) = LongestBits /\ ~IsCollection(conn)
      BY <3>3, Compiles, NotCollections
    <3>5. QED
      BY <1>2, <2>3, <3>4, NoDifference DEF LongestBits
  <2>4. CASE \E base \in KeptBases : Compile(meta) = Bare(base)
    <3>1. PICK base \in KeptBases : Compile(meta) = Bare(base)
      BY <2>4
    <3>2. Domain(Bare(base)) = Bare(base) /\ ReadBack(Bare(base), second) = Plain(base)
      BY Keeps, Reads DEF KeptBases, PlainBases
    <3>3. conn = Plain(base)
      BY <1>2, <3>1, <3>2
    <3>4. Compile(conn) = Bare(base) /\ ~IsCollection(conn)
      BY <3>3, Compiles, NotCollections DEF KeptBases, PlainClasses
    <3>5. QED
      BY <1>2, <3>1, <3>4, NoDifference DEF Bare
  <2>5. ASSUME NEW base \in {"VARCHAR", "CHAR", "NUMERIC"}, NEW ints, NEW others,
               Compile(meta) = Text(base, others, <<>>),
               Domain(Compile(meta)) = Text(base, ints, <<>>),
               ints = others \/ Len(ints) # Len(others),
               conn = Type(base, ints, <<>>)
        PROVE  ~CompareType(conn, meta)
    <3>1. Compile(conn) = Text(base, ints, <<>>) /\ ~IsCollection(conn)
      BY <2>5, Compiles, NotCollections DEF Varchars, Chars
    <3>2. QED
      BY <1>2, <2>5, <3>1, NoDifference
  <2>6. CASE \E ints : /\ Compile(meta) = Text("VARCHAR", ints, <<>>)
                       /\ ints = <<>> \/ \E x : ints = <<x>>
    <3>1. PICK others : /\ Compile(meta) = Text("VARCHAR", others, <<>>)
                        /\ others = <<>> \/ \E x : others = <<x>>
      BY <2>6
    <3>2. PICK x : /\ Domain(Compile(meta)) = Text("VARCHAR", <<x>>, <<>>)
                   /\ others = <<>> \/ others = <<x>>
      <4>1. CASE others = <<>>
        BY <3>1, <4>1, Keeps DEF Bare, Longest
      <4>2. ASSUME NEW x, others = <<x>> PROVE Domain(Compile(meta)) = Text("VARCHAR", <<x>>, <<>>)
        BY <3>1, <4>2, Keeps
      <4>3. QED
        BY <3>1, <4>1, <4>2
    <3>3. \/ ReadBack(Text("VARCHAR", <<x>>, <<>>), second) = Type("VARCHAR", <<x>>, <<>>)
          \/ ReadBack(Text("VARCHAR", <<x>>, <<>>), second) = Plain("VARCHAR")
      BY Reads
    <3>4. CASE conn = Type("VARCHAR", <<x>>, <<>>)
      <4>1. <<x>> = others \/ Len(<<x>>) # Len(others)
        BY <3>2
      <4>2. QED
        BY <2>5, <3>1, <3>2, <3>4, <4>1
    <3>5. CASE conn = Type("VARCHAR", <<>>, <<>>)
      <4>1. <<>> = others \/ Len(<<>>) # Len(others)
        BY <3>2
      <4>2. Compile(conn) = Text("VARCHAR", <<>>, <<>>) /\ ~IsCollection(conn)
        BY <3>5, Compiles, NotCollections DEF Varchars
      <4>3. QED
        BY <1>2, <3>1, <4>1, <4>2, NoDifference
    <3>6. QED
      BY <1>2, <3>2, <3>3, <3>4, <3>5 DEF Plain
  <2>7. CASE \E ints : /\ Compile(meta) = Text("CHAR", ints, <<>>)
                       /\ ints = <<>> \/ \E x : ints = <<x>>
    <3>1. PICK others : /\ Compile(meta) = Text("CHAR", others, <<>>)
                        /\ others = <<>> \/ \E x : others = <<x>>
      BY <2>7
    <3>2. PICK x : /\ Domain(Compile(meta)) = Text("CHAR", <<x>>, <<>>)
                   /\ others = <<>> \/ others = <<x>>
      <4>1. CASE others = <<>>
        BY <3>1, <4>1, Keeps DEF Bare
      <4>2. ASSUME NEW x, others = <<x>> PROVE Domain(Compile(meta)) = Text("CHAR", <<x>>, <<>>)
        BY <3>1, <4>2, Keeps
      <4>3. QED
        BY <3>1, <4>1, <4>2
    <3>3. conn = Type("CHAR", <<x>>, <<>>)
      <4>1. ReadBack(Text("CHAR", <<x>>, <<>>), second) = Type("CHAR", <<x>>, <<>>)
        BY Reads
      <4>2. QED
        BY <1>2, <3>2, <4>1
    <3>4. <<x>> = others \/ Len(<<x>>) # Len(others)
      BY <3>2
    <3>5. QED
      BY <2>5, <3>1, <3>2, <3>3, <3>4
  <2>8. CASE \E ints : /\ Compile(meta) = Text("NUMERIC", ints, <<>>)
                       /\ ints = <<>> \/ (\E x : ints = <<x>>) \/ (\E x, y : ints = <<x, y>>)
    <3>1. PICK others : /\ Compile(meta) = Text("NUMERIC", others, <<>>)
                        /\ others = <<>> \/ (\E x : others = <<x>>) \/ (\E x, y : others = <<x, y>>)
      BY <2>8
    <3>2. PICK x, y : /\ Domain(Compile(meta)) = Text("NUMERIC", <<x, y>>, <<>>)
                      /\ others = <<>> \/ others = <<x>> \/ others = <<x, y>>
      <4>1. CASE others = <<>>
        BY <3>1, <4>1, Keeps DEF Bare
      <4>2. ASSUME NEW x, others = <<x>> PROVE Domain(Compile(meta)) = Text("NUMERIC", <<x, 0>>, <<>>)
        <5>1. \A a : Domain(Text("NUMERIC", <<a>>, <<>>)) = Text("NUMERIC", <<a, 0>>, <<>>)
          BY Keeps
        <5>2. QED
          BY <3>1, <4>2, <5>1
      <4>3. ASSUME NEW x, NEW y, others = <<x, y>>
            PROVE  Domain(Compile(meta)) = Text("NUMERIC", <<x, y>>, <<>>)
        BY <3>1, <4>3, Keeps
      <4>4. QED
        BY <3>1, <4>1, <4>2, <4>3
    <3>3. conn = Type("NUMERIC", <<x, y>>, <<>>)
      <4>1. \A a, b : ReadBack(Text("NUMERIC", <<a, b>>, <<>>), second) = Type("NUMERIC", <<a, b>>, <<>>)
        BY Reads
      <4>2. ReadBack(Text("NUMERIC", <<x, y>>, <<>>), second) = Type("NUMERIC", <<x, y>>, <<>>)
        BY <4>1, Zenon
      <4>3. QED
        BY <1>2, <3>2, <4>2
    <3>4. <<x, y>> = others \/ Len(<<x, y>>) # Len(others)
      BY <3>2
    <3>5. QED
      BY <2>5, <3>1, <3>2, <3>3, <3>4
  <2>9. QED
    BY <1>2, <2>1, <2>2, <2>3, <2>4, <2>6, <2>7, <2>8, KeptTexts
<1>3. QED
  BY <1>1, <1>2
=============================================================================
