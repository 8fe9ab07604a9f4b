---------------------------- MODULE MCMigration ----------------------------
(* The types, domains, classes and servers TLC tries. *)
EXTENDS Migration

MCColumns == <<"c1", "c2">>

Varchar(n) == Text("VARCHAR", <<n>>, <<>>)

MCTypesOf ==
    [ c1 |-> { NoType, Plain("Boolean"), Type("NVARCHAR", <<50>>, <<>>), Plain("VARCHAR"),
               Plain("Text"), Type("FLOAT", <<5>>, <<>>), Type("NUMERIC", <<10, 2>>, <<>>),
               Type("NUMERIC", <<10>>, <<>>),
               Type("Enum", <<>>, <<"on", "off">>), Type("CubridSet", <<>>, <<"varchar(50)">>),
               Type("CubridSet", <<>>, <<"INT">>), Type("CubridList", <<>>, <<"INTEGER">>),
               Type("CubridOID", <<>>, <<"person">>) },
      c2 |-> {NoType, Plain("INTEGER")} ]

MCLaterTypesOf ==
    [ c1 |-> {NoType, Plain("Text"), Type("CubridOID", <<>>, <<"person">>)},
      c2 |-> {Plain("INTEGER")} ]

MCDomainsOf ==
    [ c1 |-> { NoDomain, Bare("SMALLINT"), Varchar(50), Varchar(MaxLength), Bare("FLOAT"),
               Text("NUMERIC", <<10, 2>>, <<>>), Text("BIT", <<8>>, <<>>),
               Text("BIT VARYING", <<100>>, <<>>),
               Text("ENUM", <<>>, <<"on", "off">>), Bare("TIMESTAMPTZ"),
               Text("SET_OF", <<>>, <<"VARCHAR(50)">>),
               Text("SEQUENCE_OF", <<>>, <<"INTEGER">>) },
      c2 |-> {NoDomain} ]

Key(autoincrement, default) ==
    [ type |-> Plain("INTEGER"), primary_key |-> TRUE, autoincrement |-> autoincrement,
      default |-> default, server_default |-> "none" ]

Element(construct, dont_reuse_oid, columns) ==
    [construct |-> construct, dont_reuse_oid |-> dont_reuse_oid, columns |-> columns]

MCClasses ==
    { Element("Table", TRUE, <<Key("auto", "none"), Key("auto", "none")>>),
      Element("CreateTableDontReuseOID", FALSE, <<Key("auto", "none")>>),
      Element("CreateTableUnder", FALSE, <<Key("auto", "none"), Key("auto", "none")>>) }

Number(n) == [number |-> n]

\* "10.2.1" and "11.0.beta"
Server(components, bySecondName) ==
    [version |-> [i \in DOMAIN components |-> [number |-> components[i]]],
     bySecondName |-> bySecondName]

MCServers ==
    {Server(<<10, 2, 1>>, TRUE), Server(<<11, 0, NoNumber>>, FALSE)}
=============================================================================
