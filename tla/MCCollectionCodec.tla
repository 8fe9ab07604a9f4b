-------------------------- MODULE MCCollectionCodec --------------------------
(* The deliveries TLC tries, and the server's encoding of a collection. *)
EXTENDS CollectionCodec

CONSTANTS
    MaxItems,           \* items of an encoded collection
    MaxBody             \* bytes of an arbitrary body

\* Characters of one to four bytes.
a == <<97>>
eacute == <<195, 169>>
euro == <<226, 130, 172>>
clef == <<240, 157, 132, 158>>

ItemTexts == {<<>>, <<a>>, <<eacute>>, <<a, euro>>, <<clef, a>>}

\* One element: size, the text and its terminating null, and the padding.
Wire(bytes) == <<Len(bytes) + 1>> \o bytes \o <<0, 0, 0, 0>>

\* The last element goes without padding, and may go without the null.
LastWire(bytes, terminated) ==
    <<Len(bytes) + 1>> \o bytes \o (IF terminated THEN <<0>> ELSE <<>>)

Encode(items, terminated) ==
    IF items = <<>>
      THEN <<>>
      ELSE LET wires == [k \in 1..Len(items) - 1 |-> Wire(Utf8(items[k]))]
           IN  FlattenSeq(wires) \o LastWire(Utf8(Last(items)), terminated)

Delivery(column, pytype, head, count, body, elements, items, form) ==
    [ column |-> column,
      value  |-> [ pytype |-> pytype, head |-> head, count |-> count, body |-> body,
                   elements |-> elements ],
      items  |-> items,
      form   |-> form ]

Collections == BoundedSeq(ItemTexts, MaxItems)

WholeInputs ==
    { Delivery(column, "bytes", HeaderSize, Len(items), Encode(items, terminated),
               <<>>, items, "whole")
      : column \in {"SET", "SEQUENCE"}, items \in Collections, terminated \in BOOLEAN }

CutInputs ==
    UNION { { Delivery(column, "str", HeaderSize, Len(items),
                       SubSeq(Encode(items, TRUE), 1, len), <<>>, items, "cut")
              : column \in {"SET", "MULTISET"}, len \in 0..Len(Encode(items, TRUE)) }
            : items \in Collections }

AnyInputs ==
    { Delivery("SEQUENCE", "bytes", HeaderSize, count, body, <<>>, <<>>, "any")
      : count \in {0, 1, 2, 1000},
        body \in BoundedSeq({0, 1, 3, 169, 195}, MaxBody) }

\* Every type there is, with a header that is not all there; a loop over the
\* value yields two texts.
OtherInputs ==
    { Delivery(column, pytype, head, 0, <<>>, <<<<eacute>>, <<a>>>>, <<>>, "any")
      : column \in Columns,
        pytype \in {"None", "set", "list", "bytes", "str", "wide", "bytearray"},
        head \in 0..HeaderSize - 1 }

MCInputs == WholeInputs \cup CutInputs \cup AnyInputs \cup OtherInputs
=============================================================================
