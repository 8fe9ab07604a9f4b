--------------------------- MODULE CollectionCodec ---------------------------
(****************************************************************************)
(* Reading a SET, MULTISET or LIST column (types.py): the result processor   *)
(* of the column, which passes a native value through, or else tries         *)
(* _parse_collection_bytes and falls back when it answers None.              *)
(*                                                                           *)
(* A value is what pycubrid delivered: its Python type, how many of the 8    *)
(* header bytes it has, the count the header holds, the bytes after the      *)
(* header, and the texts a loop over it yields. A character is the sequence  *)
(* of its UTF-8 bytes, and a text is a sequence of characters.               *)
(****************************************************************************)
EXTENDS Integers, SequencesExt

CONSTANTS
    Inputs              \* the deliveries: the column they are for, a value,
                        \*   the items the server sent, and how the value
                        \*   relates to their encoding: "whole", "cut" short,
                        \*   or "any" value at all

Byte == 0..255
HeaderSize == 8

-----------------------------------------------------------------------------
(* UTF-8 (the Unicode standard, table 3-7). *)

\* How many bytes a character takes that begins with lead; 0 if none does.
Width(lead) ==
    CASE lead \in 0..127   -> 1
      [] lead \in 194..223 -> 2
      [] lead \in 224..239 -> 3
      [] lead \in 240..244 -> 4
      [] OTHER             -> 0

\* The bytes that may follow lead at place k.
Following(lead, k) ==
    CASE k = 2 /\ lead = 224 -> 160..191
      [] k = 2 /\ lead = 237 -> 128..159
      [] k = 2 /\ lead = 240 -> 144..191
      [] k = 2 /\ lead = 244 -> 128..143
      [] OTHER               -> 128..191

\* s is a character, or its first bytes.
Starts(s) ==
    /\ s # <<>>
    /\ Len(s) <= Width(s[1])
    /\ \A k \in 2..Len(s) : s[k] \in Following(s[1], k)

IsCharacter(s) == Starts(s) /\ Len(s) = Width(s[1])

Character == { s \in Seq(Byte) : IsCharacter(s) }
Text == Seq(Character)

Replacement == <<239, 191, 189>>    \* U+FFFD

Utf8(text) == FlattenSeq(text)

-----------------------------------------------------------------------------
(* What is delivered. *)

Columns == {"SET", "MULTISET", "SEQUENCE"}

\* "wide" is a str with a character that latin-1 does not have.
Values ==
    [ pytype   : {"None", "set", "list", "bytes", "str", "wide", "bytearray"},
      head     : 0..HeaderSize,
      count    : Nat,
      body     : Seq(Byte),
      elements : Seq(Text) ]

Deliveries ==
    [ column : Columns,
      value  : Values,
      items  : Seq(Text),
      form   : {"whole", "cut", "any"} ]

\* The items as the server stores them.
Stored(items) == [k \in DOMAIN items |-> Utf8(items[k])]

\* Where each element begins: after the ones before it, each of them a size
\* byte, the text and its null, and 3 bytes of padding.
Begins(stored) ==
    LET begins[k \in 0..Len(stored)] ==
          IF k = 0 THEN 0 ELSE begins[k - 1] + 1 + (Len(stored[k]) + 1) + 3
    IN  begins

\* As much of the wire format of the items as the body holds: the size byte
\* counts the null. Nothing is said of the nulls and of the padding.
LaidOut(stored, body) ==
    \A k \in DOMAIN stored :
      LET from == Begins(stored)[k - 1]
      IN  /\ from < Len(body) => body[from + 1] = Len(stored[k]) + 1
          /\ \A j \in DOMAIN stored[k] :
               from + 1 + j <= Len(body) => body[from + 1 + j] = stored[k][j]

\* Every text is there; the last null and any padding need not be.
Complete(stored, body) ==
    \A k \in DOMAIN stored : Begins(stored)[k - 1] + 1 + Len(stored[k]) <= Len(body)

ASSUME InputsAssumption ==
    \A d \in Inputs :
      /\ d \in Deliveries
      /\ d.form # "any" =>
           /\ d.value.count = Len(d.items)
           /\ LaidOut(Stored(d.items), d.value.body)
      /\ d.form = "whole" => Complete(Stored(d.items), d.value.body)

VARIABLES
    input,              \* the delivery being read
    pc,                 \* "start", "loop", and how the processor ends: "done"
                        \*   with a collection, "none" with None, "raised"
    i,                  \* elements read
    offset,             \* the parser's offset, less the header
    results,            \* the list the parser builds
    result              \* the collection the processor returns

vars == <<input, pc, i, offset, results, result>>

value == input.value
Available == Len(value.body) - offset

\* set(...) for a SET column: neither order nor repetitions.
AsColumn(texts) == IF input.column = "SET" THEN Range(texts) ELSE texts

TypeOK ==
    /\ input \in Deliveries
    /\ pc \in {"start", "loop", "done", "none", "raised"}
    /\ i \in Nat
    /\ offset \in Nat
    /\ results \in Seq(Text)
    /\ result \in IF input.column = "SET" THEN SUBSET Text ELSE Seq(Text)

Init ==
    /\ input \in Inputs
    /\ pc = "start"
    /\ i = 0
    /\ offset = 0
    /\ results = <<>>
    /\ result = AsColumn(<<>>)

-----------------------------------------------------------------------------

Least(a, b) == IF a < b THEN a ELSE b

\* The decoder with the bytes s in hand that follow text: it has a character,
\* waits for the rest of one, or replaces what begins none.
Take(text, s) ==
    CASE IsCharacter(s)                -> [text |-> Append(text, s), pending |-> <<>>]
      [] Starts(s) /\ ~IsCharacter(s) -> [text |-> text, pending |-> s]
      [] OTHER                         -> [text |-> Append(text, Replacement),
                                           pending |-> <<>>]

\* A character that does not go on is replaced, all of it by one U+FFFD.
Closed(state) ==
    IF state.pending = <<>> THEN state.text ELSE Append(state.text, Replacement)

\* The text so far, and the first bytes of a character.
DecoderStates == [text : Text, pending : Seq(Byte)]

\* A byte arrives that goes on with the bytes in hand, or does not.
OneMore(byte) ==
    [state \in DecoderStates |->
       IF Starts(Append(state.pending, byte))
         THEN Take(state.text, Append(state.pending, byte))
         ELSE Take(Closed(state), <<byte>>)]

Decoder(bytes) ==
    LET decoder[n \in 0..Len(bytes)] ==
          IF n = 0 THEN [text |-> <<>>, pending |-> <<>>]
                   ELSE OneMore(bytes[n])[decoder[n - 1]]
    IN  decoder

\* Mutant: the text is taken for latin-1.
DecodeLatin1(bytes) == [k \in DOMAIN bytes |-> <<bytes[k]>>]

\* bytes.decode("utf-8", errors="replace")
Decode(bytes) == Closed(Decoder(bytes)[Len(bytes)])

\* What a column's processor returns as it is.
Native == IF input.column = "SET" THEN "set" ELSE "list"

PassNone ==
    /\ pc = "start"
    /\ value.pytype = "None"
    /\ pc' = "none"
    /\ UNCHANGED <<input, i, offset, results, result>>

PassNative ==
    /\ pc = "start"
    /\ value.pytype = Native
    /\ pc' = "done"
    /\ result' = AsColumn(value.elements)
    /\ UNCHANGED <<input, i, offset, results>>

\* raw.encode("latin-1") raises, out of the processor.
EncodeRaises ==
    /\ pc = "start"
    /\ value.pytype = "wide"
    /\ pc' = "raised"
    /\ UNCHANGED <<input, i, offset, results, result>>

Parseable == value.pytype \in {"bytes", "str"} /\ value.head = HeaderSize

\* The processor's last resort: nothing for bytes, otherwise one string for
\* each thing a loop over the value yields - for a str, its characters.
Fallback ==
    IF value.pytype \in {"bytes", "bytearray"} THEN <<>> ELSE value.elements

Reject ==
    /\ pc = "start"
    /\ value.pytype \notin {"None", Native, "wide"}
    /\ ~Parseable
    /\ pc' = "done"
    /\ result' = AsColumn(Fallback)
    /\ UNCHANGED <<input, i, offset, results>>

Enter ==
    /\ pc = "start"
    /\ Parseable
    /\ pc' = "loop"
    /\ UNCHANGED <<input, i, offset, results, result>>

\* Mutant: no padding is skipped.
NoPadding == 0

\* The 3 bytes between an element and the next; none after the last.
Padding == IF i = value.count - 1 THEN 0 ELSE 3

\* Mutant: the size byte is believed.
SizeBelieved(size, available) == size

\* How far one element moves the offset past its size byte.
Advance(size, available) == Least(size, available)

Element ==
    /\ pc = "loop"
    /\ i < value.count
    /\ offset < Len(value.body)
    /\ LET size == value.body[offset + 1]
           available == Available - 1
           read_len == IF size > 1 THEN Least(size - 1, available) ELSE 0
       IN  /\ results' = Append(results, Decode(SubSeq(value.body, offset + 2,
                                                        offset + 1 + read_len)))
           /\ offset' = offset + 1 + Advance(size, available) + Padding
    /\ i' = i + 1
    /\ UNCHANGED <<input, pc, result>>

\* Mutant: the loop runs for the header's count, whatever the data holds.
RunsToCount == i = value.count

AtEnd == i = value.count \/ offset >= Len(value.body)

Finish ==
    /\ pc = "loop"
    /\ AtEnd
    /\ pc' = "done"
    /\ result' = AsColumn(results)
    /\ UNCHANGED <<input, i, offset, results>>

Next == PassNone \/ PassNative \/ EncodeRaises \/ Reject \/ Enter \/ Element \/ Finish

\* A processor that is called runs to its end.
Spec == Init /\ [][Next]_vars /\ WF_vars(Next)

-----------------------------------------------------------------------------
(* Properties *)

\* The bounds of _parse_collection_bytes, for any bytes and any count: the
\* offset never leaves the data by more than a padding, every element took at
\* least the byte that held its size, and no more elements than announced.
InBounds ==
    /\ offset <= Len(value.body) + 3
    /\ Len(results) = i
    /\ i <= value.count
    /\ i <= offset

\* The dialect reads back what the server encoded, with or without the last
\* element's null terminator; a SET column as the set of the texts.
ReadsBack ==
    (pc = "done" /\ input.form = "whole" /\ Parseable) =>
      result = AsColumn(input.items)

\* What may be left of a text that lost its end: the characters that arrived,
\* and one U+FFFD where the cut went through a character.
Remnants(text) ==
    { SubSeq(text, 1, k) : k \in 0..Len(text) }
    \cup { Append(SubSeq(text, 1, k), Replacement) :
           k \in { k \in 0..Len(text) - 1 : Len(text[k + 1]) > 1 } }

\* Cut anywhere, the data yields the first items, and only the last of them
\* may be a remnant of what was stored.
CutIsPrefix ==
    (pc = "done" /\ input.form = "cut" /\ Parseable) =>
      \/ result = AsColumn(<<>>)
      \/ \E n \in DOMAIN input.items : \E rest \in Remnants(input.items[n]) :
           result = AsColumn(Append(SubSeq(input.items, 1, n - 1), rest))

\* The processor ends, however large the count in the header.
Terminates == <>(pc \in {"done", "none", "raised"})

Returned == IF input.column = "SET" THEN result ELSE Range(result)

\* CHANGELOG.md:31: no silent corruption on malformed input, so whatever the
\* processor returns of a value that lost its end was in the collection.
NoSilentCorruption ==
    (pc = "done" /\ input.form = "cut") => Returned \subseteq Range(input.items)
=============================================================================
