------------------------------ MODULE Segment -------------------------------
(***************************************************************************)
(* The columnar raw segment file: what RawSegmentWriter writes and what    *)
(* RawSegmentReader reads back.  A row has one column of each kind the     *)
(* format knows: id (plain), kind (run lengths), account and product       *)
(* (dictionary), model (dictionary of a nullable string), ts (delta) and   *)
(* qty (zigzag and varint).  The other columns of the file are encoded     *)
(* like one of these.                                                      *)
(*                                                                         *)
(* Widths are parameters: the code has TimeBits = 64, QtyBits = 128 and    *)
(* GroupBits = 7.  bincode and the compression codecs are lossless pairs   *)
(* and left out.  The checksum is the body itself: blake3 has no           *)
(* collision that matters here.                                            *)
(***************************************************************************)
EXTENDS Integers, Sequences, FiniteSets, SequencesExt

CONSTANTS
  TimeBits,   \* width of an i64
  QtyBits,    \* width of an i128
  GroupBits,  \* payload bits of a varint byte
  None,       \* the absent model_id
  Corrupt     \* the error of a reader

ASSUME SegmentAssumption == {TimeBits, QtyBits, GroupBits} \subseteq Nat \ {0}

Kinds == <<"Usage", "Correction", "Retraction">>

-----------------------------------------------------------------------------
(* Fixed-width integers *)

\* The signed value of the low w bits of n: two's complement wrap-around.
Wrap(n, w) ==
  LET u == n % 2^w IN IF u < 2^(w-1) THEN u ELSE u - 2^w

-----------------------------------------------------------------------------
(* Column encodings *)

\* encode_delta_i64 and the Delta arm of decode_i64.
EncodeDelta(values) ==
  [i \in DOMAIN values |-> Wrap(values[i] - (IF i = 1 THEN 0 ELSE values[i - 1]), TimeBits)]

DecodeDelta(deltas) ==
  LET add(out, d) == Append(out, Wrap((IF out = <<>> THEN 0 ELSE Last(out)) + d, TimeBits))
  IN FoldLeft(add, <<>>, deltas)

\* Mutant: the sign is not folded in.
ZigzagUnsigned(n) == (2 * n) % 2^QtyBits

\* zigzag_i128: the shifted value, complemented when n is negative.
Zigzag(n) ==
  LET shifted == (2 * n) % 2^QtyBits
  IN IF n < 0 THEN 2^QtyBits - 1 - shifted ELSE shifted

Unzigzag(x) == IF x % 2 = 0 THEN x \div 2 ELSE -(x \div 2) - 1

\* The bytes of one varint: groups of GroupBits, the top bit set on all but the
\* last.
RECURSIVE Varint(_)
Varint(x) ==
  IF x < 2^GroupBits THEN <<x>>
  ELSE <<(x % 2^GroupBits) + 2^GroupBits>> \o Varint(x \div 2^GroupBits)

\* encode_zigzag_varint_i128: the count, then the varints.
EncodeZigzagVarint(values) ==
  [count |-> Len(values), bytes |-> FlattenSeq([i \in DOMAIN values |-> Varint(Zigzag(values[i]))])]

\* decode_zigzag_varint: count varints are read, the bytes may not run out, and
\* no varint may be wider than the type.
RECURSIVE ReadVarints(_, _, _, _, _)
ReadVarints(count, bytes, x, shift, out) ==
  IF count = 0 THEN out
  ELSE IF bytes = <<>> THEN Corrupt
  ELSE LET b == Head(bytes)
           y == (x + (b % 2^GroupBits) * 2^shift) % 2^QtyBits
       IN IF b < 2^GroupBits THEN ReadVarints(count - 1, Tail(bytes), 0, 0, Append(out, Unzigzag(y)))
          ELSE IF shift + GroupBits >= QtyBits THEN Corrupt
          ELSE ReadVarints(count, Tail(bytes), y, shift + GroupBits, out)

DecodeZigzagVarint(p) == ReadVarints(p.count, p.bytes, 0, 0, <<>>)

\* encode_rle_u8 and decode_rle_u8.
EncodeRle(values) ==
  LET extend(runs, v) ==
        IF runs # <<>> /\ Last(runs).v = v
        THEN [runs EXCEPT ![Len(runs)].n = @ + 1]
        ELSE Append(runs, [v |-> v, n |-> 1])
  IN FoldLeft(extend, <<>>, values)

DecodeRle(runs) == FlattenSeq([i \in DOMAIN runs |-> [k \in 1..runs[i].n |-> runs[i].v]])

\* encode_dict_strings and encode_dict_option_strings: the distinct values in
\* the order of their first occurrence, and an index per row (from 0; None has
\* no entry).
EncodeDict(values) ==
  LET enter(dict, v) == IF v = None \/ v \in ToSet(dict) THEN dict ELSE Append(dict, v)
      dict == FoldLeft(enter, <<>>, values)
      index(v) == (CHOOSE k \in DOMAIN dict : dict[k] = v) - 1
  IN [dict |-> dict, indices |-> [i \in DOMAIN values |-> IF values[i] = None THEN None ELSE index(values[i])]]

DecodeDict(p) ==
  IF \E i \in DOMAIN p.indices : p.indices[i] # None /\ p.indices[i] + 1 \notin DOMAIN p.dict
  THEN Corrupt
  ELSE [i \in DOMAIN p.indices |-> IF p.indices[i] = None THEN None ELSE p.dict[p.indices[i] + 1]]

-----------------------------------------------------------------------------
(* The file *)

\* The encoding the writer chooses for each column.
Encodings ==
  [id |-> "Plain", kind |-> "Rle", account |-> "Dictionary", product |-> "Dictionary",
   model |-> "Dictionary", ts |-> "Delta", qty |-> "Zigzag"]

\* The encodings the reader accepts for each column.
Accepted ==
  [c \in DOMAIN Encodings |->
     IF c = "id" THEN {"Plain", "Dictionary"} ELSE {"Plain", Encodings[c]}]

Encode(encoding, values) ==
  CASE encoding = "Plain"      -> values
    [] encoding = "Rle"        -> EncodeRle(values)
    [] encoding = "Dictionary" -> EncodeDict(values)
    [] encoding = "Delta"      -> EncodeDelta(values)
    [] encoding = "Zigzag"     -> EncodeZigzagVarint(values)

\* decode_plain, decode_strings, decode_option_strings, decode_i64, decode_i128
\* and decode_u8.
Decode(column) ==
  CASE column.encoding = "Plain"      -> column.payload
    [] column.encoding = "Rle"        -> DecodeRle(column.payload)
    [] column.encoding = "Dictionary" -> DecodeDict(column.payload)
    [] column.encoding = "Delta"      -> DecodeDelta(column.payload)
    [] column.encoding = "Zigzag"     -> DecodeZigzagVarint(column.payload)

\* encode_kind: the discriminant.
KindByte(kind) == (CHOOSE k \in DOMAIN Kinds : Kinds[k] = kind) - 1

\* write_event: the rows, by column.
ColumnOf(rows, c) ==
  [i \in DOMAIN rows |-> IF c = "kind" THEN KindByte(rows[i].kind) ELSE rows[i][c]]

\* RawSegmentWriter::finish.
Finish(rows) ==
  LET body == [magic |-> TRUE, version |-> 1, rowCount |-> Len(rows),
               columns |-> [c \in DOMAIN Encodings |->
                              [encoding |-> Encodings[c], payload |-> Encode(Encodings[c], ColumnOf(rows, c))]]]
  IN [body |-> body, checksum |-> body, endMagic |-> TRUE]

\* The checks of RawSegmentReader::new, in its order.
Readable(file) ==
  /\ file.endMagic
  /\ file.checksum = file.body
  /\ file.body.magic
  /\ file.body.version = 1
  /\ DOMAIN Encodings \subseteq DOMAIN file.body.columns
  /\ \A c \in DOMAIN Encodings :
       LET column == file.body.columns[c]
       IN /\ column.encoding \in Accepted[c]
          /\ Decode(column) # Corrupt
          /\ Len(Decode(column)) = file.body.rowCount

\* RawSegmentReader::new followed by read_next to the end.
Rows(file) ==
  LET column == [c \in DOMAIN Encodings |-> Decode(file.body.columns[c])]
  IN [i \in 1..file.body.rowCount |->
        [c \in DOMAIN Encodings |-> IF c = "kind" THEN Kinds[column[c][i] + 1] ELSE column[c][i]]]

=============================================================================
