--------------------------- MODULE FrameMetadata ----------------------------
(***************************************************************************)
(* The metadata of a frame on the wire: encodeMetadata and decodeMetadata  *)
(* of src/rpc/frame_codec.cpp, a protobuf map<string, string> written by   *)
(* hand.  Bytes are numbers, strings are sequences of bytes, and a map is  *)
(* the sequence of its <<key, value>> pairs in key order.                  *)
(***************************************************************************)
EXTENDS Naturals, Sequences, SequencesExt

CONSTANTS
  Base,      \* what the low bits of a varint's byte count to; 128 in the code
  MaxVarint  \* most bytes decodeVarint takes; 10 in the code

EntryTag == 10  \* kProtoTagMetadataEntry
KeyTag == 10    \* kProtoTagEntryKey
ValueTag == 18  \* kProtoTagEntryValue

(* appendVarint32: the low digits first, all but the last marked by adding Base *)
varint[n \in Nat] == IF n < Base THEN <<n>> ELSE <<Base + (n % Base)>> \o varint[n \div Base]

Delimited(tag, bytes) == <<tag>> \o varint[Len(bytes)] \o bytes

encodeMetadata(meta) ==
  FlattenSeq([i \in DOMAIN meta |->
    Delimited(EntryTag, Delimited(KeyTag, meta[i][1]) \o Delimited(ValueTag, meta[i][2]))])

-----------------------------------------------------------------------------
(* Positions count from 1; end is one past the last byte that may be read.  *)

(* consumed is 0 for a varint that is cut short or too long.  That the code *)
(* computes the value in 64 bits is left out.                               *)
decodeVarint(b, pos, end) ==
  LET digit(k) == b[pos + k - 1]
      lengths == {k \in 1..MaxVarint : /\ pos + k <= end
                                       /\ digit(k) < Base
                                       /\ \A j \in 1..(k - 1) : digit(j) >= Base}
      value[k \in Nat] == IF k = 0 THEN 0 ELSE value[k - 1] + (digit(k) % Base) * Base ^ (k - 1)
  IN  IF lengths = {} THEN [consumed |-> 0, value |-> 0]
      ELSE LET n == CHOOSE k \in lengths : TRUE IN [consumed |-> n, value |-> value[n]]

(* The bytes a length v at pos speaks of.  The length is compared with what *)
(* is left before the varint itself is taken.                               *)
Slice(v, pos, end) ==
  [ok |-> v.consumed # 0 /\ v.value <= end - pos,
   from |-> pos + v.consumed, next |-> pos + v.consumed + v.value]

(* what follows a tag at pos *)
Measured(b, pos, end) == Slice(decodeVarint(b, pos + 1, end), pos + 1, end)

Failed == [ok |-> FALSE, pos |-> 0, items |-> <<>>]
Finished(pos) == [ok |-> TRUE, pos |-> pos, items |-> <<>>]
Before(item, rest) == [rest EXCEPT !.items = <<item>> \o @]

(* the fields of one entry *)
decodeFields(b, start, end) ==
  LET fields[pos \in Nat] ==
        IF pos >= end THEN Finished(pos)
        ELSE LET m == Measured(b, pos, end)
             IN  IF b[pos] % 8 # 2 \/ ~m.ok THEN Failed
                 ELSE Before([num |-> b[pos] \div 8, bytes |-> SubSeq(b, m.from, m.next - 1)],
                             fields[m.next])
  IN  fields[start]

Numbered(fields, n) == SelectSeq(fields, LAMBDA f : f.num = n)
LastBytes(fields) == IF fields = <<>> THEN <<>> ELSE Last(fields).bytes

(* unknown fields are skipped, the last of several keys or values counts,   *)
(* a key there must be                                                      *)
decodeMetadata(b, length) ==
  LET entries[pos \in Nat] ==
        IF pos > length THEN Finished(pos)
        ELSE LET m == Measured(b, pos, length + 1)
                 r == decodeFields(b, m.from, m.next)
                 keys == Numbered(r.items, 1)
             IN  IF b[pos] # EntryTag \/ ~m.ok THEN Failed
                 ELSE IF ~r.ok \/ keys = <<>> THEN Failed
                 ELSE Before(<<LastBytes(keys), LastBytes(Numbered(r.items, 2))>>, entries[r.pos])
  IN  entries[1]

(* the map the entries are put into, one after the other *)
AsMap(items) ==
  [k \in {items[i][1] : i \in DOMAIN items} |->
     items[CHOOSE i \in DOMAIN items : /\ items[i][1] = k
                                       /\ \A j \in DOMAIN items : items[j][1] = k => j <= i][2]]
=============================================================================
