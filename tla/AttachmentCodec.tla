---------------------------- MODULE AttachmentCodec ----------------------------
(***************************************************************************)
(* The attachment carried by every request and reply: AttachmentData       *)
(* (src/.../detail/attachment_helpers.cpp) and the helper that builds it,  *)
(* create_map_and_set_sequence_num (zenoh_utils.cpp).                      *)
(*                                                                         *)
(* serialize_to_zbytes writes, with zenoh's serializer, the key string     *)
(* "sequence_number" and an int64, "source_timestamp" and an int64,        *)
(* "source_gid" and a 16-byte buffer.  The decoding constructor reads them *)
(* back with a deserializer and throws std::runtime_error at the first    *)
(* key or value it does not like.                                          *)
(*                                                                         *)
(* The wire is modelled byte by byte, with the widths as constants: a      *)
(* byte holds Base values (2^8 in the code); a length is an unsigned       *)
(* LEB128 varint whose groups hold Base \div 2 values and whose top value  *)
(* marks a continuation; an int64 is IntBytes bytes of two's complement,   *)
(* least significant first; a string or a buffer is its length followed    *)
(* by its bytes.  The three key names are byte strings given as constants. *)
(*                                                                         *)
(* The decoder is a state machine over the bytes of one attachment, one    *)
(* step per field, so that the runs see where it stops.  It records the   *)
(* owned zenoh objects (the key string, the gid slice) that are still     *)
(* allocated when it throws.                                               *)
(***************************************************************************)
EXTENDS Integers, Sequences, SequencesExt

CONSTANTS
  Base,         \* values of one byte
  IntBytes,     \* bytes of an int64
  GidLen,       \* RMW_GID_STORAGE_SIZE
  SeqKey,       \* the bytes of "sequence_number"
  TsKey,        \* the bytes of "source_timestamp"
  GidKey,       \* the bytes of "source_gid"
  Attachments,  \* the (sequence number, timestamp, gid) triples encoded
  NoValue       \* a field the constructor has not assigned

ASSUME BaseAssumption == Base \in Nat /\ Base >= 2 /\ Base % 2 = 0
ASSUME IntBytesAssumption == IntBytes \in Nat \ {0}
ASSUME GidLenAssumption == GidLen \in Nat \ {0}

Bytes == 0..(Base - 1)
Half == Base \div 2
IntModulus == Base ^ IntBytes
Int64 == (-(IntModulus \div 2))..((IntModulus \div 2) - 1)

ASSUME KeysAssumption ==
  /\ \A k \in {SeqKey, TsKey, GidKey} : k \in Seq(Bytes) /\ k # <<>>
  /\ Attachments \subseteq [sequence_number : Int64,
                            source_timestamp : Int64,
                            source_gid : [1..GidLen -> Bytes]]

-----------------------------------------------------------------------------
(* The serializer.                                                          *)

\* Unsigned LEB128 of a length n.
VarintBytes(n) ==
  LET k == CHOOSE k \in 1..(n + 1) : n < Half ^ k /\ (k = 1 \/ n >= Half ^ (k - 1))
  IN  [i \in 1..k |-> ((n \div Half ^ (i - 1)) % Half) + (IF i < k THEN Half ELSE 0)]

\* ze_serializer_serialize_int64: two's complement, little endian.
Int64Bytes(n) == [i \in 1..IntBytes |-> ((n % IntModulus) \div Base ^ (i - 1)) % Base]

\* ze_serializer_serialize_str and ze_serializer_serialize_buf.
LengthPrefixed(s) == VarintBytes(Len(s)) \o s

\* AttachmentData::serialize_to_zbytes.
serialize_to_zbytes(a) ==
  LengthPrefixed(SeqKey) \o Int64Bytes(a.sequence_number)
  \o LengthPrefixed(TsKey) \o Int64Bytes(a.source_timestamp)
  \o LengthPrefixed(GidKey) \o LengthPrefixed(a.source_gid)

\* create_map_and_set_sequence_num: the timestamp is the system clock.
create_map_and_set_sequence_num(sequence_number, now, gid) ==
  serialize_to_zbytes([sequence_number |-> sequence_number,
                       source_timestamp |-> now, source_gid |-> gid])

-----------------------------------------------------------------------------
(* The deserializer: each read answers [ok, val, next].  A failed string   *)
(* or slice read leaves an empty (gravestone) object, which owns nothing.  *)

Failed == [ok |-> FALSE, val |-> <<>>, next |-> 0]

\* An unsigned LEB128 starting at p: it ends at the first byte below Half.
ReadVarint(s, p) ==
  LET ends == {j \in p..Len(s) : s[j] < Half}
  IN  IF ends = {} THEN Failed
      ELSE LET j == CHOOSE j \in ends : \A i \in ends : j <= i
               f == [i \in p..j |-> (s[i] % Half) * Half ^ (i - p)]
           IN  [ok |-> TRUE, val |-> SumFunction(f), next |-> j + 1]

\* Mutant: the bounds check off by one, failing a read that ends at the
\* last byte.
ReadLengthPrefixedOffByOne(s, p) ==
  LET n == ReadVarint(s, p)
  IN  IF ~n.ok \/ n.next + n.val > Len(s) THEN Failed
      ELSE [ok |-> TRUE, val |-> SubSeq(s, n.next, n.next + n.val - 1),
            next |-> n.next + n.val]

\* ze_deserializer_deserialize_string / _slice: a length, then that many bytes.
ReadLengthPrefixed(s, p) ==
  LET n == ReadVarint(s, p)
  IN  IF ~n.ok \/ n.next + n.val - 1 > Len(s) THEN Failed
      ELSE [ok |-> TRUE, val |-> SubSeq(s, n.next, n.next + n.val - 1),
            next |-> n.next + n.val]

\* The int64 the bytes b hold in two's complement.
Int64Value(b) ==
  LET u == SumFunction([i \in 1..IntBytes |-> b[i] * Base ^ (i - 1)])
  IN  IF u >= IntModulus \div 2 THEN u - IntModulus ELSE u

\* ze_deserializer_deserialize_int64.
ReadInt64(s, p) ==
  IF p + IntBytes - 1 > Len(s) THEN Failed
  ELSE [ok |-> TRUE, val |-> Int64Value(SubSeq(s, p, p + IntBytes - 1)),
        next |-> p + IntBytes]

-----------------------------------------------------------------------------
(* The wire format as a layout, independent of how the deserializer walks *)
(* it.  A length is an LEB128 spelling of any number of groups: the        *)
(* serializer writes the shortest, and a longer one (zero groups added     *)
(* with the continuation value) spells the same length.                    *)

\* The m-group LEB128 spelling of n (VarintBytes(n) when m is the shortest).
Spelling(n, m) ==
  [i \in 1..m |-> ((n \div Half ^ (i - 1)) % Half) + (IF i < m THEN Half ELSE 0)]

\* The fewest groups that spell n.
ShortestGroups(n) == CHOOSE m \in 1..(n + 1) : n < Half ^ m /\ (m = 1 \/ n >= Half ^ (m - 1))

\* The parts of an attachment on the wire: each a length-prefixed byte
\* string followed by the bytes that come after it.
Parts(a) ==
  << [bytes |-> SeqKey, after |-> Int64Bytes(a.sequence_number)],
     [bytes |-> TsKey, after |-> Int64Bytes(a.source_timestamp)],
     [bytes |-> GidKey, after |-> <<>>],
     [bytes |-> a.source_gid, after |-> <<>>] >>

\* The parts of a, their lengths spelt in w[j] groups.
SpeltWith(a, w) ==
  FlattenSeq([j \in 1..4 |-> Spelling(Len(Parts(a)[j].bytes), w[j])
                               \o Parts(a)[j].bytes \o Parts(a)[j].after])

\* The encodings of a with the length of part j spelt one group longer.
OverlongEncodings(a) ==
  {SpeltWith(a, [i \in 1..4 |-> ShortestGroups(Len(Parts(a)[i].bytes))
                                 + (IF i = j THEN 1 ELSE 0)]) : j \in 1..4}

-----------------------------------------------------------------------------
(* Malformed attachments: a reply on the same key expression may carry any *)
(* bytes.  The runs decode the encodings of Attachments and every          *)
(* truncation of one, every change of one byte, every extension by one     *)
(* byte, and every encoding with one length spelt in a group too many.    *)

Encodings == {serialize_to_zbytes(a) : a \in Attachments}

Inputs ==
  Encodings
  \cup UNION {OverlongEncodings(a) : a \in Attachments}
  \cup UNION {{SubSeq(e, 1, n) : n \in 0..(Len(e) - 1)} : e \in Encodings}
  \cup UNION {{[e EXCEPT ![i] = b] : i \in 1..Len(e), b \in Bytes} : e \in Encodings}
  \cup {Append(e, b) : e \in Encodings, b \in Bytes}

VARIABLES
  input,     \* the attachment's bytes
  pos,       \* the deserializer's position
  pc,        \* the next field to read, "done" or "thrown"
  fields,    \* sequence_number_, source_timestamp_, source_gid_
  leaked     \* owned zenoh objects not dropped when the constructor threw

vars == <<input, pos, pc, fields, leaked>>

Init ==
  /\ input \in Inputs
  /\ pos = 1
  /\ pc = "sequence_number"
  /\ fields = [sequence_number |-> NoValue, source_timestamp |-> NoValue,
               source_gid |-> NoValue]
  /\ leaked = {}

\* The key is compared whether or not its read succeeded; a mismatch
\* throws before z_drop, leaking the bytes of a key that was read.
KeyMismatch(key) ==
  LET k == ReadLengthPrefixed(input, pos)
  IN  /\ k.val # key
      /\ pc' = "thrown"
      /\ leaked' = IF k.val # <<>> THEN {"key"} ELSE {}
      /\ UNCHANGED <<input, pos, fields>>

(***************************************************************************)
(* Lines 57-68 and 70-81: read the key (its result ignored), compare it,  *)
(* drop it, read the int64 or throw.                                       *)
(***************************************************************************)
DecodeInt64Field(key, field, next) ==
  /\ pc = field
  /\ LET k == ReadLengthPrefixed(input, pos)
         v == ReadInt64(input, k.next)
     IN  \/ KeyMismatch(key)
         \/ /\ k.val = key
            /\ ~v.ok
            /\ pc' = "thrown"
            /\ UNCHANGED <<input, pos, fields, leaked>>
         \/ /\ k.val = key
            /\ v.ok
            /\ fields' = [fields EXCEPT ![field] = v.val]
            /\ pos' = v.next
            /\ pc' = next
            /\ UNCHANGED <<input, leaked>>

decode_sequence_number == DecodeInt64Field(SeqKey, "sequence_number", "source_timestamp")

decode_source_timestamp == DecodeInt64Field(TsKey, "source_timestamp", "source_gid")

\* Mutant: the gid stored without the length check of line 93.
decode_source_gid_unchecked ==
  /\ pc = "source_gid"
  /\ LET k == ReadLengthPrefixed(input, pos)
         g == ReadLengthPrefixed(input, k.next)
     IN  \/ KeyMismatch(GidKey)
         \/ /\ k.val = GidKey /\ ~g.ok
            /\ pc' = "thrown"
            /\ UNCHANGED <<input, pos, fields, leaked>>
         \/ /\ k.val = GidKey /\ g.ok
            /\ fields' = [fields EXCEPT !.source_gid = g.val]
            /\ pos' = g.next
            /\ pc' = "done"
            /\ UNCHANGED <<input, leaked>>

(***************************************************************************)
(* Lines 83-98: read and compare the key, read the gid slice, which must  *)
(* hold exactly GidLen bytes; a wrong length throws before the slice is   *)
(* dropped.                                                                *)
(***************************************************************************)
decode_source_gid ==
  /\ pc = "source_gid"
  /\ LET k == ReadLengthPrefixed(input, pos)
         g == ReadLengthPrefixed(input, k.next)
     IN  \/ KeyMismatch(GidKey)
         \/ /\ k.val = GidKey /\ ~g.ok
            /\ pc' = "thrown"
            /\ UNCHANGED <<input, pos, fields, leaked>>
         \/ /\ k.val = GidKey /\ g.ok /\ Len(g.val) # GidLen
            /\ pc' = "thrown"
            /\ leaked' = IF g.val # <<>> THEN {"slice"} ELSE {}
            /\ UNCHANGED <<input, pos, fields>>
         \/ /\ k.val = GidKey /\ g.ok /\ Len(g.val) = GidLen
            /\ fields' = [fields EXCEPT !.source_gid = g.val]
            /\ pos' = g.next
            /\ pc' = "done"
            /\ UNCHANGED <<input, leaked>>

Next ==
  \/ decode_sequence_number
  \/ decode_source_timestamp
  \/ decode_source_gid

Spec == Init /\ [][Next]_vars

-----------------------------------------------------------------------------
(* Properties.                                                              *)

\* The attachments the decoding constructor may hand to its caller.
AttachmentRecords ==
  [sequence_number : Int64, source_timestamp : Int64,
   source_gid : [1..GidLen -> Bytes]]

TypeOK ==
  /\ input \in Seq(Bytes)
  /\ pos \in 1..(Len(input) + 1)
  /\ pc \in {"sequence_number", "source_timestamp", "source_gid", "done", "thrown"}
  /\ leaked \subseteq {"key", "slice"}

(***************************************************************************)
(* Round trip (serialize_to_zbytes, then the decoding constructor): the    *)
(* bytes the serializer wrote for an attachment never make the decoder    *)
(* throw, and once decoded they give back the same sequence number,       *)
(* timestamp and gid, negative numbers and all-ones gids included.         *)
(***************************************************************************)
RoundTrip ==
  \A a \in Attachments :
    input = serialize_to_zbytes(a) =>
      /\ pc # "thrown"
      /\ pc = "done" => fields = a

(***************************************************************************)
(* The decoding constructor accepts only what a serializer could have     *)
(* written, up to the spelling of the lengths: when it returns, the        *)
(* fields form an attachment with a gid of exactly GidLen bytes, and the   *)
(* input begins with that attachment's parts in order, each length in an   *)
(* LEB128 spelling of some number of groups that it fits in.  This is the  *)
(* integrity check of the correlation layer; it also covers the ignored    *)
(* results of ze_deserializer_deserialize_string.                          *)
(***************************************************************************)
RECURSIVE SpellsFrom(_, _, _)
SpellsFrom(s, p, P) ==
  \/ P = <<>>
  \/ \E m \in 1..(Len(s) - p + 1) :
        LET v == Head(P).bytes
            e == Spelling(Len(v), m) \o v \o Head(P).after
        IN  /\ Len(v) < Half ^ m
            /\ p + Len(e) - 1 <= Len(s)
            /\ SubSeq(s, p, p + Len(e) - 1) = e
            /\ SpellsFrom(s, p + Len(e), Tail(P))

DecodeSound ==
  pc = "done" =>
    /\ fields \in AttachmentRecords
    /\ SpellsFrom(input, 1, Parts(fields))

(***************************************************************************)
(* The wire format has exactly the three tagged fields: an attachment the *)
(* decoder accepts is the encoding of what it decoded, with nothing after. *)
(***************************************************************************)
DecodeExact ==
  pc = "done" => input = serialize_to_zbytes(fields)

(***************************************************************************)
(* A rejected attachment is a recoverable error: when the constructor     *)
(* throws, no key string or gid slice it allocated is left undropped.      *)
(***************************************************************************)
NoLeakOnThrow ==
  pc = "thrown" => leaked = {}

=============================================================================
