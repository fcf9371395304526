------------------------------- MODULE Coding -------------------------------
(***************************************************************************)
(* The primitive encodings of util/common/coding.h and coding.cc.  A byte  *)
(* has ByteBits bits (8 in the code), an unsigned integer of the code's    *)
(* 16, 32 and 64 bits has Bytes16, Bytes32 and Bytes64 bytes: the loops,   *)
(* shifts and limits are those of the code, at widths TLC can count to.    *)
(* A Slice is a sequence of bytes.  A Get routine returns whether it       *)
(* succeeded, the value and the slice past it.                             *)
(***************************************************************************)
EXTENDS Integers, Sequences, FiniteSets, SequencesExt

CONSTANTS ByteBits, Bytes16, Bytes32, Bytes64

Base == 2 ^ ByteBits
Byte == 0 .. Base - 1
B == Base \div 2                    \* the continuation bit of a varint byte
Uint(n) == 0 .. Base ^ n - 1

-----------------------------------------------------------------------------
(* Writing.                                                                *)

PutFixed8(v) == <<v>>

PutFixed(n, v) == [i \in 1 .. n |-> (v \div Base ^ (i - 1)) % Base]
PutFixed16(v) == PutFixed(Bytes16, v)
PutFixed32(v) == PutFixed(Bytes32, v)
PutFixed64(v) == PutFixed(Bytes64, v)

\* The number of groups of ByteBits - 1 bits of v, as the branches of EncodeVarint32 find it.
Groups(v) == CHOOSE k \in 1 .. 2 * Bytes64 : v < B ^ k /\ (k = 1 \/ v >= B ^ (k - 1))

PutVarint32(v) ==
  LET k == Groups(v) IN
  [i \in 1 .. k |-> IF i < k THEN ((v \div B ^ (i - 1)) % B) + B ELSE (v \div B ^ (k - 1)) % Base]

EncodeVarint64[v \in Nat] ==
  IF v < B THEN <<v>> ELSE <<(v % B) + B>> \o EncodeVarint64[v \div B]
PutVarint64(v) == EncodeVarint64[v]

PutLengthPrefixedSlice(s) == PutVarint32(Len(s)) \o s
PutTopicID(ns, topic) == PutLengthPrefixedSlice(ns) \o PutLengthPrefixedSlice(topic)

-----------------------------------------------------------------------------
(* Reading.                                                                *)

Bad == [ok |-> FALSE]
Got(v, n, in) == [ok |-> TRUE, val |-> v, rest |-> SubSeq(in, n + 1, Len(in))]

\* The early return of every routine on a failure.
Then(g, F(_)) == IF g.ok THEN F(g) ELSE Bad

\* DecodeFixed16, 32 and 64: least significant byte first.
RECURSIVE DecodeFixed(_)
DecodeFixed(s) == IF s = <<>> THEN 0 ELSE s[1] + Base * DecodeFixed(Tail(s))

GetFixed(n, in) == IF Len(in) < n THEN Bad ELSE Got(DecodeFixed(SubSeq(in, 1, n)), n, in)
GetFixed8(in) == GetFixed(1, in)
GetFixed16(in) == GetFixed(Bytes16, in)
GetFixed32(in) == GetFixed(Bytes32, in)
GetFixed64(in) == GetFixed(Bytes64, in)

\* GetFixedEnum8 with the ValidateEnum of the enumeration.
GetFixedEnum8(range, in) ==
  Then(GetFixed8(in), LAMBDA g : IF g.val \in range THEN g ELSE Bad)

\* How many bytes the loop of GetVarint..Ptr looks at: shift 0, 7, 14, ... up to the width.
MaxVarint(n) == (n * ByteBits + ByteBits - 2) \div (ByteBits - 1)

RECURSIVE DecodeVarint(_)
DecodeVarint(s) == IF s = <<>> THEN 0 ELSE (s[1] % B) + B * DecodeVarint(Tail(s))

\* The end of the varint at the start of in, 0 when there is none.
VarintEnd(n, in) ==
  LET ends == {i \in 1 .. Len(in) : i <= MaxVarint(n) /\ in[i] < B} IN
  IF ends = {} THEN 0 ELSE CHOOSE i \in ends : \A j \in ends : i <= j

GetVarintOf(n, k, in) == IF k = 0 THEN Bad ELSE Got(DecodeVarint(SubSeq(in, 1, k)) % Base ^ n, k, in)
GetVarint(n, in) == GetVarintOf(n, VarintEnd(n, in), in)
GetVarint32(in) == GetVarint(Bytes32, in)
GetVarint64(in) == GetVarint(Bytes64, in)

GetBytes(n, in) == IF Len(in) < n THEN Bad ELSE Got(SubSeq(in, 1, n), n, in)

GetLengthPrefixedSlice(in) ==
  Then(GetVarint32(in), LAMBDA len : GetBytes(len.val, len.rest))
=============================================================================
