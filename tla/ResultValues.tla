------------------------------ MODULE ResultValues -----------------------------
(***************************************************************************)
(* What a caller gets for what the server sent: utils/typeCast.ts for a    *)
(* column, utils/parseResponse.ts for a result.                            *)
(*                                                                         *)
(* Numbers keep their widths, in a smaller unit: a byte has Base values    *)
(* instead of 256, readUIntBE reads up to NarrowBytes bytes instead of 6,  *)
(* and SafeMax stands for 2^53 - 1, the last integer of a double without   *)
(* gaps.  As there, SafeMax + 1 is a power of two of more than NarrowBytes *)
(* bytes.                                                                  *)
(***************************************************************************)
EXTENDS Integers, Sequences

CONSTANTS Base, NarrowBytes, SafeMax

\* The value of a buffer of bytes, big endian.
BigEndian(buf) ==
    LET upTo[i \in 0..Len(buf)] ==
            IF i = 0 THEN 0 ELSE upTo[i - 1] * Base + buf[i]
    IN  upTo[Len(buf)]

\* Base^n, the first number that takes more than n bytes.
Beyond(n) == BigEndian([i \in 1..n + 1 |-> IF i = 1 THEN 1 ELSE 0])

ASSUME WidthAssumption == /\ {Base, NarrowBytes, SafeMax} \subseteq Nat \ {0}
                          /\ SafeMax % 4 = 3
                          /\ Beyond(NarrowBytes) <= SafeMax + 1

Null == [t |-> "null"]
Number(n) == [t |-> "number", n |-> n]
BigInt(n) == [t |-> "bigint", n |-> n]
Text(n) == [t |-> "string", n |-> n]       \* the decimal digits of n
Truth(b) == [t |-> "boolean", b |-> b]
Bytes(s) == [t |-> "bytes", s |-> s]       \* a Buffer, or number[] made of one

\* Number(n) for integers up to twice the safe range: a tie goes to the even
\* significand.
Magnitude(n) == IF n < 0 THEN -n ELSE n
Rounded(n) == LET m == Magnitude(n)
                  r == CASE m <= SafeMax + 1 \/ m % 2 = 0 -> m
                         [] m > SafeMax + 1 /\ m % 4 = 1 -> m - 1
                         [] OTHER -> m + 1
              IN  IF n < 0 THEN -r ELSE r
ToNumber(n) == Number(Rounded(n))

bigintToSafeNumberOrString(n) ==
    IF -SafeMax <= n /\ n <= SafeMax THEN ToNumber(n) ELSE Text(n)

SlipDecode(buf) ==
    IF Len(buf) <= NarrowBytes THEN Number(BigEndian(buf))
    ELSE ToNumber(BigEndian(buf))

decodeBitFullInteger(buf) ==
    IF Len(buf) <= NarrowBytes \/ BigEndian(buf) <= SafeMax
    THEN Number(BigEndian(buf))
    ELSE BigInt(BigEndian(buf))

\* The connector's own decoding of a BIGINT, by the pool's bigIntAsNumber.
NextBigint(raw, asNumber) ==
    CASE raw = Null -> Null
      [] raw # Null /\ asNumber -> ToNumber(raw.n)
      [] OTHER -> BigInt(raw.n)

CastBigint(raw, asString, asNumber) ==
    LET v == NextBigint(raw, asNumber) IN
    IF asString /\ v.t = "bigint" THEN bigintToSafeNumberOrString(v.n) ELSE v

\* TINYINT: a boolean for display width 1, otherwise the connector's number.
CastTiny(raw, width) ==
    CASE width = 1 -> Truth(raw = Number(1))
      [] OTHER -> raw

CastBit(raw, width, full) ==
    CASE width = 1 -> IF raw = Null THEN (IF full THEN Null ELSE Truth(FALSE))
                      ELSE Truth(raw.s[1] = 1)
      [] width # 1 /\ (raw = Null \/ (raw.s = <<>> /\ ~full)) -> Null
      [] width # 1 /\ raw # Null /\ raw # Bytes(<<>>) /\ ~full -> Number(raw.s[1])
      [] OTHER -> decodeBitFullInteger(raw.s)

\* A BLOB is binary by its collation, not by its column flag.
CastBlob(raw, binary) ==
    CASE raw = Null -> Null
      [] raw # Null /\ binary -> raw
      [] OTHER -> [t |-> "string", s |-> raw.s]

-----------------------------------------------------------------------------
(* parseResponse *)

\* A result is an array of rows or the summary of a write.  A field that an
\* object lacks is undefined, and ?? makes null of that.
Undefined == [t |-> "undefined"]
Array(s) == [t |-> "array", items |-> s]
Row(columns) == [t |-> "row", columns |-> columns]
Upsert(affected, id) == [t |-> "upsert", affectedRows |-> affected, insertId |-> id]

Length(r) == IF r.t = "array" THEN Len(r.items) ELSE 0
First(r) == IF Length(r) > 0 THEN r.items[1] ELSE Null

\* The row itself, or its only column.
Unwrapped(row) ==
    IF row # Null /\ Len(row.columns) = 1 THEN row.columns[1] ELSE row

SlipParseResponse(type, r) ==
    CASE type = "single" -> First(r)
      [] type = "scalar" -> IF First(r) = Null THEN Null ELSE First(r).columns[1]
      [] OTHER -> r

parseResponse(type, r) ==
    CASE type = "insert" /\ r.t = "upsert" ->
            IF r.insertId.t = "bigint" THEN bigintToSafeNumberOrString(r.insertId.n)
            ELSE r.insertId
      [] type = "update" /\ r.t = "upsert" -> r.affectedRows
      [] type \in {"insert", "update"} /\ r.t # "upsert" -> Null
      [] type = "single" -> First(r)
      [] type = "scalar" -> IF First(r) = Null THEN Null ELSE First(r).columns[1]
      [] OTHER -> r

-----------------------------------------------------------------------------
(* What config.ts:10-29 and compat-matrix 4.1.1 and 4.4.1 promise of a     *)
(* column type: integers of one bit more than the safe range, and buffers  *)
(* as wide as BIT(64) is, two bytes more than readUIntBE reads             *)

Bigints == -(2 * SafeMax)..(2 * SafeMax)
Buffers == UNION {[1..n -> 0..(Base - 1)] : n \in 1..(NarrowBytes + 2)}

Exactly(v, n) == v \in {Number(n), BigInt(n), Text(n)}

\* With the flag no integer is changed, and it is a number as long as doubles
\* have no gaps; without it the safe range is exact.
BigintSurvives ==
    /\ \A n \in Bigints :
          /\ Exactly(CastBigint(BigInt(n), TRUE, FALSE), n)
          /\ Magnitude(n) <= SafeMax =>
                \A s \in BOOLEAN : CastBigint(BigInt(n), s, ~s) = Number(n)
          /\ Magnitude(n) <= SafeMax <=>
                CastBigint(BigInt(n), TRUE, FALSE).t = "number"
    /\ \A s \in BOOLEAN : CastBigint(Null, s, ~s) = Null

\* With the flag BIT(n) is the whole integer, without it the first byte; NULL
\* is false for BIT(1) without the flag, and otherwise stays NULL.
BitSurvives ==
    /\ \A b \in Buffers :
          /\ Exactly(CastBit(Bytes(b), Len(b) + 1, TRUE), BigEndian(b))
          /\ BigEndian(b) <= SafeMax <=> CastBit(Bytes(b), Len(b) + 1, TRUE).t = "number"
          /\ Exactly(CastBit(Bytes(b), Len(b) + 1, FALSE), BigEndian(b)) <=>
                Len(b) = 1 \/ BigEndian(b) = 0
    /\ \A w \in 1..2, f \in BOOLEAN : CastBit(Null, w, f) = Null <=> w # 1 \/ f

\* TINYINT(1) is a boolean, NULL included; a blob keeps its bytes and its NULL.
OthersSurvive ==
    /\ \A w \in 1..2 : CastTiny(Null, w) = Null <=> w # 1
    /\ \A b \in Buffers, f \in BOOLEAN : CastBlob(Bytes(b), f).s = b
    /\ \A f \in BOOLEAN : CastBlob(Null, f) = Null

Survives(column) == CASE column = "bigint" -> BigintSurvives
                      [] column = "bit" -> BitSurvives
                      [] OTHER -> OthersSurvive
================================================================================
