------------------------------- MODULE RowCodec -------------------------------
(***************************************************************************)
(* The record format of a row (squrust-sql/src/row.rs) over the varints of *)
(* squrust-core/src/varint.rs.  A byte is a number below Base == 2^ByteBits *)
(* with ByteBits = 8 in the code; widths are counted in bytes, so that     *)
(* every boundary of the code is there at its place.  The bytes of a real  *)
(* and of a text are opaque.                                               *)
(***************************************************************************)
EXTENDS Values

CONSTANT ByteBits
ASSUME CodecAssumption == ByteBits \in 2..3

Base == 2^ByteBits
Half == Base \div 2          \* the continuation bit of a varint byte

-----------------------------------------------------------------------------
(* Varints: eight groups of ByteBits - 1 bits, then a full ninth byte. *)

\* The groups of v, most significant first.
Digits(v, n, base) == [i \in 1..n |-> (v \div base^(n - i)) % base]
Undigits(ds, base, from) == FoldLeft(LAMBDA acc, d : acc * base + d, from, ds)

varint_len(v) ==
    LET fits == {n \in 1..8 : v < Half^n}
    IN  IF fits = {} THEN 9 ELSE CHOOSE n \in fits : \A k \in fits : n <= k

varint_write(v) ==
    IF v >= Half^8
    THEN [i \in 1..8 |-> Digits(v \div Base, 8, Half)[i] + Half] \o <<v % Base>>
    ELSE LET n == varint_len(v)
         IN  [i \in 1..n |-> Digits(v, n, Half)[i] + (IF i < n THEN Half ELSE 0)]

\* <<value, bytes consumed>>, or <<>> where the data ends first.
varint_read(data) ==
    LET n == CHOOSE i \in 1..9 : /\ i > Len(data) \/ i = 9 \/ data[i] < Half
                                 /\ \A j \in 1..(i - 1) : data[j] >= Half
        groups == [i \in 1..(IF n = 9 THEN 8 ELSE n) |-> data[i] % Half]
        high == Undigits(groups, Half, 0)
    IN  IF n > Len(data) THEN <<>>
        ELSE <<IF n = 9 THEN high * Base + data[9] ELSE high, n>>

-----------------------------------------------------------------------------
(* Values. *)

\* The widths of the integer serial types 1 to 6.
Widths == <<1, 2, 3, 4, 6, 8>>

IntSerial(i) ==
    IF i = 0 THEN 8 ELSE IF i = 1 THEN 9
    ELSE CHOOSE s \in 1..6 :
            LET Fits(k) == LET b == Base^Widths[k] \div 2 IN -b <= i /\ i < b
            IN  Fits(s) /\ \A k \in 1..(s - 1) : ~Fits(k)

\* <<serial type, body>>.
encode_int(i) ==
    LET s == IntSerial(i)
    IN  IF s \in {8, 9} THEN <<s, <<>> >>
        ELSE <<s, Digits(IF i < 0 THEN i + Base^Widths[s] ELSE i, Widths[s], Base)>>

Bytes(s) == [i \in 1..Len(s) |-> <<SubSeq(s, i, i)>>]
encode_value(v) ==
    CASE v.t = "Null" -> <<0, <<>> >>
      [] v.t = "Integer" -> encode_int(v.v)
      [] v.t = "Boolean" -> encode_int(IF v.z THEN 1 ELSE 0)
      [] v.t = "Real" -> <<7, [i \in 1..8 |-> <<v.v>>]>>
      [] v.t \in {"Text", "Json"} -> <<2 * Len(v.s) + 13, Bytes(v.s)>>
      [] v.t = "Blob" -> <<2 * Len(v.b) + 12, [i \in 1..Len(v.b) |-> <<v.b[i]>>]>>

ReadUnsigned(data, n) == Undigits(SubSeq(data, 1, n), Base, 0)
\* The sign comes from the first byte.
read_int(data, n) ==
    Undigits(SubSeq(data, 1, n), Base, IF data[1] >= Base \div 2 THEN -1 ELSE 0)

\* <<value, bytes used>>; data is long enough for what was encoded.
decode_value(s, data) ==
    CASE s = 0 -> <<Null, 0>>
      [] s \in 1..6 -> <<Integer(read_int(data, Widths[s])), Widths[s]>>
      [] s = 7 -> <<Real(data[1][1]), 8>>
      [] s \in 8..9 -> <<Integer(s - 8), 0>>
      [] s >= 12 /\ s % 2 = 0 ->
            LET n == (s - 12) \div 2 IN <<Blob([i \in 1..n |-> data[i][1]]), n>>
      [] s >= 13 /\ s % 2 = 1 ->
            LET n == (s - 13) \div 2
            IN  <<Text(FoldLeft(LAMBDA acc, b : acc \o b[1], "", SubSeq(data, 1, n))), n>>

-----------------------------------------------------------------------------
(* Rows. *)

\* The header counts its own length: the loop of Row::encode from below.
RECURSIVE HeaderLen(_, _)
HeaderLen(serial_bytes, header_len) ==
    LET candidate == serial_bytes + varint_len(header_len)
    IN  IF candidate = header_len THEN header_len ELSE HeaderLen(serial_bytes, candidate)

encode(values) ==
    LET parts == [k \in 1..Len(values) |-> encode_value(values[k])]
        serials == FlattenSeq([k \in 1..Len(parts) |-> varint_write(parts[k][1])])
        body == FlattenSeq([k \in 1..Len(parts) |-> parts[k][2]])
    IN  varint_write(HeaderLen(Len(serials), Len(serials) + 1)) \o serials \o body

RECURSIVE ReadSerials(_, _, _)
ReadSerials(data, pos, header_end) ==
    IF pos >= header_end THEN <<>>
    ELSE LET r == varint_read(SubSeq(data, pos + 1, Len(data)))
         IN  <<r[1]>> \o ReadSerials(data, pos + r[2], header_end)

decode(data) ==
    LET header == varint_read(data)
        Step(st, s) ==
            LET r == decode_value(s, SubSeq(data, st.body + 1, Len(data)))
            IN  [body |-> st.body + r[2], values |-> Append(st.values, r[1])]
    IN  FoldLeft(Step, [body |-> header[1], values |-> <<>>],
                 ReadSerials(data, header[2], header[1])).values
=============================================================================
