-------------------------------- MODULE Wire --------------------------------
(***************************************************************************)
(* Bytes on the wire.  A buffer is a sequence of cells, one per byte.  The *)
(* first byte of a field carries the field's value and width, the others   *)
(* continue it; a field read with the wrong width, or from the middle, is  *)
(* garbage, which the readers below report as a failure.  Payload bytes    *)
(* are numbered, so that a shifted or truncated copy is noticed.           *)
(***************************************************************************)
EXTENDS Integers, Sequences, SequencesExt

CONSTANTS V1, V2, V3    \* 2^6, 2^14, 2^30: from where a number takes 2, 4, 8 bytes

Cont == [k |-> "cont", v |-> 0, w |-> 0]

Field(kind, v, w) == <<[k |-> kind, v |-> v, w |-> w]>> \o [i \in 1..(w - 1) |-> Cont]

\* vint_val2bits(), vint_size(): one, two, four or eight bytes
VintBits(v) == (IF v >= V1 THEN 1 ELSE 0) + (IF v >= V2 THEN 1 ELSE 0)
                + (IF v >= V3 THEN 1 ELSE 0)
VintSize(v) == 2^VintBits(v)

\* vint_write(): the width is the caller's, the first two bits tell it
VintWrite(v, w) == Field("vint", v, w)
Vint(v) == VintWrite(v, VintSize(v))
Uint(v, w) == Field("uint", v, w)
Byte(v) == Uint(v, 1)
Data(n) == [i \in 1..n |-> [k |-> "data", v |-> i, w |-> 1]]
Vints(vals) == FlattenSeq([i \in DOMAIN vals |-> Vint(vals[i])])

\* A reader: what is left of the buffer, whether all went well so far, and the
\* fields read, by name.
Reader(b) == [ok |-> TRUE, rest |-> b, f |-> <<>>]
Failed(r) == [r EXCEPT !.ok = FALSE]
Used(b, r) == Len(b) - Len(r.rest)

Take(r, name, v, n) ==
    [r EXCEPT !.rest = SubSeq(r.rest, n + 1, Len(r.rest)),
              !.f = [x \in DOMAIN r.f \cup {name} |-> IF x = name THEN v ELSE r.f[x]]]

\* lsquic_varint_read(): a byte below V1 is also a number
ReadVint(r, name) ==
    IF ~r.ok \/ r.rest = <<>> THEN Failed(r)
    ELSE LET c == Head(r.rest) IN
         IF c.w <= Len(r.rest) /\ (c.k = "vint" \/ (c.k = "uint" /\ c.w = 1 /\ c.v < V1))
         THEN Take(r, name, c.v, c.w)
         ELSE Failed(r)

\* READ_UINT(), memcpy() of a number of known width
ReadUint(r, name, w) ==
    IF ~r.ok \/ Len(r.rest) < w \/ w = 0 THEN Failed(r)
    ELSE LET c == Head(r.rest) IN
         IF c.w = w /\ c.k \in {"uint", "vint"} THEN Take(r, name, c.v, w) ELSE Failed(r)

\* A payload of n bytes
ReadData(r, name, n) ==
    IF ~r.ok \/ Len(r.rest) < n THEN Failed(r)
    ELSE IF SubSeq(r.rest, 1, n) = Data(n) THEN Take(r, name, n, n) ELSE Failed(r)

\* A connection ID is its name and its length.
Cid(c) == [i \in 1..c.len |-> [k |-> "cid", v |-> 100 * c.id + i, w |-> 1]]
NoCid == [id |-> 0, len |-> 0]

ReadCid(r, name, n) ==
    IF ~r.ok \/ Len(r.rest) < n THEN Failed(r)
    ELSE IF n = 0 THEN Take(r, name, NoCid, 0)
    ELSE IF \A i \in 1..n : r.rest[i].k = "cid" /\ r.rest[i].v = r.rest[1].v + i - 1
    THEN Take(r, name, [id |-> r.rest[1].v \div 100, len |-> n], n)
    ELSE Failed(r)

ReadVints(r, names) ==
    FoldLeft(LAMBDA x, name : ReadVint(x, name), r, names)
=============================================================================
