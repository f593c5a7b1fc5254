------------------------------ MODULE Exchange ------------------------------
(***************************************************************************)
(* exchange/macro.h: the encoding of integers of 1, 2, 4 and 8 bytes, of   *)
(* the variable-length integers whose first byte is the value or one of    *)
(* the largest byte values as an escape, of enums, lengths, strings,       *)
(* structs and lists.  A byte is a digit of base Byte, so that every width *)
(* can be walked through; the escapes are Byte - 1, Byte - 2 and Byte - 3, *)
(* as 255, 254 and 253 are for 256.                                        *)
(*                                                                         *)
(* A writer is what has been written and the room left (left_bytes), a     *)
(* reader the bytes left and the value just read; ok is FALSE once a macro *)
(* has returned -1.  A definition introduced by "Slip" is a plausible      *)
(* mistake in the operation that follows it.                               *)
(***************************************************************************)
EXTENDS Integers, Sequences

CONSTANT Byte   \* the number of values of a byte

Writer(room) == [out |-> << >>, left |-> room, ok |-> TRUE]
Reader(bytes) == [in |-> bytes, val |-> 0, ok |-> TRUE]
Failed(x) == [x EXCEPT !.ok = FALSE]

(* The casts to uint16_t, uint32_t and uint64_t, and back to a signed type. *)
Unsigned(v, n) == v % Byte^n
Signed(v, n) == IF v >= (Byte^n) \div 2 THEN v - Byte^n ELSE v

RECURSIVE ValueOf(_)
ValueOf(bytes) == IF bytes = << >> THEN 0
                  ELSE bytes[Len(bytes)] + Byte * ValueOf(SubSeq(bytes, 1, Len(bytes) - 1))

----------------------------------------------------------------------------
(* WRITE_INTn and READ_INTn: n bytes, the most significant first. *)
Put(w, n, v) ==
  IF ~w.ok \/ w.left < n THEN Failed(w)
  ELSE [w EXCEPT !.out = @ \o [i \in 1 .. n |-> (v \div Byte^(n - i)) % Byte],
                 !.left = @ - n]

Get(r, n) ==
  IF ~r.ok \/ Len(r.in) < n THEN Failed(r)
  ELSE [r EXCEPT !.in = SubSeq(@, n + 1, Len(@)), !.val = ValueOf(SubSeq(r.in, 1, n))]

(* An escape byte, then the value in n bytes. *)
PutLong(w, escape, n, v) == Put(Put(w, 1, escape), n, v)

(* The INT16V macros. *)
Put16V(w, v) == LET u == Unsigned(v, 2) IN
  IF u < Byte - 1 THEN Put(w, 1, u) ELSE PutLong(w, Byte - 1, 2, u)

Get16V(r) == LET b == Get(r, 1) IN
  IF ~b.ok \/ b.val < Byte - 1 THEN b ELSE Get(b, 2)

(* Slip: the first escape is taken for a value. *)
Put32VEscape(w, v) == LET u == Unsigned(v, 4) IN
  IF u < Byte - 1 THEN Put(w, 1, u)
  ELSE IF u < Byte^2 THEN PutLong(w, Byte - 2, 2, u)
  ELSE PutLong(w, Byte - 1, 4, u)

(* The INT32V macros. *)
Put32V(w, v) == LET u == Unsigned(v, 4) IN
  IF u < Byte - 2 THEN Put(w, 1, u)
  ELSE IF u < Byte^2 THEN PutLong(w, Byte - 2, 2, u)
  ELSE PutLong(w, Byte - 1, 4, u)

Get32V(r) == LET b == Get(r, 1) IN
  IF ~b.ok \/ b.val < Byte - 2 THEN b
  ELSE IF b.val = Byte - 2 THEN Get(b, 2) ELSE Get(b, 4)

(* The INT64V macros. *)
Put64V(w, v) ==
  IF v < Byte - 3 THEN Put(w, 1, v)
  ELSE IF v < Byte^2 THEN PutLong(w, Byte - 3, 2, v)
  ELSE IF v < Byte^4 THEN PutLong(w, Byte - 2, 4, v)
  ELSE PutLong(w, Byte - 1, 8, v)

Get64V(r) == LET b == Get(r, 1) IN
  IF ~b.ok \/ b.val < Byte - 3 THEN b
  ELSE IF b.val = Byte - 3 THEN Get(b, 2)
  ELSE IF b.val = Byte - 2 THEN Get(b, 4) ELSE Get(b, 8)

(* Enums are INT32V of a signed value. *)
PutEnum(w, v) == Put32V(w, v)
GetEnum(r) == LET e == Get32V(r) IN [e EXCEPT !.val = Signed(@, 4)]

(* Lengths, which are encoded as INT32V but may be too large. *)
PutLength(w, v) == IF v < Byte^4 THEN Put32V(w, v) ELSE Failed(w)
GetLength(r) == Get32V(r)

----------------------------------------------------------------------------
(* Slip: the room is compared before the length is written. *)
PutStringEarly(w, s) == LET l == PutLength(w, Len(s)) IN
  IF ~l.ok \/ w.left < Len(s) THEN Failed(l)
  ELSE [l EXCEPT !.out = @ \o s, !.left = @ - Len(s)]

(* Strings: the length, then the bytes. *)
PutString(w, s) == LET l == PutLength(w, Len(s)) IN
  IF ~l.ok \/ l.left < Len(s) THEN Failed(l)
  ELSE [l EXCEPT !.out = @ \o s, !.left = @ - Len(s)]

(* Slip: the bytes left are not compared with the length. *)
GetStringTrusting(r) ==
  LET l == GetLength(r)
      memory == l.in \o [i \in 1 .. l.val |-> 0]
  IN IF ~l.ok THEN l
     ELSE [l EXCEPT !.in = SubSeq(memory, l.val + 1, Len(memory)),
                    !.val = SubSeq(memory, 1, l.val)]

GetString(r) == LET l == GetLength(r) IN
  IF ~l.ok \/ Len(l.in) < l.val THEN Failed(l)
  ELSE [l EXCEPT !.in = SubSeq(@, l.val + 1, Len(@)), !.val = SubSeq(l.in, 1, l.val)]

(* Lists of enums: the length, then the elements one after the other. *)
PutList(w, s) ==
  LET put[i \in 0 .. Len(s)] ==
        IF i = 0 THEN PutLength(w, Len(s)) ELSE PutEnum(put[i - 1], s[i])
  IN put[Len(s)]

GetList(r) ==
  LET l == GetLength(r)
      RECURSIVE Elements(_, _, _)
      Elements(x, n, got) ==
        IF ~x.ok \/ n = 0 THEN [x EXCEPT !.val = got]
        ELSE LET e == GetEnum(x) IN Elements(e, n - 1, Append(got, e.val))
  IN IF ~l.ok THEN l ELSE Elements(l, l.val, << >>)

(* A struct in a struct: encode and decode of what is left; here one of a
   string and a list. *)
PutStruct(w, v) == PutList(PutString(w, v.name), v.items)
GetStruct(r) == LET s == GetString(r)
                    l == GetList(s)
                IN IF ~s.ok THEN s
                   ELSE [l EXCEPT !.val = [name |-> s.val, items |-> l.val]]
=============================================================================
