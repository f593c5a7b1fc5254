----------------------------- MODULE MCExchange -----------------------------
(***************************************************************************)
(* A value is encoded into a buffer of some size, the bytes are cut        *)
(* anywhere, and what is left is decoded.                                  *)
(***************************************************************************)
EXTENDS Exchange, FiniteSets

VARIABLES phase, kind, value, room, wire, cut, got
vars == <<phase, kind, value, room, wire, cut, got>>

Near(v) == {v - 1, v, v + 1}
Naturals64 == (0 .. 2 * Byte^2) \cup Near(Byte^4) \cup {Byte^8 - 1}
Naturals32 == (0 .. 2 * Byte^2) \cup {Byte^4 - 1}
Enums == (0 - Byte - 1 .. Byte + 1) \cup {(Byte^4) \div 2 - 1, 0 - (Byte^4) \div 2}
Strings == UNION {[1 .. n -> {0, Byte - 1}] : n \in 0 .. 3}
           \cup {[i \in 1 .. n |-> 1] : n \in Byte - 3 .. Byte + 1}
Lists == UNION {[1 .. n -> {-1, Byte - 1, Byte^2}] : n \in 0 .. 2}

Values == [i16 |-> 0 .. Byte^2 - 1, i32 |-> Naturals32, i64 |-> Naturals64,
           enum |-> Enums, string |-> Strings, list |-> Lists,
           struct |-> [name : {<< >>, <<1>>, <<Byte - 1, 0>>}, items : Lists]]
Kinds == DOMAIN Values

Encode(k, w, v) == CASE k = "i16" -> Put16V(w, v)    [] k = "i32" -> Put32V(w, v)
                     [] k = "i64" -> Put64V(w, v)    [] k = "enum" -> PutEnum(w, v)
                     [] k = "string" -> PutString(w, v) [] k = "list" -> PutList(w, v)
                     [] k = "struct" -> PutStruct(w, v)
Decode(k, r) == CASE k = "i16" -> Get16V(r)    [] k = "i32" -> Get32V(r)
                  [] k = "i64" -> Get64V(r)    [] k = "enum" -> GetEnum(r)
                  [] k = "string" -> GetString(r) [] k = "list" -> GetList(r)
                  [] k = "struct" -> GetStruct(r)

Init == /\ phase = "begin" /\ got = [ok |-> FALSE]
        /\ kind \in Kinds /\ value \in Values[kind]
        /\ room \in {1, 3, 4, 5, 8, 40}
        /\ wire = Writer(room) /\ cut = 0

Write == /\ phase = "begin" /\ phase' = "written"
         /\ wire' = Encode(kind, wire, value)
         /\ \E c \in 0 .. Len(wire'.out) : cut' = c
         /\ UNCHANGED <<kind, value, room, got>>

(* The receiver has what came before the cut, and more after a whole value. *)
Read == /\ phase = "written" /\ wire.ok /\ phase' = "read"
        /\ got' = Decode(kind, Reader(IF cut < Len(wire.out) THEN SubSeq(wire.out, 1, cut)
                                      ELSE wire.out \o <<1, 0>>))
        /\ UNCHANGED <<kind, value, room, wire, cut>>

Next == Write \/ Read
Spec == Init /\ [][Next]_vars

----------------------------------------------------------------------------
(* What was written is read back, up to its last byte and no further. *)
ReadsBack == phase = "read" /\ cut = Len(wire.out) =>
               got.ok /\ got.in = <<1, 0>> /\ got.val = value

(* A value cut short is refused: no encoding is the beginning of another. *)
CutIsRefused == phase = "read" /\ cut < Len(wire.out) => ~got.ok

(* The writer fails when, and only when, the room is too small, and never
   writes past it. *)
RoomIsEnough == phase = "written" =>
  /\ Len(wire.out) + wire.left = room
  /\ wire.ok <=> Len(Encode(kind, Writer(100), value).out) <= room
=============================================================================
