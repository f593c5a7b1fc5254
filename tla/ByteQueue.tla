----------------------------- MODULE ByteQueue -----------------------------
(***************************************************************************)
(* What the users of dynamic_buffer.h rely on: a queue of bytes.  Bytes    *)
(* are appended at one end and taken, in order, from the other; making     *)
(* room for more does not change it.                                       *)
(***************************************************************************)
EXTENDS Naturals, Sequences

VARIABLES bytes,   \* what was written and not read yet
          moved    \* what the last operation exchanged with its caller

bvars == <<bytes, moved>>

ByteInit == bytes = << >> /\ moved = << >>

Put == bytes' = bytes \o moved'

Take == bytes = moved' \o bytes'

(* clear, and read, which drops bytes without handing them out. *)
Drop == /\ \E n \in 0 .. Len(bytes) : bytes' = SubSeq(bytes, n + 1, Len(bytes))
        /\ moved' = << >>

ByteNext == Put \/ Take \/ Drop

ByteSpec == ByteInit /\ [][ByteNext]_bvars
=============================================================================
