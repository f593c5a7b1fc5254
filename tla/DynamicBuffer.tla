--------------------------- MODULE DynamicBuffer ---------------------------
(***************************************************************************)
(* dynamic_buffer.cc: a vector of bytes with a read and a write index.     *)
(* Bytes before read_index are discardable, those between the indices      *)
(* readable, those after write_index writable.  reserveWritableBytes makes *)
(* room by moving the readable bytes to the start of a new vector, whose   *)
(* size it computes with unsigned arithmetic: size_t is arithmetic modulo  *)
(* Word here (2^64 in the build), and a byte has Base values (256).        *)
(*                                                                         *)
(* A definition introduced by "Slip" is not part of the specification: it  *)
(* is a plausible mistake in the operation that follows it, kept to show   *)
(* that a property notices it.                                             *)
(***************************************************************************)
EXTENDS Integers, Sequences, FiniteSetsExt

CONSTANTS InitSize,      \* init_size of the constructor
          ExpandSizes,   \* possible values of expand_size
          MaxCapacity,   \* bound: no larger buffer is asked for
          Word,          \* number of values of size_t
          Base,          \* number of values of a byte
          Widths,        \* widths, in bytes, of the integers used
          Sizes          \* sizes given to read, write, reserve, readBytes

VARIABLES buffer,       \* buffer_, a sequence of bytes
          expand_size,  \* expand_size_
          read_index, write_index,
          moved         \* bytes the last operation exchanged with its caller

vars == <<buffer, expand_size, read_index, write_index, moved>>

Byte == 0 .. Base - 1
Zeros(n) == [i \in 1 .. n |-> 0]

Init == /\ buffer = Zeros(InitSize)
        /\ expand_size \in ExpandSizes
        /\ read_index = 0 /\ write_index = 0
        /\ moved = << >>

Capacity         == Len(buffer)
DiscardableBytes == read_index
ReadableBytes    == (write_index - read_index) % Word
WritableBytes    == (Capacity - write_index) % Word
Readable         == SubSeq(buffer, read_index + 1, write_index)

----------------------------------------------------------------------------
(* Slip: room for the request is counted from the free bytes only. *)
NewSizeShort(size) ==
  LET free == DiscardableBytes + WritableBytes IN
  IF free >= size THEN Capacity
  ELSE Capacity + expand_size * ((size - free) \div expand_size)

(* The size of the new vector.  With free >= size + expand_size the
   subtraction wraps, and so may the product and the sum. *)
NewSize(size) ==
  LET free == (DiscardableBytes + WritableBytes) % Word IN
  IF free >= size /\ free - size < expand_size
  THEN (Capacity + expand_size) % Word
  ELSE (Capacity + expand_size * (((size - free) % Word) \div expand_size + 1)) % Word

(* The buffer and the write index after reserveWritableBytes(size): the
   readable bytes are at the start of the new vector. *)
Moves(size)      == WritableBytes < size
Reserved(size)   == IF Moves(size)
                    THEN Readable \o Zeros(NewSize(size) - ReadableBytes)
                    ELSE buffer
ReservedAt(size) == IF Moves(size) THEN ReadableBytes ELSE write_index

(* The bound of the model: no vector beyond MaxCapacity. *)
Affordable(size) == Moves(size) => NewSize(size) <= MaxCapacity

ReserveWritableBytes(size) ==
  /\ Affordable(size)
  /\ buffer' = Reserved(size)
  /\ write_index' = ReservedAt(size)
  /\ read_index' = IF Moves(size) THEN 0 ELSE read_index
  /\ moved' = << >>
  /\ UNCHANGED expand_size

(* mem with the bytes of s stored from index at on. *)
Store(mem, at, s) == [i \in DOMAIN mem |->
                        IF i \in at + 1 .. at + Len(s) THEN s[i - at] ELSE mem[i]]

(* Slip: the bytes go where write_index was before room was made. *)
PutBytesStale(s) ==
  /\ Affordable(Len(s))
  /\ buffer' = Store(Reserved(Len(s)), write_index, s)
  /\ write_index' = ReservedAt(Len(s)) + Len(s)
  /\ read_index' = IF Moves(Len(s)) THEN 0 ELSE read_index
  /\ moved' = s
  /\ UNCHANGED expand_size

(* writeBytes, and the common part of the writeInts: reserve, copy to
   writeBegin(), advance write_index. *)
PutBytes(s) ==
  /\ Affordable(Len(s))
  /\ buffer' = Store(Reserved(Len(s)), ReservedAt(Len(s)), s)
  /\ write_index' = ReservedAt(Len(s)) + Len(s)
  /\ read_index' = IF Moves(Len(s)) THEN 0 ELSE read_index
  /\ moved' = s
  /\ UNCHANGED expand_size

(* Slip: write does not clamp. *)
WriteUnclamped(s, size) ==
  /\ Len(s) <= WritableBytes
  /\ buffer' = Store(buffer, write_index, s)
  /\ write_index' = write_index + size
  /\ moved' = s
  /\ UNCHANGED <<expand_size, read_index>>

(* write: the caller has stored the bytes of s at writeBegin() itself
   (Reactor's recv); more than the writable bytes are never counted. *)
Write(s, size) ==
  /\ Len(s) <= WritableBytes
  /\ buffer' = Store(buffer, write_index, s)
  /\ write_index' = write_index + Min({size, WritableBytes})
  /\ moved' = s
  /\ UNCHANGED <<expand_size, read_index>>

(* read_index_ += n, and clear when everything has been read. *)
Advance(n) == IF read_index + n = write_index
              THEN read_index' = 0 /\ write_index' = 0
              ELSE read_index' = read_index + n /\ UNCHANGED write_index

Read(size) == /\ Advance(Min({size, ReadableBytes}))
              /\ moved' = << >>
              /\ UNCHANGED <<buffer, expand_size>>

ReadBytes(count) ==
  LET real_count == Min({count, ReadableBytes}) IN
  /\ moved' = SubSeq(buffer, read_index + 1, read_index + real_count)
  /\ Advance(real_count)
  /\ UNCHANGED <<buffer, expand_size>>

Clear == /\ read_index' = 0 /\ write_index' = 0
         /\ moved' = << >>
         /\ UNCHANGED <<buffer, expand_size>>

----------------------------------------------------------------------------
(* The integers: width bytes, most significant first unless littleEndian; the
   place of the k-th most significant byte. *)
Nth(k, width, littleEndian) == IF littleEndian THEN width + 1 - k ELSE k

(* writeInt8/16/32/64: byte i of v, which is shifted right by whole bytes. *)
Digits(v, width, littleEndian) ==
  LET shifted[n \in 0 .. width] == IF n = 0 THEN v ELSE shifted[n - 1] \div Base
  IN  [i \in 1 .. width |-> shifted[width - Nth(i, width, littleEndian)] % Base]

(* The value of the bytes s, the most significant first. *)
ValueOf(s, width, littleEndian) ==
  LET value[k \in 0 .. width] ==
        IF k = 0 THEN 0 ELSE value[k - 1] * Base + s[Nth(k, width, littleEndian)]
  IN  value[width]

(* peekInt8/16/32/64 succeed if the bytes are there ... *)
CanPeek(width, offset) == ReadableBytes >= offset + width

(* Slip: big endian whatever is asked for. *)
PeekIntBig(width, offset, littleEndian) ==
  ValueOf(SubSeq(buffer, read_index + offset + 1, read_index + offset + width), width, FALSE)

(* ... and yield the value of these bytes; a wider result holds the same
   value. *)
PeekInt(width, offset, littleEndian) ==
  ValueOf(SubSeq(buffer, read_index + offset + 1, read_index + offset + width), width,
          littleEndian)

WriteInt(v, width, littleEndian) == PutBytes(Digits(v, width, littleEndian))

(* readInt8/16/32/64: peek, then read(width). *)
ReadInt(width, littleEndian) ==
  /\ CanPeek(width, 0)
  /\ moved' = Digits(PeekInt(width, 0, littleEndian), width, littleEndian)
  /\ Advance(width)
  /\ UNCHANGED <<buffer, expand_size>>

Next == \/ \E size \in Sizes : \/ ReserveWritableBytes(size)
                               \/ Read(size) \/ ReadBytes(size)
                               \/ \E s \in [1 .. Min({size, WritableBytes}) -> Byte] : Write(s, size)
        \/ \E width \in Widths, littleEndian \in BOOLEAN :
             \/ \E v \in 0 .. Base ^ width - 1 : WriteInt(v, width, littleEndian)
             \/ ReadInt(width, littleEndian)
        \/ Clear

Spec == Init /\ [][Next]_vars

----------------------------------------------------------------------------
(* The indices stay in order and inside the vector, so no operation touches
   memory outside it, although writeBytes does not clamp what it adds. *)
TypeOK == /\ buffer \in Seq(Byte) /\ Capacity <= MaxCapacity
          /\ expand_size \in ExpandSizes
          /\ read_index \in 0 .. write_index
          /\ write_index \in 0 .. Capacity
          /\ moved \in Seq(Byte)

(* reserveWritableBytes makes enough room, and never more than the request
   and two expansions, also when the unsigned subtraction wraps: the wrapped
   size then is a smaller vector that is still large enough. *)
RoomMade ==
  [][\A size \in Sizes : ReserveWritableBytes(size) /\ Moves(size) =>
        Len(buffer') - write_index' \in size .. size + 2 * expand_size - 1]_vars

(* "integer is big endian by default" (dynamic_buffer.h:27): what a peek
   finds anywhere in the buffer is the integer whose writing produces those
   bytes, in either byte order. *)
RoundTrip ==
  \A width \in Widths, littleEndian \in BOOLEAN, offset \in 0 .. ReadableBytes :
    CanPeek(width, offset) =>
      Digits(PeekInt(width, offset, littleEndian), width, littleEndian)
        = SubSeq(Readable, offset + 1, offset + width)

(* The buffer implements a queue of bytes, across every move to a new
   vector and every reset of the indices. *)
Queue == INSTANCE ByteQueue WITH bytes <- Readable, moved <- moved
ImplementsByteQueue == Queue!ByteSpec
=============================================================================
