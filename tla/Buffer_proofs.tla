---------------------------- MODULE Buffer_proofs ----------------------------
(***************************************************************************)
(* Indices, memory and contents of a Buffer: proofs for any sizes.         *)
(***************************************************************************)
EXTENDS Buffer, SequenceTheorems, TLAPS

\* A Buffer whose indices are in order and inside its vector.
Buffers == { b \in [buffer_ : Seq(Bytes), readerIndex_ : Nat, writerIndex_ : Nat] :
               b.readerIndex_ <= b.writerIndex_ /\ b.writerIndex_ <= Len(b.buffer_) }

\* What Buffers says, member by member.
LEMMA Members ==
  ASSUME NEW b \in Buffers
  PROVE  /\ b.buffer_ \in Seq(Bytes) /\ Len(b.buffer_) \in Nat
         /\ b.readerIndex_ \in Nat /\ b.writerIndex_ \in Nat
         /\ b.readerIndex_ <= b.writerIndex_ /\ b.writerIndex_ <= Len(b.buffer_)
         /\ b = [buffer_ |-> b.buffer_, readerIndex_ |-> b.readerIndex_,
                 writerIndex_ |-> b.writerIndex_]
  BY DEF Buffers

\* A function on 1 .. n is a sequence of length n.
LEMMA FunctionIsSeq ==
  ASSUME NEW S, NEW n \in Nat, NEW f \in [1 .. n -> S]
  PROVE  f \in Seq(S) /\ Len(f) = n
  OBVIOUS

\* resize() keeps the elements, and the vector has the new size.
LEMMA ResizeSeq ==
  ASSUME NEW memory \in Seq(Bytes), NEW size \in Nat
  PROVE  /\ Resize(memory, size) \in Seq(Bytes)
         /\ Len(Resize(memory, size)) = size
         /\ \A k \in 1 .. size :
              k <= Len(memory) => Resize(memory, size)[k] = memory[k]
<1>1. Resize(memory, size) \in [1 .. size -> Bytes]
  BY ZeroIsByte DEF Resize
<1>2. Resize(memory, size) \in Seq(Bytes) /\ Len(Resize(memory, size)) = size
  BY <1>1, FunctionIsSeq
<1> QED BY <1>2 DEF Resize

\* std::copy changes the elements it covers, and no others.
LEMMA OverwriteSeq ==
  ASSUME NEW memory \in Seq(Bytes), NEW data \in Seq(Bytes), NEW at \in Nat
  PROVE  /\ Overwrite(memory, at, data) \in Seq(Bytes)
         /\ Len(Overwrite(memory, at, data)) = Len(memory)
         /\ \A k \in 1 .. Len(memory) : Overwrite(memory, at, data)[k] =
              IF at < k /\ k <= at + Len(data) THEN data[k - at] ELSE memory[k]
<1>1. Len(memory) \in Nat /\ Len(data) \in Nat
  OBVIOUS
<1>2. Overwrite(memory, at, data) \in [1 .. Len(memory) -> Bytes]
  <2> SUFFICES ASSUME NEW k \in 1 .. Len(memory)
               PROVE (IF at < k /\ k <= at + Len(data) THEN data[k - at] ELSE memory[k])
                       \in Bytes
    BY DEF Overwrite
  <2>1. CASE at < k /\ k <= at + Len(data)
    <3>1. k - at \in 1 .. Len(data)
      BY <1>1, <2>1
    <3> QED BY <2>1, <3>1
  <2>2. CASE ~(at < k /\ k <= at + Len(data))
    BY <2>2
  <2> QED BY <2>1, <2>2
<1>3. Overwrite(memory, at, data) \in Seq(Bytes)
      /\ Len(Overwrite(memory, at, data)) = Len(memory)
  BY <1>1, <1>2, FunctionIsSeq
<1> QED BY <1>3 DEF Overwrite

\* n elements of a sequence, after its first `from' ones.
LEMMA Piece ==
  ASSUME NEW memory \in Seq(Bytes), NEW from \in Nat, NEW n \in Nat,
         from + n <= Len(memory)
  PROVE  LET piece == SubSeq(memory, from + 1, from + n) IN
           /\ piece \in Seq(Bytes) /\ Len(piece) = n
           /\ \A k \in 1 .. n : piece[k] = memory[from + k]
  OBVIOUS

\* The readable bytes, one by one.
LEMMA ReadableSeq ==
  ASSUME NEW b \in Buffers
  PROVE  /\ Readable(b) \in Seq(Bytes)
         /\ Len(Readable(b)) = readableBytes(b) /\ readableBytes(b) \in Nat
         /\ \A k \in 1 .. readableBytes(b) :
              Readable(b)[k] = b.buffer_[b.readerIndex_ + k]
<1> USE Members DEF readableBytes
<1>1. /\ b.readerIndex_ + 1 \in 1 .. Len(b.buffer_) + 1
      /\ b.writerIndex_ \in b.readerIndex_ .. Len(b.buffer_)
  OBVIOUS
<1>2. Readable(b) \in Seq(Bytes) /\ Len(Readable(b)) = readableBytes(b)
  BY <1>1, SubSeqProperties DEF Readable
<1>3. \A k \in 1 .. readableBytes(b) : Readable(b)[k] = b.buffer_[b.readerIndex_ + k]
  BY <1>1, SubSeqProperties DEF Readable
<1> QED BY <1>2, <1>3

\* Two sequences of the same length and elements are equal.
LEMMA SameSeq ==
  ASSUME NEW s \in Seq(Bytes), NEW t \in Seq(Bytes), Len(s) = Len(t),
         \A k \in 1 .. Len(s) : s[k] = t[k]
  PROVE  s = t
  OBVIOUS

-----------------------------------------------------------------------------
\* After ensureWriteableBytes(len) there is room for len bytes, the readable bytes
\* are what they were, and the vector has grown only if it had to.
LEMMA RoomIsMade ==
  ASSUME NEW b \in Buffers, NEW len \in Nat
  PROVE  LET room == EnsureWriteableBytes(b, len) IN
           /\ room \in Buffers
           /\ writeableBytes(room) >= len
           /\ Readable(room) = Readable(b)
           /\ \/ Len(room.buffer_) = Len(b.buffer_)
              \/ Len(room.buffer_) < 2 * (readableBytes(b) + len)
<1> DEFINE room == EnsureWriteableBytes(b, len)
<1> USE Members
<1>1. CASE writeableBytes(b) >= len
  BY <1>1 DEF EnsureWriteableBytes, writeableBytes
<1>2. CASE /\ writeableBytes(b) < len
           /\ writeableBytes(b) + prependableBytes(b) < len
  <2>1. room = [b EXCEPT !.buffer_ = Resize(b.buffer_, b.writerIndex_ + len)]
    BY <1>2 DEF EnsureWriteableBytes, MakeSpace
  <2>2. /\ room.buffer_ = Resize(b.buffer_, b.writerIndex_ + len)
        /\ room.readerIndex_ = b.readerIndex_ /\ room.writerIndex_ = b.writerIndex_
        /\ room = [buffer_ |-> room.buffer_, readerIndex_ |-> room.readerIndex_,
                   writerIndex_ |-> room.writerIndex_]
    BY <2>1
  <2>3. /\ room.buffer_ \in Seq(Bytes)
        /\ Len(room.buffer_) = b.writerIndex_ + len
        /\ \A k \in 1 .. b.writerIndex_ : room.buffer_[k] = b.buffer_[k]
    <3>1. b.writerIndex_ + len \in Nat
      OBVIOUS
    <3>2. /\ Resize(b.buffer_, b.writerIndex_ + len) \in Seq(Bytes)
          /\ Len(Resize(b.buffer_, b.writerIndex_ + len)) = b.writerIndex_ + len
          /\ \A k \in 1 .. b.writerIndex_ + len : k <= Len(b.buffer_) =>
               Resize(b.buffer_, b.writerIndex_ + len)[k] = b.buffer_[k]
      BY <3>1, ResizeSeq
    <3> HIDE DEF room
    <3> QED BY <2>2, <3>2
  <2>4. room \in Buffers
    <3> HIDE DEF room
    <3> QED BY <2>2, <2>3 DEF Buffers
  <2>5. Readable(room) = Readable(b)
    <3> HIDE DEF room
    <3>1. readableBytes(room) = readableBytes(b)
      BY <2>2 DEF readableBytes
    <3>2. ASSUME NEW k \in 1 .. readableBytes(b)
          PROVE  Readable(room)[k] = Readable(b)[k]
      <4>1. b.readerIndex_ + k \in 1 .. b.writerIndex_
        BY DEF readableBytes
      <4>2. Readable(b)[k] = b.buffer_[b.readerIndex_ + k]
        BY ReadableSeq
      <4>3. Readable(room)[k] = room.buffer_[room.readerIndex_ + k]
        BY <2>4, <3>1, ReadableSeq
      <4> QED BY <2>2, <2>3, <4>1, <4>2, <4>3
    <3> QED BY <2>4, <3>1, <3>2, ReadableSeq, SameSeq
  <2>6. /\ writeableBytes(room) >= len
        /\ Len(room.buffer_) < 2 * (readableBytes(b) + len)
    <3> HIDE DEF room
    <3> QED BY <1>2, <2>2, <2>3 DEF writeableBytes, readableBytes, prependableBytes
  <2> QED BY <2>4, <2>5, <2>6
<1>3. CASE /\ writeableBytes(b) < len
           /\ ~(writeableBytes(b) + prependableBytes(b) < len)
  <2>1. room = [buffer_ |-> Overwrite(b.buffer_, 0, Readable(b)),
                readerIndex_ |-> 0, writerIndex_ |-> readableBytes(b)]
    BY <1>3 DEF EnsureWriteableBytes, MakeSpace
  <2>2. /\ room.buffer_ = Overwrite(b.buffer_, 0, Readable(b))
        /\ room.readerIndex_ = 0 /\ room.writerIndex_ = readableBytes(b)
        /\ room = [buffer_ |-> room.buffer_, readerIndex_ |-> room.readerIndex_,
                   writerIndex_ |-> room.writerIndex_]
    BY <2>1
  <2>3. /\ Readable(b) \in Seq(Bytes) /\ Len(Readable(b)) = readableBytes(b)
        /\ readableBytes(b) \in Nat /\ readableBytes(b) <= Len(b.buffer_)
    BY ReadableSeq DEF readableBytes
  <2>4. /\ room.buffer_ \in Seq(Bytes) /\ Len(room.buffer_) = Len(b.buffer_)
        /\ \A k \in 1 .. readableBytes(b) : room.buffer_[k] = Readable(b)[k]
    <3> DEFINE moved == Overwrite(b.buffer_, 0, Readable(b))
    <3> HIDE DEF moved, room
    <3>1. /\ moved \in Seq(Bytes) /\ Len(moved) = Len(b.buffer_)
          /\ \A k \in 1 .. Len(b.buffer_) : moved[k] =
               IF 0 < k /\ k <= 0 + Len(Readable(b)) THEN Readable(b)[k - 0]
               ELSE b.buffer_[k]
      <4>1. b.buffer_ \in Seq(Bytes) /\ 0 \in Nat /\ Readable(b) \in Seq(Bytes)
        BY <2>3
      <4> HIDE Members
      <4> QED BY <4>1, OverwriteSeq DEF moved
    <3>2. room.buffer_ = moved
      BY <2>2 DEF moved
    <3> QED BY <2>3, <3>1, <3>2
  <2> HIDE DEF room
  <2>5. room \in Buffers
    BY <2>2, <2>3, <2>4 DEF Buffers
  <2>6. Readable(room) = Readable(b)
    <3>1. readableBytes(room) = readableBytes(b)
      BY <2>2, <2>3 DEF readableBytes
    <3>2. ASSUME NEW k \in 1 .. readableBytes(b)
          PROVE  Readable(room)[k] = Readable(b)[k]
      <4>1. Readable(room)[k] = room.buffer_[0 + k]
        BY <2>2, <2>5, <3>1, ReadableSeq
      <4> QED BY <2>3, <2>4, <4>1
    <3> QED BY <2>3, <2>5, <3>1, <3>2, ReadableSeq, SameSeq
  <2>7. writeableBytes(room) >= len
    BY <1>3, <2>2, <2>4 DEF writeableBytes, readableBytes, prependableBytes
  <2> QED BY <2>4, <2>5, <2>6, <2>7 DEF room
<1> HIDE DEF room
<1>4. writeableBytes(b) \in Int
  BY DEF writeableBytes
<1> QED BY <1>1, <1>2, <1>3, <1>4 DEF room

\* b, once data is copied to its writable space.
Filled(b, data) ==
  [b EXCEPT !.buffer_ = Overwrite(b.buffer_, b.writerIndex_, data),
            !.writerIndex_ = b.writerIndex_ + Len(data)]

\* Bytes copied to the writable space become the last readable bytes.
LEMMA FilledSeq ==
  ASSUME NEW b \in Buffers, NEW data \in Seq(Bytes), Len(data) <= writeableBytes(b)
  PROVE  /\ Filled(b, data) \in Buffers
         /\ Len(Filled(b, data).buffer_) = Len(b.buffer_)
         /\ Readable(Filled(b, data)) = Readable(b) \o data
<1> DEFINE c == Filled(b, data)
<1> DEFINE copied == Overwrite(b.buffer_, b.writerIndex_, data)
<1>1. /\ c.buffer_ = copied /\ c.readerIndex_ = b.readerIndex_
      /\ c.writerIndex_ = b.writerIndex_ + Len(data)
      /\ c = [buffer_ |-> c.buffer_, readerIndex_ |-> c.readerIndex_,
              writerIndex_ |-> c.writerIndex_]
  <2>1. c = [b EXCEPT !.buffer_ = copied, !.writerIndex_ = b.writerIndex_ + Len(data)]
    BY DEF Filled
  <2>2. b = [buffer_ |-> b.buffer_, readerIndex_ |-> b.readerIndex_,
             writerIndex_ |-> b.writerIndex_]
    BY Members
  <2> HIDE DEF c, copied
  <2> QED BY <2>1, <2>2
<1>2. /\ b.buffer_ \in Seq(Bytes) /\ Len(b.buffer_) \in Nat
      /\ b.readerIndex_ \in Nat /\ b.writerIndex_ \in Nat /\ Len(data) \in Nat
      /\ b.readerIndex_ <= b.writerIndex_
      /\ b.writerIndex_ + Len(data) <= Len(b.buffer_)
  BY Members DEF writeableBytes
<1> HIDE DEF c, copied
<1>3. /\ copied \in Seq(Bytes) /\ Len(copied) = Len(b.buffer_)
      /\ \A k \in 1 .. Len(b.buffer_) : copied[k] =
           IF b.writerIndex_ < k /\ k <= b.writerIndex_ + Len(data)
           THEN data[k - b.writerIndex_] ELSE b.buffer_[k]
  BY <1>2, OverwriteSeq DEF copied
<1>4. c \in Buffers
  BY <1>1, <1>2, <1>3 DEF Buffers
<1>5. Readable(c) = Readable(b) \o data
  <2>1. /\ readableBytes(c) = readableBytes(b) + Len(data)
        /\ readableBytes(b) = b.writerIndex_ - b.readerIndex_
        /\ readableBytes(b) \in Nat
    BY <1>1, <1>2 DEF readableBytes
  <2>2. /\ Readable(b) \in Seq(Bytes) /\ Len(Readable(b)) = readableBytes(b)
        /\ Readable(c) \in Seq(Bytes) /\ Len(Readable(c)) = readableBytes(c)
    BY <1>4, ReadableSeq
  <2>3. /\ Readable(b) \o data \in Seq(Bytes)
        /\ Len(Readable(b) \o data) = readableBytes(c)
        /\ \A k \in 1 .. readableBytes(c) : (Readable(b) \o data)[k] =
             IF k <= readableBytes(b) THEN Readable(b)[k]
             ELSE data[k - readableBytes(b)]
    <3>1. /\ Readable(b) \o data \in Seq(Bytes)
          /\ Len(Readable(b) \o data) = Len(Readable(b)) + Len(data)
          /\ \A k \in 1 .. Len(Readable(b)) + Len(data) : (Readable(b) \o data)[k] =
               IF k <= Len(Readable(b)) THEN Readable(b)[k]
               ELSE data[k - Len(Readable(b))]
      BY <2>2, ConcatProperties
    <3> QED BY <2>1, <2>2, <3>1
  <2>4. ASSUME NEW k \in 1 .. readableBytes(c)
        PROVE  Readable(c)[k] = (Readable(b) \o data)[k]
    <3>1. Readable(c)[k] = copied[b.readerIndex_ + k]
      BY <1>1, <1>4, ReadableSeq
    <3>2. b.readerIndex_ + k \in 1 .. Len(b.buffer_)
      BY <1>2, <2>1
    <3>3. CASE k <= readableBytes(b)
      <4>1. Readable(b)[k] = b.buffer_[b.readerIndex_ + k]
        BY <2>1, <3>3, ReadableSeq
      <4>2. ~(b.writerIndex_ < b.readerIndex_ + k)
        BY <1>2, <2>1, <3>3
      <4>3. copied[b.readerIndex_ + k] = b.buffer_[b.readerIndex_ + k]
        BY <1>3, <3>2, <4>2
      <4> QED BY <2>3, <3>1, <3>3, <4>1, <4>3
    <3>4. CASE ~(k <= readableBytes(b))
      <4>1. /\ b.writerIndex_ < b.readerIndex_ + k
            /\ b.readerIndex_ + k <= b.writerIndex_ + Len(data)
            /\ (b.readerIndex_ + k) - b.writerIndex_ = k - readableBytes(b)
        BY <1>2, <2>1, <3>4
      <4>2. copied[b.readerIndex_ + k] = data[k - readableBytes(b)]
        BY <1>3, <3>2, <4>1
      <4> QED BY <2>3, <3>1, <3>4, <4>2
    <3> QED BY <3>3, <3>4
  <2> QED BY <2>2, <2>3, <2>4, SameSeq
<1> QED BY <1>1, <1>3, <1>4, <1>5 DEF c

\* append() adds data behind the readable bytes, and lets the vector grow to less
\* than twice what is readable then.
LEMMA AppendedSeq ==
  ASSUME NEW b \in Buffers, NEW data \in Seq(Bytes)
  PROVE  /\ Appended(b, data) \in Buffers
         /\ Readable(Appended(b, data)) = Readable(b) \o data
         /\ \/ Len(Appended(b, data).buffer_) = Len(b.buffer_)
            \/ Len(Appended(b, data).buffer_) < 2 * (readableBytes(b) + Len(data))
<1> DEFINE room == EnsureWriteableBytes(b, Len(data))
<1>1. Len(data) \in Nat
  OBVIOUS
<1>2. /\ room \in Buffers /\ writeableBytes(room) >= Len(data)
      /\ Readable(room) = Readable(b)
      /\ \/ Len(room.buffer_) = Len(b.buffer_)
         \/ Len(room.buffer_) < 2 * (readableBytes(b) + Len(data))
  BY <1>1, RoomIsMade
<1>3. Appended(b, data) = Filled(room, data)
  BY DEF Appended, Filled
<1> HIDE DEF room
<1>4. Len(data) <= writeableBytes(room)
  BY <1>1, <1>2, Members DEF writeableBytes
<1> QED BY <1>2, <1>3, <1>4, FilledSeq

\* readFd() adds what was received behind the readable bytes, in one piece.
LEMMA ReceivedSeq ==
  ASSUME NEW b \in Buffers, NEW data \in Seq(Bytes)
  PROVE  /\ Received(b, data) \in Buffers
         /\ Readable(Received(b, data)) = Readable(b) \o data
         /\ \/ Len(Received(b, data).buffer_) = Len(b.buffer_)
            \/ Len(Received(b, data).buffer_) < 2 * (readableBytes(b) + Len(data))
<1> DEFINE writable == writeableBytes(b)
<1>1. Len(data) \in Nat /\ writable \in Nat
  BY Members DEF writeableBytes
<1>2. CASE Len(data) <= writable
  <2>1. Received(b, data) = Filled(b, data)
    BY <1>2 DEF Received, Filled
  <2> QED BY <1>2, <2>1, FilledSeq
<1>3. CASE ~(Len(data) <= writable)
  <2> DEFINE head == SubSeq(data, 1, writable)
             tail == SubSeq(data, writable + 1, Len(data))
             full == Filled(b, head)
             inPlace == Overwrite(b.buffer_, b.writerIndex_, data)
  <2>1. /\ head \in Seq(Bytes) /\ Len(head) = writable
        /\ \A k \in 1 .. writable : head[k] = data[k]
    BY <1>1, <1>3, SubSeqProperties
  <2>2. /\ tail \in Seq(Bytes) /\ Len(tail) = Len(data) - writable
        /\ \A k \in 1 .. Len(data) - writable : tail[k] = data[writable + k]
    BY <1>1, <1>3, SubSeqProperties
  <2>3. /\ b.buffer_ \in Seq(Bytes) /\ b.writerIndex_ \in Nat
        /\ Len(b.buffer_) \in Nat /\ Len(b.buffer_) = b.writerIndex_ + writable
    BY Members DEF writeableBytes
  <2> HIDE DEF head, tail, writable
  <2>4. inPlace = Overwrite(b.buffer_, b.writerIndex_, head)
        /\ Len(inPlace) = Len(b.buffer_)
    <3> DEFINE byHead == Overwrite(b.buffer_, b.writerIndex_, head)
    <3>1. /\ inPlace \in Seq(Bytes) /\ Len(inPlace) = Len(b.buffer_)
          /\ \A k \in 1 .. Len(b.buffer_) : inPlace[k] =
               IF b.writerIndex_ < k /\ k <= b.writerIndex_ + Len(data)
               THEN data[k - b.writerIndex_] ELSE b.buffer_[k]
      BY <2>3, OverwriteSeq
    <3>2. /\ byHead \in Seq(Bytes) /\ Len(byHead) = Len(b.buffer_)
          /\ \A k \in 1 .. Len(b.buffer_) : byHead[k] =
               IF b.writerIndex_ < k /\ k <= b.writerIndex_ + Len(head)
               THEN head[k - b.writerIndex_] ELSE b.buffer_[k]
      BY <2>1, <2>3, OverwriteSeq
    <3> HIDE DEF inPlace, byHead
    <3>3. ASSUME NEW k \in 1 .. Len(b.buffer_)
          PROVE  inPlace[k] = byHead[k]
      <4>1. CASE b.writerIndex_ < k
        <5>1. k - b.writerIndex_ \in 1 .. writable
          BY <1>1, <2>3, <4>1
        <5>2. k <= b.writerIndex_ + Len(data) /\ k <= b.writerIndex_ + Len(head)
          BY <1>1, <1>3, <2>1, <2>3
        <5> QED BY <2>1, <3>1, <3>2, <4>1, <5>1, <5>2
      <4>2. CASE ~(b.writerIndex_ < k)
        BY <3>1, <3>2, <4>2
      <4> QED BY <4>1, <4>2
    <3>4. inPlace = byHead
      BY <3>1, <3>2, <3>3, SameSeq
    <3> QED BY <3>1, <3>4 DEF byHead
  <2>5. Received(b, data) = Appended(full, tail)
    <3>1. Received(b, data) =
            Appended([b EXCEPT !.buffer_ = inPlace, !.writerIndex_ = Len(inPlace)], tail)
      BY <1>3 DEF Received, tail, writable
    <3>2. full = [b EXCEPT !.buffer_ = inPlace, !.writerIndex_ = Len(inPlace)]
      BY <2>1, <2>3, <2>4 DEF Filled
    <3> QED BY <3>1, <3>2
  <2>6. /\ full \in Buffers /\ Len(full.buffer_) = Len(b.buffer_)
        /\ Readable(full) = Readable(b) \o head
    BY <1>1, <2>1, FilledSeq DEF writable
  <2> HIDE DEF full, inPlace
  <2>7. /\ Appended(full, tail) \in Buffers
        /\ Readable(Appended(full, tail)) = Readable(full) \o tail
        /\ \/ Len(Appended(full, tail).buffer_) = Len(full.buffer_)
           \/ Len(Appended(full, tail).buffer_)
                < 2 * (readableBytes(full) + Len(tail))
    BY <2>2, <2>6, AppendedSeq
  <2>8. readableBytes(full) + Len(tail) = readableBytes(b) + Len(data)
    <3>1. /\ Len(Readable(full)) = readableBytes(full)
          /\ Len(Readable(b)) = readableBytes(b)
          /\ Readable(b) \in Seq(Bytes) /\ readableBytes(b) \in Nat
      BY <2>6, ReadableSeq
    <3>2. readableBytes(full) = readableBytes(b) + writable
      <4>1. Len(Readable(b) \o head) = Len(Readable(b)) + Len(head)
        BY <2>1, <3>1, ConcatProperties
      <4> QED BY <2>1, <2>6, <3>1, <4>1
    <3> QED BY <1>1, <2>2, <3>1, <3>2
  <2>9. Readable(full) \o tail = Readable(b) \o data
    <3>1. head \o tail = data
      <4>1. /\ head \o tail \in Seq(Bytes) /\ Len(head \o tail) = Len(data)
            /\ \A k \in 1 .. Len(data) : (head \o tail)[k] =
                 IF k <= writable THEN head[k] ELSE tail[k - writable]
        BY <1>1, <2>1, <2>2, ConcatProperties
      <4>2. ASSUME NEW k \in 1 .. Len(data)
            PROVE  (head \o tail)[k] = data[k]
        <5>1. CASE k <= writable
          BY <1>1, <2>1, <4>1, <5>1
        <5>2. CASE ~(k <= writable)
          <6>1. k - writable \in 1 .. Len(data) - writable
                /\ writable + (k - writable) = k
            BY <1>1, <5>2
          <6> QED BY <2>2, <4>1, <5>2, <6>1
        <5> QED BY <5>1, <5>2
      <4> QED BY <4>1, <4>2, SameSeq
    <3>2. Readable(b) \in Seq(Bytes)
      BY ReadableSeq
    <3>3. (Readable(b) \o head) \o tail = Readable(b) \o (head \o tail)
      <4>1. head \in Seq(Bytes) /\ tail \in Seq(Bytes)
        BY <2>1, <2>2
      <4> HIDE DEF head, tail
      <4> QED BY <3>2, <4>1, ConcatAssociative
    <3> QED BY <2>6, <3>1, <3>3
  <2> QED BY <2>5, <2>6, <2>7, <2>8, <2>9
<1> QED BY <1>2, <1>3

\* The first len readable bytes, and the others, as ByteQueue names them.
LEMMA RetrievedSeq ==
  ASSUME NEW b \in Buffers, NEW len \in Nat
  PROVE  /\ Retrieved(b, len) \in Buffers
         /\ Retrieved(b, len).buffer_ = b.buffer_
         /\ readableBytes(Retrieved(b, len)) <= readableBytes(b)
         /\ Readable(Retrieved(b, len)) =
              IF len < readableBytes(b)
              THEN SubSeq(Readable(b), len + 1, Len(Readable(b))) ELSE <<>>
<1> DEFINE c == Retrieved(b, len)
<1>0. /\ b.buffer_ \in Seq(Bytes) /\ Len(b.buffer_) \in Nat
      /\ b.readerIndex_ \in Nat /\ b.writerIndex_ \in Nat
      /\ b.readerIndex_ <= b.writerIndex_ /\ b.writerIndex_ <= Len(b.buffer_)
      /\ readableBytes(b) = b.writerIndex_ - b.readerIndex_
  BY Members DEF readableBytes
<1>1. CASE len < readableBytes(b)
  <2>1. /\ c.buffer_ = b.buffer_ /\ c.readerIndex_ = b.readerIndex_ + len
        /\ c.writerIndex_ = b.writerIndex_
        /\ c = [buffer_ |-> c.buffer_, readerIndex_ |-> c.readerIndex_,
                writerIndex_ |-> c.writerIndex_]
    BY <1>1, Members DEF Retrieved
  <2> HIDE DEF c
  <2>2. c \in Buffers
    BY <1>0, <1>1, <2>1 DEF Buffers
  <2>3. readableBytes(c) = readableBytes(b) - len
    BY <1>0, <2>1 DEF readableBytes
  <2> DEFINE rest == SubSeq(Readable(b), len + 1, Len(Readable(b)))
  <2>4. /\ Readable(b) \in Seq(Bytes) /\ Len(Readable(b)) = readableBytes(b)
        /\ readableBytes(b) \in Nat
        /\ Readable(c) \in Seq(Bytes) /\ Len(Readable(c)) = readableBytes(b) - len
    BY <2>2, <2>3, ReadableSeq
  <2>5. /\ rest \in Seq(Bytes) /\ Len(rest) = readableBytes(b) - len
        /\ \A k \in 1 .. readableBytes(b) - len : rest[k] = Readable(b)[len + k]
    <3>1. \A k \in len + 1 .. Len(Readable(b)) : Readable(b)[k] \in Bytes
      BY <2>4
    <3> QED BY <1>1, <2>4, <3>1, SubSeqProperties
  <2> HIDE DEF rest
  <2>6. ASSUME NEW k \in 1 .. readableBytes(b) - len
        PROVE  Readable(c)[k] = rest[k]
    <3>1. Readable(c)[k] = b.buffer_[(b.readerIndex_ + len) + k]
      BY <2>1, <2>2, <2>3, ReadableSeq
    <3>2. len + k \in 1 .. readableBytes(b)
      BY <2>4
    <3>3. Readable(b)[len + k] = b.buffer_[b.readerIndex_ + (len + k)]
      BY <3>2, ReadableSeq
    <3>4. (b.readerIndex_ + len) + k = b.readerIndex_ + (len + k)
      BY <1>0
    <3> QED BY <2>5, <3>1, <3>3, <3>4
  <2>7. Readable(c) = rest
    BY <2>4, <2>5, <2>6, SameSeq
  <2>8. readableBytes(c) <= readableBytes(b)
    BY <2>3, <2>4
  <2> QED BY <1>1, <2>1, <2>2, <2>7, <2>8 DEF c, rest
<1>2. CASE ~(len < readableBytes(b))
  <2>1. /\ c.buffer_ = b.buffer_ /\ c.readerIndex_ = 0 /\ c.writerIndex_ = 0
        /\ c = [buffer_ |-> c.buffer_, readerIndex_ |-> c.readerIndex_,
                writerIndex_ |-> c.writerIndex_]
    <3>1. c = [b EXCEPT !.readerIndex_ = 0, !.writerIndex_ = 0]
      BY <1>2 DEF Retrieved
    <3>2. b = [buffer_ |-> b.buffer_, readerIndex_ |-> b.readerIndex_,
               writerIndex_ |-> b.writerIndex_]
      BY Members
    <3> HIDE DEF c
    <3> QED BY <3>1, <3>2
  <2> HIDE DEF c
  <2>2. c \in Buffers /\ readableBytes(c) = 0
    BY <1>0, <2>1 DEF Buffers, readableBytes
  <2>3. Readable(c) = <<>>
    BY <2>2, ReadableSeq
  <2> QED BY <1>0, <1>2, <2>1, <2>2, <2>3 DEF c
<1> QED BY <1>1, <1>2

\* A prefix of the readable bytes, read off the vector or off the readable bytes.
LEMMA PrefixSeq ==
  ASSUME NEW b \in Buffers, NEW len \in Nat, len <= readableBytes(b)
  PROVE  SubSeq(b.buffer_, b.readerIndex_ + 1, b.readerIndex_ + len)
           = SubSeq(Readable(b), 1, len)
<1> DEFINE s == SubSeq(b.buffer_, b.readerIndex_ + 1, b.readerIndex_ + len)
           t == SubSeq(Readable(b), 1, len)
<1>1. /\ b.buffer_ \in Seq(Bytes) /\ Len(b.buffer_) \in Nat
      /\ b.readerIndex_ \in Nat /\ b.writerIndex_ \in Nat
      /\ b.readerIndex_ + len <= Len(b.buffer_)
  BY Members DEF readableBytes
<1>2. /\ Readable(b) \in Seq(Bytes) /\ Len(Readable(b)) = readableBytes(b)
      /\ readableBytes(b) \in Nat
      /\ \A k \in 1 .. readableBytes(b) : Readable(b)[k] = b.buffer_[b.readerIndex_ + k]
  BY ReadableSeq
<1>3. /\ s \in Seq(Bytes) /\ Len(s) = len
      /\ \A k \in 1 .. len : s[k] = b.buffer_[b.readerIndex_ + k]
  BY <1>1, Piece
<1>4. /\ t \in Seq(Bytes) /\ Len(t) = len
      /\ \A k \in 1 .. len : t[k] = Readable(b)[k]
  <2>1. \A k \in 1 .. len : Readable(b)[k] \in Bytes
    BY <1>2
  <2>2. /\ t \in Seq(Bytes) /\ Len(t) = IF 1 <= len THEN len - 1 + 1 ELSE 0
        /\ \A k \in 1 .. len - 1 + 1 : t[k] = Readable(b)[1 + k - 1]
    BY <2>1, SubSeqProperties
  <2> HIDE DEF t
  <2> QED BY <2>2
<1> HIDE DEF s, t
<1>5. s = t
  BY <1>2, <1>3, <1>4, SameSeq
<1> QED BY <1>5 DEF s, t

-----------------------------------------------------------------------------
\* The inductive invariant: indices in order, and memory bounded by the peak.
Inv == /\ buf \in Buffers
       /\ peak \in Nat /\ readableBytes(buf) <= peak
       /\ SizeBounded

\* What the callers pass.
LEMMA DataIsSeq == ASSUME NEW data \in Data PROVE data \in Seq(Bytes)
  BY SizesAreNat DEF Data

\* A new Buffer is empty, and as large as it was asked to be.
LEMMA InvInit == Init => Inv
<1> SUFFICES ASSUME Init PROVE Inv
  OBVIOUS
<1>1. PICK size \in 0 .. InitialSize :
        buf = [buffer_ |-> Resize(<<>>, size), readerIndex_ |-> 0, writerIndex_ |-> 0]
  BY DEF Init
<1>2. Resize(<<>>, size) \in Seq(Bytes) /\ Len(Resize(<<>>, size)) = size
  <2>1. <<>> \in Seq(Bytes) /\ size \in Nat
    BY SizesAreNat
  <2> QED BY <2>1, ResizeSeq
<1>3. buf \in Buffers /\ Len(buf.buffer_) <= InitialSize /\ readableBytes(buf) = 0
  BY <1>1, <1>2, SizesAreNat DEF Buffers, readableBytes
<1> QED BY <1>3 DEF Init, Inv, SizeBounded

\* No call breaks the invariant.
LEMMA InvStep == Inv /\ [Next]_vars => Inv'
<1> SUFFICES ASSUME Inv, [Next]_vars PROVE Inv'
  OBVIOUS
<1>0. buf \in Buffers /\ peak \in Nat /\ Len(buf.buffer_) \in Nat
      /\ readableBytes(buf) \in Nat /\ readableBytes(buf) <= peak
  BY Members, ReadableSeq DEF Inv
<1>1. ASSUME NEW data \in Data, append(data) \/ readFd(data)
      PROVE  Inv'
  <2>1. data \in Seq(Bytes) /\ Len(data) \in Nat
    BY DataIsSeq
  <2>2. /\ buf' \in Buffers /\ Readable(buf') = Readable(buf) \o data
        /\ \/ Len(buf'.buffer_) = Len(buf.buffer_)
           \/ Len(buf'.buffer_) < 2 * (readableBytes(buf) + Len(data))
    BY <1>0, <1>1, <2>1, AppendedSeq, ReceivedSeq DEF append, readFd
  <2>3. readableBytes(buf') = readableBytes(buf) + Len(data)
    <3>1. /\ Len(Readable(buf')) = readableBytes(buf')
          /\ Readable(buf) \in Seq(Bytes) /\ Len(Readable(buf)) = readableBytes(buf)
      BY <1>0, <2>2, ReadableSeq
    <3>2. Len(Readable(buf) \o data) = Len(Readable(buf)) + Len(data)
      BY <2>1, <3>1, ConcatProperties
    <3> QED BY <2>2, <3>1, <3>2
  <2>4. peak' \in Nat /\ readableBytes(buf') <= peak' /\ peak <= peak'
    BY <1>0, <1>1, <2>1, <2>3 DEF append, readFd, Grew
  <2>5. Len(buf'.buffer_) \in Nat
    BY <2>2, Members
  <2>6. SizeBounded'
    BY <1>0, <2>1, <2>2, <2>3, <2>4, <2>5, SizesAreNat DEF Inv, SizeBounded
  <2> QED BY <2>2, <2>4, <2>6 DEF Inv
<1>2. ASSUME NEW len \in 0 .. MaxBytes + 1, retrieve(len) \/ retrieveAsString(len)
      PROVE  Inv'
  <2>1. len \in Nat
    BY SizesAreNat
  <2>2. buf' = Retrieved(buf, len) /\ peak' = peak
    BY <1>2 DEF retrieve, retrieveAsString
  <2>3. /\ buf' \in Buffers /\ buf'.buffer_ = buf.buffer_
        /\ readableBytes(buf') <= readableBytes(buf) /\ readableBytes(buf') \in Nat
    BY <1>0, <2>1, <2>2, RetrievedSeq, ReadableSeq
  <2> QED BY <1>0, <2>2, <2>3 DEF Inv, SizeBounded
<1>3. ASSUME NEW len \in 0 .. MaxBytes + 1, writeFd(len)
      PROVE  Inv'
  BY <1>3 DEF writeFd, Inv, SizeBounded
<1>4. CASE UNCHANGED vars
  BY <1>4 DEF vars, Inv, SizeBounded
<1> QED BY <1>1, <1>2, <1>3, <1>4 DEF Next

\* The inductive invariant of a Buffer.
THEOREM InvHolds == Spec => []Inv
  BY InvInit, InvStep, PTL DEF Spec

\* The indices stay in order and inside the vector.
THEOREM Typing == Spec => []TypeOK
<1>1. Inv => TypeOK
  BY Members DEF Inv, TypeOK
<1> QED BY <1>1, InvHolds, PTL

\* The vector stays smaller than twice what it has had to hold at one time.
THEOREM MemoryIsBounded == Spec => []SizeBounded
<1>1. Inv => SizeBounded
  BY DEF Inv
<1> QED BY <1>1, InvHolds, PTL

\* Every call is a step of the queue of bytes.
LEMMA QueueStep == Inv /\ [Next]_vars => [ByteQueue!Put \/ ByteQueue!Drop
                     \/ ByteQueue!Take \/ ByteQueue!Peek]_(ByteQueue!vars)
<1> SUFFICES ASSUME Inv, [Next]_vars
             PROVE  [ByteQueue!Put \/ ByteQueue!Drop
                       \/ ByteQueue!Take \/ ByteQueue!Peek]_(ByteQueue!vars)
  OBVIOUS
<1>0. buf \in Buffers /\ Len(Readable(buf)) = readableBytes(buf)
  BY ReadableSeq DEF Inv
<1>1. ASSUME NEW data \in Data, append(data) \/ readFd(data)
      PROVE  ByteQueue!Put
  <2>1. data \in Seq(Bytes)
    BY DataIsSeq
  <2>2. Readable(buf') = Readable(buf) \o data
    BY <1>0, <1>1, <2>1, AppendedSeq, ReceivedSeq DEF append, readFd
  <2>3. call'.op = "put" /\ call'.data = data
    BY <1>1 DEF append, readFd
  <2> QED BY <2>1, <2>2, <2>3 DEF ByteQueue!Put
<1>2. ASSUME NEW len \in 0 .. MaxBytes + 1, retrieve(len)
      PROVE  ByteQueue!Drop
  <2>1. len \in Nat
    BY SizesAreNat
  <2>2. call'.op = "drop" /\ call'.len = len /\ buf' = Retrieved(buf, len)
    BY <1>2 DEF retrieve
  <2>3. Readable(Retrieved(buf, len)) = ByteQueue!Without(len)
    BY <1>0, <2>1, RetrievedSeq DEF ByteQueue!Without
  <2> QED BY <2>2, <2>3 DEF ByteQueue!Drop
<1>3. ASSUME NEW len \in 0 .. MaxBytes + 1, retrieveAsString(len)
      PROVE  ByteQueue!Take
  <2>1. len \in Nat
    BY SizesAreNat
  <2>2. /\ call'.op = "take" /\ call'.len = len /\ buf' = Retrieved(buf, len)
        /\ call'.data = SubSeq(buf.buffer_, buf.readerIndex_ + 1,
                               buf.readerIndex_ + len)
        /\ len <= readableBytes(buf)
    BY <1>3 DEF retrieveAsString
  <2>3. Readable(Retrieved(buf, len)) = ByteQueue!Without(len)
    BY <1>0, <2>1, RetrievedSeq DEF ByteQueue!Without
  <2>4. call'.data = ByteQueue!First(len)
    BY <1>0, <2>1, <2>2, PrefixSeq DEF ByteQueue!First
  <2> QED BY <2>2, <2>3, <2>4 DEF ByteQueue!Take
<1>4. ASSUME NEW len \in 0 .. MaxBytes + 1, writeFd(len)
      PROVE  ByteQueue!Peek
  BY <1>4 DEF writeFd, ByteQueue!Peek, ByteQueue!First
<1>5. CASE UNCHANGED vars
  BY <1>5 DEF vars, ByteQueue!vars
<1> QED BY <1>1, <1>2, <1>3, <1>4, <1>5 DEF Next

\* A Buffer implements the queue of bytes, whatever its sizes.
THEOREM QueueImplemented == Spec => ImplementsByteQueue
<1>1. Init => ByteQueue!Init
  <2> SUFFICES ASSUME Init PROVE ByteQueue!Init
    OBVIOUS
  <2>1. buf.readerIndex_ = 0 /\ buf.writerIndex_ = 0
    BY DEF Init
  <2>2. Readable(buf) = <<>>
    BY <2>1, SubSeqEmpty DEF Readable
  <2> QED BY <2>2 DEF Init, ByteQueue!Init
<1> QED BY <1>1, InvHolds, QueueStep, PTL DEF Spec, ImplementsByteQueue, ByteQueue!Spec
=============================================================================
