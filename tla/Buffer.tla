-------------------------------- MODULE Buffer --------------------------------
(***************************************************************************)
(* The Buffer of a connection: a vector, and the indices between which it  *)
(* holds readable bytes.  kCheapPrepend is 0.  A vector's elements are     *)
(* numbered from 1 here: the readable ones are readerIndex_ + 1 ..         *)
(* writerIndex_.                                                           *)
(***************************************************************************)
EXTENDS Integers, Sequences

CONSTANTS Bytes,
          Zero,         \* what resize() and the constructor fill with
          InitialSize,  \* bound: of the constructor's argument
          ExtraSize,    \* the size of extrabuf in readFd
          MaxData,      \* bound: of the bytes of one call
          MaxBytes      \* bound: of the readable bytes

ASSUME ZeroIsByte  == Zero \in Bytes
ASSUME SizesAreNat == /\ InitialSize \in Nat /\ ExtraSize \in Nat
                      /\ MaxData \in Nat /\ MaxBytes \in Nat

VARIABLES
  buf,    \* the members of the Buffer
  peak,   \* the largest number of readable bytes so far (history)
  call    \* the last call: which, its argument or result, its length (history)

vars == <<buf, peak, call>>

readableBytes(b) == b.writerIndex_ - b.readerIndex_
writeableBytes(b) == Len(b.buffer_) - b.writerIndex_
prependableBytes(b) == b.readerIndex_

\* The bytes from peek() on.
Readable(b) == SubSeq(b.buffer_, b.readerIndex_ + 1, b.writerIndex_)

\* memory, once data is copied to the place after its first `at' bytes.
Overwrite(memory, at, data) ==
  [k \in 1 .. Len(memory) |->
     IF at < k /\ k <= at + Len(data) THEN data[k - at] ELSE memory[k]]

Resize(memory, size) ==
  [k \in 1 .. size |-> IF k <= Len(memory) THEN memory[k] ELSE Zero]

\* Mutant: the indices move, the bytes do not.
MakeSpaceWithoutCopy(b, len) ==
  IF writeableBytes(b) + prependableBytes(b) < len
  THEN [b EXCEPT !.buffer_ = Resize(@, b.writerIndex_ + len)]
  ELSE [b EXCEPT !.readerIndex_ = 0, !.writerIndex_ = readableBytes(b)]

\* Mutant: the space before readerIndex_ is never used again.
MakeSpaceByGrowing(b, len) ==
  [b EXCEPT !.buffer_ = Resize(@, b.writerIndex_ + len)]

\* makeSpace grows the vector, or moves the readable bytes to its start.
MakeSpace(b, len) ==
  IF writeableBytes(b) + prependableBytes(b) < len
  THEN [b EXCEPT !.buffer_ = Resize(@, b.writerIndex_ + len)]
  ELSE [buffer_ |-> Overwrite(b.buffer_, 0, Readable(b)),
        readerIndex_ |-> 0, writerIndex_ |-> readableBytes(b)]

EnsureWriteableBytes(b, len) ==
  IF writeableBytes(b) < len THEN MakeSpace(b, len) ELSE b

Appended(b, data) ==
  LET room == EnsureWriteableBytes(b, Len(data)) IN
    [room EXCEPT !.buffer_ = Overwrite(@, room.writerIndex_, data),
                 !.writerIndex_ = @ + Len(data)]

\* Asking for too much empties the buffer.
Retrieved(b, len) ==
  IF len < readableBytes(b)
  THEN [b EXCEPT !.readerIndex_ = @ + len]
  ELSE [b EXCEPT !.readerIndex_ = 0, !.writerIndex_ = 0]

\* What readv can be asked for at once.
ReadLimit(b) ==
  writeableBytes(b) + IF writeableBytes(b) < ExtraSize THEN ExtraSize ELSE 0

\* Mutant: the bytes that went to extrabuf are not appended.
ReceivedWithoutExtra(b, data) ==
  [b EXCEPT !.buffer_ = Overwrite(@, b.writerIndex_, data),
            !.writerIndex_ = @ + Len(data)]

\* readv fills the writable space, then extrabuf, which is appended.
Received(b, data) ==
  LET writable == writeableBytes(b)
      inPlace  == Overwrite(b.buffer_, b.writerIndex_, data) IN
    IF Len(data) <= writable
    THEN [b EXCEPT !.buffer_ = inPlace, !.writerIndex_ = @ + Len(data)]
    ELSE Appended([b EXCEPT !.buffer_ = inPlace, !.writerIndex_ = Len(inPlace)],
                  SubSeq(data, writable + 1, Len(data)))

-----------------------------------------------------------------------------
Data == UNION { [1 .. n -> Bytes] : n \in 0 .. MaxData }

Init ==
  /\ \E size \in 0 .. InitialSize :
       buf = [buffer_ |-> Resize(<<>>, size), readerIndex_ |-> 0, writerIndex_ |-> 0]
  /\ peak = 0
  /\ call = [op |-> "none", data |-> <<>>, len |-> 0]

Fits(data) == readableBytes(buf) + Len(data) <= MaxBytes

Grew == peak' = IF readableBytes(buf') > peak THEN readableBytes(buf') ELSE peak

append(data) ==
  /\ Fits(data)
  /\ buf' = Appended(buf, data)
  /\ call' = [op |-> "put", data |-> data, len |-> Len(data)]
  /\ Grew

\* readv returns fewer bytes than it was asked for, or none at the end of file.
readFd(data) ==
  /\ Fits(data) /\ Len(data) <= ReadLimit(buf)
  /\ buf' = Received(buf, data)
  /\ call' = [op |-> "put", data |-> data, len |-> Len(data)]
  /\ Grew

retrieve(len) ==
  /\ buf' = Retrieved(buf, len)
  /\ call' = [op |-> "drop", data |-> <<>>, len |-> len]
  /\ UNCHANGED peak

\* The callers ask for readable bytes only.
retrieveAsString(len) ==
  /\ len <= readableBytes(buf)
  /\ call' = [op |-> "take", len |-> len, data |->
                SubSeq(buf.buffer_, buf.readerIndex_ + 1, buf.readerIndex_ + len)]
  /\ buf' = Retrieved(buf, len)
  /\ UNCHANGED peak

\* The first len bytes are written to the socket; to retrieve them is the
\* caller's business.
writeFd(len) ==
  /\ len <= readableBytes(buf)
  /\ call' = [op |-> "peek", data |-> SubSeq(Readable(buf), 1, len), len |-> len]
  /\ UNCHANGED <<buf, peak>>

Next ==
  \/ \E data \in Data : append(data) \/ readFd(data)
  \/ \E len \in 0 .. MaxBytes + 1 : \/ retrieve(len) \/ retrieveAsString(len)
                                    \/ writeFd(len)

Spec == Init /\ [][Next]_vars

-----------------------------------------------------------------------------
(* Properties *)

\* The indices stay in order and inside the vector.
TypeOK ==
  /\ buf.buffer_ \in Seq(Bytes)
  /\ buf.readerIndex_ \in Nat /\ buf.writerIndex_ \in Nat
  /\ buf.readerIndex_ <= buf.writerIndex_
  /\ buf.writerIndex_ <= Len(buf.buffer_)
  /\ peak \in Nat

\* The space of retrieved bytes is used again: the vector stays smaller than twice
\* what the buffer has had to hold at one time, however many bytes pass through.
SizeBounded == Len(buf.buffer_) <= InitialSize \/ Len(buf.buffer_) < 2 * peak

\* The readable bytes are a queue: no call loses, repeats, swaps or makes up a byte.
ByteQueue == INSTANCE ByteQueue WITH bytes <- Readable(buf)
ImplementsByteQueue == ByteQueue!Spec
=============================================================================
