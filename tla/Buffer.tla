------------------------------- MODULE Buffer --------------------------------
(***************************************************************************)
(* A Buffer as a value, and its methods as functions on it: buffer_ is the *)
(* vector, [readerIndex_, writerIndex_) the bytes not yet read. Offsets    *)
(* count from 0 as in the code, the cells of the sequence from 1.          *)
(***************************************************************************)
EXTENDS Naturals, Sequences

CONSTANTS Bytes, Zero,        \* values of a byte; the one resize() fills with
          kCheapPrepend, kInitialSize,
          ExtraSize           \* sizeof(extrabuf) in readFd

ASSUME BufferAssumption ==
    /\ Zero \in Bytes
    /\ {kCheapPrepend, kInitialSize, ExtraSize} \subseteq Nat

BufferType == [buffer_ : Seq(Bytes), readerIndex_ : Nat, writerIndex_ : Nat]

NewBuffer == [buffer_ |-> [i \in 1..(kCheapPrepend + kInitialSize) |-> Zero],
              readerIndex_ |-> kCheapPrepend, writerIndex_ |-> kCheapPrepend]

size(b)            == Len(b.buffer_)
readableBytes(b)   == b.writerIndex_ - b.readerIndex_
writableBytes(b)   == size(b) - b.writerIndex_
prependableByte(b) == b.readerIndex_

(* The bytes from peek() to beginWrite().                                  *)
Readable(b) == SubSeq(b.buffer_, b.readerIndex_ + 1, b.writerIndex_)

-----------------------------------------------------------------------------
retrieveAll(b) == [b EXCEPT !.readerIndex_ = kCheapPrepend, !.writerIndex_ = kCheapPrepend]

retrieve(b, len) ==
    IF len <= readableBytes(b)
    THEN [b EXCEPT !.readerIndex_ = @ + len] ELSE retrieveAll(b)

(* vector::resize to a larger size; std::copy to offset at.                *)
Resized(cells, n) == [i \in 1..n |-> IF i <= Len(cells) THEN cells[i] ELSE Zero]
Copied(cells, at, data) ==
    [i \in 1..Len(cells) |-> IF i \in (at + 1)..(at + Len(data)) THEN data[i - at] ELSE cells[i]]

(* Mutant: the bytes are not moved to the front, only the indices are.     *)
NotMoved(b) == b.buffer_

(* makeSpace's copy; it goes to lower offsets, front to back, and so never *)
(* overwrites a byte it has still to read.                                 *)
Moved(b) == Copied(b.buffer_, kCheapPrepend, Readable(b))

(* Mutant: the space for prepending is counted as free.                    *)
TooSmallWithPrepend(b, len) == writableBytes(b) + prependableByte(b) < len

(* Mutant: the space that reading has freed is not counted.                *)
TooSmallForAll(b, len) == writableBytes(b) < len

TooSmall(b, len) == writableBytes(b) + prependableByte(b) < len + kCheapPrepend

makeSpace(b, len) ==
    IF TooSmall(b, len)
    THEN [b EXCEPT !.buffer_ = Resized(@, b.writerIndex_ + len)]
    ELSE [buffer_ |-> Moved(b), readerIndex_ |-> kCheapPrepend,
          writerIndex_ |-> kCheapPrepend + readableBytes(b)]

ensureWritableBytes(b, len) == IF writableBytes(b) < len THEN makeSpace(b, len) ELSE b

append(b, data) ==
    LET e == ensureWritableBytes(b, Len(data)) IN
        [e EXCEPT !.buffer_ = Copied(@, e.writerIndex_, data), !.writerIndex_ = @ + Len(data)]

-----------------------------------------------------------------------------
(* readv of readFd takes what fits behind writerIndex_ and then, unless    *)
(* that is ExtraSize or more, up to ExtraSize bytes in extrabuf.           *)
ReadLimit(b) == writableBytes(b) + (IF writableBytes(b) < ExtraSize THEN ExtraSize ELSE 0)

(* readFd after readv has delivered data.                                  *)
readFd(b, data) ==
    LET w == writableBytes(b)
        n == Len(data)
    IN  IF n <= w
        THEN [b EXCEPT !.buffer_ = Copied(@, b.writerIndex_, data), !.writerIndex_ = @ + n]
        ELSE append([b EXCEPT !.buffer_ = Copied(@, b.writerIndex_, SubSeq(data, 1, w)),
                              !.writerIndex_ = size(b)],
                    SubSeq(data, w + 1, n))
=============================================================================
