----------------------------- MODULE BufferProofs ----------------------------
(***************************************************************************)
(* For any sizes, any bytes and any sequence of calls: a Buffer's indices  *)
(* stay in order, it is a queue of bytes, and it does not grow needlessly. *)
(*                                                                         *)
(* For the HTTP server on top of one, any stream of lines and any way to   *)
(* cut it into segments: requests are answered in order, from their own    *)
(* lines, one per message, and parseRequest's loop ends.                   *)
(***************************************************************************)
EXTENDS BufferSpec, HttpServer, SequenceTheorems, WellFoundedInduction, TLAPS

WellFormed(b) ==
    /\ b \in BufferType
    /\ kCheapPrepend <= b.readerIndex_
    /\ b.readerIndex_ <= b.writerIndex_
    /\ b.writerIndex_ <= Len(b.buffer_)

(* The unread bytes are a sequence, with these elements.                   *)
LEMMA ReadableFacts ==
    ASSUME NEW b, WellFormed(b)
    PROVE  /\ b.buffer_ \in Seq(Bytes) /\ Len(b.buffer_) \in Nat
           /\ b.readerIndex_ \in Nat /\ b.writerIndex_ \in Nat
           /\ Readable(b) \in Seq(Bytes)
           /\ Len(Readable(b)) = b.writerIndex_ - b.readerIndex_
           /\ \A i \in 1..(b.writerIndex_ - b.readerIndex_) :
                 Readable(b)[i] = b.buffer_[b.readerIndex_ + i]
<1> DEFINE c == b.buffer_  r == b.readerIndex_  w == b.writerIndex_
<1>1. c \in Seq(Bytes) /\ r \in Nat /\ w \in Nat /\ Len(c) \in Nat /\ r <= w /\ w <= Len(c)
  BY DEF WellFormed, BufferType
<1>2. \A i \in (r + 1)..w : c[i] \in Bytes
  BY <1>1, ElementOfSeq
<1> HIDE DEF c, r, w
<1>3. /\ SubSeq(c, r + 1, w) \in Seq(Bytes)
      /\ Len(SubSeq(c, r + 1, w)) = IF r + 1 <= w THEN w - (r + 1) + 1 ELSE 0
      /\ \A i \in 1..(w - (r + 1) + 1) : SubSeq(c, r + 1, w)[i] = c[(r + 1) + i - 1]
  <2>1. r + 1 \in Int /\ w \in Int
    BY <1>1
  <2> QED BY <1>2, <2>1, SubSeqProperties
<1>4. Len(SubSeq(c, r + 1, w)) = w - r
  BY <1>1, <1>3
<1>5. \A i \in 1..(w - r) : SubSeq(c, r + 1, w)[i] = c[r + i]
  <2>1. \A i \in 1..(w - r) : (r + 1) + i - 1 = r + i /\ i \in 1..(w - (r + 1) + 1)
    BY <1>1
  <2> QED BY <1>3, <2>1
<1> QED BY <1>1, <1>3, <1>4, <1>5 DEF Readable, c, r, w

(* std::copy keeps the vector's size and writes where it should.           *)
LEMMA CopiedFacts ==
    ASSUME NEW cells \in Seq(Bytes), NEW data \in Seq(Bytes), NEW at \in Nat
    PROVE  /\ Copied(cells, at, data) \in Seq(Bytes)
           /\ Len(Copied(cells, at, data)) = Len(cells)
           /\ \A i \in 1..Len(cells) : Copied(cells, at, data)[i] =
                 IF at + 1 <= i /\ i <= at + Len(data) THEN data[i - at] ELSE cells[i]
<1> DEFINE c == Copied(cells, at, data)
<1>1. Len(cells) \in Nat /\ Len(data) \in Nat
  OBVIOUS
<1>2. \A i \in 1..Len(cells) : c[i] =
         IF at + 1 <= i /\ i <= at + Len(data) THEN data[i - at] ELSE cells[i]
  BY <1>1 DEF Copied
<1>3. \A i \in 1..Len(cells) : c[i] \in Bytes
  <2>1. \A i \in 1..Len(cells) : at + 1 <= i /\ i <= at + Len(data) => i - at \in 1..Len(data)
    BY <1>1
  <2> QED BY <1>1, <1>2, <2>1, ElementOfSeq
<1>4. c \in [1..Len(cells) -> Bytes]
  <2>1. c = [i \in 1..Len(cells) |-> c[i]]
    BY DEF Copied
  <2> HIDE DEF c
  <2> QED BY <1>3, <2>1
<1> HIDE DEF c
<1>5. c \in Seq(Bytes) /\ Len(c) = Len(cells)
  BY <1>1, <1>4
<1> QED BY <1>2, <1>5 DEF c

(* resize to a larger size keeps the old cells.                            *)
LEMMA ResizedFacts ==
    ASSUME NEW cells \in Seq(Bytes), NEW n \in Nat, Len(cells) <= n
    PROVE  /\ Resized(cells, n) \in Seq(Bytes)
           /\ Len(Resized(cells, n)) = n
           /\ \A i \in 1..Len(cells) : Resized(cells, n)[i] = cells[i]
<1> DEFINE c == Resized(cells, n)
<1>1. \A i \in 1..n : c[i] = IF i <= Len(cells) THEN cells[i] ELSE Zero
  BY DEF Resized
<1>2. \A i \in 1..n : c[i] \in Bytes
  BY <1>1, ElementOfSeq, BufferAssumption
<1>3. c = [i \in 1..n |-> c[i]]
  BY DEF Resized
<1> HIDE DEF c
<1>4. c \in [1..n -> Bytes]
  BY <1>2, <1>3
<1>5. c \in Seq(Bytes) /\ Len(c) = n
  BY <1>4
<1> QED BY <1>1, <1>5 DEF c

(* ensureWritableBytes keeps the unread bytes and makes the room.          *)
LEMMA EnsureFacts ==
    ASSUME NEW b, WellFormed(b), NEW len \in Nat
    PROVE  LET e == ensureWritableBytes(b, len) IN
              /\ WellFormed(e)
              /\ Readable(e) = Readable(b)
              /\ e.writerIndex_ + len <= Len(e.buffer_)
              /\ Len(e.buffer_) > Len(b.buffer_) =>
                    Len(Readable(b)) + len + kCheapPrepend > Len(b.buffer_)
<1> DEFINE c == b.buffer_  r == b.readerIndex_  w == b.writerIndex_
           e == ensureWritableBytes(b, len)
<1>1. /\ c \in Seq(Bytes) /\ Len(c) \in Nat /\ r \in Nat /\ w \in Nat
      /\ Readable(b) \in Seq(Bytes) /\ Len(Readable(b)) = w - r
      /\ \A i \in 1..(w - r) : Readable(b)[i] = c[r + i]
  BY ReadableFacts
<1>2. kCheapPrepend \in Nat /\ kCheapPrepend <= r /\ r <= w /\ w <= Len(c)
  BY BufferAssumption DEF WellFormed
<1>3. CASE ~(Len(c) - w < len)
  <2>1. e = b
    BY <1>3 DEF ensureWritableBytes, writableBytes, size
  <2>2. w + len <= Len(c)
    BY <1>1, <1>2, <1>3
  <2> QED BY <1>1, <2>1, <2>2
<1>4. CASE Len(c) - w < len /\ TooSmall(b, len)
  <2>1. e = [b EXCEPT !.buffer_ = Resized(@, w + len)]
    BY <1>4 DEF ensureWritableBytes, makeSpace, writableBytes, size
  <2>2. w + len \in Nat /\ Len(c) <= w + len
    BY <1>1, <1>4
  <2> DEFINE n == w + len
  <2>3. /\ Resized(c, n) \in Seq(Bytes) /\ Len(Resized(c, n)) = n
        /\ \A i \in 1..Len(c) : Resized(c, n)[i] = c[i]
    BY <1>1, <2>2, ResizedFacts
  <2>4. e.buffer_ = Resized(c, n) /\ e.readerIndex_ = r /\ e.writerIndex_ = w /\ e \in BufferType
    BY <2>1, <2>3 DEF WellFormed, BufferType
  <2>5. WellFormed(e)
    <3>1. w <= n
      BY <1>1
    <3> QED BY <1>2, <2>3, <2>4, <3>1 DEF WellFormed
  <2>6. /\ Readable(e) \in Seq(Bytes) /\ Len(Readable(e)) = w - r
        /\ \A i \in 1..(w - r) : Readable(e)[i] = Resized(c, n)[r + i]
    BY <2>4, <2>5, ReadableFacts
  <2>7. Readable(e) = Readable(b)
    <3>1. \A i \in 1..(w - r) : r + i \in 1..Len(c)
      BY <1>1, <1>2
    <3>2. \A i \in 1..(w - r) : Readable(e)[i] = Readable(b)[i]
      BY <1>1, <2>3, <2>6, <3>1
    <3> QED BY <1>1, <2>6, <3>2, SeqEqual
  <2>8. Len(Readable(b)) + len + kCheapPrepend > Len(c)
    <3>1. (Len(c) - w) + r < len + kCheapPrepend
      BY <1>4 DEF TooSmall, writableBytes, prependableByte, size
    <3> QED BY <1>1, <1>2, <3>1
  <2>9. e.writerIndex_ + len <= Len(e.buffer_)
    BY <2>2, <2>3, <2>4
  <2> QED BY <2>5, <2>7, <2>8, <2>9
<1>5. CASE Len(c) - w < len /\ ~TooSmall(b, len)
  <2>1. e = [buffer_ |-> Moved(b), readerIndex_ |-> kCheapPrepend,
             writerIndex_ |-> kCheapPrepend + (w - r)]
    BY <1>5 DEF ensureWritableBytes, makeSpace, writableBytes, readableBytes, size
  <2> DEFINE m == Copied(c, kCheapPrepend, Readable(b))
  <2>2. /\ m \in Seq(Bytes) /\ Len(m) = Len(c)
        /\ \A i \in 1..Len(c) : m[i] =
              IF kCheapPrepend + 1 <= i /\ i <= kCheapPrepend + (w - r)
              THEN Readable(b)[i - kCheapPrepend] ELSE c[i]
    BY <1>1, <1>2, CopiedFacts
  <2>3. Moved(b) = m
    BY DEF Moved
  <2> HIDE DEF m
  <2>4. /\ e.buffer_ = m /\ e.readerIndex_ = kCheapPrepend
        /\ e.writerIndex_ = kCheapPrepend + (w - r)
    BY <2>1, <2>3
  <2>5. kCheapPrepend + (w - r) \in Nat /\ kCheapPrepend + (w - r) <= Len(c)
    BY <1>1, <1>2
  <2>6. WellFormed(e)
    <3>1. e \in BufferType
      BY <1>2, <2>1, <2>2, <2>3, <2>5 DEF BufferType
    <3>2. kCheapPrepend <= kCheapPrepend + (w - r)
      BY <1>1, <1>2
    <3> QED BY <1>2, <2>2, <2>4, <2>5, <3>1, <3>2 DEF WellFormed
  <2>7. /\ Readable(e) \in Seq(Bytes) /\ Len(Readable(e)) = kCheapPrepend + (w - r) - kCheapPrepend
        /\ \A i \in 1..(kCheapPrepend + (w - r) - kCheapPrepend) : Readable(e)[i] = m[kCheapPrepend + i]
    BY <2>4, <2>6, ReadableFacts
  <2>8. Readable(e) = Readable(b)
    <3>1. kCheapPrepend + (w - r) - kCheapPrepend = w - r
      BY <1>1, <1>2
    <3>2. \A i \in 1..(w - r) : /\ kCheapPrepend + i \in 1..Len(c)
                                /\ kCheapPrepend + 1 <= kCheapPrepend + i
                                /\ kCheapPrepend + i <= kCheapPrepend + (w - r)
                                /\ (kCheapPrepend + i) - kCheapPrepend = i
      BY <1>1, <1>2, <2>5
    <3>3. \A i \in 1..(w - r) : Readable(e)[i] = Readable(b)[i]
      BY <2>2, <2>7, <3>1, <3>2
    <3> QED BY <1>1, <2>7, <3>1, <3>3, SeqEqual
  <2>9. e.writerIndex_ + len <= Len(e.buffer_)
    <3>1. ~((Len(c) - w) + r < len + kCheapPrepend)
      BY <1>5 DEF TooSmall, writableBytes, prependableByte, size
    <3>2. kCheapPrepend + (w - r) + len <= Len(c)
      BY <1>1, <1>2, <3>1
    <3> QED BY <2>2, <2>4, <3>2
  <2>10. ~(Len(e.buffer_) > Len(c))
    BY <1>1, <2>2, <2>4
  <2> QED BY <2>6, <2>8, <2>9, <2>10
<1> QED BY <1>3, <1>4, <1>5

(* Copying behind the unread bytes and moving writerIndex_ on appends.     *)
LEMMA StoreFacts ==
    ASSUME NEW e, WellFormed(e), NEW data \in Seq(Bytes),
           e.writerIndex_ + Len(data) <= Len(e.buffer_),
           NEW b, b = [e EXCEPT !.buffer_ = Copied(@, e.writerIndex_, data),
                                !.writerIndex_ = @ + Len(data)]
    PROVE  /\ WellFormed(b)
           /\ Readable(b) = Readable(e) \o data
           /\ Len(b.buffer_) = Len(e.buffer_)
<1> DEFINE c == e.buffer_  r == e.readerIndex_  w == e.writerIndex_  n == Len(data)
           m == Copied(c, w, data)
<1>1. /\ c \in Seq(Bytes) /\ Len(c) \in Nat /\ r \in Nat /\ w \in Nat /\ n \in Nat
      /\ Readable(e) \in Seq(Bytes) /\ Len(Readable(e)) = w - r
      /\ \A i \in 1..(w - r) : Readable(e)[i] = c[r + i]
  BY ReadableFacts
<1>2. kCheapPrepend \in Nat /\ kCheapPrepend <= r /\ r <= w /\ w + n <= Len(c)
  BY BufferAssumption DEF WellFormed
<1>3. /\ m \in Seq(Bytes) /\ Len(m) = Len(c)
      /\ \A i \in 1..Len(c) : m[i] = IF w + 1 <= i /\ i <= w + n THEN data[i - w] ELSE c[i]
  BY <1>1, CopiedFacts
<1> HIDE DEF m
<1>4. b.buffer_ = m /\ b.readerIndex_ = r /\ b.writerIndex_ = w + n /\ b \in BufferType
  <2>1. e \in BufferType
    BY DEF WellFormed
  <2>2. b = [e EXCEPT !.buffer_ = m, !.writerIndex_ = w + n]
    BY <2>1 DEF BufferType, m
  <2>3. w + n \in Nat
    BY <1>1
  <2> HIDE DEF r, w, n, c
  <2>4. b.buffer_ = m /\ b.writerIndex_ = w + n /\ b \in BufferType
    BY <1>3, <2>1, <2>2, <2>3 DEF BufferType
  <2>5. b.readerIndex_ = r
    BY <2>1, <2>2 DEF BufferType, r
  <2> QED BY <2>4, <2>5
<1>5. WellFormed(b)
  <2>1. r <= w + n
    BY <1>1, <1>2
  <2> QED BY <1>2, <1>3, <1>4, <2>1 DEF WellFormed
<1>6. /\ Readable(b) \in Seq(Bytes) /\ Len(Readable(b)) = w + n - r
      /\ \A i \in 1..(w + n - r) : Readable(b)[i] = m[r + i]
  <2> HIDE DEF r, w, n
  <2>1. /\ Readable(b) \in Seq(Bytes) /\ Len(Readable(b)) = b.writerIndex_ - b.readerIndex_
        /\ \A i \in 1..(b.writerIndex_ - b.readerIndex_) :
              Readable(b)[i] = b.buffer_[b.readerIndex_ + i]
    BY <1>5, ReadableFacts, ZenonT(30)
  <2> QED BY <1>1, <1>4, <2>1
<1> DEFINE s == Readable(e) \o data
<1>7. /\ s \in Seq(Bytes) /\ Len(s) = (w - r) + n
      /\ \A i \in 1..((w - r) + n) : s[i] = IF i <= w - r THEN Readable(e)[i] ELSE data[i - (w - r)]
  <2> HIDE DEF r, w, n
  <2>1. /\ s \in Seq(Bytes) /\ Len(s) = Len(Readable(e)) + Len(data)
        /\ \A i \in 1..(Len(Readable(e)) + Len(data)) : s[i] =
              IF i <= Len(Readable(e)) THEN Readable(e)[i] ELSE data[i - Len(Readable(e))]
    BY <1>1, ConcatProperties
  <2> HIDE DEF s
  <2> QED BY <1>1, <2>1 DEF n
<1> HIDE DEF s
<1>8. Readable(b) = s
  <2>1. w + n - r = (w - r) + n
    BY <1>1, <1>2
  <2>2. ASSUME NEW i \in 1..((w - r) + n) PROVE Readable(b)[i] = s[i]
    <3>1. r + i \in 1..Len(c)
      BY <1>1, <1>2, SMTT(30)
    <3>2. Readable(b)[i] = IF w + 1 <= r + i /\ r + i <= w + n THEN data[(r + i) - w] ELSE c[r + i]
      BY <1>3, <1>6, <2>1, <3>1
    <3>3. CASE i <= w - r
      <4>1. ~(w + 1 <= r + i) /\ i \in 1..(w - r)
        BY <1>1, <1>2, <3>3
      <4> QED BY <1>1, <1>7, <3>2, <3>3, <4>1
    <3>4. CASE ~(i <= w - r)
      <4>1. w + 1 <= r + i /\ r + i <= w + n /\ (r + i) - w = i - (w - r)
        BY <1>1, <1>2, <3>4, SMTT(30)
      <4> QED BY <1>7, <3>2, <3>4, <4>1
    <3> QED BY <3>3, <3>4
  <2>3. \A i \in 1..Len(Readable(b)) : Readable(b)[i] = s[i]
    BY <1>6, <2>1, <2>2
  <2> QED BY <1>6, <1>7, <2>1, <2>3, SeqEqual
<1> QED BY <1>3, <1>4, <1>5, <1>8 DEF s

(* append appends, and grows the vector only if it must.                   *)
LEMMA AppendFacts ==
    ASSUME NEW b, WellFormed(b), NEW data \in Seq(Bytes)
    PROVE  /\ WellFormed(append(b, data))
           /\ Readable(append(b, data)) = Readable(b) \o data
           /\ Len(append(b, data).buffer_) > Len(b.buffer_) =>
                 Len(Readable(b)) + Len(data) + kCheapPrepend > Len(b.buffer_)
<1> DEFINE e == ensureWritableBytes(b, Len(data))
<1>1. Len(data) \in Nat
  OBVIOUS
<1>2. /\ WellFormed(e) /\ Readable(e) = Readable(b)
      /\ e.writerIndex_ + Len(data) <= Len(e.buffer_)
      /\ Len(e.buffer_) > Len(b.buffer_) =>
            Len(Readable(b)) + Len(data) + kCheapPrepend > Len(b.buffer_)
  BY <1>1, EnsureFacts
<1>3. append(b, data) = [e EXCEPT !.buffer_ = Copied(@, e.writerIndex_, data),
                                  !.writerIndex_ = @ + Len(data)]
  BY DEF append
<1> HIDE DEF e
<1>4. /\ WellFormed(append(b, data)) /\ Readable(append(b, data)) = Readable(e) \o data
      /\ Len(append(b, data).buffer_) = Len(e.buffer_)
  BY <1>2, <1>3, StoreFacts
<1> QED BY <1>2, <1>4

(* Appending in two parts is appending the whole.                          *)
LEMMA ConcatInParts ==
    ASSUME NEW s \in Seq(Bytes), NEW t \in Seq(Bytes), NEW u \in Seq(Bytes)
    PROVE  (s \o t) \o u = s \o (t \o u)
BY ConcatAssociative

(* readFd appends what was read, whether or not extrabuf was needed.       *)
LEMMA ReadFdFacts ==
    ASSUME NEW b, WellFormed(b), NEW data \in Seq(Bytes)
    PROVE  /\ WellFormed(readFd(b, data))
           /\ Readable(readFd(b, data)) = Readable(b) \o data
           /\ Len(readFd(b, data).buffer_) > Len(b.buffer_) =>
                 Len(Readable(b)) + Len(data) + kCheapPrepend > Len(b.buffer_)
<1> DEFINE w == Len(b.buffer_) - b.writerIndex_  n == Len(data)
           first == SubSeq(data, 1, w)  rest == SubSeq(data, w + 1, n)
           f == [b EXCEPT !.buffer_ = Copied(@, b.writerIndex_, first),
                          !.writerIndex_ = Len(b.buffer_)]
<1>1. /\ b.buffer_ \in Seq(Bytes) /\ Len(b.buffer_) \in Nat /\ b.writerIndex_ \in Nat
      /\ Readable(b) \in Seq(Bytes) /\ Len(Readable(b)) \in Nat /\ n \in Nat
  BY ReadableFacts
<1>2. w \in Nat /\ b.writerIndex_ + w = Len(b.buffer_) /\ kCheapPrepend \in Nat
  BY <1>1, BufferAssumption DEF WellFormed
<1>3. CASE n <= w
  <2>1. readFd(b, data) = [b EXCEPT !.buffer_ = Copied(@, b.writerIndex_, data),
                                    !.writerIndex_ = @ + n]
    BY <1>3 DEF readFd, writableBytes, size
  <2>2. b.writerIndex_ + n <= Len(b.buffer_)
    BY <1>1, <1>2, <1>3
  <2>3. /\ WellFormed(readFd(b, data)) /\ Readable(readFd(b, data)) = Readable(b) \o data
        /\ Len(readFd(b, data).buffer_) = Len(b.buffer_)
    BY <2>1, <2>2, StoreFacts
  <2> QED BY <1>1, <2>3
<1>4. CASE ~(n <= w)
  <2>1. readFd(b, data) = append(f, rest)
    BY <1>4 DEF readFd, writableBytes, size
  <2>2. /\ first \in Seq(Bytes) /\ Len(first) = w
        /\ rest \in Seq(Bytes) /\ Len(rest) = n - w
    <3>1. \A i \in 1..w : data[i] \in Bytes
      BY <1>1, <1>2, <1>4, ElementOfSeq
    <3>2. \A i \in (w + 1)..n : data[i] \in Bytes
      BY <1>1, <1>2, <1>4, ElementOfSeq
    <3>3. first \in Seq(Bytes) /\ Len(first) = IF 1 <= w THEN w - 1 + 1 ELSE 0
      BY <1>1, <1>2, <3>1, SubSeqProperties
    <3>4. rest \in Seq(Bytes) /\ Len(rest) = IF w + 1 <= n THEN n - (w + 1) + 1 ELSE 0
      BY <1>1, <1>2, <3>2, SubSeqProperties
    <3> HIDE DEF first, rest, w, n
    <3> QED BY <1>1, <1>2, <1>4, <3>3, <3>4
  <2>3. first \o rest = data
    <3>1. 1 \in 1..(n + 1) /\ w \in (1 - 1)..n /\ n \in w..n
      BY <1>1, <1>2, <1>4
    <3>2. first \o rest = SubSeq(data, 1, n)
      BY <3>1, ConcatAdjacentSubSeq
    <3> QED BY <3>2, SubSeqFull
  <2> HIDE DEF first, rest
  <2>4. f = [b EXCEPT !.buffer_ = Copied(@, b.writerIndex_, first), !.writerIndex_ = @ + Len(first)]
    BY <1>2, <2>2 DEF WellFormed, BufferType
  <2>5. b.writerIndex_ + Len(first) <= Len(b.buffer_)
    BY <1>1, <1>2, <2>2
  <2> HIDE DEF f
  <2>6. /\ WellFormed(f) /\ Readable(f) = Readable(b) \o first
        /\ Len(f.buffer_) = Len(b.buffer_)
    BY <2>2, <2>4, <2>5, StoreFacts
  <2>7. /\ WellFormed(append(f, rest)) /\ Readable(append(f, rest)) = Readable(f) \o rest
        /\ Len(append(f, rest).buffer_) > Len(f.buffer_) =>
              Len(Readable(f)) + Len(rest) + kCheapPrepend > Len(f.buffer_)
    BY <2>2, <2>6, AppendFacts
  <2>8. Readable(append(f, rest)) = Readable(b) \o data
    <3>1. (Readable(b) \o first) \o rest = Readable(b) \o (first \o rest)
      BY <1>1, <2>2, ConcatInParts, ZenonT(30)
    <3> QED BY <2>3, <2>6, <2>7, <3>1
  <2>9. Len(Readable(f)) + Len(rest) = Len(Readable(b)) + n
    <3>1. Len(Readable(f)) = Len(Readable(b)) + w
      BY <1>1, <2>2, <2>6, ConcatProperties
    <3> QED BY <1>1, <1>2, <2>2, <3>1
  <2> QED BY <2>1, <2>6, <2>7, <2>8, <2>9
<1> QED BY <1>3, <1>4

(* retrieveAll empties the buffer.                                         *)
LEMMA RetrieveAllFacts ==
    ASSUME NEW b, WellFormed(b)
    PROVE  /\ WellFormed(retrieveAll(b))
           /\ Readable(retrieveAll(b)) = <<>>
           /\ Len(retrieveAll(b).buffer_) = Len(b.buffer_)
<1> DEFINE e == retrieveAll(b)
<1>1. b \in BufferType /\ kCheapPrepend \in Nat /\ Len(b.buffer_) \in Nat /\ kCheapPrepend <= Len(b.buffer_)
  BY BufferAssumption DEF WellFormed, BufferType
<1>2. /\ e.buffer_ = b.buffer_ /\ e.readerIndex_ = kCheapPrepend
      /\ e.writerIndex_ = kCheapPrepend /\ e \in BufferType
  BY <1>1 DEF retrieveAll, BufferType
<1> HIDE DEF e
<1>3. WellFormed(e)
  BY <1>1, <1>2 DEF WellFormed
<1>4. Readable(e) = <<>>
  <2>1. Readable(e) \in Seq(Bytes) /\ Len(Readable(e)) = kCheapPrepend - kCheapPrepend
    BY <1>2, <1>3, ReadableFacts
  <2>2. Len(Readable(e)) = 0
    BY <1>1, <2>1
  <2> QED BY <2>1, <2>2
<1> QED BY <1>2, <1>3, <1>4 DEF e

(* retrieve takes away what it is asked for, or everything.                *)
LEMMA RetrieveFacts ==
    ASSUME NEW b, WellFormed(b), NEW len \in Nat, len <= readableBytes(b)
    PROVE  /\ WellFormed(retrieve(b, len))
           /\ Readable(retrieve(b, len)) = SubSeq(Readable(b), len + 1, Len(Readable(b)))
           /\ Len(retrieve(b, len).buffer_) = Len(b.buffer_)
<1> DEFINE e == retrieve(b, len)  r == b.readerIndex_  w == b.writerIndex_  q == Readable(b)
<1>1. /\ b.buffer_ \in Seq(Bytes) /\ Len(b.buffer_) \in Nat /\ r \in Nat /\ w \in Nat
      /\ q \in Seq(Bytes) /\ Len(q) = w - r
      /\ \A i \in 1..(w - r) : q[i] = b.buffer_[r + i]
  BY ReadableFacts
<1>2. /\ b \in BufferType /\ kCheapPrepend \in Nat /\ kCheapPrepend <= r /\ r <= w
      /\ w <= Len(b.buffer_) /\ len <= w - r
  BY BufferAssumption DEF WellFormed, readableBytes
<1>3. e = [b EXCEPT !.readerIndex_ = r + len]
  BY DEF retrieve
<1> HIDE DEF q
<1>4. r + len \in Nat
  BY <1>1
<1>5. /\ e.buffer_ = b.buffer_ /\ e.readerIndex_ = r + len
      /\ e.writerIndex_ = w /\ e \in BufferType
  <2> HIDE DEF e
  <2> QED BY <1>2, <1>3, <1>4 DEF BufferType
<1> HIDE DEF e
<1>6. WellFormed(e)
  <2>1. kCheapPrepend <= r + len /\ r + len <= w
    BY <1>1, <1>2
  <2> QED BY <1>2, <1>5, <2>1 DEF WellFormed
<1>7. /\ Readable(e) \in Seq(Bytes) /\ Len(Readable(e)) = w - (r + len)
      /\ \A i \in 1..(w - (r + len)) : Readable(e)[i] = b.buffer_[(r + len) + i]
  BY <1>5, <1>6, ReadableFacts
<1> DEFINE t == SubSeq(q, len + 1, w - r)
<1>8. /\ t \in Seq(Bytes)
      /\ Len(t) = IF len + 1 <= w - r THEN (w - r) - (len + 1) + 1 ELSE 0
      /\ \A i \in 1..((w - r) - (len + 1) + 1) : t[i] = q[(len + 1) + i - 1]
  <2>1. \A i \in (len + 1)..(w - r) : q[i] \in Bytes
    BY <1>1, <1>2, ElementOfSeq
  <2>2. len + 1 \in Int /\ w - r \in Int
    BY <1>1, <1>2
  <2> QED BY <2>1, <2>2, SubSeqProperties
<1> HIDE DEF t
<1>9. Readable(e) = t
  <2>1. Len(t) = w - (r + len)
    <3>1. r \in Nat /\ w \in Nat /\ r <= w /\ len <= w - r
      BY <1>1, <1>2
    <3>2. Len(t) = IF len + 1 <= w - r THEN (w - r) - (len + 1) + 1 ELSE 0
      BY <1>8
    <3> HIDE DEF r, w
    <3> QED BY <3>1, <3>2
  <2>2. ASSUME NEW i \in 1..(w - (r + len)) PROVE Readable(e)[i] = t[i]
    <3>1. i \in 1..((w - r) - (len + 1) + 1) /\ (len + 1) + i - 1 = len + i
      BY <1>1, <1>2
    <3>2. t[i] = q[len + i]
      BY <1>8, <3>1
    <3>3. len + i \in 1..(w - r) /\ r + (len + i) = (r + len) + i
      BY <1>1, <1>2, SMTT(30)
    <3>4. q[len + i] = b.buffer_[(r + len) + i]
      BY <1>1, <3>3
    <3> QED BY <1>7, <3>2, <3>4
  <2>3. \A i \in 1..Len(t) : t[i] = Readable(e)[i]
    BY <2>1, <2>2
  <2> QED BY <1>7, <1>8, <2>1, <2>3, SeqEqual
<1> QED BY <1>1, <1>5, <1>6, <1>9 DEF e, t, q

(* A new Buffer is empty.                                                  *)
LEMMA NewBufferFacts == WellFormed(NewBuffer) /\ Readable(NewBuffer) = <<>>
<1>1. kCheapPrepend \in Nat /\ kInitialSize \in Nat /\ Zero \in Bytes
  BY BufferAssumption
<1> DEFINE c == [i \in 1..(kCheapPrepend + kInitialSize) |-> Zero]
<1>2. c \in Seq(Bytes) /\ Len(c) = kCheapPrepend + kInitialSize
  BY <1>1
<1>3. NewBuffer.buffer_ = c /\ NewBuffer.readerIndex_ = kCheapPrepend /\ NewBuffer.writerIndex_ = kCheapPrepend
  BY DEF NewBuffer
<1> HIDE DEF c
<1>4. NewBuffer \in BufferType
  BY <1>1, <1>2 DEF NewBuffer, BufferType, c
<1>5. WellFormed(NewBuffer)
  BY <1>1, <1>2, <1>3, <1>4 DEF WellFormed
<1>6. Readable(NewBuffer) \in Seq(Bytes) /\ Len(Readable(NewBuffer)) = kCheapPrepend - kCheapPrepend
  BY <1>3, <1>5, ReadableFacts
<1>7. Len(Readable(NewBuffer)) = 0
  BY <1>1, <1>6
<1> QED BY <1>5, <1>6, <1>7

-----------------------------------------------------------------------------
Inv == WellFormed(buf) /\ result \in Seq(Bytes)

(* The data of a step is a sequence of bytes.                              *)
LEMMA ChunksAreSequences == Chunks \subseteq Seq(Bytes)
<1> SUFFICES ASSUME NEW n \in 0..MaxChunk, NEW data \in [1..n -> Values] PROVE data \in Seq(Bytes)
  BY DEF Chunks
<1>1. data \in [1..n -> Bytes] /\ n \in Nat
  BY BufferSpecAssumption
<1> QED BY <1>1

(* What is handed out is the first part of the unread bytes.               *)
LEMMA FrontFacts ==
    ASSUME NEW q \in Seq(Bytes), NEW n \in Nat, n <= Len(q)
    PROVE  SubSeq(q, 1, n) \in Seq(Bytes)
OBVIOUS

(* A call and what the abstract queue does meanwhile.                      *)
StepInv == Inv' /\ (Queue!Next \/ UNCHANGED <<Readable(buf), result>>)
           /\ (size(buf') > size(buf) => readableBytes(buf') + kCheapPrepend > size(buf))

(* The invariant holds of a new Buffer.                                     *)
LEMMA InitInv == Init => Inv
BY NewBufferFacts DEF Init, Inv

(* Every call keeps the invariant, is a step of the queue of bytes and     *)
(* grows the vector only if it must.                                       *)
LEMMA StepLemma == Inv /\ Next => StepInv
<1> SUFFICES ASSUME Inv, Next PROVE StepInv
  OBVIOUS
<1> DEFINE q == Readable(buf)
<1>1. /\ WellFormed(buf) /\ q \in Seq(Bytes) /\ Len(q) \in Nat
      /\ Len(q) = readableBytes(buf) /\ Len(buf.buffer_) \in Nat /\ kCheapPrepend \in Nat
  BY ReadableFacts, BufferAssumption DEF Inv, readableBytes
<1>2. ASSUME NEW data \in Chunks, WellFormed(buf'), Readable(buf') = q \o data, result' = <<>>,
             Len(buf'.buffer_) > Len(buf.buffer_) => Len(q) + Len(data) + kCheapPrepend > Len(buf.buffer_)
      PROVE  StepInv
  <2>1. data \in Seq(Bytes)
    BY ChunksAreSequences
  <2>2. Queue!Next
    BY <1>2 DEF Queue!Next, Queue!Enter
  <2>3. readableBytes(buf') = Len(q) + Len(data)
    <3>1. readableBytes(buf') = Len(Readable(buf'))
      BY <1>2, ReadableFacts DEF readableBytes
    <3> QED BY <1>1, <1>2, <2>1, <3>1, ConcatProperties
  <2>4. Inv'
    BY <1>2 DEF Inv
  <2> QED BY <1>2, <2>2, <2>3, <2>4 DEF StepInv, size
<1>3. ASSUME NEW n \in Nat, n <= Len(q), WellFormed(buf'),
             Readable(buf') = SubSeq(q, n + 1, Len(q)), result' = SubSeq(q, 1, n),
             Len(buf'.buffer_) = Len(buf.buffer_)
      PROVE  StepInv
  <2>1. n \in 0..Len(q)
    BY <1>1, <1>3
  <2>2. Queue!Next
    BY <1>3, <2>1 DEF Queue!Next, Queue!Leave
  <2>3. Inv'
    BY <1>1, <1>3, FrontFacts DEF Inv
  <2>4. ~(size(buf') > size(buf))
    BY <1>1, <1>3 DEF size
  <2> QED BY <2>2, <2>3, <2>4 DEF StepInv
<1>4. ASSUME NEW data \in Chunks, AppendData(data) PROVE StepInv
  <2>1. data \in Seq(Bytes)
    BY ChunksAreSequences
  <2>2. buf' = append(buf, data) /\ result' = <<>>
    BY <1>4 DEF AppendData
  <2> QED BY <1>1, <1>2, <2>1, <2>2, AppendFacts
<1>5. ASSUME NEW data \in Chunks, ReadFd(data) PROVE StepInv
  <2>1. data \in Seq(Bytes)
    BY ChunksAreSequences
  <2>2. buf' = readFd(buf, data) /\ result' = <<>>
    BY <1>5 DEF ReadFd
  <2> QED BY <1>1, <1>2, <2>1, <2>2, ReadFdFacts
<1>6. ASSUME NEW n \in 0..(MaxContent + 1), WriteFd(n) PROVE StepInv
  <2>1. n \in Nat /\ n <= Len(q) /\ buf' = buf /\ result' = SubSeq(q, 1, n)
    BY <1>1, <1>6 DEF WriteFd
  <2>2. n \in 0..Len(q)
    BY <1>1, <2>1
  <2>3. Queue!Next
    BY <2>1, <2>2 DEF Queue!Next, Queue!Peek
  <2>4. Inv'
    BY <1>1, <2>1, FrontFacts DEF Inv
  <2>5. ~(size(buf') > size(buf))
    BY <1>1, <2>1 DEF size
  <2> QED BY <2>3, <2>4, <2>5 DEF StepInv
<1>7. ASSUME NEW n \in 0..(MaxContent + 1), RetrieveAsString(n) PROVE StepInv
  <2>1. n \in Nat /\ n <= readableBytes(buf) /\ buf' = retrieve(buf, n) /\ result' = SubSeq(q, 1, n)
    BY <1>7 DEF RetrieveAsString
  <2> QED BY <1>1, <1>3, <2>1, RetrieveFacts
<1>8. ASSUME buf' = retrieveAll(buf), result' = SubSeq(q, 1, Len(q)) PROVE StepInv
  <2>1. SubSeq(q, Len(q) + 1, Len(q)) = <<>>
    BY <1>1, SubSeqEmpty
  <2>2. /\ WellFormed(buf') /\ Readable(buf') = <<>>
        /\ Len(buf'.buffer_) = Len(buf.buffer_)
    BY <1>1, <1>8, RetrieveAllFacts
  <2>3. Len(q) <= Len(q)
    BY <1>1
  <2> HIDE DEF q
  <2> QED BY <1>1, <1>3, <1>8, <2>1, <2>2, <2>3
<1>9. ASSUME NEW n \in 0..(MaxContent + 1), Retrieve(n) PROVE StepInv
  <2>1. n \in Nat
    OBVIOUS
  <2>2. CASE n <= readableBytes(buf)
    <3>1. buf' = retrieve(buf, n) /\ result' = SubSeq(q, 1, n)
      BY <1>9, <2>2 DEF Retrieve
    <3> QED BY <1>1, <1>3, <2>1, <2>2, <3>1, RetrieveFacts
  <2>3. CASE ~(n <= readableBytes(buf))
    <3>1. buf' = retrieveAll(buf) /\ result' = SubSeq(q, 1, Len(q))
      BY <1>1, <1>9, <2>3 DEF Retrieve, retrieve
    <3> QED BY <1>8, <3>1
  <2> QED BY <2>2, <2>3
<1>10. ASSUME RetrieveAll PROVE StepInv
  <2>1. SubSeq(q, 1, Len(q)) = q
    BY <1>1, SubSeqFull
  <2> QED BY <1>8, <1>10, <2>1 DEF RetrieveAll
<1> QED BY <1>4, <1>5, <1>6, <1>7, <1>9, <1>10 DEF Next

(* The invariant is inductive.                                             *)
LEMMA InvStep == Inv /\ [Next]_vars => Inv'
<1>1. Inv /\ Next => Inv'
  BY StepLemma DEF StepInv
<1>2. Inv /\ UNCHANGED vars => Inv'
  BY DEF vars, Inv
<1> QED BY <1>1, <1>2

(* The indices of a Buffer stay in order, and within the vector.           *)
THEOREM IndicesCorrect == Spec => [](TypeOK /\ IndicesInOrder)
<1>1. Inv => TypeOK /\ IndicesInOrder
  BY DEF Inv, WellFormed, TypeOK, IndicesInOrder, size
<1> QED BY InitInv, InvStep, <1>1, PTL DEF Spec

(* A Buffer is a queue of bytes, through every move and every growth.      *)
THEOREM BufferRefinement == Spec => ImplementsByteQueue
<1>1. Init => Queue!Init
  <2> SUFFICES ASSUME Init PROVE Queue!Init
    OBVIOUS
  <2>1. WellFormed(buf)
    BY InitInv DEF Inv
  <2>2. Readable(buf) \in Seq(Bytes) /\ Len(Readable(buf)) = buf.writerIndex_ - buf.readerIndex_
    BY <2>1, ReadableFacts
  <2>3. Len(Readable(buf)) = 0
    BY <2>2, BufferAssumption DEF Init, NewBuffer
  <2>4. Readable(buf) = <<>>
    BY <2>2, <2>3
  <2> QED BY <2>4 DEF Queue!Init, Init
<1>2. Inv /\ [Next]_vars => [Queue!Next]_<<Readable(buf), result>>
  <2>1. Inv /\ Next => Queue!Next \/ UNCHANGED <<Readable(buf), result>>
    BY StepLemma DEF StepInv
  <2>2. UNCHANGED vars => UNCHANGED <<Readable(buf), result>>
    BY DEF vars, Readable
  <2> QED BY <2>1, <2>2
<1> QED BY InitInv, InvStep, <1>1, <1>2, PTL DEF Spec, ImplementsByteQueue, Queue!Spec

(* The vector grows only when moving the bytes to its front cannot do.     *)
THEOREM NoNeedlessGrowth == Spec => GrowsOnlyWhenFull
<1>1. Inv /\ [Next]_vars =>
         [size(buf') > size(buf) => readableBytes(buf') + kCheapPrepend > size(buf)]_vars
  BY StepLemma DEF StepInv
<1> QED BY InitInv, InvStep, <1>1, PTL DEF Spec, GrowsOnlyWhenFull

-----------------------------------------------------------------------------
(* The HTTP server.                                                        *)

(* Induction over the natural numbers, for a set.                          *)
LEMMA InductionInSet ==
    ASSUME NEW T, 0 \in T, \A n \in Nat : n \in T => n + 1 \in T
    PROVE  Nat \subseteq T
<1> DEFINE U == {n \in Nat : n \notin T}
<1> SUFFICES ASSUME U # {} PROVE FALSE
  OBVIOUS
<1>1. \E n \in U : \A m \in U : ~(<<m, n>> \in OpToRel(<, Nat))
  <2>1. U \in SUBSET Nat
    OBVIOUS
  <2> HIDE DEF U
  <2> QED BY <2>1, NatLessThanWellFounded, WFMin
<1>2. ASSUME NEW m \in Nat, NEW n \in Nat, m < n
      PROVE  <<m, n>> \in OpToRel(<, Nat)
  BY <1>2, Zenon DEF OpToRel
<1>3. PICK n \in U : \A m \in U : ~(<<m, n>> \in OpToRel(<, Nat))
  BY <1>1
<1>4. n \in Nat /\ n # 0
  OBVIOUS
<1>5. n - 1 \in Nat /\ n - 1 < n /\ (n - 1) + 1 = n
  BY <1>4
<1>6. n - 1 \notin U
  BY <1>2, <1>3, <1>4, <1>5
<1> QED BY <1>5, <1>6

IsRun(r, n, s) ==
    r = [i \in 0..n |-> IF i = 0 THEN NothingAsked ELSE WithPiece(r[i - 1], s[i])]

(* The reference has a run over every stream,                              *)
LEMMA RunExists ==
    ASSUME NEW s, NEW k \in Nat
    PROVE  \E r : IsRun(r, k, s)
<1> DEFINE T == {n \in Nat : \E r : IsRun(r, n, s)}
<1>1. 0 \in T
  <2>1. IsRun([i \in 0..0 |-> NothingAsked], 0, s)
    BY DEF IsRun
  <2> QED BY <2>1
<1>2. ASSUME NEW n \in Nat, n \in T PROVE n + 1 \in T
  <2>1. PICK r : IsRun(r, n, s)
    BY <1>2
  <2> DEFINE q == [i \in 0..(n + 1) |-> IF i <= n THEN r[i] ELSE WithPiece(r[n], s[n + 1])]
  <2>2. ASSUME NEW i \in 0..(n + 1)
        PROVE  q[i] = IF i = 0 THEN NothingAsked ELSE WithPiece(q[i - 1], s[i])
    <3>1. CASE i = 0
      BY <2>1, <3>1 DEF IsRun
    <3>2. CASE i # 0 /\ i <= n
      <4>1. i - 1 \in 0..(n + 1) /\ i - 1 <= n /\ i \in 0..n
        BY <3>2
      <4>2. r[i] = WithPiece(r[i - 1], s[i])
        BY <2>1, <3>2, <4>1 DEF IsRun
      <4> QED BY <3>2, <4>1, <4>2
    <3>3. CASE i = n + 1
      <4>1. i # 0 /\ ~(i <= n) /\ i - 1 = n /\ n \in 0..(n + 1)
        BY <3>3
      <4> QED BY <3>3, <4>1
    <3> QED BY <3>1, <3>2, <3>3
  <2>3. IsRun(q, n + 1, s)
    <3>1. DOMAIN q = 0..(n + 1) /\ q = [i \in 0..(n + 1) |-> q[i]]
      OBVIOUS
    <3> HIDE DEF q
    <3> QED BY <2>2, <3>1 DEF IsRun
  <2> HIDE DEF q
  <2> QED BY <2>3
<1> HIDE DEF T
<1>3. k \in T
  BY <1>1, <1>2, InductionInSet
<1> QED BY <1>3 DEF T

SameUpTo(k, s, t) == \A i \in 1..k : s[i] = t[i]

(* and runs over a stream and over its beginning agree.                    *)
LEMMA RunsAgree ==
    ASSUME NEW s, NEW t, NEW m \in Nat, NEW k \in Nat, k <= m, SameUpTo(k, s, t),
           NEW r, NEW q, IsRun(r, k, s), IsRun(q, m, t)
    PROVE  r[k] = q[k]
<1> DEFINE T == {n \in Nat : n <= k => r[n] = q[n]}
<1>1. 0 \in T
  BY DEF IsRun
<1>2. ASSUME NEW n \in Nat, n \in T PROVE n + 1 \in T
  <2> SUFFICES ASSUME n + 1 <= k PROVE r[n + 1] = q[n + 1]
    OBVIOUS
  <2>1. n <= k /\ n + 1 \in 0..k /\ n + 1 \in 0..m /\ n + 1 \in 1..k /\ (n + 1) - 1 = n /\ n + 1 # 0
    OBVIOUS
  <2>2. r[n] = q[n] /\ s[n + 1] = t[n + 1]
    BY <1>2, <2>1 DEF SameUpTo
  <2>3. r[n + 1] = WithPiece(r[n], s[n + 1])
    BY <2>1 DEF IsRun
  <2>4. q[n + 1] = WithPiece(q[n], t[n + 1])
    BY <2>1 DEF IsRun
  <2> QED BY <2>2, <2>3, <2>4
<1> HIDE DEF T
<1>3. k \in T
  BY <1>1, <1>2, InductionInSet
<1> QED BY <1>3 DEF T

(* What a stream asks for is the end of such a run.                        *)
LEMMA AskedIsRun ==
    ASSUME NEW s \in Seq(Pieces)
    PROVE  \E r : IsRun(r, Len(s), s) /\ Asked(s) = r[Len(s)]
<1> DEFINE r == CHOOSE r : IsRun(r, Len(s), s)
<1>1. Asked(s) = r[Len(s)]
  BY DEF Asked, IsRun
<1>2. Len(s) \in Nat
  OBVIOUS
<1>3. \E q : IsRun(q, Len(s), s)
  BY <1>2, RunExists
<1>4. IsRun(r, Len(s), s)
  BY <1>3
<1> HIDE DEF r
<1> QED BY <1>1, <1>4

(* So an empty stream asks for nothing, and one more piece adds to it.     *)
LEMMA AskedEmpty == Asked(<<>>) = NothingAsked
<1>1. <<>> \in Seq(Pieces) /\ Len(<<>>) = 0
  OBVIOUS
<1>2. PICK r : IsRun(r, 0, <<>>) /\ Asked(<<>>) = r[0]
  BY <1>1, AskedIsRun
<1> QED BY <1>2 DEF IsRun

(* One more piece.                                                         *)
LEMMA AskedAppend ==
    ASSUME NEW s \in Seq(Pieces), NEW p \in Pieces
    PROVE  Asked(Append(s, p)) = WithPiece(Asked(s), p)
<1> DEFINE t == Append(s, p)  n == Len(s)
<1>1. /\ n \in Nat /\ t \in Seq(Pieces) /\ Len(t) = n + 1 /\ t[n + 1] = p
      /\ \A i \in 1..n : s[i] = t[i]
  OBVIOUS
<1>2. PICK r : IsRun(r, n, s) /\ Asked(s) = r[n]
  BY AskedIsRun
<1>3. PICK q : IsRun(q, n + 1, t) /\ Asked(t) = q[n + 1]
  BY <1>1, AskedIsRun
<1> HIDE DEF t, n
<1>4. r[n] = q[n]
  <2>1. n \in Nat /\ n + 1 \in Nat /\ n <= n + 1
    BY <1>1
  <2>2. SameUpTo(n, s, t)
    BY <1>1 DEF SameUpTo
  <2>3. IsRun(r, n, s) /\ IsRun(q, n + 1, t)
    BY <1>2, <1>3
  <2> QED BY <2>1, <2>2, <2>3, RunsAgree
<1>5. q[n + 1] = WithPiece(q[n], t[n + 1])
  <2>1. n + 1 \in 0..(n + 1) /\ n + 1 # 0 /\ (n + 1) - 1 = n
    BY <1>1
  <2> QED BY <1>3, <2>1 DEF IsRun
<1> QED BY <1>1, <1>2, <1>3, <1>4, <1>5 DEF t

AskedType == [answers : Seq(Answer), first : RequestLines \cup {""}, header : Headers \cup {""},
              text : Texts \cup {""}, bad : BOOLEAN]

(* A later state of the reference: it has the answers of the earlier one,  *)
(* and a bad line is the end of everything.                                *)
Continues(a, c) ==
    /\ Len(a.answers) <= Len(c.answers)
    /\ \A i \in 1..Len(a.answers) : c.answers[i] = a.answers[i]
    /\ a.bad => c = a

(* What the reference answers is an answer, and no refusal.                *)
LEMMA AnswerToFacts ==
    ASSUME NEW first, NEW header
    PROVE  AnswerTo(first, header) \in Answer /\ AnswerTo(first, header) # BadRequest
<1>1. CASE first = "miss11"
  BY <1>1 DEF AnswerTo, Answer, BadRequest
<1>2. CASE first # "miss11"
  <2> DEFINE c == IF first = "get10" THEN header # "keep" ELSE header = "close"
  <2>1. c \in BOOLEAN
    OBVIOUS
  <2>2. AnswerTo(first, header) = [status |-> 200, close |-> c]
    BY <1>2 DEF AnswerTo
  <2> HIDE DEF c
  <2> QED BY <2>1, <2>2 DEF Answer, BadRequest
<1> QED BY <1>1, <1>2

(* One element after a sequence.                                           *)
LEMMA AppendElement ==
    ASSUME NEW S, NEW v \in Seq(S), NEW x \in S
    PROVE  /\ Len(v) \in Nat /\ Append(v, x) \in Seq(S) /\ Len(Append(v, x)) = Len(v) + 1
           /\ \A i \in 1..Len(v) : Append(v, x)[i] = v[i]
           /\ Append(v, x)[Len(v) + 1] = x
OBVIOUS

(* The fields of what is asked for.                                        *)
LEMMA AskedFields ==
    ASSUME NEW a \in AskedType
    PROVE  /\ a.answers \in Seq(Answer) /\ Len(a.answers) \in Nat
           /\ a.first \in RequestLines \cup {""} /\ a.header \in Headers \cup {""}
           /\ a.text \in Texts \cup {""} /\ a.bad \in BOOLEAN
<1>1. /\ a.answers \in Seq(Answer) /\ a.first \in RequestLines \cup {""}
      /\ a.header \in Headers \cup {""} /\ a.text \in Texts \cup {""} /\ a.bad \in BOOLEAN
  BY DEF AskedType
<1>2. \A v \in Seq(Answer) : Len(v) \in Nat
  OBVIOUS
<1> QED BY <1>1, <1>2

(* A state with the same answers, after one that is not bad, is a later    *)
(* one.                                                                    *)
LEMMA SameAnswersContinue ==
    ASSUME NEW a \in AskedType, NEW c \in AskedType, c.answers = a.answers, ~a.bad \/ c = a
    PROVE  Continues(a, c)
<1>1. Len(a.answers) \in Nat
  BY AskedFields
<1>2. Len(a.answers) <= Len(c.answers)
  BY <1>1
<1>3. \A i \in 1..Len(a.answers) : c.answers[i] = a.answers[i]
  OBVIOUS
<1>4. a.bad => c = a
  OBVIOUS
<1> QED BY <1>2, <1>3, <1>4, Zenon DEF Continues

(* One piece leads to a later state,                                       *)
LEMMA WithPieceFacts ==
    ASSUME NEW a \in AskedType, NEW p \in Pieces
    PROVE  WithPiece(a, p) \in AskedType /\ Continues(a, WithPiece(a, p))
<1>1. /\ a.answers \in Seq(Answer) /\ a.first \in RequestLines \cup {""}
      /\ a.header \in Headers \cup {""} /\ a.text \in Texts \cup {""} /\ a.bad \in BOOLEAN
  BY AskedFields
<1>2. CASE a.bad
  <2>1. WithPiece(a, p) = a
    BY <1>2 DEF WithPiece
  <2> QED BY <2>1, SameAnswersContinue
<1>3. CASE ~a.bad /\ p # CRLF
  <2> DEFINE c == [a EXCEPT !.text = p]
  <2>1. WithPiece(a, p) = c
    BY <1>3 DEF WithPiece
  <2>2. p \in Texts
    BY <1>3 DEF Pieces
  <2>3. c \in AskedType
    BY <2>2 DEF AskedType
  <2>4. c.answers = a.answers
    BY DEF AskedType
  <2> HIDE DEF c
  <2> QED BY <1>3, <2>1, <2>3, <2>4, SameAnswersContinue
<1>4. CASE ~a.bad /\ p = CRLF /\ a.first = ""
  <2> DEFINE c == IF a.text \in RequestLines THEN [a EXCEPT !.first = a.text, !.text = ""]
                                             ELSE [a EXCEPT !.bad = TRUE, !.text = ""]
  <2>1. WithPiece(a, p) = c
    BY <1>4 DEF WithPiece, WithLine
  <2>2. c \in AskedType
    BY <1>1 DEF AskedType
  <2>3. c.answers = a.answers
    BY DEF AskedType
  <2> HIDE DEF c
  <2> QED BY <1>4, <2>1, <2>2, <2>3, SameAnswersContinue
<1>5. CASE ~a.bad /\ p = CRLF /\ a.first # "" /\ a.text \in Headers
  <2> DEFINE c == [a EXCEPT !.header = a.text, !.text = ""]
  <2>1. WithPiece(a, p) = c
    BY <1>5 DEF WithPiece, WithLine
  <2>2. c \in AskedType
    BY <1>1, <1>5 DEF AskedType
  <2>3. c.answers = a.answers
    BY DEF AskedType
  <2> HIDE DEF c
  <2> QED BY <1>5, <2>1, <2>2, <2>3, SameAnswersContinue
<1>6. CASE ~a.bad /\ p = CRLF /\ a.first # "" /\ a.text \notin Headers
  <2> DEFINE x == AnswerTo(a.first, a.header)
             v == Append(a.answers, x)
             c == [NothingAsked EXCEPT !.answers = v]
  <2>1. WithPiece(a, p) = c
    BY <1>6 DEF WithPiece, WithLine
  <2>2. x \in Answer
    BY AnswerToFacts
  <2> HIDE DEF x
  <2>3. /\ Len(a.answers) \in Nat /\ v \in Seq(Answer) /\ Len(v) = Len(a.answers) + 1
        /\ \A i \in 1..Len(a.answers) : v[i] = a.answers[i]
    <3> DEFINE u == a.answers
    <3>1. u \in Seq(Answer) /\ v = Append(u, x)
      BY <1>1
    <3> HIDE DEF u, v
    <3>2. /\ Len(u) \in Nat /\ v \in Seq(Answer) /\ Len(v) = Len(u) + 1
          /\ \A i \in 1..Len(u) : v[i] = u[i]
      BY <2>2, <3>1, AppendElement
    <3> QED BY <3>2 DEF u
  <2> HIDE DEF v
  <2>4. c \in AskedType /\ c.answers = v
    BY <2>3 DEF AskedType, NothingAsked
  <2> HIDE DEF c
  <2>5. Len(a.answers) <= Len(c.answers)
    BY <2>3, <2>4
  <2>6. \A i \in 1..Len(a.answers) : c.answers[i] = a.answers[i]
    BY <2>3, <2>4
  <2>7. Continues(a, c)
    BY <1>6, <2>5, <2>6, Zenon DEF Continues
  <2> QED BY <2>1, <2>4, <2>7
<1>7. a.bad \/ ~a.bad
  BY <1>1
<1> QED BY <1>2, <1>3, <1>4, <1>5, <1>6, <1>7

(* and a later state than the later one is one.                            *)
LEMMA ContinuesTransitive ==
    ASSUME NEW a \in AskedType, NEW c \in AskedType, NEW e \in AskedType,
           Continues(a, c), Continues(c, e)
    PROVE  Continues(a, e)
<1>1. Len(a.answers) \in Nat /\ Len(c.answers) \in Nat /\ Len(e.answers) \in Nat
  BY AskedFields
<1>2. Len(a.answers) <= Len(c.answers) /\ Len(c.answers) <= Len(e.answers)
  BY DEF Continues
<1>3. ASSUME NEW i \in 1..Len(a.answers) PROVE e.answers[i] = a.answers[i]
  <2>1. i \in 1..Len(c.answers)
    BY <1>1, <1>2
  <2> QED BY <2>1 DEF Continues
<1>4. a.bad => e = a
  BY Zenon DEF Continues
<1>5. Len(a.answers) <= Len(e.answers)
  BY <1>1, <1>2
<1> QED BY <1>3, <1>4, <1>5, Zenon DEF Continues

(* A stream that goes on goes on by one piece after the others.            *)
LEMMA PiecesSplit ==
    ASSUME NEW d \in Seq(Pieces), NEW f \in Seq(Pieces), NEW n \in Nat, Len(f) = n + 1
    PROVE  d \o f = Append(d \o SubSeq(f, 1, n), f[n + 1])
<1> DEFINE g == SubSeq(f, 1, n)  l == d \o f  r == Append(d \o g, f[n + 1])  m == Len(d)
<1>1. /\ g \in Seq(Pieces) /\ Len(g) = n /\ \A i \in 1..n : g[i] = f[i]
      /\ f[n + 1] \in Pieces /\ m \in Nat
  OBVIOUS
<1> HIDE DEF g
<1>2. /\ l \in Seq(Pieces) /\ Len(l) = m + (n + 1)
      /\ \A i \in 1..(m + (n + 1)) : l[i] = IF i <= m THEN d[i] ELSE f[i - m]
  BY <1>1
<1>3. /\ d \o g \in Seq(Pieces) /\ Len(d \o g) = m + n
      /\ \A i \in 1..(m + n) : (d \o g)[i] = IF i <= m THEN d[i] ELSE g[i - m]
  BY <1>1
<1>4. /\ r \in Seq(Pieces) /\ Len(r) = (m + n) + 1 /\ r[(m + n) + 1] = f[n + 1]
      /\ \A i \in 1..(m + n) : r[i] = (d \o g)[i]
  <2> DEFINE h == d \o g
  <2> HIDE DEF h
  <2>1. h \in Seq(Pieces) /\ Len(h) = m + n
    BY <1>3 DEF h
  <2>2. /\ Append(h, f[n + 1]) \in Seq(Pieces) /\ Len(Append(h, f[n + 1])) = Len(h) + 1
        /\ Append(h, f[n + 1])[Len(h) + 1] = f[n + 1]
        /\ \A i \in 1..Len(h) : Append(h, f[n + 1])[i] = h[i]
    BY <1>1, <2>1, AppendElement
  <2> QED BY <2>1, <2>2 DEF h
<1>5. ASSUME NEW i \in 1..(m + (n + 1)) PROVE l[i] = r[i]
  <2> HIDE DEF l, r, m
  <2>1. CASE i <= m
    <3>1. i \in 1..(m + n)
      BY <1>1, <2>1
    <3> QED BY <1>2, <1>3, <1>4, <2>1, <3>1
  <2>2. CASE m < i /\ i <= m + n
    <3>1. i \in 1..(m + n) /\ ~(i <= m) /\ i - m \in 1..n
      BY <1>1, <2>2
    <3> QED BY <1>1, <1>2, <1>3, <1>4, <3>1
  <2>3. CASE i = m + (n + 1)
    <3>1. ~(i <= m) /\ i - m = n + 1 /\ i = (m + n) + 1
      BY <1>1, <2>3
    <3> QED BY <1>2, <1>4, <3>1
  <2>4. i <= m \/ (m < i /\ i <= m + n) \/ i = m + (n + 1)
    BY <1>1
  <2> QED BY <2>1, <2>2, <2>3, <2>4
<1>6. Len(l) = Len(r)
  <2> HIDE DEF l, r, m
  <2> QED BY <1>1, <1>2, <1>4
<1>7. l = r
  <2> HIDE DEF l, r, m
  <2> QED BY <1>2, <1>4, <1>5, <1>6, SeqEqual
<1> QED BY <1>7 DEF g

(* The reference over a stream that goes on.                               *)
LEMMA AskedContinues ==
    ASSUME NEW d \in Seq(Pieces), Asked(d) \in AskedType, NEW e \in Seq(Pieces)
    PROVE  Asked(d \o e) \in AskedType /\ Continues(Asked(d), Asked(d \o e))
<1> DEFINE Fine(f) == Asked(d \o f) \in AskedType /\ Continues(Asked(d), Asked(d \o f))
           T == {n \in Nat : \A f \in Seq(Pieces) : Len(f) = n => Fine(f)}
<1>1. 0 \in T
  <2>1. ASSUME NEW f \in Seq(Pieces), Len(f) = 0 PROVE Fine(f)
    <3>1. d \o f = d
      BY <2>1
    <3>2. Continues(Asked(d), Asked(d))
      BY SameAnswersContinue
    <3> QED BY <3>1, <3>2
  <2> QED BY <2>1
<1>2. ASSUME NEW n \in Nat, n \in T PROVE n + 1 \in T
  <2>1. ASSUME NEW f \in Seq(Pieces), Len(f) = n + 1 PROVE Fine(f)
    <3> DEFINE g == SubSeq(f, 1, n)  p == f[n + 1]
    <3>1. /\ g \in Seq(Pieces) /\ Len(g) = n /\ p \in Pieces
          /\ \A i \in 1..n : g[i] = f[i]
      BY <2>1
    <3>2. d \o g \in Seq(Pieces)
      BY <3>1
    <3>3. d \o f = Append(d \o g, p)
      BY <2>1, PiecesSplit
    <3>4. Fine(g)
      BY <1>2, <3>1
    <3>5. Asked(d \o f) = WithPiece(Asked(d \o g), p)
      <4> HIDE DEF g, p
      <4> QED BY <3>1, <3>2, <3>3, AskedAppend
    <3>6. /\ WithPiece(Asked(d \o g), p) \in AskedType
          /\ Continues(Asked(d \o g), WithPiece(Asked(d \o g), p))
      BY <3>1, <3>4, WithPieceFacts
    <3> HIDE DEF g, p
    <3> QED BY <3>4, <3>5, <3>6, ContinuesTransitive
  <2> HIDE DEF Fine
  <2> QED BY <2>1
<1> HIDE DEF Fine
<1>3. Len(e) \in Nat
  OBVIOUS
<1>4. Len(e) \in T
  <2> HIDE DEF T
  <2> QED BY <1>1, <1>2, <1>3, InductionInSet
<1>5. Fine(e)
  BY <1>4
<1> QED BY <1>5 DEF Fine

(* The reference is always of its type.                                    *)
LEMMA AskedTyped == ASSUME NEW s \in Seq(Pieces) PROVE Asked(s) \in AskedType
<1>1. NothingAsked \in AskedType
  BY DEF NothingAsked, AskedType
<1>2. <<>> \in Seq(Pieces) /\ <<>> \o s = s
  OBVIOUS
<1> QED BY <1>1, <1>2, AskedEmpty, AskedContinues

-----------------------------------------------------------------------------
(* Lines in the buffer.                                                    *)

(* e is d followed by the first k pieces of q.                             *)
FollowedBy(e, d, k, q) ==
    /\ Len(e) = Len(d) + k
    /\ \A i \in 1..Len(d) : e[i] = d[i]
    /\ \A i \in 1..k : e[Len(d) + i] = q[i]

CutAfter(e, d, k, q) ==
    /\ SubSeq(q, k + 1, Len(q)) \in Seq(Pieces)
    /\ d \o q = e \o SubSeq(q, k + 1, Len(q))

(* Taking k pieces from the front of the unread ones.                      *)
LEMMA TakeFront ==
    ASSUME NEW d \in Seq(Pieces), NEW q \in Seq(Pieces), NEW k \in Nat, k <= Len(q),
           NEW e \in Seq(Pieces), FollowedBy(e, d, k, q)
    PROVE  CutAfter(e, d, k, q)
<1> DEFINE m == Len(d)  n == Len(q)  t == SubSeq(q, k + 1, n)  l == d \o q  r == e \o t
<1>1. m \in Nat /\ n \in Nat
  OBVIOUS
<1>2. /\ t \in Seq(Pieces) /\ Len(t) = n - k
      /\ \A i \in 1..(n - k) : t[i] = q[k + i]
  <2>1. \A i \in (k + 1)..n : q[i] \in Pieces
    OBVIOUS
  <2>2. k + 1 \in Int /\ n \in Int
    BY <1>1
  <2>3. /\ t \in Seq(Pieces) /\ Len(t) = IF k + 1 <= n THEN n - (k + 1) + 1 ELSE 0
        /\ \A i \in 1..(n - (k + 1) + 1) : t[i] = q[(k + 1) + i - 1]
    BY <2>1, <2>2, SubSeqProperties
  <2> HIDE DEF n, t
  <2>4. Len(t) = n - k
    BY <1>1, <2>3 DEF n
  <2>5. ASSUME NEW i \in 1..(n - k) PROVE t[i] = q[k + i]
    <3>1. i \in 1..(n - (k + 1) + 1) /\ (k + 1) + i - 1 = k + i
      BY <1>1
    <3> QED BY <2>3, <3>1
  <2> QED BY <2>3, <2>4, <2>5
<1> HIDE DEF t
<1>3. /\ l \in Seq(Pieces) /\ Len(l) = m + n
      /\ \A i \in 1..(m + n) : l[i] = IF i <= m THEN d[i] ELSE q[i - m]
  OBVIOUS
<1>4. /\ r \in Seq(Pieces) /\ Len(r) = (m + k) + (n - k)
      /\ \A i \in 1..((m + k) + (n - k)) : r[i] = IF i <= m + k THEN e[i] ELSE t[i - (m + k)]
  <2>1. Len(e) = m + k /\ Len(t) = n - k
    BY <1>2 DEF FollowedBy
  <2>2. /\ r \in Seq(Pieces) /\ Len(r) = Len(e) + Len(t)
        /\ \A i \in 1..(Len(e) + Len(t)) : r[i] = IF i <= Len(e) THEN e[i] ELSE t[i - Len(e)]
    <3>1. t \in Seq(Pieces)
      BY <1>2
    <3> QED BY <3>1, ConcatProperties
  <2> HIDE DEF r, m, n
  <2> QED BY <2>1, <2>2
<1>5. /\ k <= n /\ Len(e) = m + k
      /\ \A i \in 1..m : e[i] = d[i]
      /\ \A i \in 1..k : e[m + i] = q[i]
  BY DEF FollowedBy
<1> HIDE DEF m, n, l, r
<1>6. ASSUME NEW i \in 1..(m + n) PROVE l[i] = r[i]
  <2>1. i \in 1..((m + k) + (n - k))
    BY <1>1, <1>5
  <2>2. CASE i <= m
    <3>1. i \in 1..m /\ i <= m + k
      BY <1>1, <2>2
    <3> QED BY <1>3, <1>4, <1>5, <2>1, <3>1
  <2>3. CASE m < i /\ i <= m + k
    <3>1. i - m \in 1..k /\ ~(i <= m) /\ m + (i - m) = i
      BY <1>1, <2>3
    <3>2. e[i] = q[i - m]
      BY <1>5, <3>1
    <3> QED BY <1>3, <1>4, <2>1, <2>3, <3>1, <3>2
  <2>4. CASE m + k < i
    <3>1. i - (m + k) \in 1..(n - k) /\ ~(i <= m) /\ ~(i <= m + k) /\ k + (i - (m + k)) = i - m
      BY <1>1, <1>5, <2>4
    <3>2. t[i - (m + k)] = q[i - m]
      BY <1>2, <3>1
    <3>3. l[i] = q[i - m]
      BY <1>3, <3>1
    <3>4. r[i] = t[i - (m + k)]
      BY <1>4, <2>1, <3>1
    <3> QED BY <3>2, <3>3, <3>4
  <2>5. i <= m \/ (m < i /\ i <= m + k) \/ m + k < i
    BY <1>1
  <2> QED BY <2>2, <2>3, <2>4, <2>5
<1>7. Len(l) = Len(r) /\ Len(l) = m + n
  BY <1>1, <1>3, <1>4, <1>5
<1>8. \A i \in 1..Len(l) : l[i] = r[i]
  BY <1>6, <1>7
<1>9. l = r
  BY <1>3, <1>4, <1>7, <1>8, SeqEqual
<1> QED BY <1>2, <1>9 DEF l, r, t, n, CutAfter

(* An empty line and a line with a text, moved from the unread pieces to   *)
(* those already taken.                                                    *)
LEMMA TakeEmptyLine ==
    ASSUME NEW d \in Seq(Pieces), NEW q \in Seq(Pieces), 1 <= Len(q)
    PROVE  /\ SubSeq(q, 1 + 1, Len(q)) \in Seq(Pieces) /\ Append(d, q[1]) \in Seq(Pieces)
           /\ d \o q = Append(d, q[1]) \o SubSeq(q, 1 + 1, Len(q))
<1> DEFINE e == Append(d, q[1])
<1>1. q[1] \in Pieces
  OBVIOUS
<1>2. /\ e \in Seq(Pieces) /\ Len(e) = Len(d) + 1 /\ e[Len(d) + 1] = q[1]
      /\ \A i \in 1..Len(d) : e[i] = d[i]
  BY <1>1, AppendElement
<1>3. \A i \in 1..1 : e[Len(d) + i] = q[i]
  BY <1>2
<1> HIDE DEF e
<1>4. FollowedBy(e, d, 1, q)
  BY <1>2, <1>3 DEF FollowedBy
<1>5. SubSeq(q, 1 + 1, Len(q)) \in Seq(Pieces) /\ d \o q = e \o SubSeq(q, 1 + 1, Len(q))
  <2>1. PICK k \in Nat : k = 1
    OBVIOUS
  <2>2. k <= Len(q) /\ FollowedBy(e, d, k, q)
    BY <1>4, <2>1
  <2>3. CutAfter(e, d, k, q)
    BY <1>2, <2>2, TakeFront
  <2> QED BY <2>1, <2>3 DEF CutAfter
<1> QED BY <1>2, <1>5 DEF e

(* The same for a text and its CRLF.                                       *)
LEMMA TakeTextLine ==
    ASSUME NEW d \in Seq(Pieces), NEW q \in Seq(Pieces), 2 <= Len(q)
    PROVE  /\ SubSeq(q, 2 + 1, Len(q)) \in Seq(Pieces)
           /\ Append(d, q[1]) \in Seq(Pieces) /\ Append(Append(d, q[1]), q[2]) \in Seq(Pieces)
           /\ d \o q = Append(Append(d, q[1]), q[2]) \o SubSeq(q, 2 + 1, Len(q))
<1> DEFINE c == Append(d, q[1])  e == Append(c, q[2])
<1>1. q[1] \in Pieces /\ q[2] \in Pieces /\ Len(d) \in Nat
  OBVIOUS
<1>2. /\ c \in Seq(Pieces) /\ Len(c) = Len(d) + 1 /\ c[Len(d) + 1] = q[1]
      /\ \A i \in 1..Len(d) : c[i] = d[i]
  BY <1>1, AppendElement
<1> HIDE DEF c
<1>3. /\ e \in Seq(Pieces) /\ Len(e) = Len(c) + 1 /\ e[Len(c) + 1] = q[2]
      /\ \A i \in 1..Len(c) : e[i] = c[i]
  BY <1>1, <1>2, AppendElement
<1> HIDE DEF e
<1>4. \A i \in 1..2 : e[Len(d) + i] = q[i]
  <2>1. e[Len(d) + 1] = q[1]
    <3>1. Len(d) + 1 \in 1..Len(c)
      BY <1>1, <1>2
    <3> QED BY <1>2, <1>3, <3>1
  <2>2. e[Len(d) + 2] = q[2]
    <3>1. Len(c) + 1 = Len(d) + 2
      BY <1>1, <1>2
    <3> QED BY <1>3, <3>1
  <2> QED BY <2>1, <2>2
<1>5. \A i \in 1..Len(d) : e[i] = d[i]
  <2>1. \A i \in 1..Len(d) : i \in 1..Len(c)
    BY <1>1, <1>2
  <2> QED BY <1>2, <1>3, <2>1
<1>6. Len(e) = Len(d) + 2
  BY <1>1, <1>2, <1>3
<1>7. FollowedBy(e, d, 2, q)
  BY <1>4, <1>5, <1>6 DEF FollowedBy
<1>8. SubSeq(q, 2 + 1, Len(q)) \in Seq(Pieces) /\ d \o q = e \o SubSeq(q, 2 + 1, Len(q))
  <2>1. PICK k \in Nat : k = 2
    OBVIOUS
  <2>2. k <= Len(q) /\ FollowedBy(e, d, k, q)
    BY <1>7, <2>1
  <2>3. CutAfter(e, d, k, q)
    BY <1>3, <2>2, TakeFront
  <2> QED BY <2>1, <2>3 DEF CutAfter
<1> QED BY <1>2, <1>3, <1>8 DEF c, e

(* The unread pieces begin with a complete line: empty, or a text.         *)
EmptyLine(q) == 1 <= Len(q) /\ q[1] = CRLF
TextLine(q)  == 2 <= Len(q) /\ q[1] # CRLF /\ q[2] = CRLF

(* What findCRLF finds in them.                                            *)
LEMMA LineFacts ==
    ASSUME NEW b, WellFormed(b), NEW q, q = Readable(b), EndsTexts(q)
    PROVE  /\ LineEnds(b) # {} => EmptyLine(q) \/ TextLine(q)
           /\ EmptyLine(q) => LineEnds(b) # {} /\ findCRLF(b) - b.readerIndex_ = 1 /\ Text(b) = ""
           /\ TextLine(q) => LineEnds(b) # {} /\ findCRLF(b) - b.readerIndex_ = 2 /\ Text(b) = q[1]
<1> DEFINE r == b.readerIndex_  w == b.writerIndex_  c == b.buffer_
<1>1. /\ r \in Nat /\ w \in Nat /\ Len(q) = w - r /\ r <= w
      /\ \A i \in 1..(w - r) : q[i] = c[r + i]
  BY ReadableFacts DEF WellFormed
<1>2. LineEnds(b) = {i \in (r + 1)..w : c[i] = CRLF}
  BY DEF LineEnds
<1> HIDE DEF r, w, c
<1>3. ASSUME NEW i \in LineEnds(b), \A j \in LineEnds(b) : i <= j PROVE findCRLF(b) = i
  <2> DEFINE S == LineEnds(b)
  <2>1. S \in SUBSET Int
    BY <1>1, <1>2
  <2> HIDE DEF S
  <2>2. i \in S /\ \A j \in S : i <= j
    BY <1>3 DEF S
  <2>3. PICK x : x = Min(S)
    OBVIOUS
  <2>4. x \in S /\ \A y \in S : x <= y
    BY <2>2, <2>3 DEF Min
  <2>5. x = i
    BY <2>1, <2>2, <2>4
  <2> QED BY <2>3, <2>5 DEF findCRLF, S
<1>4. ASSUME EmptyLine(q)
      PROVE  LineEnds(b) # {} /\ findCRLF(b) - r = 1 /\ findCRLF(b) = r + 1
  <2>1. 1 \in 1..(w - r) /\ r + 1 \in (r + 1)..w
    BY <1>1, <1>4 DEF EmptyLine
  <2>2. r + 1 \in LineEnds(b)
    BY <1>1, <1>2, <1>4, <2>1 DEF EmptyLine
  <2>3. \A j \in LineEnds(b) : r + 1 <= j
    BY <1>1, <1>2
  <2>4. findCRLF(b) = r + 1
    BY <1>3, <2>2, <2>3
  <2> QED BY <1>1, <2>2, <2>4
<1>5. ASSUME TextLine(q)
      PROVE  LineEnds(b) # {} /\ findCRLF(b) - r = 2 /\ findCRLF(b) = r + 2
  <2>1. 1 \in 1..(w - r) /\ 2 \in 1..(w - r) /\ r + 2 \in (r + 1)..w
    BY <1>1, <1>5 DEF TextLine
  <2>2. r + 2 \in LineEnds(b)
    BY <1>1, <1>2, <1>5, <2>1 DEF TextLine
  <2>3. c[r + 1] # CRLF
    BY <1>1, <1>5, <2>1 DEF TextLine
  <2>4. ASSUME NEW j \in LineEnds(b) PROVE r + 2 <= j
    <3>1. j \in (r + 1)..w /\ c[j] = CRLF
      BY <1>2
    <3>2. j # r + 1
      BY <2>3, <3>1
    <3> QED BY <1>1, <3>1, <3>2
  <2>5. findCRLF(b) = r + 2
    BY <1>3, <2>2, <2>4
  <2> QED BY <1>1, <2>2, <2>5
<1>6. ASSUME LineEnds(b) # {} PROVE EmptyLine(q) \/ TextLine(q)
  <2>1. PICK j \in LineEnds(b) : TRUE
    BY <1>6
  <2>2. j \in (r + 1)..w /\ c[j] = CRLF
    BY <1>2, <2>1
  <2>3. w - r >= 1 /\ j - r \in 1..(w - r) /\ r + (j - r) = j
    BY <1>1, <2>2
  <2>4. q[j - r] = CRLF
    BY <1>1, <2>2, <2>3
  <2>5. CASE q[1] = CRLF
    BY <1>1, <2>3, <2>5 DEF EmptyLine
  <2>6. CASE q[1] # CRLF
    <3>1. j - r # 1
      BY <2>4, <2>6
    <3>2. Len(q) >= 2 /\ 1 \in 1..(Len(q) - 1)
      BY <1>1, <2>3, <3>1
    <3>3. q[1 + 1] = CRLF
      BY <2>6, <3>2 DEF EndsTexts
    <3> QED BY <2>6, <3>2, <3>3 DEF TextLine
  <2> QED BY <2>5, <2>6
<1>7. EmptyLine(q) => Text(b) = ""
  BY <1>4 DEF Text, r
<1>8. TextLine(q) => Text(b) = q[1]
  <2> SUFFICES ASSUME TextLine(q) PROVE Text(b) = q[1]
    OBVIOUS
  <2>1. findCRLF(b) # r + 1
    BY <1>1, <1>5
  <2>2. q[1] = c[r + 1]
    BY <1>1 DEF TextLine
  <2> QED BY <2>1, <2>2 DEF Text, r, c
<1> QED BY <1>4, <1>5, <1>6, <1>7, <1>8 DEF r

(* The unread pieces of a stream of lines are lines too.                   *)
LEMMA RestOfLines ==
    ASSUME NEW d \in Seq(Pieces), NEW q \in Seq(Pieces), EndsTexts(d \o q)
    PROVE  EndsTexts(q)
<1> DEFINE s == d \o q  m == Len(d)  n == Len(q)
<1>1. /\ m \in Nat /\ n \in Nat /\ Len(s) = m + n
      /\ \A i \in 1..(m + n) : s[i] = IF i <= m THEN d[i] ELSE q[i - m]
  OBVIOUS
<1>2. EndsTexts(s)
  OBVIOUS
<1> HIDE DEF s, m, n
<1>3. ASSUME NEW i \in 1..(n - 1), q[i] # CRLF PROVE q[i + 1] = CRLF
  <2>1. /\ m + i \in 1..(m + n - 1) /\ m + i \in 1..(m + n) /\ m + i + 1 \in 1..(m + n)
        /\ ~(m + i <= m) /\ ~(m + i + 1 <= m) /\ (m + i) - m = i /\ (m + i + 1) - m = i + 1
    BY <1>1
  <2>2. s[m + i] = q[i] /\ s[m + i + 1] = q[i + 1]
    BY <1>1, <2>1
  <2>3. s[m + i] # CRLF => s[(m + i) + 1] = CRLF
    BY <1>1, <1>2, <2>1 DEF EndsTexts
  <2> QED BY <1>3, <2>2, <2>3
<1> QED BY <1>3 DEF EndsTexts, n

(* What the reference makes of one more line.                              *)
LEMMA AskedEmptyLine ==
    ASSUME NEW d \in Seq(Pieces), ~Asked(d).bad, Asked(d).text = ""
    PROVE  Asked(Append(d, CRLF)) = WithLine(Asked(d), "")
<1>1. CRLF \in Pieces
  BY DEF Pieces
<1>2. Asked(Append(d, CRLF)) = WithPiece(Asked(d), CRLF)
  BY <1>1, AskedAppend
<1> QED BY <1>2 DEF WithPiece

(* The same for a line with a text.                                        *)
LEMMA AskedTextLine ==
    ASSUME NEW d \in Seq(Pieces), ~Asked(d).bad, NEW x \in Pieces, x # CRLF
    PROVE  Asked(Append(Append(d, x), CRLF)) = WithLine([Asked(d) EXCEPT !.text = x], x)
<1> DEFINE a == Asked(d)  e == Append(d, x)
<1>1. CRLF \in Pieces /\ a \in AskedType /\ x \in Texts
  BY AskedTyped DEF Pieces
<1>2. e \in Seq(Pieces)
  BY AppendElement
<1>3. Asked(e) = WithPiece(a, x)
  BY AskedAppend
<1>4. Asked(e) = [a EXCEPT !.text = x]
  BY <1>3 DEF WithPiece
<1>5. Asked(Append(e, CRLF)) = WithPiece(Asked(e), CRLF)
  <2> HIDE DEF e
  <2> QED BY <1>1, <1>2, AskedAppend
<1> HIDE DEF a, e
<1>6. ~Asked(e).bad /\ Asked(e).text = x
  BY <1>1, <1>4 DEF AskedType, a
<1>7. Asked(Append(e, CRLF)) = WithLine(Asked(e), x)
  BY <1>5, <1>6 DEF WithPiece
<1> QED BY <1>4, <1>7 DEF a, e

(* Of pieces that are there, and of one that is alone.                     *)
LEMMA FirstPiece ==
    ASSUME NEW q \in Seq(Pieces)
    PROVE  /\ 1 <= Len(q) => q[1] \in Pieces
           /\ 2 <= Len(q) => q[1] \in Pieces
           /\ Len(q) >= 1 /\ ~(Len(q) >= 2) => Len(q) = 0 + 1
<1>1. Len(q) \in Nat
  OBVIOUS
<1>2. \A n \in Nat : n >= 1 /\ ~(n >= 2) => n = 0 + 1
  OBVIOUS
<1>3. 1 <= Len(q) => q[1] \in Pieces
  OBVIOUS
<1>4. 2 <= Len(q) => 1 <= Len(q)
  BY <1>1
<1> QED BY <1>1, <1>2, <1>3, <1>4

(* A complete line in the place of a request line that is none.            *)
Blocks(q) == EmptyLine(q) \/ (TextLine(q) /\ q[1] \notin RequestLines)

(* Such a line is the end of the stream for the reference,                 *)
LEMMA BlockedStream ==
    ASSUME NEW d \in Seq(Pieces), NEW q \in Seq(Pieces), Blocks(q),
           ~Asked(d).bad, Asked(d).text = "", Asked(d).first = ""
    PROVE  Asked(d \o q).bad /\ Asked(d \o q).answers = Asked(d).answers
<1> DEFINE a == Asked(d)
<1>1. a \in AskedType
  BY AskedTyped
<1>2. ASSUME NEW e \in Seq(Pieces), NEW t \in Seq(Pieces), d \o q = e \o t,
             Asked(e).bad, Asked(e).answers = a.answers
      PROVE  Asked(d \o q).bad /\ Asked(d \o q).answers = a.answers
  <2>1. Continues(Asked(e), Asked(e \o t))
    BY AskedTyped, AskedContinues
  <2>2. Asked(e \o t) = Asked(e)
    BY <1>2, <2>1 DEF Continues
  <2> QED BY <1>2, <2>2
<1>3. CASE EmptyLine(q)
  <2> DEFINE e == Append(d, q[1])  t == SubSeq(q, 1 + 1, Len(q))
  <2>1. e \in Seq(Pieces) /\ t \in Seq(Pieces) /\ d \o q = e \o t
    BY <1>3, TakeEmptyLine DEF EmptyLine
  <2>2. Asked(e) = WithLine(a, "")
    BY <1>3, AskedEmptyLine DEF EmptyLine
  <2>3. WithLine(a, "") = [a EXCEPT !.bad = TRUE, !.text = ""]
    BY DEF WithLine, RequestLines
  <2>4. /\ [a EXCEPT !.bad = TRUE, !.text = ""] \in AskedType
        /\ [a EXCEPT !.bad = TRUE, !.text = ""].bad
        /\ [a EXCEPT !.bad = TRUE, !.text = ""].answers = a.answers
    BY <1>1 DEF AskedType
  <2> HIDE DEF e, t, a
  <2>5. Asked(e).bad /\ Asked(e).answers = a.answers
    BY <2>2, <2>3, <2>4
  <2> QED BY <1>2, <2>1, <2>5 DEF a
<1>4. CASE TextLine(q) /\ q[1] \notin RequestLines
  <2> DEFINE x == q[1]  e == Append(Append(d, q[1]), q[2])  t == SubSeq(q, 2 + 1, Len(q))
             c == [[a EXCEPT !.text = x] EXCEPT !.bad = TRUE, !.text = ""]
  <2>1. e \in Seq(Pieces) /\ t \in Seq(Pieces) /\ d \o q = e \o t
    BY <1>4, TakeTextLine DEF TextLine
  <2>2. x \in Pieces /\ x # CRLF /\ q[2] = CRLF
    <3>1. 2 <= Len(q) /\ q[1] # CRLF /\ q[2] = CRLF
      BY <1>4 DEF TextLine
    <3> QED BY <3>1, FirstPiece
  <2>3. Asked(e) = WithLine([a EXCEPT !.text = x], x)
    BY <2>2, AskedTextLine
  <2>4. [a EXCEPT !.text = x].first = ""
    BY <1>1 DEF AskedType
  <2>5. WithLine([a EXCEPT !.text = x], x) = c
    BY <1>4, <2>4 DEF WithLine
  <2>6. x \in Texts
    BY <2>2 DEF Pieces
  <2>7. c \in AskedType /\ c.bad /\ c.answers = a.answers
    <3> HIDE DEF x, a
    <3> QED BY <1>1, <2>6 DEF AskedType
  <2> HIDE DEF e, t, a, x, c
  <2>8. Asked(e).bad /\ Asked(e).answers = a.answers
    BY <2>3, <2>5, <2>7
  <2> QED BY <1>2, <2>1, <2>8 DEF a
<1> QED BY <1>3, <1>4 DEF Blocks

(* and without a complete line it waits.                                   *)
LEMMA WaitingStream ==
    ASSUME NEW d \in Seq(Pieces), NEW q \in Seq(Pieces), EndsTexts(q),
           ~EmptyLine(q), ~TextLine(q), ~Asked(d).bad
    PROVE  ~Asked(d \o q).bad /\ Asked(d \o q).answers = Asked(d).answers
<1> DEFINE a == Asked(d)
<1>0. a \in AskedType
  BY AskedTyped
<1>1. Len(q) \in Nat
  OBVIOUS
<1>2. CASE Len(q) = 0
  <2>1. d \o q = d
    BY <1>2
  <2> QED BY <2>1
<1>3. CASE Len(q) >= 1
  <2>1. q[1] # CRLF
    BY <1>3 DEF EmptyLine
  <2>2. ~(Len(q) >= 2)
    <3> SUFFICES ASSUME Len(q) >= 2 PROVE FALSE
      OBVIOUS
    <3>1. 1 \in 1..(Len(q) - 1)
      BY <1>1
    <3>2. q[1 + 1] = CRLF
      BY <2>1, <3>1 DEF EndsTexts
    <3> QED BY <1>1, <2>1, <3>2 DEF TextLine
  <2>3. Len(q) = 0 + 1 /\ 0 \in Nat
    BY <1>3, <2>2, FirstPiece
  <2>4. d \o q = Append(d \o SubSeq(q, 1, 0), q[0 + 1])
    BY <2>3, PiecesSplit
  <2>5. d \o SubSeq(q, 1, 0) = d
    OBVIOUS
  <2>6. d \o q = Append(d, q[1]) /\ q[1] \in Pieces
    BY <2>3, <2>4, <2>5
  <2>7. Asked(d \o q) = WithPiece(a, q[1])
    BY <2>6, AskedAppend
  <2>8. WithPiece(a, q[1]) = [a EXCEPT !.text = q[1]]
    BY <2>1 DEF WithPiece
  <2> HIDE DEF a
  <2>9. ~[a EXCEPT !.text = q[1]].bad /\ [a EXCEPT !.text = q[1]].answers = a.answers
    BY <1>0 DEF AskedType, a
  <2> QED BY <2>7, <2>8, <2>9 DEF a
<1> QED BY <1>1, <1>2, <1>3

-----------------------------------------------------------------------------
(* The invariant.                                                          *)

ContextType == [state_ : {"kExpectRequestLine", "kExpectHeaders", "kGotAll"}, request_ : Request]

(* The types, with the order of the buffer's indices.                      *)
HttpTyped ==
    /\ connected \in BOOLEAN /\ WellFormed(inputBuffer_) /\ context \in ContextType
    /\ sent \in Seq(Pieces) /\ Len(sent) <= MaxPieces
    /\ answers \in Seq(Answer) /\ pc \in Places

(* What the parser makes of a request line and its last header.            *)
IsRequestOf(req, first, header) ==
    /\ req.version = IF first = "get10" THEN "kHttpV10" ELSE "kHttpV11"
    /\ req.known <=> first # "miss11"
    /\ req.connection = header

HasRefusal(v) == \E i \in 1..Len(v) : v[i] = BadRequest
Refused == pc = "refused" \/ HasRefusal(answers)

(* v, and after it refusals only.                                          *)
ThenRefusals(v, w) ==
    /\ Len(v) <= Len(w)
    /\ \A i \in 1..Len(v) : w[i] = v[i]
    /\ \A i \in 1..Len(w) : i > Len(v) => w[i] = BadRequest

(* The reference after the lines that the parser has taken, a, against the *)
(* parser, before a request line, after one, and with a complete request.  *)
LineStart(a) == ~a.bad /\ a.text = ""
BetweenRequests(a) ==
    /\ a.first = "" /\ a.header = "" /\ ThenRefusals(a.answers, answers)
    /\ Refused \/ context.request_ = NewRequest
InHeaders(a) ==
    /\ a.first \in RequestLines /\ a.header \in Headers \cup {""}
    /\ IsRequestOf(context.request_, a.first, a.header) /\ a.answers = answers
GotAll(a) ==
    /\ pc = "parsed" /\ a.first = "" /\ a.header = ""
    /\ a.answers = Append(answers, onRequest(context.request_))

(* All of it, with the pieces that are still unread, q.                    *)
Agrees(a, q) ==
    /\ LineStart(a)
    /\ Refused => context.state_ = "kExpectRequestLine" /\ Blocks(q)
    /\ context.state_ = "kExpectRequestLine" => BetweenRequests(a)
    /\ context.state_ = "kExpectHeaders" => InHeaders(a)
    /\ context.state_ = "kGotAll" => GotAll(a)
    /\ pc = "parsed" => context.state_ = "kGotAll" \/ (~EmptyLine(q) /\ ~TextLine(q))
    /\ ParserSurvives

HttpInv ==
    /\ HttpTyped /\ EndsTexts(sent)
    /\ \E d, q \in Seq(Pieces) :
          q = Readable(inputBuffer_) /\ sent = d \o q /\ Agrees(Asked(d), q)

(* A new context is one.                                                   *)
LEMMA NewContextFacts ==
    /\ NewContext \in ContextType /\ NewContext.state_ = "kExpectRequestLine"
    /\ NewContext.request_ = NewRequest
<1>1. NewRequest \in Request
  BY DEF NewRequest, Request
<1> QED BY <1>1 DEF NewContext, ContextType

(* A response is the two fields that the callback sets.                    *)
LEMMA ResponseSet ==
    ASSUME NEW c, NEW e, NEW n
    PROVE  [[status |-> 0, close |-> c] EXCEPT !.status = n, !.close = e]
              = [status |-> n, close |-> e]
<1> DEFINE f == [[status |-> 0, close |-> c] EXCEPT !.status = n, !.close = e]
           g == [status |-> n, close |-> e]
           D == {"status", "close"}
<1>1. f = [x \in D |-> f[x]] /\ f.status = n /\ f.close = e
  OBVIOUS
<1>2. g = [x \in D |-> g[x]] /\ g.status = n /\ g.close = e
  OBVIOUS
<1>3. \A x \in D : x = "status" \/ x = "close"
  OBVIOUS
<1> HIDE DEF f, g
<1>4. \A x \in D : f[x] = g[x]
  BY <1>1, <1>2, <1>3
<1> HIDE DEF D
<1>5. f = g
  BY <1>1, <1>2, <1>4
<1> QED BY <1>5 DEF f, g

(* onRequest answers it as the reference does.                             *)
LEMMA ReqFacts ==
    ASSUME NEW first, NEW header, NEW r, IsRequestOf(r, first, header)
    PROVE  onRequest(r) = AnswerTo(first, header)
<1> DEFINE c == Closes(r)
<1>1. /\ r.version = (IF first = "get10" THEN "kHttpV10" ELSE "kHttpV11")
      /\ r.known <=> (first # "miss11")
      /\ r.connection = header
  BY DEF IsRequestOf
<1>2. c \in BOOLEAN
  BY DEF Closes
<1>3. CASE first = "miss11"
  <2>1. ~r.known
    BY <1>1, <1>3
  <2> HIDE DEF c
  <2> DEFINE n == 404  e == TRUE
  <2>2. onRequest(r) = [[status |-> 0, close |-> c] EXCEPT !.status = n, !.close = e]
    BY <2>1 DEF onRequest, ExampleCallback, c
  <2>3. AnswerTo(first, header) = [status |-> n, close |-> e]
    BY <1>3 DEF AnswerTo
  <2> HIDE DEF n, e
  <2>4. onRequest(r) = [status |-> n, close |-> e]
    BY <2>2, ResponseSet
  <2> QED BY <2>3, <2>4
<1>4. CASE first # "miss11"
  <2>1. r.known
    BY <1>1, <1>4
  <2>2. c <=> (IF first = "get10" THEN header # "keep" ELSE header = "close")
    <3>1. r.connection = header /\ (r.version = "kHttpV10" <=> first = "get10")
      BY <1>1
    <3>2. c <=> (header = "close" \/ (first = "get10" /\ header # "keep"))
      BY <3>1 DEF Closes
    <3> HIDE DEF c
    <3> QED BY <3>2
  <2>3. c = (IF first = "get10" THEN header # "keep" ELSE header = "close")
    <3> HIDE DEF c
    <3> QED BY <1>2, <2>2
  <2> HIDE DEF c
  <2>4. onRequest(r) = [[status |-> 0, close |-> c] EXCEPT !.status = 200]
    BY <2>1 DEF onRequest, ExampleCallback, c
  <2>5. onRequest(r) = [status |-> 200, close |-> c]
    BY <2>4
  <2>6. AnswerTo(first, header) =
           [status |-> 200, close |-> IF first = "get10" THEN header # "keep" ELSE header = "close"]
    BY <1>4 DEF AnswerTo
  <2> QED BY <2>3, <2>5, <2>6
<1> QED BY <1>3, <1>4

(* No request is answered with the refusal.                                *)
LEMMA OnRequestFacts == ASSUME NEW req PROVE onRequest(req) # BadRequest
<1> DEFINE c == Closes(req)  resp == [status |-> 0, close |-> c]
           u == [resp EXCEPT !.status = 200]  v == [resp EXCEPT !.status = 404, !.close = TRUE]
<1>1. onRequest(req) = u \/ onRequest(req) = v
  BY DEF onRequest, ExampleCallback
<1> HIDE DEF c
<1>2. u.status = 200 /\ v.status = 404
  OBVIOUS
<1> HIDE DEF u, v
<1>3. BadRequest.status = 400
  BY DEF BadRequest
<1>4. u # BadRequest
  BY <1>2, <1>3
<1>5. v # BadRequest
  BY <1>2, <1>3
<1> QED BY <1>1, <1>4, <1>5

(* The invariant holds at the start.                                       *)
LEMMA HttpInitInv == HttpInit => HttpInv
<1> SUFFICES ASSUME HttpInit PROVE HttpInv
  OBVIOUS
<1> USE DEF HttpInit
<1>1. MaxPieces \in Nat
  BY HttpAssumption
<1>2. HttpTyped
  <2>1. WellFormed(inputBuffer_) /\ context \in ContextType
    BY NewBufferFacts, NewContextFacts
  <2>2. sent \in Seq(Pieces) /\ answers \in Seq(Answer) /\ Len(sent) <= MaxPieces
    BY <1>1
  <2> QED BY <2>1, <2>2 DEF HttpTyped, Places
<1>3. EndsTexts(sent)
  BY DEF EndsTexts
<1>4. <<>> = Readable(inputBuffer_) /\ sent = <<>> \o <<>> /\ <<>> \in Seq(Pieces)
  BY NewBufferFacts
<1>5. ~Refused /\ ParserSurvives
  BY DEF Refused, HasRefusal, ParserSurvives
<1>6. LineStart(NothingAsked) /\ NothingAsked.first = "" /\ NothingAsked.header = "" /\ NothingAsked.answers = <<>>
  BY DEF LineStart, NothingAsked
<1>7. ThenRefusals(<<>>, answers)
  BY DEF ThenRefusals
<1>8. context.state_ = "kExpectRequestLine" /\ context.request_ = NewRequest
  BY NewContextFacts
<1>9. Agrees(NothingAsked, <<>>)
  BY <1>5, <1>6, <1>7, <1>8 DEF Agrees, BetweenRequests
<1>10. Agrees(Asked(<<>>), <<>>)
  BY <1>9, AskedEmpty
<1> QED BY <1>2, <1>3, <1>4, <1>10, Zenon DEF HttpInv

(* Of the parts, what a step needs that leaves the stream alone: only the  *)
(* context, the answers and the place change.                              *)
LEMMA SameStream ==
    ASSUME HttpTyped', EndsTexts(sent), NEW d \in Seq(Pieces), NEW q \in Seq(Pieces),
           q = Readable(inputBuffer_), sent = d \o q, Agrees(Asked(d), q)',
           inputBuffer_' = inputBuffer_, sent' = sent
    PROVE  HttpInv'
<1>1. q = Readable(inputBuffer_') /\ sent' = d \o q /\ EndsTexts(sent')
  OBVIOUS
<1> QED BY <1>1, Zenon DEF HttpInv

(* A new connection, with nothing asked for yet.                           *)
LEMMA ConnectStep ==
    ASSUME HttpTyped, NEW a, NEW q, Agrees(a, q), a.answers # Append(answers, onRequest(context.request_)),
           a.first \notin RequestLines, ~Blocks(q), Connect
    PROVE  HttpTyped' /\ Agrees(a, q)'
<1>1. HttpTyped'
  BY NewContextFacts DEF HttpTyped, Connect
<1>2. context.state_ = "kExpectRequestLine"
  BY DEF HttpTyped, ContextType, Agrees, InHeaders, GotAll
<1>3. ~Refused /\ BetweenRequests(a) /\ LineStart(a) /\ ParserSurvives
  BY <1>2 DEF Agrees
<1>4. /\ context'.state_ = "kExpectRequestLine" /\ context'.request_ = NewRequest
      /\ pc' = "waits" /\ answers' = answers /\ pc = "waits"
  BY NewContextFacts DEF Connect
<1>5. ~Refused' /\ ParserSurvives'
  BY <1>3, <1>4 DEF Refused, ParserSurvives
<1>6. BetweenRequests(a)'
  BY <1>3, <1>4 DEF BetweenRequests
<1> QED BY <1>1, <1>3, <1>4, <1>5, <1>6 DEF Agrees

(* A lost connection changes nothing of what is parsed.                    *)
LEMMA DisconnectStep ==
    ASSUME HttpTyped, NEW a, NEW q, Agrees(a, q), Disconnect
    PROVE  HttpTyped' /\ Agrees(a, q)'
<1>1. HttpTyped'
  BY DEF HttpTyped, Disconnect
<1>2. UNCHANGED <<context, answers, pc>>
  BY DEF Disconnect
<1>3. Agrees(a, q)'
  BY <1>2 DEF Agrees, Refused, ParserSurvives, BetweenRequests, InHeaders, GotAll
<1> QED BY <1>1, <1>3

(* parseRequest without a line to take.                                    *)
LEMMA NoLineStep ==
    ASSUME HttpTyped, NEW a, NEW q, Agrees(a, q), pc = "parses", NoLine, UNCHANGED <<connected, sent, answers>>,
           LineEnds(inputBuffer_) = {} => ~EmptyLine(q) /\ ~TextLine(q)
    PROVE  HttpTyped' /\ Agrees(a, q)'
<1>1. context.state_ # "kGotAll"
  BY DEF Agrees, GotAll
<1>2. /\ ~EmptyLine(q) /\ ~TextLine(q) /\ pc' = "parsed"
      /\ UNCHANGED <<context, inputBuffer_, connected, sent, answers>>
  BY <1>1 DEF NoLine
<1>3. HttpTyped'
  BY <1>2 DEF HttpTyped, Places
<1>4. ~Blocks(q)
  BY <1>2 DEF Blocks
<1>5. ~Refused /\ ~Refused'
  BY <1>2, <1>4 DEF Agrees, Refused
<1>6. Agrees(a, q)'
  <2>1. LineStart(a) /\ ParserSurvives'
    BY <1>2 DEF Agrees, ParserSurvives
  <2>2. context'.state_ = "kExpectRequestLine" => BetweenRequests(a)'
    BY <1>2, <1>5 DEF Agrees, BetweenRequests
  <2>3. context'.state_ = "kExpectHeaders" => InHeaders(a)'
    BY <1>2 DEF Agrees, InHeaders
  <2>4. context'.state_ # "kGotAll"
    BY <1>1, <1>2
  <2> QED BY <1>2, <1>5, <2>1, <2>2, <2>3, <2>4 DEF Agrees
<1> QED BY <1>3, <1>6

(* The rest of onMessage.                                                  *)
LEMMA EndMessageStep ==
    ASSUME HttpTyped, NEW a, a \in AskedType, NEW q, Agrees(a, q), EndMessage
    PROVE  HttpTyped' /\ Agrees(a, q)'
<1>1. /\ pc' = "waits" /\ UNCHANGED <<inputBuffer_, sent>> /\ pc \in {"parsed", "refused"}
      /\ answers' = answers \o Replies
      /\ context' = IF context.state_ = "kGotAll" THEN NewContext ELSE context
      /\ connected' \in BOOLEAN
  BY DEF EndMessage, reset, AfterShutdown, HttpTyped
<1>2. /\ answers \in Seq(Answer) /\ context \in ContextType /\ ParserSurvives' /\ LineStart(a)
      /\ context' \in ContextType
  BY <1>1, NewContextFacts DEF HttpTyped, ParserSurvives, Agrees
<1>3. answers' \in Seq(Answer) => HttpTyped'
  BY <1>1, <1>2 DEF HttpTyped, Places
<1>4. CASE context.state_ = "kGotAll"
  <2> DEFINE x == onRequest(context.request_)
  <2>1. pc = "parsed" /\ a.first = "" /\ a.header = "" /\ a.answers = Append(answers, x) /\ ~Refused
    BY <1>4 DEF Agrees, GotAll
  <2>2. answers' = Append(answers, x)
    <3>1. Replies = <<>> \o <<x>>
      BY <1>4, <2>1 DEF Replies
    <3> HIDE DEF x
    <3> QED BY <1>1, <1>2, <3>1
  <2>3. answers' = a.answers
    BY <2>1, <2>2
  <2>4. answers' \in Seq(Answer)
    BY <2>3, AskedFields
  <2>5. context'.state_ = "kExpectRequestLine" /\ context'.request_ = NewRequest
    BY <1>1, <1>4, NewContextFacts
  <2>6. ThenRefusals(a.answers, answers')
    <3>1. Len(a.answers) \in Nat
      BY AskedFields
    <3> QED BY <2>3, <3>1 DEF ThenRefusals
  <2>7. BetweenRequests(a)'
    BY <2>1, <2>5, <2>6 DEF BetweenRequests
  <2>8. Refused' => Blocks(q)
    <3>1. x # BadRequest
      BY OnRequestFacts
    <3>2. Len(answers) \in Nat
      BY <1>2
    <3>3. ~HasRefusal(answers)
      BY <2>1 DEF Refused
    <3> HIDE DEF x
    <3>4. ~HasRefusal(Append(answers, x))
      <4>1. ASSUME NEW i \in 1..(Len(answers) + 1) PROVE Append(answers, x)[i] # BadRequest
        <5>1. CASE i \in 1..Len(answers)
          BY <1>2, <3>3, <5>1 DEF HasRefusal
        <5>2. CASE i = Len(answers) + 1
          BY <1>2, <3>1, <5>2
        <5> QED BY <3>2, <5>1, <5>2
      <4>2. Len(Append(answers, x)) = Len(answers) + 1
        BY <1>2
      <4> QED BY <4>1, <4>2 DEF HasRefusal
    <3> QED BY <1>1, <2>2, <3>4 DEF Refused
  <2> QED BY <1>1, <1>2, <1>3, <2>4, <2>5, <2>7, <2>8 DEF Agrees
<1>5. CASE context.state_ # "kGotAll" /\ pc = "parsed"
  <2>1. answers' = answers
    <3>1. Replies = <<>>
      BY <1>5 DEF Replies
    <3> QED BY <1>1, <1>2, <3>1
  <2>2. context' = context
    BY <1>1, <1>5
  <2>3. Refused' = Refused
    BY <1>1, <1>5, <2>1 DEF Refused
  <2>4. context'.state_ = "kExpectRequestLine" => BetweenRequests(a)'
    BY <2>1, <2>2, <2>3 DEF Agrees, BetweenRequests
  <2>5. context'.state_ = "kExpectHeaders" => InHeaders(a)'
    BY <2>1, <2>2 DEF Agrees, InHeaders
  <2>6. Refused' => context'.state_ = "kExpectRequestLine" /\ Blocks(q)
    BY <2>2, <2>3 DEF Agrees
  <2> QED BY <1>1, <1>2, <1>3, <1>5, <2>1, <2>2, <2>4, <2>5, <2>6 DEF Agrees
<1>6. CASE context.state_ # "kGotAll" /\ pc = "refused"
  <2>1. Refused /\ context.state_ = "kExpectRequestLine" /\ Blocks(q) /\ BetweenRequests(a)
    BY <1>6 DEF Agrees, Refused
  <2>2. answers' = Append(answers, BadRequest)
    <3>1. Replies = <<BadRequest>>
      BY <1>6 DEF Replies
    <3> QED BY <1>1, <1>2, <3>1
  <2>3. BadRequest \in Answer
    BY DEF BadRequest, Answer
  <2>4. /\ answers' \in Seq(Answer) /\ Len(answers) \in Nat /\ Len(answers') = Len(answers) + 1
        /\ \A i \in 1..Len(answers) : answers'[i] = answers[i]
        /\ answers'[Len(answers) + 1] = BadRequest
    BY <1>2, <2>2, <2>3, AppendElement
  <2>5. HasRefusal(answers')
    BY <2>4 DEF HasRefusal
  <2>6. context' = context
    BY <1>1, <1>6
  <2>7. ThenRefusals(a.answers, answers')
    <3> DEFINE v == a.answers
    <3>1. ThenRefusals(v, answers) /\ Len(v) \in Nat
      BY <2>1, AskedFields DEF BetweenRequests
    <3> HIDE DEF v
    <3>2. ThenRefusals(v, answers')
      BY <2>4, <3>1 DEF ThenRefusals
    <3> QED BY <3>2 DEF v
  <2>8. BetweenRequests(a)'
    BY <2>1, <2>5, <2>7 DEF BetweenRequests, Refused
  <2> QED BY <1>1, <1>2, <1>3, <2>1, <2>4, <2>6, <2>8 DEF Agrees
<1> QED BY <1>1, <1>4, <1>5, <1>6

(* A line is taken out of the buffer: the reference takes it too.          *)
LEMMA LineTaken ==
    ASSUME WellFormed(inputBuffer_), EndsTexts(sent), NEW d \in Seq(Pieces), NEW q \in Seq(Pieces),
           q = Readable(inputBuffer_), sent = d \o q, LineStart(Asked(d)),
           EmptyLine(q) \/ TextLine(q),
           inputBuffer_' = retrieveUntil(inputBuffer_, findCRLF(inputBuffer_))
    PROVE  /\ WellFormed(inputBuffer_')
           /\ \E e, t \in Seq(Pieces) :
                 /\ t = Readable(inputBuffer_') /\ sent = e \o t
                 /\ Asked(e) = WithLine([Asked(d) EXCEPT !.text = Text(inputBuffer_)], Text(inputBuffer_))
<1> DEFINE b == inputBuffer_  a == Asked(d)  k == findCRLF(b) - b.readerIndex_
<1>1. EndsTexts(q)
  BY RestOfLines
<1>2. /\ EmptyLine(q) => k = 1 /\ Text(b) = ""
      /\ TextLine(q) => k = 2 /\ Text(b) = q[1]
  BY <1>1, LineFacts
<1>3. Len(q) = readableBytes(b) /\ Len(q) \in Nat
  BY ReadableFacts DEF readableBytes
<1>4. k \in Nat /\ k <= readableBytes(b)
  <2>1. EmptyLine(q) => 1 <= Len(q)
    BY DEF EmptyLine
  <2>2. TextLine(q) => 2 <= Len(q)
    BY DEF TextLine
  <2> HIDE DEF b, k
  <2>3. CASE EmptyLine(q)
    <3>1. k = 1 /\ 1 <= Len(q)
      BY <1>2, <2>1, <2>3
    <3> QED BY <1>3, <3>1
  <2>4. CASE TextLine(q)
    BY <1>2, <1>3, <2>2, <2>4
  <2> QED BY <2>3, <2>4
<1>5. inputBuffer_' = retrieve(b, k)
  BY DEF retrieveUntil
<1> HIDE DEF k
<1>6. WellFormed(inputBuffer_') /\ Readable(inputBuffer_') = SubSeq(q, k + 1, Len(q))
  BY <1>4, <1>5, RetrieveFacts
<1>7. a \in AskedType /\ ~a.bad /\ a.text = ""
  BY AskedTyped DEF LineStart
<1>8. CASE EmptyLine(q)
  <2> DEFINE e == Append(d, q[1])  t == SubSeq(q, 1 + 1, Len(q))
  <2>1. e \in Seq(Pieces) /\ t \in Seq(Pieces) /\ d \o q = e \o t
    BY <1>8, TakeEmptyLine DEF EmptyLine
  <2>2. Asked(e) = WithLine(a, "")
    BY <1>7, <1>8, AskedEmptyLine DEF EmptyLine
  <2>3. [a EXCEPT !.text = ""] = a
    <3> HIDE DEF a
    <3> QED BY <1>7 DEF AskedType
  <2>4. t = Readable(inputBuffer_')
    BY <1>2, <1>6, <1>8
  <2>5. Asked(e) = WithLine([a EXCEPT !.text = Text(b)], Text(b))
    BY <1>2, <1>8, <2>2, <2>3
  <2> HIDE DEF e, t
  <2> QED BY <1>6, <2>1, <2>4, <2>5
<1>9. CASE TextLine(q)
  <2> DEFINE x == q[1]  e == Append(Append(d, q[1]), q[2])  t == SubSeq(q, 2 + 1, Len(q))
  <2>1. e \in Seq(Pieces) /\ t \in Seq(Pieces) /\ d \o q = e \o t
    BY <1>9, TakeTextLine DEF TextLine
  <2>2. 2 <= Len(q) /\ x # CRLF /\ q[2] = CRLF
    BY <1>9 DEF TextLine
  <2>3. x \in Pieces
    BY <2>2, FirstPiece
  <2>4. Asked(e) = WithLine([a EXCEPT !.text = x], x)
    BY <1>7, <2>2, <2>3, AskedTextLine
  <2>5. t = Readable(inputBuffer_')
    BY <1>2, <1>6, <1>9
  <2>6. Asked(e) = WithLine([a EXCEPT !.text = Text(b)], Text(b))
    BY <1>2, <1>9, <2>4
  <2> HIDE DEF e, t
  <2> QED BY <1>6, <2>1, <2>5, <2>6
<1> QED BY <1>8, <1>9

(* Without refusals the answers are those of the reference.                *)
LEMMA NoRefusals ==
    ASSUME NEW v \in Seq(Answer), NEW w \in Seq(Answer), ThenRefusals(v, w), ~HasRefusal(w)
    PROVE  v = w
<1>1. Len(v) \in Nat /\ Len(w) \in Nat
  OBVIOUS
<1>2. Len(v) = Len(w)
  <2> SUFFICES ASSUME Len(v) < Len(w) PROVE FALSE
    BY <1>1 DEF ThenRefusals
  <2>1. Len(w) \in 1..Len(w) /\ Len(w) > Len(v)
    BY <1>1
  <2>2. w[Len(w)] = BadRequest
    BY <2>1 DEF ThenRefusals
  <2> QED BY <2>1, <2>2 DEF HasRefusal
<1>3. \A i \in 1..Len(v) : v[i] = w[i]
  BY DEF ThenRefusals
<1> QED BY <1>2, <1>3, SeqEqual

(* processRequestLine keeps a request a request, and makes a new one of a  *)
(* request line.                                                           *)
LEMMA RequestLineFacts ==
    ASSUME NEW req \in Request, NEW text
    PROVE  /\ WithRequestLine(req, text) \in Request
           /\ text \in RequestLines => IsRequestOf(WithRequestLine(NewRequest, text), text, "")
<1>1. WithRequestLine(req, text) \in Request
  <2> DEFINE m == IF text \in RequestLines \cup {"badVersion"} THEN "kGet" ELSE req.method
             k == text \in {"get11", "get10"}
             v == CASE text = "get10" -> "kHttpV10"
                    [] text \in {"get11", "miss11"} -> "kHttpV11"
                    [] OTHER -> req.version
  <2>1. m \in {"kInvalid", "kGet"}
    BY DEF Request
  <2>2. k \in BOOLEAN
    OBVIOUS
  <2>3. v \in {"kUnknown", "kHttpV10", "kHttpV11"}
    BY DEF Request
  <2>4. WithRequestLine(req, text) = [req EXCEPT !.method = m, !.known = k, !.version = v]
    BY DEF WithRequestLine
  <2> HIDE DEF m, k, v
  <2>5. [req EXCEPT !.method = m, !.known = k, !.version = v] \in Request
    BY <2>1, <2>2, <2>3 DEF Request
  <2> QED BY <2>4, <2>5
<1>2. ASSUME text \in RequestLines PROVE IsRequestOf(WithRequestLine(NewRequest, text), text, "")
  <2> DEFINE k == text \in {"get11", "get10"}  v == IF text = "get10" THEN "kHttpV10" ELSE "kHttpV11"
             e == [NewRequest EXCEPT !.method = "kGet", !.known = k, !.version = v]
  <2>1. WithRequestLine(NewRequest, text) = e
    BY <1>2 DEF WithRequestLine, RequestLines
  <2>2. k <=> text # "miss11"
    BY <1>2 DEF RequestLines
  <2>3. NewRequest \in Request /\ NewRequest.connection = ""
    BY DEF NewRequest, Request
  <2>4. e.version = v /\ e.known = k /\ e.connection = ""
    <3> HIDE DEF k, v
    <3> QED BY <2>3 DEF Request
  <2> HIDE DEF e
  <2>5. e.known <=> text # "miss11"
    <3> HIDE DEF k
    <3> QED BY <2>2, <2>4
  <2> QED BY <2>1, <2>4, <2>5 DEF IsRequestOf
<1> QED BY <1>1, <1>2

(* A request line that is refused, or that the assert in setMethod meets.  *)
LEMMA NotTakenStep ==
    ASSUME HttpTyped, NEW a, NEW q, Agrees(a, q), pc = "parses", RequestLine,
           UNCHANGED <<connected, sent, answers>>, Text(inputBuffer_) \notin RequestLines => Blocks(q),
           \/ MethodAssertFails(context.request_, Text(inputBuffer_))
           \/ Text(inputBuffer_) \notin RequestLines
    PROVE  HttpTyped' /\ Agrees(a, q)' /\ inputBuffer_' = inputBuffer_
<1> DEFINE text == Text(inputBuffer_)  req == WithRequestLine(context.request_, text)
<1>1. /\ context \in ContextType /\ context.state_ = "kExpectRequestLine" /\ context.request_ \in Request
      /\ BetweenRequests(a) /\ LineStart(a) /\ ParserSurvives
  BY DEF HttpTyped, ContextType, RequestLine, Agrees
<1>2. CASE MethodAssertFails(context.request_, text)
  <2>1. pc' = "aborts" /\ UNCHANGED <<context, inputBuffer_, answers, connected, sent>>
    BY <1>2 DEF RequestLine
  <2>2. HttpTyped'
    BY <2>1 DEF HttpTyped, Places
  <2>3. context.request_ # NewRequest
    <3>1. NewRequest.method = "kInvalid"
      BY DEF NewRequest
    <3> QED BY <1>2, <3>1 DEF MethodAssertFails
  <2>4. Refused /\ HasRefusal(answers) /\ Blocks(q)
    BY <1>1, <2>3 DEF BetweenRequests, Refused, Agrees
  <2>5. ParserSurvives'
    BY <2>1, <2>4 DEF ParserSurvives, HasRefusal
  <2>6. BetweenRequests(a)'
    BY <1>1, <2>1, <2>4 DEF BetweenRequests, Refused
  <2>7. Agrees(a, q)'
    BY <1>1, <2>1, <2>4, <2>5, <2>6 DEF Agrees
  <2> QED BY <2>1, <2>2, <2>7
<1>3. CASE ~MethodAssertFails(context.request_, text) /\ text \notin RequestLines
  <2>1. /\ pc' = "refused" /\ UNCHANGED <<inputBuffer_, answers, connected, sent>> /\ Blocks(q)
        /\ context' = [state_ |-> "kExpectRequestLine", request_ |-> req]
    BY <1>3 DEF RequestLine
  <2>2. req \in Request
    BY <1>1, RequestLineFacts
  <2> HIDE DEF req
  <2>3. context' \in ContextType /\ context'.state_ = "kExpectRequestLine"
    BY <2>1, <2>2 DEF ContextType
  <2>4. HttpTyped'
    BY <2>1, <2>3 DEF HttpTyped, Places
  <2>5. Refused' /\ ParserSurvives'
    BY <2>1 DEF Refused, ParserSurvives
  <2>6. BetweenRequests(a)'
    BY <1>1, <2>1, <2>5 DEF BetweenRequests
  <2>7. Agrees(a, q)'
    BY <1>1, <2>1, <2>3, <2>5, <2>6 DEF Agrees
  <2> QED BY <2>1, <2>4, <2>7
<1> QED BY <1>2, <1>3

(* A request line that is taken.                                           *)
LEMMA RequestLineStep ==
    ASSUME HttpTyped, NEW a \in AskedType, NEW q, Agrees(a, q), pc = "parses", RequestLine,
           UNCHANGED <<connected, sent, answers>>, WellFormed(inputBuffer_'), ~Blocks(q),
           NEW x \in RequestLines, x = Text(inputBuffer_),
           ~MethodAssertFails(context.request_, x),
           NEW c, c = WithLine([a EXCEPT !.text = x], x), NEW t
    PROVE  HttpTyped' /\ Agrees(c, t)'
<1>1. /\ context.state_ = "kExpectRequestLine" /\ BetweenRequests(a) /\ LineStart(a) /\ ~Refused
  BY DEF RequestLine, Agrees
<1>2. /\ context' = [state_ |-> "kExpectHeaders", request_ |-> WithRequestLine(NewRequest, x)]
      /\ pc' = "parses" /\ UNCHANGED <<connected, sent, answers>>
  BY <1>1 DEF RequestLine, HasMore, BetweenRequests
<1>3. NewRequest \in Request
  BY DEF NewRequest, Request
<1>4. WithRequestLine(NewRequest, x) \in Request /\ IsRequestOf(WithRequestLine(NewRequest, x), x, "")
  BY <1>3, RequestLineFacts
<1>5. /\ context' \in ContextType /\ context'.state_ = "kExpectHeaders"
      /\ IsRequestOf(context'.request_, x, "")
  BY <1>2, <1>4 DEF ContextType
<1>6. HttpTyped'
  BY <1>2, <1>5 DEF HttpTyped, Places
<1>7. ~a.bad /\ a.text = "" /\ a.first = "" /\ a.header = "" /\ ThenRefusals(a.answers, answers)
  BY <1>1 DEF LineStart, BetweenRequests
<1>8. a.answers = answers
  <2>1. a.answers \in Seq(Answer) /\ answers \in Seq(Answer) /\ ~HasRefusal(answers)
    BY <1>1, AskedFields DEF HttpTyped, Refused
  <2> QED BY <1>7, <2>1, NoRefusals
<1>9. c = [[a EXCEPT !.text = x] EXCEPT !.first = x, !.text = ""]
  <2>1. [a EXCEPT !.text = x].first = ""
    BY <1>7 DEF AskedType
  <2> QED BY <2>1 DEF WithLine
<1>10. /\ ~c.bad /\ c.text = "" /\ c.first = x /\ c.header = "" /\ c.answers = a.answers
  BY <1>7, <1>9 DEF AskedType
<1>11. LineStart(c) /\ InHeaders(c)'
  BY <1>2, <1>5, <1>8, <1>10 DEF LineStart, InHeaders
<1>12. ~Refused' /\ ParserSurvives'
  BY <1>1, <1>2 DEF Refused, ParserSurvives
<1>13. Agrees(c, t)'
  BY <1>2, <1>5, <1>11, <1>12 DEF Agrees
<1> QED BY <1>6, <1>13

(* A line after it.                                                        *)
LEMMA HeaderLineStep ==
    ASSUME HttpTyped, NEW a \in AskedType, NEW q, Agrees(a, q), pc = "parses", HeaderLine,
           UNCHANGED <<connected, sent, answers>>, WellFormed(inputBuffer_'),
           NEW x, x = Text(inputBuffer_),
           NEW c, c = WithLine([a EXCEPT !.text = x], x), NEW t
    PROVE  HttpTyped' /\ Agrees(c, t)'
<1> DEFINE r == context.request_
<1>1. /\ context.state_ = "kExpectHeaders" /\ InHeaders(a) /\ LineStart(a) /\ ~Refused
  BY DEF HeaderLine, Agrees
<1>2. /\ ~a.bad /\ a.text = "" /\ a.first \in RequestLines /\ a.header \in Headers \cup {""}
      /\ IsRequestOf(r, a.first, a.header) /\ a.answers = answers /\ r \in Request
  BY <1>1 DEF LineStart, InHeaders, HttpTyped, ContextType
<1>3. /\ [a EXCEPT !.text = x].first = a.first /\ [a EXCEPT !.text = x].header = a.header
      /\ [a EXCEPT !.text = x].answers = a.answers /\ a.first # ""
  BY <1>2 DEF AskedType, RequestLines
<1>4. CASE x \in Headers
  <2>1. /\ context' = [state_ |-> "kExpectHeaders", request_ |-> WithHeader(r, x)]
        /\ pc' = "parses" /\ UNCHANGED <<connected, sent, answers>>
    BY <1>4 DEF HeaderLine, HasMore, IsHeader
  <2>2. WithHeader(r, x) \in Request /\ IsRequestOf(WithHeader(r, x), a.first, x)
    <3> DEFINE e == WithHeader(r, x)
    <3> HIDE DEF r
    <3>1. e \in Request /\ e.version = r.version /\ e.known = r.known /\ e.connection = x
      BY <1>2, <1>4 DEF WithHeader, Request, Headers
    <3> HIDE DEF e
    <3>2. IsRequestOf(e, a.first, x)
      BY <1>2, <3>1 DEF IsRequestOf
    <3> QED BY <3>1, <3>2 DEF e
  <2> HIDE DEF r
  <2>3. /\ context' \in ContextType /\ context'.state_ = "kExpectHeaders"
        /\ IsRequestOf(context'.request_, a.first, x)
    BY <2>1, <2>2 DEF ContextType
  <2>4. HttpTyped'
    BY <2>1, <2>3 DEF HttpTyped, Places
  <2>5. c = [[a EXCEPT !.text = x] EXCEPT !.header = x, !.text = ""]
    BY <1>3, <1>4 DEF WithLine
  <2>6. ~c.bad /\ c.text = "" /\ c.first = a.first /\ c.header = x /\ c.answers = a.answers
    BY <1>2, <2>5 DEF AskedType
  <2>7. LineStart(c) /\ InHeaders(c)'
    BY <1>2, <1>4, <2>1, <2>3, <2>6 DEF LineStart, InHeaders
  <2>8. ~Refused' /\ ParserSurvives'
    BY <1>1, <2>1 DEF Refused, ParserSurvives
  <2>9. Agrees(c, t)'
    BY <2>1, <2>3, <2>7, <2>8 DEF Agrees
  <2> QED BY <2>4, <2>9
<1>5. CASE x \notin Headers
  <2>1. /\ context' = [state_ |-> "kGotAll", request_ |-> r]
        /\ pc' = "parsed" /\ UNCHANGED <<connected, sent, answers>>
    BY <1>5 DEF HeaderLine, HasMore, IsHeader
  <2> HIDE DEF r
  <2>2. context' \in ContextType /\ context'.state_ = "kGotAll" /\ context'.request_ = r
    BY <1>2, <2>1 DEF ContextType
  <2>3. HttpTyped'
    BY <2>1, <2>2 DEF HttpTyped, Places
  <2> DEFINE v == Append(a.answers, AnswerTo(a.first, a.header))
  <2>4. c = [NothingAsked EXCEPT !.answers = v]
    BY <1>3, <1>5 DEF WithLine
  <2>5. v = Append(answers, onRequest(r))
    BY <1>2, ReqFacts
  <2> HIDE DEF v
  <2>6. ~c.bad /\ c.text = "" /\ c.first = "" /\ c.header = "" /\ c.answers = v
    BY <2>4 DEF NothingAsked
  <2>7. LineStart(c) /\ GotAll(c)'
    BY <2>1, <2>2, <2>5, <2>6 DEF LineStart, GotAll
  <2>8. ~Refused' /\ ParserSurvives'
    BY <1>1, <2>1 DEF Refused, ParserSurvives
  <2>9. Agrees(c, t)'
    BY <2>1, <2>2, <2>7, <2>8 DEF Agrees
  <2> QED BY <2>3, <2>9
<1> QED BY <1>4, <1>5

(* A segment after a stream of lines is a stream of lines.                 *)
LEMMA SegmentFollows ==
    ASSUME NEW s \in Seq(Pieces), EndsTexts(s), NEW g \in Seq(Pieces), EndsTexts(g), g # <<>>,
           s # <<>> /\ Last(s) # CRLF => Head(g) = CRLF
    PROVE  EndsTexts(s \o g)
<1> DEFINE m == Len(s)  n == Len(g)  t == s \o g
<1>1. /\ m \in Nat /\ n \in Nat /\ n >= 1 /\ Len(t) = m + n
      /\ \A i \in 1..(m + n) : t[i] = IF i <= m THEN s[i] ELSE g[i - m]
  OBVIOUS
<1>2. /\ \A i \in 1..(m - 1) : s[i] # CRLF => s[i + 1] = CRLF
      /\ \A i \in 1..(n - 1) : g[i] # CRLF => g[i + 1] = CRLF
  BY DEF EndsTexts
<1>3. m > 0 /\ s[m] # CRLF => g[1] = CRLF
  <2>1. m > 0 => s # <<>> /\ Last(s) = s[m]
    BY DEF Last
  <2>2. Head(g) = g[1]
    OBVIOUS
  <2> QED BY <2>1, <2>2
<1> HIDE DEF m, n, t
<1>4. ASSUME NEW i \in 1..(m + n - 1), t[i] # CRLF PROVE t[i + 1] = CRLF
  <2>1. i \in 1..(m + n) /\ i + 1 \in 1..(m + n)
    BY <1>1
  <2>2. CASE i < m
    <3>1. i <= m /\ i + 1 <= m /\ i \in 1..(m - 1)
      BY <1>1, <2>2
    <3>2. t[i] = s[i] /\ t[i + 1] = s[i + 1]
      BY <1>1, <2>1, <3>1
    <3> QED BY <1>2, <1>4, <3>1, <3>2
  <2>3. CASE i = m
    <3>1. i <= m /\ ~(i + 1 <= m) /\ (i + 1) - m = 1 /\ m > 0
      BY <1>1, <2>3
    <3>2. t[i] = s[m] /\ t[i + 1] = g[1]
      BY <1>1, <2>1, <2>3, <3>1
    <3> QED BY <1>3, <1>4, <3>1, <3>2
  <2>4. CASE i > m
    <3>1. ~(i <= m) /\ ~(i + 1 <= m) /\ (i + 1) - m = (i - m) + 1 /\ i - m \in 1..(n - 1)
      BY <1>1, <2>4
    <3>2. t[i] = g[i - m] /\ t[i + 1] = g[(i - m) + 1]
      BY <1>1, <2>1, <3>1
    <3> QED BY <1>2, <1>4, <3>1, <3>2
  <2>5. i < m \/ i = m \/ i > m
    BY <1>1
  <2> QED BY <2>2, <2>3, <2>4, <2>5
<1> QED BY <1>1, <1>4 DEF EndsTexts, t

(* A line that blocks the stream still does when more has come.            *)
LEMMA StillBlocks ==
    ASSUME NEW q \in Seq(Pieces), NEW g \in Seq(Pieces), Blocks(q)
    PROVE  Blocks(q \o g)
<1>1. Len(q) \in Nat /\ Len(g) \in Nat /\ Len(q \o g) = Len(q) + Len(g)
  OBVIOUS
<1>2. \A i \in 1..Len(q) : (q \o g)[i] = q[i]
  OBVIOUS
<1>3. CASE EmptyLine(q)
  <2>1. 1 <= Len(q) /\ q[1] = CRLF
    BY <1>3 DEF EmptyLine
  <2>2. 1 \in 1..Len(q) /\ 1 <= Len(q \o g)
    BY <1>1, <2>1
  <2> QED BY <1>2, <2>1, <2>2 DEF Blocks, EmptyLine
<1>4. CASE TextLine(q) /\ q[1] \notin RequestLines
  <2>1. 2 <= Len(q) /\ q[1] # CRLF /\ q[2] = CRLF
    BY <1>4 DEF TextLine
  <2>2. 1 \in 1..Len(q) /\ 2 \in 1..Len(q) /\ 2 <= Len(q \o g)
    BY <1>1, <2>1
  <2> QED BY <1>2, <1>4, <2>1, <2>2 DEF Blocks, TextLine
<1> QED BY <1>3, <1>4 DEF Blocks

(* handleRead.                                                             *)
LEMMA OnMessageStep ==
    ASSUME HttpTyped, EndsTexts(sent), NEW d \in Seq(Pieces), NEW q \in Seq(Pieces),
           q = Readable(inputBuffer_), sent = d \o q, NEW a, a = Asked(d), Agrees(a, q),
           NEW n \in 1..MaxSegment, Len(sent) + n <= MaxPieces,
           NEW segment \in Segments[n], OnMessage(segment)
    PROVE  HttpInv'
<1>1. /\ segment \in [1..n -> Pieces] /\ EndsTexts(segment) /\ n \in Nat /\ n >= 1
  BY HttpAssumption DEF Segments
<1>2. segment \in Seq(Pieces) /\ Len(segment) = n /\ segment # <<>>
  BY <1>1
<1>3. segment \in Seq(Bytes)
  <2>1. \A i \in 1..Len(segment) : segment[i] \in Bytes
    BY <1>1, <1>2, HttpAssumption
  <2> QED BY <1>2, <2>1
<1>4. /\ pc = "waits" /\ pc' = "parses" /\ UNCHANGED <<connected, context, answers>>
      /\ sent' = sent \o segment /\ inputBuffer_' = readFd(inputBuffer_, segment)
      /\ (sent # <<>> /\ Last(sent) # CRLF => Head(segment) = CRLF)
  BY DEF OnMessage
<1>5. sent \in Seq(Pieces) /\ WellFormed(inputBuffer_)
  BY DEF HttpTyped
<1>6. WellFormed(inputBuffer_') /\ Readable(inputBuffer_') = q \o segment
  BY <1>3, <1>4, <1>5, ReadFdFacts
<1>7. sent' \in Seq(Pieces) /\ Len(sent') <= MaxPieces
  <2>1. sent \o segment \in Seq(Pieces) /\ Len(sent \o segment) = Len(sent) + Len(segment)
    BY <1>2, <1>5, ConcatProperties
  <2> QED BY <1>2, <1>4, <2>1
<1>8. EndsTexts(sent')
  BY <1>1, <1>2, <1>4, <1>5, SegmentFollows
<1>9. HttpTyped'
  BY <1>4, <1>6, <1>7 DEF HttpTyped, Places
<1>10. sent' = d \o (q \o segment) /\ q \o segment \in Seq(Pieces)
  <2>1. (d \o q) \o segment = d \o (q \o segment)
    BY <1>2, ConcatAssociative
  <2>2. q \o segment \in Seq(Pieces)
    BY <1>2, <1>4, ConcatProperties
  <2> QED BY <1>2, <1>4, <2>1, <2>2
<1>11. Agrees(a, q \o segment)'
  <2> DEFINE t == q \o segment
  <2>1. Blocks(q) => Blocks(t)
    BY <1>2, StillBlocks
  <2> HIDE DEF t
  <2>2. Refused' <=> Refused
    BY <1>4 DEF Refused
  <2>3. ParserSurvives' /\ LineStart(a)
    BY <1>4 DEF ParserSurvives, Agrees
  <2>4. Refused' => context'.state_ = "kExpectRequestLine" /\ Blocks(t)
    BY <1>4, <2>1, <2>2 DEF Agrees
  <2>5. context'.state_ = "kExpectRequestLine" => BetweenRequests(a)'
    BY <1>4, <2>2 DEF Agrees, BetweenRequests
  <2>6. context'.state_ = "kExpectHeaders" => InHeaders(a)'
    BY <1>4 DEF Agrees, InHeaders
  <2>7. context'.state_ # "kGotAll"
    BY <1>4 DEF Agrees, GotAll
  <2>8. Agrees(a, t)'
    BY <1>4, <2>3, <2>4, <2>5, <2>6, <2>7 DEF Agrees
  <2> QED BY <2>8 DEF t
<1>12. PICK t \in Seq(Pieces) : t = q \o segment
  BY <1>10
<1>13. Agrees(Asked(d), t)' /\ t = Readable(inputBuffer_') /\ sent' = d \o t
  BY <1>6, <1>10, <1>11, <1>12
<1> QED BY <1>8, <1>9, <1>13, Zenon DEF HttpInv

(* One turn of parseRequest.                                               *)
LEMMA ParseStep ==
    ASSUME HttpTyped, EndsTexts(sent), NEW d \in Seq(Pieces), NEW q \in Seq(Pieces),
           q = Readable(inputBuffer_), sent = d \o q, NEW a, a = Asked(d), Agrees(a, q), parseRequest
    PROVE  HttpInv'
<1>1. pc = "parses" /\ UNCHANGED <<connected, sent, answers>> /\ (NoLine \/ RequestLine \/ HeaderLine)
  BY DEF parseRequest
<1>2. WellFormed(inputBuffer_) /\ a \in AskedType /\ LineStart(Asked(d))
  BY AskedTyped DEF HttpTyped, Agrees
<1>3. EndsTexts(q)
  BY RestOfLines
<1>4. /\ LineEnds(inputBuffer_) # {} => EmptyLine(q) \/ TextLine(q)
      /\ EmptyLine(q) => LineEnds(inputBuffer_) # {} /\ Text(inputBuffer_) = ""
      /\ TextLine(q) => LineEnds(inputBuffer_) # {} /\ Text(inputBuffer_) = q[1]
  BY <1>2, <1>3, LineFacts
<1>5. PICK x : x = Text(inputBuffer_)
  OBVIOUS
<1>6. PICK c : c = WithLine([Asked(d) EXCEPT !.text = x], x)
  OBVIOUS
<1>7. ASSUME LineEnds(inputBuffer_) # {},
             inputBuffer_' = retrieveUntil(inputBuffer_, findCRLF(inputBuffer_)),
             WellFormed(inputBuffer_') => HttpTyped' /\ \A t : Agrees(c, t)'
      PROVE  HttpInv'
  <2>1. WellFormed(inputBuffer_') /\ \E e, t \in Seq(Pieces) :
           t = Readable(inputBuffer_') /\ sent = e \o t /\ Asked(e) = c
    BY <1>2, <1>4, <1>7, <1>5, <1>6, LineTaken
  <2>2. PICK e \in Seq(Pieces), t \in Seq(Pieces) :
           t = Readable(inputBuffer_') /\ sent = e \o t /\ Asked(e) = c
    BY <2>1
  <2>3. Agrees(Asked(e), t)' /\ HttpTyped'
    BY <1>7, <2>1, <2>2
  <2>4. sent' = e \o t /\ EndsTexts(sent')
    BY <1>1, <2>2
  <2> QED BY <2>2, <2>3, <2>4, Zenon DEF HttpInv
<1>8. CASE NoLine
  <2>1. HttpTyped' /\ Agrees(a, q)'
    BY <1>1, <1>4, <1>8, NoLineStep
  <2>2. inputBuffer_' = inputBuffer_ /\ sent' = sent
    BY <1>1, <1>8 DEF NoLine
  <2> QED BY <2>1, <2>2, SameStream
<1>9. CASE RequestLine /\ (MethodAssertFails(context.request_, x) \/ x \notin RequestLines)
  <2>1. x \notin RequestLines => Blocks(q)
    BY <1>4, <1>9, <1>5 DEF Blocks, RequestLine
  <2>2. HttpTyped' /\ Agrees(a, q)' /\ inputBuffer_' = inputBuffer_
    BY <1>1, <1>9, <1>5, <2>1, NotTakenStep
  <2>3. sent' = sent
    BY <1>1
  <2> QED BY <2>2, <2>3, SameStream
<1>10. CASE RequestLine /\ ~MethodAssertFails(context.request_, x) /\ x \in RequestLines
  <2>1. ~Blocks(q)
    <3>1. ~EmptyLine(q)
      BY <1>4, <1>10, <1>5 DEF RequestLines
    <3> QED BY <1>4, <1>10, <1>5, <3>1 DEF Blocks
  <2>2. LineEnds(inputBuffer_) # {} /\ inputBuffer_' = retrieveUntil(inputBuffer_, findCRLF(inputBuffer_))
    BY <1>10, <1>5 DEF RequestLine
  <2>3. ASSUME WellFormed(inputBuffer_'), NEW t PROVE HttpTyped' /\ Agrees(c, t)'
    BY <1>1, <1>2, <1>10, <1>5, <1>6, <2>1, <2>3, RequestLineStep
  <2> QED BY <1>7, <2>2, <2>3
<1>11. CASE HeaderLine
  <2>1. LineEnds(inputBuffer_) # {} /\ inputBuffer_' = retrieveUntil(inputBuffer_, findCRLF(inputBuffer_))
    BY <1>11 DEF HeaderLine
  <2>2. ASSUME WellFormed(inputBuffer_'), NEW t PROVE HttpTyped' /\ Agrees(c, t)'
    BY <1>1, <1>2, <1>11, <1>5, <1>6, <2>2, HeaderLineStep
  <2> QED BY <1>7, <2>1, <2>2
<1> QED BY <1>1, <1>8, <1>9, <1>10, <1>11

(* Only empty parts make an empty stream.                                  *)
LEMMA EmptyConcat ==
    ASSUME NEW d \in Seq(Pieces), NEW q \in Seq(Pieces), d \o q = <<>>
    PROVE  Len(d) = 0 /\ Len(q) = 0
<1>1. Len(d \o q) = Len(d) + Len(q) /\ Len(d) \in Nat /\ Len(q) \in Nat
  BY ConcatProperties, LenProperties
<1>2. Len(<<>>) = 0
  OBVIOUS
<1> QED BY <1>1, <1>2

(* Every step keeps the invariant.                                         *)
LEMMA HttpStep == HttpInv /\ [HttpNext]_httpVars => HttpInv'
<1> SUFFICES ASSUME HttpInv, [HttpNext]_httpVars PROVE HttpInv'
  OBVIOUS
<1>1. HttpTyped /\ EndsTexts(sent)
  BY DEF HttpInv
<1>2. PICK d \in Seq(Pieces), q \in Seq(Pieces) :
         q = Readable(inputBuffer_) /\ sent = d \o q /\ Agrees(Asked(d), q)
  BY DEF HttpInv
<1>3. PICK a \in AskedType : a = Asked(d)
  BY AskedTyped
<1>4. Agrees(a, q)
  BY <1>2, <1>3
<1>5. CASE Connect
  <2>1. sent = <<>> /\ inputBuffer_' = inputBuffer_ /\ sent' = sent
    BY <1>5 DEF Connect
  <2>2. Len(d) = 0 /\ Len(q) = 0
    BY <1>2, <2>1, EmptyConcat
  <2>3. d = <<>>
    BY <2>2
  <2>4. a.answers = <<>> /\ a.first = ""
    <3>1. a = NothingAsked
      BY <1>3, <2>3, AskedEmpty
    <3>2. NothingAsked.answers = <<>> /\ NothingAsked.first = ""
      BY DEF NothingAsked
    <3> QED BY <3>1, <3>2
  <2>5. ~Blocks(q)
    BY <2>2 DEF Blocks, EmptyLine, TextLine
  <2>6. a.answers # Append(answers, onRequest(context.request_))
    <3> DEFINE y == onRequest(context.request_)
    <3> HIDE DEF y
    <3>1. answers \in Seq(Answer)
      BY <1>1 DEF HttpTyped
    <3>2. Len(Append(answers, y)) = Len(answers) + 1 /\ Len(answers) \in Nat
      BY <3>1
    <3>3. Len(<<>>) = 0
      OBVIOUS
    <3>4. Append(answers, y) # <<>>
      BY <3>2, <3>3
    <3> QED BY <2>4, <3>4 DEF y
  <2>7. a.first \notin RequestLines
    BY <2>4 DEF RequestLines
  <2>8. HttpTyped' /\ Agrees(a, q)'
    BY <1>1, <1>4, <1>5, <2>5, <2>6, <2>7, ConnectStep
  <2> QED BY <1>1, <1>2, <1>3, <2>1, <2>8, SameStream
<1>6. CASE Disconnect
  <2>1. HttpTyped' /\ Agrees(a, q)'
    BY <1>1, <1>4, <1>6, DisconnectStep
  <2>2. inputBuffer_' = inputBuffer_ /\ sent' = sent
    BY <1>6 DEF Disconnect
  <2> QED BY <1>1, <1>2, <1>3, <2>1, <2>2, SameStream
<1>7. CASE parseRequest
  BY <1>1, <1>2, <1>3, <1>4, <1>7, ParseStep
<1>8. CASE EndMessage
  <2>1. HttpTyped' /\ Agrees(a, q)'
    BY <1>1, <1>3, <1>4, <1>8, EndMessageStep
  <2>2. inputBuffer_' = inputBuffer_ /\ sent' = sent
    BY <1>8 DEF EndMessage
  <2> QED BY <1>1, <1>2, <1>3, <2>1, <2>2, SameStream
<1>9. ASSUME NEW n \in 1..MaxSegment, Len(sent) + n <= MaxPieces,
             NEW segment \in Segments[n], OnMessage(segment)
      PROVE  HttpInv'
  BY <1>1, <1>2, <1>3, <1>4, <1>9, OnMessageStep
<1>10. CASE UNCHANGED httpVars
  <2>1. /\ inputBuffer_' = inputBuffer_ /\ sent' = sent
        /\ UNCHANGED <<connected, context, answers, pc>>
    BY <1>10 DEF httpVars
  <2>2. HttpTyped'
    BY <1>1, <2>1 DEF HttpTyped
  <2>3. Agrees(a, q)'
    BY <1>4, <2>1 DEF Agrees, Refused, ParserSurvives, BetweenRequests, InHeaders, GotAll
  <2> QED BY <1>1, <1>2, <1>3, <2>1, <2>2, <2>3, SameStream
<1> QED BY <1>5, <1>6, <1>7, <1>8, <1>9, <1>10 DEF HttpNext

(* A front of the answers that agrees with the reference is a prefix.      *)
LEMMA PrefixFacts ==
    ASSUME NEW w \in Seq(Answer), NEW z \in Seq(Answer), NEW n \in Nat, n <= Len(w), n <= Len(z),
           \A i \in 1..n : w[i] = z[i]
    PROVE  IsPrefix(SubSeq(w, 1, n), z)
<1> DEFINE v == SubSeq(w, 1, n)  u == SubSeq(z, 1, n)
<1>1. v \in Seq(Answer) /\ Len(v) = n /\ \A i \in 1..n : v[i] = w[i]
  OBVIOUS
<1>2. u \in Seq(Answer) /\ Len(u) = n /\ \A i \in 1..n : u[i] = z[i]
  OBVIOUS
<1> HIDE DEF v, u
<1>3. v = u
  <2>1. \A i \in 1..Len(v) : v[i] = u[i]
    BY <1>1, <1>2
  <2> QED BY <1>1, <1>2, <2>1, SeqEqual
<1>4. SubSeq(v, 1, Len(v)) = v
  BY <1>1
<1>5. Len(v) <= Len(z) /\ SubSeq(v, 1, Len(v)) = SubSeq(z, 1, Len(v))
  BY <1>1, <1>3, <1>4 DEF u
<1> QED BY <1>5 DEF IsPrefix, v

(* The answers against what the whole stream asks for: of the first n the  *)
(* next is asked for too if there is a complete request, and the others    *)
(* are refusals of a bad stream.                                           *)
LEMMA AnswersFacts ==
    ASSUME HttpInv
    PROVE  \E n \in Nat :
              /\ n <= Len(answers) /\ n <= Len(Asked(sent).answers)
              /\ \A i \in 1..n : answers[i] = Asked(sent).answers[i]
              /\ \A i \in 1..Len(answers) : i > n => answers[i] = BadRequest
              /\ n < Len(answers) \/ pc = "refused" => Asked(sent).bad /\ n = Len(Asked(sent).answers)
              /\ context.state_ = "kGotAll" =>
                    /\ n = Len(answers) /\ n + 1 <= Len(Asked(sent).answers)
                    /\ Asked(sent).answers[n + 1] = onRequest(context.request_)
              /\ pc = "parsed" /\ context.state_ # "kGotAll" =>
                    ~Asked(sent).bad /\ Asked(sent).answers = answers
<1>1. /\ HttpTyped /\ EndsTexts(sent) /\ answers \in Seq(Answer) /\ Len(answers) \in Nat
      /\ context.state_ \in {"kExpectRequestLine", "kExpectHeaders", "kGotAll"}
  BY DEF HttpInv, HttpTyped, ContextType
<1>2. PICK d \in Seq(Pieces), q \in Seq(Pieces) :
         q = Readable(inputBuffer_) /\ sent = d \o q /\ Agrees(Asked(d), q)
  BY DEF HttpInv
<1>3. PICK a \in AskedType : a = Asked(d)
  BY AskedTyped
<1>4. PICK z \in AskedType : z = Asked(sent)
  BY <1>1, AskedTyped DEF HttpTyped
<1>5. Continues(a, z) /\ Agrees(a, q)
  BY <1>2, <1>3, <1>4, AskedContinues
<1>6. LineStart(a) /\ ~Asked(d).bad /\ Asked(d).text = ""
  BY <1>3, <1>5 DEF Agrees, LineStart
<1> DEFINE v == a.answers  u == z.answers
<1>7. v \in Seq(Answer) /\ Len(v) \in Nat /\ u \in Seq(Answer) /\ Len(u) \in Nat
  BY AskedFields
<1>8. Len(v) <= Len(u) /\ \A i \in 1..Len(v) : u[i] = v[i]
  BY <1>5 DEF Continues
<1>9. EndsTexts(q)
  BY <1>1, <1>2, RestOfLines
<1>10. pc = "parsed" /\ context.state_ # "kGotAll" => ~z.bad /\ u = v /\ ~Refused
  <2> SUFFICES ASSUME pc = "parsed", context.state_ # "kGotAll" PROVE ~z.bad /\ u = v /\ ~Refused
    OBVIOUS
  <2>1. ~EmptyLine(q) /\ ~TextLine(q)
    BY <1>5 DEF Agrees
  <2>2. ~Asked(d \o q).bad /\ Asked(d \o q).answers = Asked(d).answers
    BY <1>6, <1>9, <2>1, WaitingStream
  <2>3. ~Refused
    BY <1>5, <2>1 DEF Agrees, Blocks
  <2> QED BY <1>2, <1>3, <1>4, <2>2, <2>3
<1>11. CASE context.state_ = "kExpectRequestLine"
  <2>1. a.first = "" /\ ThenRefusals(v, answers)
    BY <1>5, <1>11 DEF Agrees, BetweenRequests
  <2>2. Refused => z.bad /\ u = v
    <3> SUFFICES ASSUME Refused PROVE z.bad /\ u = v
      OBVIOUS
    <3>1. Blocks(q)
      BY <1>5 DEF Agrees
    <3>2. Asked(d \o q).bad /\ Asked(d \o q).answers = Asked(d).answers
      BY <1>3, <1>6, <2>1, <3>1, BlockedStream
    <3> QED BY <1>2, <1>3, <1>4, <3>2
  <2>3. ~Refused => v = answers
    BY <1>1, <1>7, <2>1, NoRefusals DEF Refused
  <2> HIDE DEF v, u
  <2>4. Len(v) <= Len(answers) /\ \A i \in 1..Len(v) : answers[i] = u[i]
    BY <1>8, <2>1 DEF ThenRefusals
  <2>5. \A i \in 1..Len(answers) : i > Len(v) => answers[i] = BadRequest
    BY <2>1 DEF ThenRefusals
  <2>6. Len(v) < Len(answers) \/ pc = "refused" => z.bad /\ Len(v) = Len(u)
    <3>1. pc = "refused" => Refused
      BY DEF Refused
    <3>2. Len(v) < Len(answers) => Refused
      <4>1. v = answers => ~(Len(v) < Len(answers))
        BY <1>7
      <4> QED BY <2>3, <4>1
    <3> QED BY <2>2, <3>1, <3>2
  <2>7. pc = "parsed" => ~z.bad /\ u = answers
    BY <1>10, <1>11, <2>3
  <2> QED BY <1>4, <1>7, <1>8, <1>11, <2>4, <2>5, <2>6, <2>7 DEF u
<1>12. CASE context.state_ = "kExpectHeaders"
  <2>1. v = answers /\ ~Refused
    BY <1>5, <1>12 DEF Agrees, InHeaders
  <2> HIDE DEF v, u
  <2>2. /\ Len(answers) <= Len(u) /\ \A i \in 1..Len(answers) : answers[i] = u[i]
        /\ pc # "refused"
    BY <1>8, <2>1 DEF Refused
  <2>3. ~(Len(answers) < Len(answers)) /\ \A i \in 1..Len(answers) : ~(i > Len(answers))
    BY <1>1
  <2>4. pc = "parsed" => ~z.bad /\ u = answers
    BY <1>10, <1>12, <2>1
  <2> QED BY <1>1, <1>4, <1>12, <2>2, <2>3, <2>4 DEF u
<1>13. CASE context.state_ = "kGotAll"
  <2> DEFINE y == onRequest(context.request_)
  <2>1. v = Append(answers, y) /\ pc = "parsed"
    BY <1>5, <1>13 DEF Agrees, GotAll
  <2> HIDE DEF v, u, y
  <2>2. /\ Len(v) = Len(answers) + 1 /\ v[Len(answers) + 1] = y
        /\ \A i \in 1..Len(answers) : v[i] = answers[i]
    BY <1>1, <2>1
  <2>3. Len(answers) + 1 <= Len(u) /\ Len(answers) <= Len(u)
    BY <1>1, <1>7, <1>8, <2>2
  <2>4. \A i \in 1..Len(answers) : answers[i] = u[i]
    <3>1. \A i \in 1..Len(answers) : i \in 1..Len(v)
      BY <1>1, <2>2
    <3> QED BY <1>8, <2>2, <3>1
  <2>5. u[Len(answers) + 1] = y
    <3>1. Len(answers) + 1 \in 1..Len(v)
      BY <1>1, <2>2
    <3> QED BY <1>8, <2>2, <3>1
  <2>6. ~(Len(answers) < Len(answers)) /\ \A i \in 1..Len(answers) : ~(i > Len(answers))
    BY <1>1
  <2> QED BY <1>1, <1>4, <1>13, <2>1, <2>3, <2>4, <2>5, <2>6 DEF u, y
<1> QED BY <1>1, <1>11, <1>12, <1>13

(* What EndMessage adds to the answers.                                    *)
LEMMA RepliesFacts ==
    ASSUME HttpInv, EndMessage
    PROVE  /\ answers \in Seq(Answer) /\ pc \in {"parsed", "refused"}
           /\ context.state_ = "kGotAll" /\ pc = "parsed" =>
                 answers' = Append(answers, onRequest(context.request_))
           /\ context.state_ # "kGotAll" /\ pc = "parsed" => answers' = answers
           /\ context.state_ # "kGotAll" /\ pc = "refused" => answers' = Append(answers, BadRequest)
<1>1. answers \in Seq(Answer) /\ pc \in {"parsed", "refused"} /\ answers' = answers \o Replies
  BY DEF HttpInv, HttpTyped, EndMessage
<1>2. ASSUME context.state_ = "kGotAll", pc = "parsed"
      PROVE  answers' = Append(answers, onRequest(context.request_))
  <2> DEFINE x == onRequest(context.request_)
  <2>1. Replies = <<>> \o <<x>>
    BY <1>2 DEF Replies
  <2> HIDE DEF x
  <2>2. answers' = Append(answers, x)
    BY <1>1, <2>1
  <2> QED BY <2>2 DEF x
<1>3. ASSUME context.state_ # "kGotAll", pc = "parsed" PROVE answers' = answers
  <2>1. Replies = <<>>
    BY <1>3 DEF Replies
  <2> QED BY <1>1, <2>1
<1>4. ASSUME context.state_ # "kGotAll", pc = "refused" PROVE answers' = Append(answers, BadRequest)
  <2>1. Replies = <<BadRequest>>
    BY <1>4 DEF Replies
  <2> QED BY <1>1, <2>1
<1> QED BY <1>1, <1>2, <1>3, <1>4

(* The end of onMessage answers the next request, or refuses.              *)
LEMMA EndMessageProgress ==
    ASSUME HttpInv, EndMessage
    PROVE  answers' = IF Len(Asked(sent).answers) > Len(answers)
                      THEN Append(answers, Asked(sent).answers[Len(answers) + 1])
                      ELSE IF Asked(sent).bad THEN Append(answers, BadRequest) ELSE answers
<1>1. PICK n \in Nat :
              /\ n <= Len(answers) /\ n <= Len(Asked(sent).answers)
              /\ \A i \in 1..n : answers[i] = Asked(sent).answers[i]
              /\ \A i \in 1..Len(answers) : i > n => answers[i] = BadRequest
              /\ n < Len(answers) \/ pc = "refused" => Asked(sent).bad /\ n = Len(Asked(sent).answers)
              /\ context.state_ = "kGotAll" =>
                    /\ n = Len(answers) /\ n + 1 <= Len(Asked(sent).answers)
                    /\ Asked(sent).answers[n + 1] = onRequest(context.request_)
              /\ pc = "parsed" /\ context.state_ # "kGotAll" =>
                    ~Asked(sent).bad /\ Asked(sent).answers = answers
  BY AnswersFacts
<1>2. PICK z \in AskedType : z = Asked(sent)
  BY AskedTyped DEF HttpInv, HttpTyped
<1>3. /\ answers \in Seq(Answer) /\ pc \in {"parsed", "refused"}
      /\ context.state_ = "kGotAll" /\ pc = "parsed" =>
            answers' = Append(answers, onRequest(context.request_))
      /\ context.state_ # "kGotAll" /\ pc = "parsed" => answers' = answers
      /\ context.state_ # "kGotAll" /\ pc = "refused" => answers' = Append(answers, BadRequest)
  BY RepliesFacts
<1> DEFINE u == z.answers
<1>4. u \in Seq(Answer) /\ Len(u) \in Nat /\ Len(answers) \in Nat
  <2>1. u \in Seq(Answer) /\ Len(u) \in Nat
    BY AskedFields
  <2>2. Len(answers) \in Nat
    BY <1>3
  <2> QED BY <2>1, <2>2
<1> DEFINE b == z.bad
<1>5. b <=> Asked(sent).bad
  BY <1>2
<1>6. u = Asked(sent).answers
  BY <1>2
<1> HIDE DEF u, b
<1>7. CASE context.state_ = "kGotAll"
  <2> DEFINE y == onRequest(context.request_)
  <2>1. n = Len(answers) /\ n + 1 <= Len(u) /\ u[n + 1] = y
    BY <1>1, <1>6, <1>7
  <2>2. pc = "parsed"
    <3>1. pc = "refused" => n = Len(u)
      BY <1>1, <1>6
    <3>2. n # Len(u)
      BY <1>4, <2>1
    <3> QED BY <1>3, <3>1, <3>2
  <2>3. answers' = Append(answers, y)
    BY <1>3, <1>7, <2>2
  <2> HIDE DEF y
  <2>4. Len(u) > Len(answers) /\ u[Len(answers) + 1] = y
    BY <1>4, <2>1
  <2> QED BY <1>6, <2>3, <2>4
<1>8. CASE context.state_ # "kGotAll" /\ pc = "parsed"
  <2>1. answers' = answers /\ ~Asked(sent).bad /\ u = answers
    BY <1>1, <1>3, <1>6, <1>8
  <2>2. ~(Len(u) > Len(answers))
    BY <1>4, <2>1
  <2> QED BY <1>6, <2>1, <2>2
<1>9. CASE context.state_ # "kGotAll" /\ pc = "refused"
  <2>1. answers' = Append(answers, BadRequest) /\ Asked(sent).bad /\ n = Len(u)
    BY <1>1, <1>3, <1>6, <1>9
  <2>2. n <= Len(answers)
    BY <1>1
  <2>3. ~(Len(u) > Len(answers))
    BY <1>4, <2>1, <2>2
  <2> QED BY <1>6, <2>1, <2>3
<1> QED BY <1>3, <1>7, <1>8, <1>9

(* The answers are a front of what was asked for, then refusals.           *)
LEMMA InvAnswersInOrder == HttpInv => AnswersInOrder
<1> SUFFICES ASSUME HttpInv PROVE AnswersInOrder
  OBVIOUS
<1>1. PICK n \in Nat :
              /\ n <= Len(answers) /\ n <= Len(Asked(sent).answers)
              /\ \A i \in 1..n : answers[i] = Asked(sent).answers[i]
              /\ \A i \in 1..Len(answers) : i > n => answers[i] = BadRequest
              /\ n < Len(answers) \/ pc = "refused" => Asked(sent).bad /\ n = Len(Asked(sent).answers)
              /\ context.state_ = "kGotAll" =>
                    /\ n = Len(answers) /\ n + 1 <= Len(Asked(sent).answers)
                    /\ Asked(sent).answers[n + 1] = onRequest(context.request_)
              /\ pc = "parsed" /\ context.state_ # "kGotAll" =>
                    ~Asked(sent).bad /\ Asked(sent).answers = answers
  BY AnswersFacts
<1>2. PICK z \in AskedType : z = Asked(sent)
  BY AskedTyped DEF HttpInv, HttpTyped
<1> DEFINE u == z.answers
<1>3. u \in Seq(Answer) /\ u = Asked(sent).answers
  BY <1>2, AskedFields
<1> HIDE DEF u
<1>4. answers \in Seq(Answer) /\ Len(answers) \in Nat
  BY DEF HttpInv, HttpTyped
<1>5. IsPrefix(SubSeq(answers, 1, n), u)
  <2>1. n <= Len(answers) /\ n <= Len(u) /\ \A i \in 1..n : answers[i] = u[i]
    BY <1>1, <1>3
  <2> QED BY <1>3, <1>4, <2>1, PrefixFacts
<1>6. n \in 0..Len(answers) /\ \A i \in (n + 1)..Len(answers) : i \in 1..Len(answers) /\ i > n
  <2>1. n <= Len(answers)
    BY <1>1
  <2> QED BY <1>4, <2>1
<1>7. \A i \in (n + 1)..Len(answers) : answers[i] = BadRequest
  BY <1>1, <1>6
<1>8. n < Len(answers) => Asked(sent).bad /\ n = Len(Asked(sent).answers)
  BY <1>1
<1> QED BY <1>3, <1>5, <1>6, <1>7, <1>8, Zenon DEF AnswersInOrder

(* In every behaviour of the server the invariant holds.                   *)
LEMMA HttpInvariant == HttpSpec => []HttpInv
<1> QED BY HttpInitInv, HttpStep, PTL DEF HttpSpec

(* The server's state keeps its types: the connection's buffer and its     *)
(* HttpContext, through every parsed, refused and half-arrived request.    *)
THEOREM HttpTypeCorrect == HttpSpec => []HttpTypeOK
<1>1. HttpInv => HttpTypeOK
  BY DEF HttpInv, HttpTyped, HttpTypeOK, WellFormed, ContextType
<1> QED BY <1>1, HttpInvariant, PTL

(* For any stream of lines, however it is cut into segments, the loop of   *)
(* parseRequest ends, and the assert of setMethod fails on no connection   *)
(* whose requests were all accepted.                                       *)
THEOREM ParserAlwaysSurvives == HttpSpec => []ParserSurvives
<1>1. HttpInv => ParserSurvives
  BY DEF HttpInv, Agrees
<1> QED BY <1>1, HttpInvariant, PTL

(* For any stream of lines, however it is cut into segments, onMessage     *)
(* answers its requests in order, each from its own lines alone, and a     *)
(* 400 comes only after everything before the line that is refused.        *)
THEOREM RequestsAnsweredInOrder == HttpSpec => []AnswersInOrder
<1> QED BY InvAnswersInOrder, HttpInvariant, PTL

(* Every call of onMessage answers the next complete request, one and no   *)
(* more, or, if there is none, refuses the line that blocks the stream.    *)
THEOREM EveryMessageProgresses == HttpSpec => MessageMakesProgress
<1>1. HttpInv /\ [HttpNext]_httpVars =>
      [EndMessage =>
          LET asked == Asked(sent) IN
          answers' = IF Len(asked.answers) > Len(answers)
                     THEN Append(answers, asked.answers[Len(answers) + 1])
                     ELSE IF asked.bad THEN Append(answers, BadRequest) ELSE answers]_httpVars
  BY EndMessageProgress
<1> QED BY <1>1, HttpInvariant, PTL DEF HttpSpec, MessageMakesProgress
=============================================================================
