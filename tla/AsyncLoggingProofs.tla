-------------------------- MODULE AsyncLoggingProofs -------------------------
(***************************************************************************)
(* For any buffer size, any message sizes and any limit of two or more     *)
(* buffers: the logging thread's spare buffers never run out, and no       *)
(* message is lost, doubled or written out of order.                       *)
(*                                                                         *)
(* For the Logger singleton, any threads and any number of descriptors: it *)
(* touches no descriptor of others unless two threads use the log file at  *)
(* the same time, and nothing but LOG_FATAL ends the process.              *)
(***************************************************************************)
EXTENDS AsyncLogging, Logger, SequenceTheorems, WellFoundedInduction, TLAPS

(* A front of n elements is a sequence of length n.                        *)
LEMMA SubSeqFront ==
    ASSUME NEW S, NEW s \in Seq(S), NEW n \in Nat, n <= Len(s)
    PROVE  SubSeq(s, 1, n) \in Seq(S) /\ Len(SubSeq(s, 1, n)) = n
OBVIOUS

(* What append and write build from sequences are sequences.               *)
LEMMA SeqFacts ==
    ASSUME NEW S, NEW s \in Seq(S), NEW t \in Seq(S), NEW e \in S
    PROVE  /\ <<>> \in Seq(S) /\ <<e>> \in Seq(S)
           /\ s \o t \in Seq(S)
           /\ Append(s, e) \in Seq(S) /\ Append(s, e) # <<>>
<1>1. Append(s, e) # <<>>
  BY AppendProperties
<1>2. <<e>> \in Seq(S)
  OBVIOUS
<1>3. s \o t \in Seq(S)
  OBVIOUS
<1> QED BY <1>1, <1>2, <1>3

(* A sequence is what is up to a place followed by what is behind it.      *)
LEMMA SplitSeq ==
    ASSUME NEW S, NEW s \in Seq(S), NEW n \in 0..Len(s)
    PROVE  /\ SubSeq(s, 1, n) \in Seq(S) /\ SubSeq(s, n + 1, Len(s)) \in Seq(S)
           /\ s = SubSeq(s, 1, n) \o SubSeq(s, n + 1, Len(s))
<1>1. Len(s) \in Nat /\ \A i \in 1..Len(s) : s[i] \in S
  OBVIOUS
<1>2. SubSeq(s, 1, n) \in Seq(S)
  BY <1>1, SubSeqFront
<1>3. \A i \in n + 1 .. Len(s) : s[i] \in S
  BY <1>1
<1>4. SubSeq(s, n + 1, Len(s)) \in Seq(S)
  BY <1>1, <1>3, SubSeqProperties
<1>5. 1 \in 1 .. Len(s) + 1 /\ n \in 1 - 1 .. Len(s) /\ Len(s) \in n .. Len(s)
  BY <1>1
<1>6. SubSeq(s, 1, n) \o SubSeq(s, n + 1, Len(s)) = SubSeq(s, 1, Len(s))
  BY <1>5, ConcatAdjacentSubSeq
<1> QED BY <1>2, <1>4, <1>6, SubSeqFull

(* Keep never leaves fewer than two buffers where there were two.          *)
LEMMA KeepKeepsTwo ==
    ASSUME NEW bs \in Seq(Buffer)
    PROVE  /\ Keep(bs) \in Seq(Buffer)
           /\ Len(Keep(bs)) <= Len(bs)
           /\ \A n \in 0..2 : Len(bs) >= n => Len(Keep(bs)) >= n
<1>1. CASE Len(bs) > DropAbove
  <2>1. 2 <= Len(bs)
    BY <1>1, AsyncAssumption
  <2>2. Keep(bs) = SubSeq(bs, 1, 2)
    BY <1>1 DEF Keep
  <2> QED BY <2>1, <2>2, SubSeqFront
<1>2. CASE ~(Len(bs) > DropAbove)
  BY <1>2 DEF Keep
<1> QED BY <1>1, <1>2

(* The types are kept; no buffer is ever filled beyond its capacity.       *)
THEOREM TypeCorrect == Spec => []TypeOK
<1>1. Init => TypeOK
  BY AsyncAssumption DEF Init, TypeOK, Buffer
<1>2. TypeOK /\ [Next]_vars => TypeOK'
  <2> SUFFICES ASSUME TypeOK, [Next]_vars PROVE TypeOK'
    OBVIOUS
  <2> USE DEF TypeOK, frontVars, backVars
  <2>1. ASSUME NEW size \in Sizes, AppendToCurrent(size) PROVE TypeOK'
    <3>1. used' \in 0..Capacity
      BY <2>1, AsyncAssumption DEF AppendToCurrent, Fits
    <3>2. appended' \in Nat
      BY <2>1 DEF AppendToCurrent
    <3>3. currentBuffer_' \in Buffer
      <4>1. currentBuffer_' = Append(currentBuffer_, appended')
        BY <2>1 DEF AppendToCurrent
      <4> QED BY <3>2, <4>1 DEF Buffer
    <3>4. /\ nextBuffer_' = nextBuffer_ /\ buffers_' = buffers_ /\ gone' = gone
          /\ newBuffer1' = newBuffer1 /\ newBuffer2' = newBuffer2
          /\ buffersToWrite' = buffersToWrite /\ todo' = todo /\ pc' = pc
          /\ running_' = running_ /\ fdOpen' = fdOpen /\ written' = written
      BY <2>1 DEF AppendToCurrent
    <3> QED BY <3>1, <3>2, <3>3, <3>4
  <2>2. ASSUME NEW size \in Sizes, AppendToNext(size) PROVE TypeOK'
    <3>1. used' \in 0..Capacity
      BY <2>2, AsyncAssumption DEF AppendToNext, Fits
    <3>2. appended' \in Nat /\ appended' = appended + 1
      BY <2>2 DEF AppendToNext
    <3>3. currentBuffer_' \in Buffer
      <4>1. currentBuffer_' = <<appended'>> \/ currentBuffer_' = <<>>
        BY <2>2 DEF AppendToNext
      <4> QED BY <3>2, <4>1, SeqFacts DEF Buffer
    <3>4. gone' \in SUBSET Nat
      <4>1. gone' = gone \/ gone' = gone \cup {appended'}
        BY <2>2 DEF AppendToNext
      <4> QED BY <3>2, <4>1
    <3>5. buffers_' \in Seq(Buffer)
      BY <2>2 DEF AppendToNext, FilledBufferPushed
    <3>6. /\ nextBuffer_' = FALSE
          /\ newBuffer1' = newBuffer1 /\ newBuffer2' = newBuffer2
          /\ buffersToWrite' = buffersToWrite /\ todo' = todo /\ pc' = pc
          /\ running_' = running_ /\ fdOpen' = fdOpen /\ written' = written
      BY <2>2 DEF AppendToNext
    <3> QED BY <3>1, <3>2, <3>3, <3>4, <3>5, <3>6
  <2>3. CASE Stop BY <2>3 DEF Stop
  <2>4. CASE RenameCloses BY <2>4 DEF RenameCloses
  <2>5. CASE RenameOpens BY <2>5 DEF RenameOpens
  <2>6. CASE TestRunning BY <2>6 DEF TestRunning
  <2>7. ASSUME NEW roll \in BOOLEAN, NEW opens \in BOOLEAN, Swap(roll, opens) PROVE TypeOK'
    <3>1. buffersToWrite' \in Seq(Buffer)
      BY <2>7 DEF Swap
    <3>2. buffers_' \in Seq(Buffer) /\ currentBuffer_' \in Buffer /\ used' \in 0..Capacity
      BY <2>7, AsyncAssumption DEF Swap, Buffer
    <3>3. fdOpen' \in BOOLEAN /\ newBuffer2' \in BOOLEAN
      BY <2>7 DEF Swap, NewBuffer2Left, rollOver
    <3> QED BY <2>7, <3>1, <3>2, <3>3 DEF Swap
  <2>8. CASE DropExcess
    <3>1. buffersToWrite' \in Seq(Buffer)
      BY <2>8, KeepKeepsTwo DEF DropExcess
    <3>2. Len(buffersToWrite') \in Nat
      BY <3>1
    <3>3. ASSUME NEW i \in Len(buffersToWrite') + 1 .. Len(buffersToWrite)
          PROVE  ToSet(buffersToWrite[i]) \subseteq Nat
      <4>1. i \in 1..Len(buffersToWrite)
        BY <3>2, <3>3
      <4>2. buffersToWrite[i] \in Seq(Nat)
        BY <4>1 DEF Buffer
      <4> QED BY <4>2 DEF ToSet
    <3>4. gone' \in SUBSET Nat
      BY <2>8, <3>3 DEF DropExcess
    <3> QED BY <2>8, <3>1, <3>4 DEF DropExcess
  <2>9. ASSUME NEW n \in 0..MaxMsgs, WriteBuffer(n) PROVE TypeOK'
    <3>1. Head(todo) \in Seq(Nat) /\ todo' \in Seq(Buffer) /\ n \in 0..Len(Head(todo))
      BY <2>9, AsyncAssumption DEF WriteBuffer, Buffer
    <3>2. PICK a \in Seq(Nat), b \in Seq(Nat) :
            a = SubSeq(Head(todo), 1, n) /\ b = SubSeq(Head(todo), n + 1, Len(Head(todo)))
      BY <3>1, SplitSeq
    <3>3. written' \in Seq(Nat)
      BY <2>9, <3>2, SeqFacts DEF WriteBuffer
    <3>4. ToSet(b) \subseteq Nat
      BY <3>2 DEF ToSet
    <3>5. gone' \in SUBSET Nat
      BY <2>9, <3>2, <3>4 DEF WriteBuffer
    <3> QED BY <2>9, <3>1, <3>3, <3>5 DEF WriteBuffer
  <2>10. CASE EndWrite
    <3>1. buffersToWrite' \in Seq(Buffer)
      BY <2>10, SubSeqFront DEF EndWrite
    <3> QED BY <2>10, <3>1 DEF EndWrite
  <2>11. CASE Refill BY <2>11 DEF Refill
  <2>12. CASE UNCHANGED vars BY <2>12 DEF vars
  <2> QED BY <2>1, <2>2, <2>3, <2>4, <2>5, <2>6, <2>7, <2>8, <2>9, <2>10, <2>11, <2>12
          DEF Next, LoggerStep
<1> QED BY <1>1, <1>2, PTL DEF Spec

(* buffersToWrite.back() is never called on an empty vector.               *)
THEOREM SparesNeverRunOut == Spec => [](SpareInv /\ BackNeverEmpty)
<1>1. Init => SpareInv
  BY DEF Init, SpareInv
<1>2. TypeOK /\ SpareInv /\ [Next]_vars => SpareInv'
  <2> SUFFICES ASSUME TypeOK, SpareInv, [Next]_vars PROVE SpareInv'
    OBVIOUS
  <2> USE DEF SpareInv, Needed, frontVars, backVars
  <2>1. ASSUME NEW size \in Sizes, AppendToCurrent(size) PROVE SpareInv'
    BY <2>1 DEF AppendToCurrent
  <2>2. ASSUME NEW size \in Sizes, AppendToNext(size) PROVE SpareInv'
    <3>1. buffers_' # <<>>
      <4>1. buffers_' = Append(buffers_, currentBuffer_)
        BY <2>2 DEF AppendToNext, FilledBufferPushed
      <4>2. buffers_ \in Seq(Buffer) /\ currentBuffer_ \in Buffer
        BY DEF TypeOK
      <4> QED BY <4>1, <4>2, SeqFacts
    <3> QED BY <2>2, <3>1 DEF AppendToNext
  <2>3. CASE Stop BY <2>3 DEF Stop
  <2>4. CASE RenameCloses BY <2>4 DEF RenameCloses
  <2>5. CASE RenameOpens BY <2>5 DEF RenameOpens
  <2>6. CASE TestRunning BY <2>6 DEF TestRunning
  <2>7. ASSUME NEW roll \in BOOLEAN, NEW opens \in BOOLEAN, Swap(roll, opens) PROVE SpareInv'
    <3>1. Len(buffersToWrite') = Len(buffers_) + 1
      BY <2>7 DEF Swap, TypeOK
    <3>2. buffers_ # <<>> => Len(buffers_) >= 1
      BY DEF TypeOK
    <3>3. Len(buffers_) \in Nat
      BY DEF TypeOK
    <3>4. newBuffer1' = FALSE /\ nextBuffer_' = TRUE /\ pc' = "drop"
      BY <2>7 DEF Swap
    <3>5. newBuffer2' = nextBuffer_
      BY <2>7 DEF Swap, NewBuffer2Left, TypeOK
    <3>6. CASE nextBuffer_
      BY <3>1, <3>3, <3>4, <3>5, <3>6
    <3>7. CASE ~nextBuffer_
      BY <3>1, <3>2, <3>3, <3>4, <3>5, <3>7
    <3> QED BY <3>6, <3>7
  <2>8. CASE DropExcess
    <3>1. Needed \in 0..2
      BY DEF Needed
    <3>2. Len(buffersToWrite') >= Needed
      BY <2>8, <3>1, KeepKeepsTwo DEF DropExcess, TypeOK
    <3> QED BY <2>8, <3>2 DEF DropExcess
  <2>9. ASSUME NEW n \in 0..MaxMsgs, WriteBuffer(n) PROVE SpareInv'
    BY <2>9 DEF WriteBuffer
  <2>10. CASE EndWrite
    <3>1. Len(buffersToWrite') >= Needed
      <4>1. CASE Len(buffersToWrite) > 2
        <5>1. Len(buffersToWrite') = 2
          BY <2>10, <4>1, SubSeqFront DEF EndWrite, TypeOK
        <5> QED BY <5>1
      <4>2. CASE ~(Len(buffersToWrite) > 2)
        BY <2>10, <4>2 DEF EndWrite
      <4> QED BY <4>1, <4>2
    <3> QED BY <2>10, <3>1 DEF EndWrite
  <2>11. CASE Refill BY <2>11 DEF Refill
  <2>12. CASE UNCHANGED vars BY <2>12 DEF vars
  <2> QED BY <2>1, <2>2, <2>3, <2>4, <2>5, <2>6, <2>7, <2>8, <2>9, <2>10, <2>11, <2>12
          DEF Next, LoggerStep
<1>3. SpareInv => BackNeverEmpty
  BY DEF SpareInv, BackNeverEmpty
<1> QED BY <1>1, <1>2, <1>3, TypeCorrect, PTL DEF Spec

-----------------------------------------------------------------------------
(* The order of the messages. Each lemma says what InOrder and Held make   *)
(* of one way to put buffers together.                                     *)
Older(A, B) == \A x \in A, y \in B : x < y

(* What a line holds, message by message.                                  *)
LEMMA HeldElement ==
    ASSUME NEW ss, NEW x
    PROVE  x \in Held(ss) <=> \E i \in DOMAIN ss : \E p \in DOMAIN ss[i] : x = ss[i][p]
<1>1. \A b : x \in ToSet(b) <=> \E p \in DOMAIN b : x = b[p]
  BY DEF ToSet
<1> QED BY <1>1 DEF Held

(* A line of buffers put behind another one.                               *)
LEMMA InOrderConcat ==
    ASSUME NEW a \in Seq(Buffer), NEW b \in Seq(Buffer)
    PROVE  /\ InOrder(a \o b) <=> InOrder(a) /\ InOrder(b) /\ Older(Held(a), Held(b))
           /\ Held(a \o b) = Held(a) \cup Held(b)
<1> DEFINE n == Len(a)
           k == Len(b)
<1>1. n \in Nat /\ k \in Nat /\ DOMAIN a = 1..n /\ DOMAIN b = 1..k /\ DOMAIN (a \o b) = 1..(n + k)
  OBVIOUS
<1>2. /\ \A i \in 1..n : (a \o b)[i] = a[i] /\ i \in 1..(n + k)
      /\ \A i \in 1..k : (a \o b)[n + i] = b[i] /\ n + i \in 1..(n + k)
  OBVIOUS
<1>3. \A i \in 1..(n + k) : i \in 1..n \/ \E j \in 1..k : i = n + j
  <2> SUFFICES ASSUME NEW i \in 1..(n + k), i \notin 1..n PROVE \E j \in 1..k : i = n + j
    OBVIOUS
  <2>1. i - n \in 1..k /\ i = n + (i - n)
    BY <1>1
  <2> QED BY <2>1
<1> HIDE DEF n, k
<1>4. Held(a \o b) = Held(a) \cup Held(b)
  <2>1. ASSUME NEW x \in Held(a) PROVE x \in Held(a \o b)
    <3>1. PICK i \in DOMAIN a : \E p \in DOMAIN a[i] : x = a[i][p]
      BY HeldElement
    <3>2. i \in DOMAIN (a \o b) /\ (a \o b)[i] = a[i]
      BY <1>1, <1>2
    <3>3. \E p \in DOMAIN (a \o b)[i] : x = (a \o b)[i][p]
      BY <3>1, <3>2
    <3> QED BY <3>2, <3>3, HeldElement
  <2>2. ASSUME NEW x \in Held(b) PROVE x \in Held(a \o b)
    <3>1. PICK i \in DOMAIN b : \E p \in DOMAIN b[i] : x = b[i][p]
      BY HeldElement
    <3>2. n + i \in DOMAIN (a \o b) /\ (a \o b)[n + i] = b[i]
      BY <1>1, <1>2
    <3>3. \E p \in DOMAIN (a \o b)[n + i] : x = (a \o b)[n + i][p]
      BY <3>1, <3>2
    <3> QED BY <3>2, <3>3, HeldElement
  <2>3. ASSUME NEW x \in Held(a \o b) PROVE x \in Held(a) \/ x \in Held(b)
    <3>1. PICK i \in DOMAIN (a \o b) : \E p \in DOMAIN (a \o b)[i] : x = (a \o b)[i][p]
      <4>1. PICK ab : ab = a \o b
        OBVIOUS
      <4>2. \E i \in DOMAIN ab : \E p \in DOMAIN ab[i] : x = ab[i][p]
        <5>1. x \in Held(ab)
          BY <2>3, <4>1
        <5> QED BY <5>1, HeldElement
      <4> QED BY <4>1, <4>2
    <3>2. CASE i \in 1..n
      <4>1. i \in DOMAIN a /\ (a \o b)[i] = a[i]
        BY <1>1, <1>2, <3>2
      <4>2. \E p \in DOMAIN a[i] : x = a[i][p]
        BY <3>1, <4>1
      <4> QED BY <4>1, <4>2, HeldElement
    <3>3. ASSUME NEW j \in 1..k, i = n + j PROVE x \in Held(b)
      <4>1. j \in DOMAIN b /\ (a \o b)[i] = b[j]
        BY <1>1, <1>2, <3>3
      <4>2. \E p \in DOMAIN b[j] : x = b[j][p]
        BY <3>1, <4>1
      <4> QED BY <4>1, <4>2, HeldElement
    <3> QED BY <1>1, <1>3, <3>2, <3>3
  <2> QED BY <2>1, <2>2, <2>3
<1>5. ASSUME InOrder(a \o b) PROVE InOrder(a) /\ InOrder(b) /\ Older(Held(a), Held(b))
  <2>1. InOrder(a)
    BY <1>1, <1>2, <1>5 DEF InOrder
  <2>2. InOrder(b)
    <3> SUFFICES ASSUME NEW i \in DOMAIN b, NEW j \in DOMAIN b, NEW p \in DOMAIN b[i],
                        NEW q \in DOMAIN b[j], i < j \/ (i = j /\ p < q)
                 PROVE  b[i][p] < b[j][q]
      BY DEF InOrder
    <3>1. n + i < n + j \/ (n + i = n + j /\ p < q)
      BY <1>1
    <3>2. /\ n + i \in DOMAIN (a \o b) /\ (a \o b)[n + i] = b[i]
          /\ n + j \in DOMAIN (a \o b) /\ (a \o b)[n + j] = b[j]
      BY <1>1, <1>2
    <3>3. p \in DOMAIN (a \o b)[n + i] /\ q \in DOMAIN (a \o b)[n + j]
      BY <3>2
    <3>4. (a \o b)[n + i][p] < (a \o b)[n + j][q]
      BY <1>5, <3>1, <3>2, <3>3 DEF InOrder
    <3> QED BY <3>2, <3>4
  <2>3. ASSUME NEW x \in Held(a), NEW y \in Held(b) PROVE x < y
    <3>a. PICK i \in DOMAIN a : \E p \in DOMAIN a[i] : x = a[i][p]
      BY HeldElement
    <3>b. PICK j \in DOMAIN b : \E q \in DOMAIN b[j] : y = b[j][q]
      BY HeldElement
    <3>1. PICK p \in DOMAIN a[i] : x = a[i][p]
      BY <3>a
    <3>2. PICK q \in DOMAIN b[j] : y = b[j][q]
      BY <3>b
    <3>3. i < n + j
      BY <1>1
    <3>4. /\ i \in DOMAIN (a \o b) /\ (a \o b)[i] = a[i]
          /\ n + j \in DOMAIN (a \o b) /\ (a \o b)[n + j] = b[j]
      BY <1>1, <1>2
    <3>5. p \in DOMAIN (a \o b)[i] /\ q \in DOMAIN (a \o b)[n + j]
      BY <3>4
    <3>6. (a \o b)[i][p] < (a \o b)[n + j][q]
      BY <1>5, <3>3, <3>4, <3>5 DEF InOrder
    <3> QED BY <3>1, <3>2, <3>4, <3>6
  <2> QED BY <2>1, <2>2, <2>3 DEF Older
<1>6. ASSUME InOrder(a), InOrder(b), Older(Held(a), Held(b)) PROVE InOrder(a \o b)
  <2> DEFINE ab == a \o b
  <2> SUFFICES ASSUME NEW i \in DOMAIN ab, NEW j \in DOMAIN ab, NEW p \in DOMAIN ab[i],
                      NEW q \in DOMAIN ab[j], i < j \/ (i = j /\ p < q)
               PROVE  ab[i][p] < ab[j][q]
    BY DEF InOrder
  <2>1. CASE i \in 1..n /\ j \in 1..n
    BY <1>1, <1>2, <1>6, <2>1 DEF InOrder
  <2>2. ASSUME NEW i1 \in 1..k, NEW j1 \in 1..k, i = n + i1, j = n + j1
        PROVE  ab[i][p] < ab[j][q]
    <3>1. i1 < j1 \/ (i1 = j1 /\ p < q)
      BY <1>1, <2>2
    <3>2. /\ i1 \in DOMAIN b /\ ab[i] = b[i1]
          /\ j1 \in DOMAIN b /\ ab[j] = b[j1]
      BY <1>1, <1>2, <2>2
    <3>3. p \in DOMAIN b[i1] /\ q \in DOMAIN b[j1]
      BY <3>2
    <3>4. b[i1][p] < b[j1][q]
      BY <1>6, <3>1, <3>2, <3>3 DEF InOrder
    <3> QED BY <3>2, <3>4
  <2>3. ASSUME i \in 1..n, NEW j1 \in 1..k, j = n + j1
        PROVE  ab[i][p] < ab[j][q]
    <3>2. /\ i \in DOMAIN a /\ ab[i] = a[i]
          /\ j1 \in DOMAIN b /\ ab[j] = b[j1]
      BY <1>1, <1>2, <2>3
    <3>1. ab[i][p] \in Held(a) /\ ab[j][q] \in Held(b)
      BY <3>2, HeldElement
    <3> QED BY <1>6, <3>1 DEF Older
  <2>4. ~(j \in 1..n /\ \E i1 \in 1..k : i = n + i1)
    BY <1>1
  <2> QED BY <1>1, <1>3, <2>1, <2>2, <2>3, <2>4
<1> QED BY <1>4, <1>5, <1>6

(* One buffer, and what is written behind it in the same one.              *)
LEMMA InOrderOne ==
    ASSUME NEW c \in Buffer
    PROVE  /\ InOrder(<<c>>) <=> \A p, q \in DOMAIN c : p < q => c[p] < c[q]
           /\ Held(<<c>>) = ToSet(c)
<1>1. DOMAIN <<c>> = {1} /\ <<c>>[1] = c
  OBVIOUS
<1>2. InOrder(<<c>>) <=> \A p, q \in DOMAIN c : p < q => c[p] < c[q]
  BY <1>1 DEF InOrder
<1>3. Held(<<c>>) = ToSet(c)
  BY <1>1 DEF Held
<1> QED BY <1>2, <1>3

(* Two buffers written behind each other into one file.                    *)
LEMMA InOrderJoin ==
    ASSUME NEW c \in Buffer, NEW d \in Buffer
    PROVE  /\ InOrder(<<c \o d>>) <=> InOrder(<<c>>) /\ InOrder(<<d>>) /\ Older(ToSet(c), ToSet(d))
           /\ ToSet(c \o d) = ToSet(c) \cup ToSet(d)
           /\ c \o d \in Buffer
<1> USE DEF Buffer
<1> DEFINE n == Len(c)
           k == Len(d)
<1>1. n \in Nat /\ k \in Nat /\ DOMAIN c = 1..n /\ DOMAIN d = 1..k /\ DOMAIN (c \o d) = 1..(n + k)
      /\ c \o d \in Buffer
  OBVIOUS
<1>2. /\ \A i \in 1..n : (c \o d)[i] = c[i] /\ i \in 1..(n + k)
      /\ \A i \in 1..k : (c \o d)[n + i] = d[i] /\ n + i \in 1..(n + k)
  OBVIOUS
<1>3. \A i \in 1..(n + k) : i \in 1..n \/ \E j \in 1..k : i = n + j
  <2> SUFFICES ASSUME NEW i \in 1..(n + k), i \notin 1..n PROVE \E j \in 1..k : i = n + j
    OBVIOUS
  <2>1. i - n \in 1..k /\ i = n + (i - n)
    BY <1>1
  <2> QED BY <2>1
<1> HIDE DEF n, k
<1>4. \A b, x : x \in ToSet(b) <=> \E p \in DOMAIN b : x = b[p]
  BY DEF ToSet
<1>5. ToSet(c \o d) = ToSet(c) \cup ToSet(d)
  <2>1. ASSUME NEW x \in ToSet(c) PROVE x \in ToSet(c \o d)
    <3>1. PICK p \in 1..n : x = c[p]
      BY <1>1, <1>4
    <3> QED BY <1>1, <1>2, <1>4, <3>1
  <2>2. ASSUME NEW x \in ToSet(d) PROVE x \in ToSet(c \o d)
    <3>1. PICK p \in 1..k : x = d[p]
      BY <1>1, <1>4
    <3> QED BY <1>1, <1>2, <1>4, <3>1
  <2>3. ASSUME NEW x \in ToSet(c \o d) PROVE x \in ToSet(c) \/ x \in ToSet(d)
    <3>1. PICK p \in 1..(n + k) : x = (c \o d)[p]
      BY <1>1, <1>4
    <3> QED BY <1>1, <1>2, <1>3, <1>4, <3>1
  <2> QED BY <2>1, <2>2, <2>3
<1>6. ASSUME InOrder(<<c \o d>>)
      PROVE  InOrder(<<c>>) /\ InOrder(<<d>>) /\ Older(ToSet(c), ToSet(d))
  <2>1. \A p, q \in 1..(n + k) : p < q => (c \o d)[p] < (c \o d)[q]
    BY <1>1, <1>6, InOrderOne
  <2>2. InOrder(<<c>>)
    BY <1>1, <1>2, <2>1, InOrderOne
  <2>3. ASSUME NEW p \in 1..k, NEW q \in 1..k, p < q PROVE d[p] < d[q]
    <3>1. n + p < n + q
      BY <1>1, <2>3
    <3> QED BY <1>2, <2>1, <3>1
  <2>4. ASSUME NEW p \in 1..n, NEW q \in 1..k PROVE c[p] < d[q]
    <3>1. p < n + q
      BY <1>1
    <3> QED BY <1>2, <2>1, <3>1
  <2>5. InOrder(<<d>>)
    BY <1>1, <2>3, InOrderOne
  <2>6. Older(ToSet(c), ToSet(d))
    BY <1>1, <1>4, <2>4 DEF Older
  <2> QED BY <2>2, <2>5, <2>6
<1>7. ASSUME InOrder(<<c>>), InOrder(<<d>>), Older(ToSet(c), ToSet(d))
      PROVE  InOrder(<<c \o d>>)
  <2>1. /\ \A p, q \in 1..n : p < q => c[p] < c[q]
        /\ \A p, q \in 1..k : p < q => d[p] < d[q]
    BY <1>1, <1>7, InOrderOne
  <2>2. \A p \in 1..n, q \in 1..k : c[p] < d[q]
    BY <1>1, <1>4, <1>7 DEF Older
  <2>3. ASSUME NEW p \in 1..(n + k), NEW q \in 1..(n + k), p < q
        PROVE  (c \o d)[p] < (c \o d)[q]
    <3>1. CASE p \in 1..n /\ q \in 1..n
      BY <1>2, <2>1, <2>3, <3>1
    <3>2. ASSUME NEW p1 \in 1..k, NEW q1 \in 1..k, p = n + p1, q = n + q1
          PROVE  (c \o d)[p] < (c \o d)[q]
      <4>1. p1 < q1
        BY <1>1, <2>3, <3>2
      <4> QED BY <1>2, <2>1, <3>2, <4>1
    <3>3. ASSUME p \in 1..n, NEW q1 \in 1..k, q = n + q1
          PROVE  (c \o d)[p] < (c \o d)[q]
      BY <1>2, <2>2, <3>3
    <3>4. ~(q \in 1..n /\ \E p1 \in 1..k : p = n + p1)
      BY <1>1, <2>3
    <3> QED BY <1>3, <3>1, <3>2, <3>3, <3>4
  <2> QED BY <1>1, <2>3, InOrderOne
<1> QED BY <1>1, <1>5, <1>6, <1>7

(* Lines and buffers that hold nothing, or one message.                    *)
LEMMA InOrderSmall ==
    /\ InOrder(<<>>) /\ Held(<<>>) = {}
    /\ <<>> \in Buffer /\ InOrder(<<<<>>>>) /\ ToSet(<<>>) = {}
    /\ \A m \in Nat : <<m>> \in Buffer /\ InOrder(<<<<m>>>>) /\ ToSet(<<m>>) = {m}
<1>1. DOMAIN <<>> = {}
  OBVIOUS
<1>2. InOrder(<<>>) /\ Held(<<>>) = {}
  BY <1>1 DEF InOrder, Held
<1>3. <<>> \in Buffer /\ ToSet(<<>>) = {}
  BY DEF Buffer, ToSet
<1>4. InOrder(<<<<>>>>)
  BY <1>1, <1>3, InOrderOne
<1>5. ASSUME NEW m \in Nat PROVE <<m>> \in Buffer /\ InOrder(<<<<m>>>>) /\ ToSet(<<m>>) = {m}
  <2>1. <<m>> \in Buffer /\ DOMAIN <<m>> = {1} /\ <<m>>[1] = m
    BY DEF Buffer
  <2>2. ToSet(<<m>>) = {m}
    BY <2>1 DEF ToSet
  <2>3. InOrder(<<<<m>>>>)
    BY <2>1, InOrderOne
  <2> QED BY <2>1, <2>2, <2>3
<1> QED BY <1>2, <1>3, <1>4, <1>5

(* The file, two lines of buffers and one more buffer, as in Stored.       *)
Line(w, t, b, c) == <<w>> \o t \o b \o <<c>>

InLine(w, t, b, c) ==
    /\ InOrder(<<w>>) /\ InOrder(t) /\ InOrder(b) /\ InOrder(<<c>>)
    /\ Older(ToSet(w), Held(t)) /\ Older(ToSet(w), Held(b)) /\ Older(ToSet(w), ToSet(c))
    /\ Older(Held(t), Held(b)) /\ Older(Held(t), ToSet(c)) /\ Older(Held(b), ToSet(c))

InLineHeld(w, t, b, c) == ToSet(w) \cup Held(t) \cup Held(b) \cup ToSet(c)

(* A line is in order if its parts are and each is older than the later    *)
(* ones.                                                                   *)
LEMMA LineOrder ==
    ASSUME NEW w \in Buffer, NEW t \in Seq(Buffer), NEW b \in Seq(Buffer), NEW c \in Buffer
    PROVE  /\ InOrder(Line(w, t, b, c)) <=> InLine(w, t, b, c)
           /\ Held(Line(w, t, b, c)) = InLineHeld(w, t, b, c)
<1>1. <<w>> \in Seq(Buffer) /\ <<c>> \in Seq(Buffer)
  BY SeqFacts
<1>2. <<w>> \o t \in Seq(Buffer) /\ (<<w>> \o t) \o b \in Seq(Buffer)
  BY <1>1, SeqFacts
<1>3. Held(<<w>>) = ToSet(w) /\ Held(<<c>>) = ToSet(c)
  BY InOrderOne
<1>4. /\ InOrder(<<w>> \o t) <=> InOrder(<<w>>) /\ InOrder(t) /\ Older(ToSet(w), Held(t))
      /\ Held(<<w>> \o t) = ToSet(w) \cup Held(t)
  BY <1>1, <1>3, InOrderConcat, ZenonT(30)
<1> DEFINE wt == <<w>> \o t
           wtb == wt \o b
<1>5. /\ InOrder(wtb) <=> InOrder(wt) /\ InOrder(b) /\ Older(Held(wt), Held(b))
      /\ Held(wtb) = Held(wt) \cup Held(b)
  BY <1>2, InOrderConcat
<1>7. Line(w, t, b, c) = wtb \o <<c>> /\ wtb \in Seq(Buffer)
  BY <1>2 DEF Line
<1> HIDE DEF wtb
<1>6. /\ InOrder(wtb \o <<c>>) <=> InOrder(wtb) /\ InOrder(<<c>>) /\ Older(Held(wtb), ToSet(c))
      /\ Held(wtb \o <<c>>) = Held(wtb) \cup ToSet(c)
  <2>1. /\ InOrder(wtb \o <<c>>) <=> InOrder(wtb) /\ InOrder(<<c>>) /\ Older(Held(wtb), Held(<<c>>))
        /\ Held(wtb \o <<c>>) = Held(wtb) \cup Held(<<c>>)
    BY <1>1, <1>7, InOrderConcat
  <2> QED BY <1>3, <2>1
<1>8. \A A, B, C : Older(A \cup B, C) <=> Older(A, C) /\ Older(B, C)
  BY DEF Older
<1>9. Held(wtb) = (ToSet(w) \cup Held(t)) \cup Held(b)
  BY <1>4, <1>5
<1>10. Older(Held(wt), Held(b)) <=> Older(ToSet(w), Held(b)) /\ Older(Held(t), Held(b))
  BY <1>4, <1>8
<1>11. Older(Held(wtb), ToSet(c)) <=> /\ Older(ToSet(w), ToSet(c)) /\ Older(Held(t), ToSet(c))
                                      /\ Older(Held(b), ToSet(c))
  <2>1. Older(Held(wtb), ToSet(c)) <=> Older(ToSet(w) \cup Held(t), ToSet(c)) /\ Older(Held(b), ToSet(c))
    BY <1>8, <1>9
  <2>2. Older(ToSet(w) \cup Held(t), ToSet(c)) <=> Older(ToSet(w), ToSet(c)) /\ Older(Held(t), ToSet(c))
    BY <1>8
  <2> QED BY <2>1, <2>2
<1> HIDE DEF wt
<1>12. InOrder(wt) <=> InOrder(<<w>>) /\ InOrder(t) /\ Older(ToSet(w), Held(t))
  BY <1>4 DEF wt
<1>13. InOrder(Line(w, t, b, c)) <=> InLine(w, t, b, c)
  BY <1>5, <1>6, <1>7, <1>10, <1>11, <1>12 DEF InLine
<1>14. Held(Line(w, t, b, c)) = InLineHeld(w, t, b, c)
  BY <1>6, <1>7, <1>9 DEF InLineHeld
<1> QED BY <1>13, <1>14

(* What the order rests on: the buffers to be written are those swapped    *)
(* out, all of them until the drop, and none outside of the writing.       *)
WriterInv ==
    /\ pc \in {"test", "wait", "refill"} => todo = <<>>
    /\ pc = "drop" => todo = buffersToWrite
    /\ gone \subseteq 1..appended

ParcelInv ==
    /\ InLine(written, todo, buffers_, currentBuffer_)
    /\ InLineHeld(written, todo, buffers_, currentBuffer_) = (1..appended) \ gone
    /\ WriterInv

(* ParcelInv is InOrderNoLoss with the line taken apart.                   *)
LEMMA ParcelOfStored == TypeOK => (InOrderNoLoss /\ WriterInv <=> ParcelInv)
<1> SUFFICES ASSUME TypeOK PROVE InOrderNoLoss /\ WriterInv <=> ParcelInv
  OBVIOUS
<1>1. /\ written \in Buffer /\ todo \in Seq(Buffer)
      /\ buffers_ \in Seq(Buffer) /\ currentBuffer_ \in Buffer
  BY DEF TypeOK, Buffer
<1>2. Stored = Line(written, todo, buffers_, currentBuffer_)
  BY DEF Stored, Line
<1>3. /\ InOrder(Stored) <=> InLine(written, todo, buffers_, currentBuffer_)
      /\ Held(Stored) = InLineHeld(written, todo, buffers_, currentBuffer_)
  BY <1>1, <1>2, LineOrder
<1> QED BY <1>3 DEF InOrderNoLoss, ParcelInv

(* The new message is younger than every message that is stored.           *)
LEMMA AppendKeepsParcel ==
    ASSUME TypeOK, ParcelInv, NEW size \in Sizes, AppendToCurrent(size) \/ AppendToNext(size)
    PROVE  ParcelInv'
<1> DEFINE m == appended + 1
<1>1. m \in Nat /\ 1..m = (1..appended) \cup {m} /\ m \notin 1..appended /\ \A x \in 1..appended : x < m
  BY DEF TypeOK
<1>2. /\ appended' = m /\ written' = written /\ todo' = todo /\ pc' = pc
      /\ buffersToWrite' = buffersToWrite /\ (gone' = gone \/ gone' = gone \cup {m})
  BY DEF AppendToCurrent, AppendToNext, backVars
<1>3. /\ <<m>> \in Buffer /\ InOrder(<<<<m>>>>) /\ ToSet(<<m>>) = {m}
      /\ <<>> \in Buffer /\ InOrder(<<<<>>>>) /\ ToSet(<<>>) = {}
  BY <1>1, InOrderSmall
<1>4. currentBuffer_ \in Buffer /\ buffers_ \in Seq(Buffer)
  BY DEF TypeOK
<1> HIDE DEF m
<1>5. WriterInv'
  BY <1>1, <1>2 DEF ParcelInv, WriterInv
<1>6. /\ Older(ToSet(written), {m}) /\ Older(Held(todo), {m})
      /\ Older(Held(buffers_), {m}) /\ Older(ToSet(currentBuffer_), {m})
  BY <1>1 DEF ParcelInv, InLineHeld, Older
<1>7. CASE AppendToCurrent(size)
  <2>1. currentBuffer_' = currentBuffer_ \o <<m>>
    <3>1. currentBuffer_' = Append(currentBuffer_, m)
      BY <1>7 DEF AppendToCurrent, m
    <3>2. currentBuffer_ \in Seq(Nat)
      BY <1>4 DEF Buffer
    <3> QED BY <1>1, <3>1, <3>2, AppendIsConcat
  <2>2. gone' = gone /\ buffers_' = buffers_
    BY <1>7 DEF AppendToCurrent
  <2>3. /\ InOrder(<<currentBuffer_'>>)
        /\ ToSet(currentBuffer_') = ToSet(currentBuffer_) \cup {m}
    <3>1. InOrder(<<currentBuffer_>>)
      BY DEF ParcelInv, InLine
    <3>2. /\ InOrder(<<currentBuffer_ \o <<m>>>>) <=>
                 InOrder(<<currentBuffer_>>) /\ InOrder(<<<<m>>>>) /\ Older(ToSet(currentBuffer_), ToSet(<<m>>))
          /\ ToSet(currentBuffer_ \o <<m>>) = ToSet(currentBuffer_) \cup ToSet(<<m>>)
      BY <1>3, <1>4, InOrderJoin
    <3> QED BY <1>3, <1>6, <2>1, <3>1, <3>2
  <2>4. InLine(written, todo, buffers_, currentBuffer_)'
    BY <1>2, <1>6, <2>2, <2>3 DEF ParcelInv, InLine, Older
  <2>5. InLineHeld(written, todo, buffers_, currentBuffer_)' = (1..m) \ gone
    BY <1>1, <1>2, <2>2, <2>3 DEF ParcelInv, InLineHeld, WriterInv
  <2> QED BY <1>2, <1>5, <2>2, <2>4, <2>5 DEF ParcelInv
<1>8. CASE AppendToNext(size)
  <2>1. buffers_' = buffers_ \o <<currentBuffer_>>
    <3>1. buffers_' = Append(buffers_, currentBuffer_)
      BY <1>8 DEF AppendToNext, FilledBufferPushed
    <3> QED BY <1>4, <3>1, AppendIsConcat
  <2>2. /\ InOrder(buffers_')
        /\ Held(buffers_') = Held(buffers_) \cup ToSet(currentBuffer_)
    <3>1. /\ InOrder(<<currentBuffer_>>) /\ InOrder(buffers_)
          /\ Older(Held(buffers_), ToSet(currentBuffer_))
      BY DEF ParcelInv, InLine
    <3>2. <<currentBuffer_>> \in Seq(Buffer) /\ Held(<<currentBuffer_>>) = ToSet(currentBuffer_)
      BY <1>4, SeqFacts, InOrderOne
    <3> QED BY <1>4, <2>1, <3>1, <3>2, InOrderConcat
  <2>3. \/ currentBuffer_' = <<m>> /\ gone' = gone
        \/ currentBuffer_' = <<>> /\ gone' = gone \cup {m}
    BY <1>8 DEF AppendToNext, m
  <2>4. InOrder(<<currentBuffer_'>>) /\ ToSet(currentBuffer_') \subseteq {m}
    BY <1>3, <2>3
  <2>5. InLine(written, todo, buffers_, currentBuffer_)'
    BY <1>2, <1>6, <2>2, <2>4 DEF ParcelInv, InLine, Older
  <2>6. InLineHeld(written, todo, buffers_, currentBuffer_)' = (1..m) \ gone'
    <3>1. CASE currentBuffer_' = <<m>> /\ gone' = gone
      BY <1>1, <1>2, <1>3, <2>2, <3>1 DEF ParcelInv, InLineHeld, WriterInv
    <3>2. CASE currentBuffer_' = <<>> /\ gone' = gone \cup {m}
      BY <1>1, <1>2, <1>3, <2>2, <3>2 DEF ParcelInv, InLineHeld, WriterInv
    <3> QED BY <2>3, <3>1, <3>2
  <2> QED BY <1>2, <1>5, <2>5, <2>6 DEF ParcelInv
<1> QED BY <1>7, <1>8

(* No message is older than itself, so parts in order share none.          *)
LEMMA OlderDisjoint ==
    ASSUME NEW A, NEW B, A \subseteq Nat, Older(A, B)
    PROVE  \A x : ~(x \in A /\ x \in B)
<1> SUFFICES ASSUME NEW x \in A, x \in B PROVE FALSE
  OBVIOUS
<1>1. x < x /\ x \in Nat
  BY DEF Older
<1> QED BY <1>1

(* Nothing moves but the place of the buffers in the line.                 *)
LEMMA SwapKeepsParcel ==
    ASSUME TypeOK, ParcelInv, NEW roll \in BOOLEAN, NEW opens \in BOOLEAN, Swap(roll, opens)
    PROVE  ParcelInv'
<1>1. /\ todo = <<>> /\ buffers_ \in Seq(Buffer) /\ currentBuffer_ \in Buffer
      /\ <<currentBuffer_>> \in Seq(Buffer)
  BY SeqFacts DEF Swap, ParcelInv, WriterInv, TypeOK
<1>2. todo' = buffers_ \o <<currentBuffer_>>
  BY <1>1, AppendIsConcat DEF Swap
<1>3. /\ buffers_' = <<>> /\ currentBuffer_' = <<>> /\ written' = written /\ pc' = "drop"
      /\ todo' = buffersToWrite' /\ appended' = appended /\ gone' = gone
  BY DEF Swap
<1>4. /\ InOrder(<<written>>) /\ InOrder(buffers_) /\ InOrder(<<currentBuffer_>>)
      /\ Older(Held(buffers_), ToSet(currentBuffer_))
      /\ Older(ToSet(written), Held(buffers_)) /\ Older(ToSet(written), ToSet(currentBuffer_))
  BY DEF ParcelInv, InLine
<1>5. InOrder(todo') /\ Held(todo') = Held(buffers_) \cup ToSet(currentBuffer_)
  <2>1. Held(<<currentBuffer_>>) = ToSet(currentBuffer_)
    BY <1>1, InOrderOne
  <2> QED BY <1>1, <1>2, <1>4, <2>1, InOrderConcat
<1>6. /\ InOrder(buffers_') /\ Held(buffers_') = {}
      /\ InOrder(<<currentBuffer_'>>) /\ ToSet(currentBuffer_') = {}
  BY <1>3, InOrderSmall
<1>7. InLine(written, todo, buffers_, currentBuffer_)'
  BY <1>3, <1>4, <1>5, <1>6 DEF InLine, Older
<1>8. Held(todo) = {}
  BY <1>1, InOrderSmall
<1>9. InLineHeld(written, todo, buffers_, currentBuffer_)'
        = InLineHeld(written, todo, buffers_, currentBuffer_)
  BY <1>3, <1>5, <1>6, <1>8 DEF InLineHeld
<1>10. WriterInv'
  BY <1>3 DEF ParcelInv, WriterInv
<1> QED BY <1>3, <1>7, <1>9, <1>10 DEF ParcelInv

(* What is taken out of the line leaves the rest in order, and is counted  *)
(* as gone.                                                                *)
LEMMA OmitKeepsParcel ==
    ASSUME TypeOK, ParcelInv, NEW a \in Seq(Buffer), NEW b \in Seq(Buffer),
           NEW c \in Seq(Buffer), todo = a \o b, c = a \/ c = b,
           todo' = c, gone' = gone \cup (IF c = a THEN Held(b) ELSE Held(a)),
           UNCHANGED <<written, buffers_, currentBuffer_, appended>>
    PROVE  /\ InLine(written, todo, buffers_, currentBuffer_)'
           /\ InLineHeld(written, todo, buffers_, currentBuffer_)' = (1..appended') \ gone'
           /\ gone' \subseteq 1..appended'
<1>1. /\ InOrder(a) /\ InOrder(b) /\ Older(Held(a), Held(b))
      /\ Held(todo) = Held(a) \cup Held(b)
  <2>1. InOrder(todo)
    BY DEF ParcelInv, InLine
  <2> QED BY <2>1, InOrderConcat
<1>2. InLineHeld(written, todo, buffers_, currentBuffer_) = (1..appended) \ gone
  BY DEF ParcelInv
<1>3. /\ ToSet(written) \subseteq 1..appended /\ Held(a) \subseteq 1..appended
      /\ Held(b) \subseteq 1..appended /\ 1..appended \subseteq Nat /\ gone \subseteq 1..appended
  BY <1>1, <1>2 DEF InLineHeld, ParcelInv, WriterInv, TypeOK
<1>4. /\ Older(ToSet(written), Held(a)) /\ Older(ToSet(written), Held(b))
      /\ Older(Held(a), Held(buffers_)) /\ Older(Held(b), Held(buffers_))
      /\ Older(Held(a), ToSet(currentBuffer_)) /\ Older(Held(b), ToSet(currentBuffer_))
  BY <1>1 DEF ParcelInv, InLine, Older
<1>5. PICK O : O = IF c = a THEN Held(b) ELSE Held(a)
  OBVIOUS
<1>6. /\ Held(todo) = Held(c) \cup O /\ \A x : ~(x \in Held(c) /\ x \in O)
      /\ InOrder(c) /\ Held(c) \subseteq Held(todo)
  <2>1. \A x : ~(x \in Held(a) /\ x \in Held(b))
    BY <1>1, <1>3, OlderDisjoint
  <2> QED BY <1>1, <1>5, <2>1
<1>7. \A x \in O : x \notin ToSet(written) /\ x \notin Held(buffers_) /\ x \notin ToSet(currentBuffer_)
  <2>1. /\ \A x : ~(x \in ToSet(written) /\ x \in Held(a))
        /\ \A x : ~(x \in ToSet(written) /\ x \in Held(b))
    BY <1>3, <1>4, OlderDisjoint
  <2>2. /\ \A x : ~(x \in Held(a) /\ x \in Held(buffers_))
        /\ \A x : ~(x \in Held(b) /\ x \in Held(buffers_))
    BY <1>3, <1>4, OlderDisjoint
  <2>3. /\ \A x : ~(x \in Held(a) /\ x \in ToSet(currentBuffer_))
        /\ \A x : ~(x \in Held(b) /\ x \in ToSet(currentBuffer_))
    BY <1>3, <1>4, OlderDisjoint
  <2> QED BY <1>5, <2>1, <2>2, <2>3
<1>8. InLine(written, todo, buffers_, currentBuffer_)'
  BY <1>6 DEF ParcelInv, InLine, Older
<1>9. InLineHeld(written, todo, buffers_, currentBuffer_)' = (1..appended') \ gone'
  <2>1. gone' = gone \cup O
    BY <1>5
  <2>2. InLineHeld(written, todo, buffers_, currentBuffer_)'
          = ToSet(written) \cup Held(c) \cup Held(buffers_) \cup ToSet(currentBuffer_)
    BY DEF InLineHeld
  <2>3. ToSet(written) \cup (Held(c) \cup O) \cup Held(buffers_) \cup ToSet(currentBuffer_)
          = (1..appended) \ gone
    BY <1>2, <1>6 DEF InLineHeld
  <2>4. appended' = appended
    OBVIOUS
  <2> HIDE DEF InLineHeld
  <2> QED BY <1>6, <1>7, <2>1, <2>2, <2>3, <2>4
<1>10. gone' \subseteq 1..appended'
  BY <1>3, <1>5
<1> QED BY <1>8, <1>9, <1>10

(* Dropping the excess takes a back part out of the line.                  *)
LEMMA DropKeepsParcel ==
    ASSUME TypeOK, ParcelInv, DropExcess
    PROVE  ParcelInv'
<1>1. /\ todo = buffersToWrite /\ todo \in Seq(Buffer)
      /\ todo' = Keep(todo) /\ pc' = "write"
      /\ UNCHANGED <<written, buffers_, currentBuffer_, appended>>
      /\ gone' = gone \cup UNION {ToSet(todo[i]) : i \in Len(todo') + 1 .. Len(todo)}
  BY DEF DropExcess, ParcelInv, WriterInv, TypeOK, frontVars
<1>2. PICK n \in 0..Len(todo) : todo' = SubSeq(todo, 1, n) /\ Len(todo') = n
  <2>1. CASE Len(todo) > DropAbove
    <3>1. 2 \in 0..Len(todo) /\ todo' = SubSeq(todo, 1, 2)
      BY <1>1, <2>1, AsyncAssumption DEF Keep
    <3>2. Len(SubSeq(todo, 1, 2)) = 2
      BY <1>1, <3>1, SubSeqFront
    <3> QED BY <3>1, <3>2
  <2>2. CASE ~(Len(todo) > DropAbove)
    <3>1. todo' = todo /\ Len(todo) \in 0..Len(todo)
      BY <1>1, <2>2 DEF Keep
    <3>2. SubSeq(todo, 1, Len(todo)) = todo
      BY <1>1, SubSeqFull
    <3> QED BY <3>1, <3>2
  <2> QED BY <2>1, <2>2
<1> DEFINE a == SubSeq(todo, 1, n)
           b == SubSeq(todo, n + 1, Len(todo))
<1>3. Len(todo) \in Nat /\ \A i \in 1..Len(todo) : todo[i] \in Buffer
  BY <1>1
<1>4. /\ a \in Seq(Buffer) /\ b \in Seq(Buffer) /\ Len(b) = Len(todo) - n
      /\ \A i \in 1..(Len(todo) - n) : b[i] = todo[n + i]
  <2>1. a \in Seq(Buffer)
    BY <1>1, <1>2, SubSeqFront
  <2>2. \A i \in n + 1 .. Len(todo) : todo[i] \in Buffer
    BY <1>2, <1>3
  <2>3. /\ b \in Seq(Buffer)
        /\ Len(b) = IF n + 1 <= Len(todo) THEN Len(todo) - (n + 1) + 1 ELSE 0
        /\ \A i \in 1 .. Len(todo) - (n + 1) + 1 : b[i] = todo[(n + 1) + i - 1]
    BY <1>2, <1>3, <2>2, SubSeqProperties
  <2> HIDE DEF b
  <2>4. \A i \in 1..(Len(todo) - n) : b[i] = todo[n + i]
    BY <1>2, <1>3, <2>3
  <2> QED BY <1>2, <1>3, <2>1, <2>3, <2>4
<1>5. todo = a \o b
  <2>1. 1 \in 1 .. Len(todo) + 1 /\ n \in 1 - 1 .. Len(todo) /\ Len(todo) \in n .. Len(todo)
    BY <1>2, <1>3
  <2>2. a \o b = SubSeq(todo, 1, Len(todo))
    BY <1>1, <2>1, ConcatAdjacentSubSeq
  <2> QED BY <1>1, <2>2, SubSeqFull
<1> HIDE DEF a, b
<1>6. Held(b) = UNION {ToSet(todo[i]) : i \in n + 1 .. Len(todo)}
  <2>1. DOMAIN b = 1..(Len(todo) - n)
    BY <1>4
  <2>2. ASSUME NEW i \in DOMAIN b PROVE n + i \in n + 1 .. Len(todo) /\ b[i] = todo[n + i]
    BY <1>2, <1>3, <1>4, <2>1
  <2>3. ASSUME NEW i \in n + 1 .. Len(todo) PROVE i - n \in DOMAIN b /\ b[i - n] = todo[i]
    <3>1. i - n \in 1..(Len(todo) - n) /\ n + (i - n) = i
      BY <1>2, <1>3
    <3> QED BY <1>4, <2>1, <3>1
  <2> QED BY <2>2, <2>3 DEF Held
<1>7. gone' = gone \cup Held(b)
  BY <1>1, <1>2, <1>6
<1>8. todo' = a
  BY <1>2 DEF a
<1>9. gone' = gone \cup (IF a = a THEN Held(b) ELSE Held(a))
  BY <1>7
<1>10. /\ InLine(written, todo, buffers_, currentBuffer_)'
       /\ InLineHeld(written, todo, buffers_, currentBuffer_)' = (1..appended') \ gone'
       /\ gone' \subseteq 1..appended'
  BY <1>1, <1>4, <1>5, <1>8, <1>9, OmitKeepsParcel
<1>11. WriterInv'
  BY <1>1, <1>10 DEF WriterInv
<1> QED BY <1>10, <1>11 DEF ParcelInv

(* A write moves a front of the first buffer of the line to the end of the *)
(* file, and takes the rest of it out of the line.                         *)
LEMMA WriteKeepsParcel ==
    ASSUME TypeOK, ParcelInv, NEW n \in 0..MaxMsgs, WriteBuffer(n)
    PROVE  ParcelInv'
<1>1. /\ todo \in Seq(Buffer) /\ todo # <<>> /\ todo' = Tail(todo) /\ written \in Buffer
      /\ pc = "write" /\ pc' = pc /\ UNCHANGED <<buffers_, currentBuffer_, appended>>
  BY DEF WriteBuffer, TypeOK, frontVars, Buffer
<1>2. PICK h \in Buffer, r \in Seq(Buffer) :
        /\ h = Head(todo) /\ r = Tail(todo)
        /\ <<h>> \in Seq(Buffer) /\ todo = <<h>> \o r
  <2>1. Head(todo) \in Buffer /\ Tail(todo) \in Seq(Buffer)
    BY <1>1, HeadTailProperties
  <2>2. todo = <<Head(todo)>> \o Tail(todo)
    BY <1>1
  <2> QED BY <2>1, <2>2, SeqFacts
<1>3. PICK a \in Buffer, b \in Buffer :
        h = a \o b /\ written' = written \o a /\ gone' = gone \cup ToSet(b)
  <2>1. h \in Seq(Nat) /\ n \in 0..Len(h)
    BY <1>2, AsyncAssumption DEF WriteBuffer, Buffer
  <2>2. /\ SubSeq(h, 1, n) \in Seq(Nat) /\ SubSeq(h, n + 1, Len(h)) \in Seq(Nat)
        /\ h = SubSeq(h, 1, n) \o SubSeq(h, n + 1, Len(h))
    BY <2>1, SplitSeq
  <2>3. /\ written' = written \o SubSeq(h, 1, n)
        /\ gone' = gone \cup ToSet(SubSeq(h, n + 1, Len(h)))
    BY <1>2 DEF WriteBuffer
  <2> QED BY <2>2, <2>3 DEF Buffer
<1>4. /\ InOrder(<<h>>) /\ InOrder(r) /\ Older(ToSet(h), Held(r))
      /\ Held(todo) = ToSet(h) \cup Held(r)
  <2>1. InOrder(todo)
    BY DEF ParcelInv, InLine
  <2>2. /\ InOrder(<<h>> \o r) <=> InOrder(<<h>>) /\ InOrder(r) /\ Older(Held(<<h>>), Held(r))
        /\ Held(<<h>> \o r) = Held(<<h>>) \cup Held(r)
    BY <1>2, InOrderConcat
  <2>3. InOrder(<<h>> \o r) /\ Held(todo) = Held(<<h>> \o r)
    BY <1>2, <2>1
  <2>4. Held(<<h>>) = ToSet(h)
    BY InOrderOne
  <2> QED BY <2>2, <2>3, <2>4
<1>5. InOrder(<<a>>) /\ Older(ToSet(a), ToSet(b)) /\ ToSet(h) = ToSet(a) \cup ToSet(b)
  <2>1. /\ InOrder(<<a \o b>>) <=> InOrder(<<a>>) /\ InOrder(<<b>>) /\ Older(ToSet(a), ToSet(b))
        /\ ToSet(a \o b) = ToSet(a) \cup ToSet(b)
    BY InOrderJoin
  <2> QED BY <1>3, <1>4, <2>1
<1>6. /\ Older(ToSet(written), ToSet(a)) /\ Older(ToSet(written), ToSet(b))
      /\ Older(ToSet(a), Held(r)) /\ Older(ToSet(b), Held(r))
      /\ Older(ToSet(a), Held(buffers_)) /\ Older(ToSet(b), Held(buffers_))
      /\ Older(ToSet(a), ToSet(currentBuffer_)) /\ Older(ToSet(b), ToSet(currentBuffer_))
  BY <1>4, <1>5 DEF ParcelInv, InLine, Older
<1>7. InOrder(<<written'>>) /\ ToSet(written') = ToSet(written) \cup ToSet(a)
  <2>1. /\ InOrder(<<written \o a>>) <=>
             InOrder(<<written>>) /\ InOrder(<<a>>) /\ Older(ToSet(written), ToSet(a))
        /\ ToSet(written \o a) = ToSet(written) \cup ToSet(a)
    BY <1>1, InOrderJoin
  <2>2. InOrder(<<written>>)
    BY DEF ParcelInv, InLine
  <2> QED BY <1>3, <1>5, <1>6, <2>1, <2>2
<1>8. todo' = r
  BY <1>1, <1>2
<1>9. InLine(written, todo, buffers_, currentBuffer_)'
  BY <1>1, <1>4, <1>6, <1>7, <1>8 DEF ParcelInv, InLine, Older
<1>10. /\ InLineHeld(written, todo, buffers_, currentBuffer_) = (1..appended) \ gone
       /\ 1..appended \subseteq Nat /\ gone \subseteq 1..appended
  BY DEF ParcelInv, WriterInv, TypeOK
<1>11. /\ ToSet(written) \subseteq Nat /\ ToSet(a) \subseteq Nat /\ ToSet(b) \subseteq 1..appended
       /\ Held(r) \subseteq Nat /\ Held(buffers_) \subseteq Nat /\ ToSet(currentBuffer_) \subseteq Nat
  BY <1>4, <1>5, <1>10 DEF InLineHeld
<1>12. \A x \in ToSet(b) : /\ x \notin ToSet(written) /\ x \notin ToSet(a) /\ x \notin Held(r)
                            /\ x \notin Held(buffers_) /\ x \notin ToSet(currentBuffer_)
  <2>1. ToSet(b) \subseteq Nat
    BY <1>10, <1>11
  <2> QED BY <1>5, <1>6, <1>11, <2>1, OlderDisjoint
<1>13. InLineHeld(written, todo, buffers_, currentBuffer_)' = (1..appended') \ gone'
  <2>1. InLineHeld(written, todo, buffers_, currentBuffer_)'
          = (ToSet(written) \cup ToSet(a)) \cup Held(r) \cup Held(buffers_) \cup ToSet(currentBuffer_)
    BY <1>1, <1>7, <1>8 DEF InLineHeld
  <2>2. ToSet(written) \cup ((ToSet(a) \cup ToSet(b)) \cup Held(r))
          \cup Held(buffers_) \cup ToSet(currentBuffer_) = (1..appended) \ gone
    BY <1>4, <1>5, <1>10 DEF InLineHeld
  <2> QED BY <1>1, <1>3, <1>12, <2>1, <2>2
<1>14. WriterInv'
  BY <1>1, <1>3, <1>10, <1>11 DEF WriterInv
<1> QED BY <1>9, <1>13, <1>14 DEF ParcelInv

(* Every message is in the file or in a buffer, once and in the order of   *)
(* the calls to append, unless it was dropped, was too long, or was not    *)
(* taken by write; for any buffers, sizes and limits.                      *)
THEOREM MessagesInOrder == Spec => []InOrderNoLoss
<1>1. Init => ParcelInv
  <2> SUFFICES ASSUME Init PROVE ParcelInv
    OBVIOUS
  <2>1. /\ written = <<>> /\ todo = <<>> /\ buffers_ = <<>> /\ currentBuffer_ = <<>>
        /\ gone = {} /\ appended = 0 /\ pc = "test"
    BY DEF Init
  <2>2. InLine(<<>>, <<>>, <<>>, <<>>) /\ InLineHeld(<<>>, <<>>, <<>>, <<>>) = {}
    BY InOrderSmall DEF InLine, InLineHeld, Older
  <2>3. (1..0) \ {} = {}
    OBVIOUS
  <2> QED BY <2>1, <2>2, <2>3 DEF ParcelInv, WriterInv
<1>2. TypeOK /\ ParcelInv /\ [Next]_vars => ParcelInv'
  <2> SUFFICES ASSUME TypeOK, ParcelInv, [Next]_vars PROVE ParcelInv'
    OBVIOUS
  <2> USE DEF frontVars, backVars
  <2>1. ASSUME NEW size \in Sizes, AppendToCurrent(size) \/ AppendToNext(size)
        PROVE  ParcelInv'
    BY <2>1, AppendKeepsParcel
  <2>2. ASSUME NEW roll \in BOOLEAN, NEW opens \in BOOLEAN, Swap(roll, opens) PROVE ParcelInv'
    BY <2>2, SwapKeepsParcel
  <2>3. CASE DropExcess BY <2>3, DropKeepsParcel
  <2>4. ASSUME NEW n \in 0..MaxMsgs, WriteBuffer(n) PROVE ParcelInv'
    BY <2>4, WriteKeepsParcel
  <2>5. ASSUME UNCHANGED <<written, todo, buffers_, currentBuffer_, appended, gone>>, WriterInv'
        PROVE  ParcelInv'
    BY <2>5 DEF ParcelInv, InLine, InLineHeld
  <2>6. CASE Stop \/ RenameCloses \/ RenameOpens
    BY <2>5, <2>6 DEF Stop, RenameCloses, RenameOpens, ParcelInv, WriterInv
  <2>7. CASE TestRunning
    BY <2>5, <2>7 DEF TestRunning, ParcelInv, WriterInv
  <2>8. CASE EndWrite
    BY <2>5, <2>8 DEF EndWrite, ParcelInv, WriterInv
  <2>9. CASE Refill
    BY <2>5, <2>9 DEF Refill, ParcelInv, WriterInv
  <2>10. CASE UNCHANGED vars
    BY <2>5, <2>10 DEF vars, ParcelInv, WriterInv
  <2> QED BY <2>1, <2>2, <2>3, <2>4, <2>6, <2>7, <2>8, <2>9, <2>10 DEF Next, LoggerStep
<1>3. TypeOK /\ ParcelInv => InOrderNoLoss
  BY ParcelOfStored
<1> QED BY <1>1, <1>2, <1>3, TypeCorrect, PTL DEF Spec

-----------------------------------------------------------------------------
(* The Logger singleton.                                                   *)

(* open returns a descriptor that was free, or none.                       *)
LEMMA LowestFacts ==
    ASSUME LoggerTypeOK
    PROVE  Lowest \in 0..MaxFd /\ (Lowest # 0 => table[Lowest] = "free")
<1> DEFINE F == {fd \in 1..MaxFd : table[fd] = "free"}
<1>1. CASE F = {}
  BY <1>1, LoggerAssumption DEF Lowest
<1>2. CASE F # {}
  <2>1. F \subseteq Nat
    BY LoggerAssumption
  <2>2. PICK x \in F : \A y \in F : ~(<<y, x>> \in OpToRel(<, Nat))
    BY <1>2, <2>1, NatLessThanWellFounded, WFMin
  <2>3. \A y \in F : x <= y
    <3>1. ASSUME NEW m \in Nat, NEW n \in Nat, m < n
          PROVE  <<m, n>> \in OpToRel(<, Nat)
      BY <3>1, Zenon DEF OpToRel
    <3>2. \A y \in F : ~(y < x)
      BY <2>1, <2>2, <3>1
    <3> QED BY <2>1, <3>2
  <2>4. Min(F) \in F
    BY <2>3 DEF Min
  <2>5. Lowest = Min(F)
    BY <1>2 DEF Lowest
  <2> HIDE DEF Lowest
  <2>6. Lowest \in 1..MaxFd /\ table[Lowest] = "free"
    BY <2>4, <2>5
  <2> QED BY <2>6, LoggerAssumption
<1> QED BY <1>1, <1>2

LoggerPlaces == {"idle", "log", "test", "close", "open", "stamp", "write",
                 "level", "return", "nameClose", "nameOpen"}

(* A thread that moves on is where it went, and the others are where they  *)
(* were.                                                                   *)
LEMMA GoMoves ==
    ASSUME at \in [Threads -> LoggerPlaces], NEW t \in Threads, NEW from, NEW to \in LoggerPlaces,
           Go(t, from, to)
    PROVE  /\ at' \in [Threads -> LoggerPlaces] /\ at'[t] = to /\ at[t] = from
           /\ \A u \in Threads : u # t => at'[u] = at[u]
BY DEF Go

(* Go keeps the history variable a boolean.                                *)
LEMMA GoOverlap ==
    ASSUME NEW t, NEW from, NEW to, Go(t, from, to), overlap \in BOOLEAN
    PROVE  overlap' \in BOOLEAN
BY Zenon DEF Go

(* The types of the descriptor table after open and close.                 *)
LEMMA TableFacts ==
    ASSUME LoggerTypeOK
    PROVE  /\ \A o \in {"log", "other"} : Opened(o) \in [1..MaxFd -> {"free", "log", "other"}]
           /\ \A n : Closed(n) \in [1..MaxFd -> {"free", "log", "other"}]
BY DEF LoggerTypeOK, Opened, Closed

(* What the threads and the rest of the program find keeps its types: the  *)
(* log's descriptor is one of the process, or none after a failed open.    *)
THEOREM LoggerTypeCorrect == LoggerSpec => []LoggerTypeOK
<1>1. LoggerInit => LoggerTypeOK
  <2> SUFFICES ASSUME LoggerInit PROVE LoggerTypeOK
    OBVIOUS
  <2>1. log_file_fd_ \in 0..MaxFd /\ conn \subseteq 1..MaxFd /\ calls \in [Threads -> 0..MaxCalls]
    BY LoggerAssumption DEF LoggerInit
  <2>2. table \in [1..MaxFd -> {"free", "log", "other"}]
    BY DEF LoggerInit
  <2>3. at \in [Threads -> LoggerPlaces] /\ level \in [Threads -> Levels]
    BY DEF LoggerInit, LoggerPlaces, Levels
  <2> QED BY <2>1, <2>2, <2>3, Zenon DEF LoggerInit, LoggerTypeOK, LoggerPlaces
<1>2. LoggerTypeOK /\ [LoggerNext]_loggerVars => LoggerTypeOK'
  <2> SUFFICES ASSUME LoggerTypeOK, [LoggerNext]_loggerVars PROVE LoggerTypeOK'
    OBVIOUS
  <2> USE DEF logVars, fdVars
  <2>1. at \in [Threads -> LoggerPlaces] /\ overlap \in BOOLEAN /\ harm \in BOOLEAN
    BY DEF LoggerTypeOK, LoggerPlaces
  <2>2. ASSUME NEW t \in Threads, NEW from, NEW to \in LoggerPlaces, Go(t, from, to)
        PROVE  at' \in [Threads -> LoggerPlaces] /\ overlap' \in BOOLEAN
    BY <2>1, <2>2, GoMoves, GoOverlap
  <2>3. ASSUME NEW t \in Threads, NEW from, NEW to \in LoggerPlaces, CloseFile(t, from, to)
        PROVE  LoggerTypeOK'
    <3>1. at' \in [Threads -> LoggerPlaces] /\ overlap' \in BOOLEAN
      BY <2>2, <2>3 DEF CloseFile
    <3>2. table' \in [1..MaxFd -> {"free", "log", "other"}]
      BY <2>3, TableFacts DEF CloseFile
    <3>3. harm' \in BOOLEAN
      BY <2>1, <2>3, Zenon DEF CloseFile
    <3> QED BY <2>3, <3>1, <3>2, <3>3 DEF CloseFile, LoggerTypeOK, LoggerPlaces
  <2>4. ASSUME NEW t \in Threads, NEW from, NEW to \in LoggerPlaces, OpenFile(t, from, to)
        PROVE  LoggerTypeOK'
    <3>1. at' \in [Threads -> LoggerPlaces] /\ overlap' \in BOOLEAN
      BY <2>2, <2>4 DEF OpenFile
    <3>2. table' \in [1..MaxFd -> {"free", "log", "other"}]
      BY <2>4, TableFacts DEF OpenFile
    <3>3. log_file_fd_' \in 0..MaxFd
      BY <2>4, LowestFacts DEF OpenFile, FdOf
    <3> QED BY <2>4, <3>1, <3>2, <3>3 DEF OpenFile, LoggerTypeOK, LoggerPlaces
  <2>5. ASSUME NEW t \in Threads, NEW l \in Levels, Macro(t, l) PROVE LoggerTypeOK'
    <3>1. at' \in [Threads -> LoggerPlaces] /\ overlap' \in BOOLEAN
      BY <2>2, <2>5 DEF Macro, LoggerPlaces
    <3>2. calls' \in [Threads -> 0..MaxCalls]
      BY <2>5, LoggerAssumption DEF Macro, LoggerTypeOK
    <3>3. level' \in [Threads -> Levels]
      BY <2>5 DEF Macro, LoggerTypeOK
    <3> QED BY <2>5, <3>1, <3>2, <3>3 DEF Macro, LoggerTypeOK, LoggerPlaces
  <2>6. ASSUME NEW t \in Threads, Log(t) \/ TestRollOver(t) PROVE LoggerTypeOK'
    <3>1. at' \in [Threads -> LoggerPlaces] /\ overlap' \in BOOLEAN
      BY <2>2, <2>6 DEF Log, TestRollOver, LoggerPlaces
    <3> QED BY <2>6, <3>1 DEF Log, TestRollOver, LoggerTypeOK, LoggerPlaces
  <2>7. ASSUME NEW t \in Threads, RollOver(t) PROVE LoggerTypeOK'
    <3>1. CASE CloseFile(t, "close", "open") \/ OpenFile(t, "open", "stamp")
      BY <2>3, <2>4, <3>1 DEF LoggerPlaces
    <3>2. CASE /\ Go(t, "stamp", "write") /\ due' = FALSE
               /\ UNCHANGED <<logLevel_, allowRecord, log_file_fd_, fdVars, level, ended, calls>>
      <4>1. at' \in [Threads -> LoggerPlaces] /\ overlap' \in BOOLEAN
        BY <2>2, <3>2 DEF LoggerPlaces
      <4> QED BY <3>2, <4>1 DEF LoggerTypeOK, LoggerPlaces
    <3> QED BY <2>7, <3>1, <3>2 DEF RollOver
  <2>8. ASSUME NEW t \in Threads, Write(t) PROVE LoggerTypeOK'
    <3>1. at' \in [Threads -> LoggerPlaces] /\ overlap' \in BOOLEAN
      BY <2>2, <2>8 DEF Write, LoggerPlaces
    <3>2. harm' \in BOOLEAN
      BY <2>1, <2>8, Zenon DEF Write
    <3> QED BY <2>8, <3>1, <3>2 DEF Write, LoggerTypeOK, LoggerPlaces
  <2>9. ASSUME NEW t \in Threads, ExitOnFatalLevel(t) \/ MacroEnds(t) PROVE LoggerTypeOK'
    <3>1. at' \in [Threads -> LoggerPlaces] /\ overlap' \in BOOLEAN
      BY <2>2, <2>9 DEF ExitOnFatalLevel, MacroEnds, LoggerPlaces
    <3>2. ended' \in BOOLEAN
      BY <2>9, Zenon DEF ExitOnFatalLevel, MacroEnds
    <3> QED BY <2>9, <3>1, <3>2 DEF ExitOnFatalLevel, MacroEnds, LoggerTypeOK, LoggerPlaces
  <2>10. ASSUME NEW t \in Threads, Configure(t) PROVE LoggerTypeOK'
    <3>1. CASE CloseFile(t, "nameClose", "nameOpen") \/ OpenFile(t, "nameOpen", "idle")
      BY <2>3, <2>4, <3>1 DEF LoggerPlaces
    <3>2. CASE /\ Go(t, "idle", "nameClose") /\ calls[t] < MaxCalls
               /\ calls' = [calls EXCEPT ![t] = @ + 1]
               /\ UNCHANGED <<logVars, fdVars, level, ended>>
      <4>1. at' \in [Threads -> LoggerPlaces] /\ overlap' \in BOOLEAN
        BY <2>2, <3>2 DEF LoggerPlaces
      <4>2. calls' \in [Threads -> 0..MaxCalls]
        BY <3>2, LoggerAssumption DEF LoggerTypeOK
      <4> QED BY <3>2, <4>1, <4>2 DEF LoggerTypeOK, LoggerPlaces
    <3>3. CASE /\ Go(t, "idle", "idle") /\ allowRecord' = ~allowRecord
               /\ UNCHANGED <<logLevel_, log_file_fd_, due, fdVars, level, ended, calls>>
      <4>1. at' \in [Threads -> LoggerPlaces] /\ overlap' \in BOOLEAN
        BY <2>2, <3>3 DEF LoggerPlaces
      <4>2. allowRecord' \in BOOLEAN
        BY <3>3, Zenon
      <4> QED BY <3>3, <4>1, <4>2 DEF LoggerTypeOK, LoggerPlaces
    <3> QED BY <2>10, <3>1, <3>2, <3>3 DEF Configure
  <2>11. CASE HourPasses
    BY <2>11 DEF HourPasses, LoggerTypeOK
  <2>12. CASE OthersOpen
    <3>1. table' \in [1..MaxFd -> {"free", "log", "other"}]
      BY <2>12, TableFacts DEF OthersOpen
    <3>2. conn' \subseteq 1..MaxFd
      <4>1. conn \subseteq 1..MaxFd
        BY DEF LoggerTypeOK
      <4>2. conn' = conn \cup {Lowest} /\ Lowest # 0
        BY <2>12 DEF OthersOpen
      <4>3. Lowest \in 1..MaxFd
        BY <4>2, LowestFacts, LoggerAssumption
      <4> QED BY <4>1, <4>2, <4>3
    <3> QED BY <2>12, <3>1, <3>2 DEF OthersOpen, LoggerTypeOK
  <2>13. ASSUME NEW fd \in 1..MaxFd, OthersClose(fd) PROVE LoggerTypeOK'
    <3>1. table' \in [1..MaxFd -> {"free", "log", "other"}]
      BY <2>13, TableFacts DEF OthersClose
    <3> QED BY <2>13, <3>1 DEF OthersClose, LoggerTypeOK
  <2>14. CASE UNCHANGED loggerVars
    BY <2>14 DEF loggerVars, LoggerTypeOK
  <2> QED BY <2>5, <2>6, <2>7, <2>8, <2>9, <2>10, <2>11, <2>12, <2>13, <2>14
          DEF LoggerNext, ThreadStep
<1> QED BY <1>1, <1>2, PTL DEF LoggerSpec

-----------------------------------------------------------------------------
(* At most one thread uses the log file.                                   *)
OneUser == \A t, u \in Threads : at[t] \in UsesFile /\ at[u] \in UsesFile => t = u

(* The rest of the program owns what it thinks it owns, and no more.       *)
OthersOwn == \A fd \in 1..MaxFd : table[fd] = "other" <=> fd \in conn

(* log_file_fd_ is -1 or the log file, except between close and open.      *)
FileIsOurs == log_file_fd_ = 0 \/ table[log_file_fd_] = "log"
Reopens(t) == at[t] \in {"open", "nameOpen"}

Undisturbed ==
    /\ ~harm
    /\ OneUser /\ OthersOwn
    /\ (\A t \in Threads : ~Reopens(t)) => FileIsOurs

LoggerInv == LoggerTypeOK /\ (~overlap => Undisturbed)

(* A thread that comes to the file alone stays alone.                      *)
LEMMA GoAlone ==
    ASSUME at \in [Threads -> LoggerPlaces], NEW t \in Threads, NEW from, NEW to \in LoggerPlaces,
           Go(t, from, to), ~overlap'
    PROVE  ~overlap /\ (OneUser => OneUser')
<1>1. ~overlap /\ (to \in UsesFile => \A u \in Threads \ {t} : at[u] \notin UsesFile)
  BY Zenon DEF Go
<1>2. at'[t] = to /\ \A u \in Threads : u # t => at'[u] = at[u]
  BY GoMoves
<1>3. ASSUME OneUser PROVE OneUser'
  <2> SUFFICES ASSUME NEW x \in Threads, NEW y \in Threads, at'[x] \in UsesFile, at'[y] \in UsesFile
               PROVE  x = y
    BY DEF OneUser, UsesFile
  <2>1. CASE x = t \/ y = t
    BY <1>1, <1>2, <2>1
  <2>2. CASE x # t /\ y # t
    BY <1>2, <1>3, <2>2 DEF OneUser
  <2> QED BY <2>1, <2>2
<1> QED BY <1>1, <1>3

(* While one thread alone uses the file and is not between close and open, *)
(* the descriptor is its own.                                              *)
LEMMA FileOfUser ==
    ASSUME LoggerTypeOK, Undisturbed, NEW t \in Threads, at[t] \in UsesFile, ~Reopens(t)
    PROVE  FileIsOurs /\ ~Foreign(log_file_fd_)
<1>1. ASSUME NEW u \in Threads PROVE ~Reopens(u)
  BY DEF Undisturbed, OneUser, UsesFile, Reopens
<1>2. FileIsOurs
  BY <1>1 DEF Undisturbed
<1>3. ~Foreign(log_file_fd_)
  BY <1>2, LoggerAssumption DEF FileIsOurs, Foreign
<1> QED BY <1>2, <1>3

(* A step that moves a thread and leaves the descriptors alone.            *)
LEMMA MoveKeeps ==
    ASSUME LoggerInv, NEW t \in Threads, NEW from, NEW to \in LoggerPlaces, Go(t, from, to),
           ~overlap', from \notin {"open", "nameOpen"}, harm' = harm,
           UNCHANGED <<log_file_fd_, table, conn>>
    PROVE  Undisturbed'
<1>1. at \in [Threads -> LoggerPlaces]
  BY DEF LoggerInv, LoggerTypeOK, LoggerPlaces
<1>2. ~overlap /\ Undisturbed
  BY <1>1, GoAlone DEF LoggerInv
<1>3. OneUser'
  BY <1>1, <1>2, GoAlone DEF Undisturbed
<1>4. OthersOwn' /\ ~harm'
  BY <1>2 DEF Undisturbed, OthersOwn
<1>5. (\A u \in Threads : ~Reopens(u)') => FileIsOurs'
  <2> SUFFICES ASSUME \A u \in Threads : ~Reopens(u)' PROVE FileIsOurs'
    OBVIOUS
  <2>1. at[t] = from /\ \A u \in Threads : u # t => at'[u] = at[u]
    BY <1>1, GoMoves
  <2>2. \A u \in Threads : ~Reopens(u)
    BY <2>1 DEF Reopens
  <2> QED BY <1>2, <2>2 DEF Undisturbed, FileIsOurs
<1> QED BY <1>3, <1>4, <1>5 DEF Undisturbed

(* rollOver and setLoggerFileName close the log file, and nothing else.    *)
LEMMA CloseKeeps ==
    ASSUME LoggerInv, NEW t \in Threads, NEW from \in {"close", "nameClose"},
           NEW to \in {"open", "nameOpen"}, CloseFile(t, from, to), ~overlap'
    PROVE  Undisturbed'
<1>1. at \in [Threads -> LoggerPlaces] /\ LoggerTypeOK
  BY DEF LoggerInv, LoggerTypeOK, LoggerPlaces
<1>2. Go(t, from, to) /\ to \in LoggerPlaces
  BY DEF CloseFile, LoggerPlaces
<1>3. ~overlap /\ Undisturbed
  BY <1>1, <1>2, GoAlone DEF LoggerInv
<1>4. OneUser'
  BY <1>1, <1>2, <1>3, GoAlone DEF Undisturbed
<1>5. at[t] = from /\ at'[t] = to
  BY <1>1, <1>2, GoMoves
<1>6. FileIsOurs /\ ~Foreign(log_file_fd_)
  BY <1>1, <1>3, <1>5, FileOfUser DEF UsesFile, Reopens
<1>7. ~harm'
  BY <1>3, <1>6 DEF CloseFile, Undisturbed
<1>8. OthersOwn'
  <2> SUFFICES ASSUME NEW fd \in 1..MaxFd PROVE table'[fd] = "other" <=> fd \in conn'
    BY DEF OthersOwn
  <2>1. conn' = conn /\ table' = Closed(log_file_fd_)
    BY DEF CloseFile
  <2>2. table'[fd] = IF fd = log_file_fd_ THEN "free" ELSE table[fd]
    BY <2>1 DEF Closed
  <2>3. fd = log_file_fd_ => table[fd] # "other"
    BY <1>6 DEF Foreign
  <2>4. table[fd] = "other" <=> fd \in conn
    BY <1>3 DEF Undisturbed, OthersOwn
  <2> QED BY <2>1, <2>2, <2>3, <2>4
<1>9. Reopens(t)'
  BY <1>5 DEF Reopens
<1> QED BY <1>4, <1>7, <1>8, <1>9 DEF Undisturbed

(* What they open is the log file, or nothing.                             *)
LEMMA OpenKeeps ==
    ASSUME LoggerInv, NEW t \in Threads, NEW from, NEW to \in LoggerPlaces, OpenFile(t, from, to),
           ~overlap'
    PROVE  Undisturbed'
<1>1. at \in [Threads -> LoggerPlaces] /\ LoggerTypeOK
  BY DEF LoggerInv, LoggerTypeOK, LoggerPlaces
<1>2. Go(t, from, to)
  BY DEF OpenFile
<1>3. ~overlap /\ Undisturbed
  BY <1>1, <1>2, GoAlone DEF LoggerInv
<1>4. OneUser' /\ ~harm'
  BY <1>1, <1>2, <1>3, GoAlone DEF Undisturbed, OpenFile
<1>5. log_file_fd_' = Lowest /\ table' = Opened("log") /\ conn' = conn
  BY DEF OpenFile, FdOf
<1>6. Lowest \in 0..MaxFd /\ (Lowest # 0 => table[Lowest] = "free")
  BY <1>1, LowestFacts
<1>7. PICK x : x = Lowest
  OBVIOUS
<1>8. table' = [fd \in 1..MaxFd |-> IF fd = x THEN "log" ELSE table[fd]]
  BY <1>5, <1>7 DEF Opened
<1>9. x \in 0..MaxFd /\ (x # 0 => table[x] = "free") /\ log_file_fd_' = x
  BY <1>5, <1>6, <1>7
<1>10. OthersOwn'
  <2> SUFFICES ASSUME NEW fd \in 1..MaxFd PROVE table'[fd] = "other" <=> fd \in conn'
    BY DEF OthersOwn
  <2>1. table'[fd] = IF fd = x THEN "log" ELSE table[fd]
    BY <1>8
  <2>2. fd = x => table[fd] = "free"
    BY <1>9, LoggerAssumption
  <2>3. table[fd] = "other" <=> fd \in conn
    BY <1>3 DEF Undisturbed, OthersOwn
  <2> QED BY <1>5, <2>1, <2>2, <2>3
<1>11. FileIsOurs'
  BY <1>8, <1>9, LoggerAssumption DEF FileIsOurs
<1> QED BY <1>4, <1>10, <1>11 DEF Undisturbed

(* The write goes to the log file, or to no descriptor.                    *)
LEMMA WriteKeeps ==
    ASSUME LoggerInv, NEW t \in Threads, Write(t), ~overlap'
    PROVE  Undisturbed'
<1>1. at \in [Threads -> LoggerPlaces] /\ LoggerTypeOK
  BY DEF LoggerInv, LoggerTypeOK, LoggerPlaces
<1>2. Go(t, "write", "level") /\ "level" \in LoggerPlaces
  BY DEF Write, LoggerPlaces
<1>3. ~overlap /\ Undisturbed /\ at[t] = "write"
  BY <1>1, <1>2, GoAlone, GoMoves DEF LoggerInv
<1>4. ~Foreign(log_file_fd_)
  BY <1>1, <1>3, FileOfUser DEF UsesFile, Reopens
<1>5. ~harm' /\ ~harm
  BY <1>3, <1>4 DEF Write, Undisturbed
<1>6. UNCHANGED <<log_file_fd_, table, conn>> /\ harm' = harm
  <2>1. UNCHANGED <<log_file_fd_, table, conn>>
    BY DEF Write, logVars
  <2>2. harm \in BOOLEAN /\ harm' = (harm \/ Foreign(log_file_fd_))
    BY <1>1 DEF LoggerTypeOK, Write
  <2>3. harm' = harm
    BY <1>4, <2>2
  <2> QED BY <2>1, <2>3
<1> QED BY <1>2, <1>6, MoveKeeps

(* The rest of the program gets descriptors that are free, and closes its  *)
(* own.                                                                    *)
LEMMA OthersKeep ==
    ASSUME LoggerInv, OthersOpen \/ (\E fd \in 1..MaxFd : OthersClose(fd)), ~overlap'
    PROVE  Undisturbed'
<1>1. /\ at' = at /\ harm' = harm /\ log_file_fd_' = log_file_fd_ /\ overlap' = overlap
      /\ LoggerTypeOK /\ Undisturbed
  BY DEF LoggerInv, OthersOpen, OthersClose, logVars
<1>2. ~harm' /\ OneUser' /\ ((\A t \in Threads : ~Reopens(t)') => \A t \in Threads : ~Reopens(t))
  BY <1>1 DEF Undisturbed, OneUser, Reopens
<1>3. CASE OthersOpen
  <2>1. table' = Opened("other") /\ conn' = conn \cup {Lowest} /\ Lowest # 0
    BY <1>3 DEF OthersOpen
  <2>2. PICK x : x = Lowest
    OBVIOUS
  <2>3. x \in 1..MaxFd /\ table[x] = "free"
    BY <1>1, <2>1, <2>2, LowestFacts, LoggerAssumption
  <2>4. table' = [fd \in 1..MaxFd |-> IF fd = x THEN "other" ELSE table[fd]] /\ conn' = conn \cup {x}
    BY <2>1, <2>2 DEF Opened
  <2>5. OthersOwn'
    BY <1>1, <2>3, <2>4 DEF Undisturbed, OthersOwn
  <2>6. FileIsOurs => FileIsOurs'
    BY <1>1, <2>3, <2>4, LoggerAssumption DEF FileIsOurs, LoggerTypeOK
  <2> QED BY <1>1, <1>2, <2>5, <2>6 DEF Undisturbed
<1>4. ASSUME NEW x \in 1..MaxFd, OthersClose(x) PROVE Undisturbed'
  <2>1. x \in conn /\ conn' = conn \ {x}
        /\ table' = [fd \in 1..MaxFd |-> IF fd = x THEN "free" ELSE table[fd]]
    BY <1>4 DEF OthersClose, Closed
  <2>2. table[x] = "other"
    BY <1>1, <2>1 DEF Undisturbed, OthersOwn
  <2>3. OthersOwn'
    BY <1>1, <2>1 DEF Undisturbed, OthersOwn
  <2>4. FileIsOurs => FileIsOurs'
    BY <1>1, <2>1, <2>2, LoggerAssumption DEF FileIsOurs, LoggerTypeOK
  <2> QED BY <1>1, <1>2, <2>3, <2>4 DEF Undisturbed
<1> QED BY <1>3, <1>4

(* As long as no two threads use the log file at the same time, the logger *)
(* writes to and closes no descriptor but its own, whatever the rest of    *)
(* the program opens and closes between its steps and whether or not its   *)
(* own open fails.                                                         *)
THEOREM HarmNeedsOverlap == LoggerSpec => []HarmOnlyByOverlap
<1>1. LoggerInit => (~overlap => Undisturbed)
  <2> SUFFICES ASSUME LoggerInit PROVE Undisturbed
    OBVIOUS
  <2>1. ~harm
    BY DEF LoggerInit
  <2>2. OneUser
    BY DEF LoggerInit, OneUser, UsesFile
  <2>3. OthersOwn
    BY DEF LoggerInit, OthersOwn
  <2>4. FileIsOurs
    BY LoggerAssumption DEF LoggerInit, FileIsOurs
  <2> QED BY <2>1, <2>2, <2>3, <2>4 DEF Undisturbed
<1>2. LoggerInv /\ [LoggerNext]_loggerVars => (~overlap' => Undisturbed')
  <2> SUFFICES ASSUME LoggerInv, [LoggerNext]_loggerVars, ~overlap' PROVE Undisturbed'
    OBVIOUS
  <2> USE DEF logVars, fdVars
  <2>1. ASSUME NEW t \in Threads, NEW l \in Levels, Macro(t, l) PROVE Undisturbed'
    BY <2>1, MoveKeeps DEF Macro, LoggerPlaces
  <2>2. ASSUME NEW t \in Threads, Log(t) PROVE Undisturbed'
    BY <2>2, MoveKeeps DEF Log, LoggerPlaces
  <2>3. ASSUME NEW t \in Threads, TestRollOver(t) PROVE Undisturbed'
    BY <2>3, MoveKeeps DEF TestRollOver, LoggerPlaces
  <2>4. ASSUME NEW t \in Threads, RollOver(t) PROVE Undisturbed'
    <3>1. CASE CloseFile(t, "close", "open")
      BY <3>1, CloseKeeps
    <3>2. CASE OpenFile(t, "open", "stamp")
      BY <3>2, OpenKeeps DEF LoggerPlaces
    <3>3. CASE /\ Go(t, "stamp", "write")
               /\ UNCHANGED <<logLevel_, allowRecord, log_file_fd_, fdVars, level, ended, calls>>
      BY <3>3, MoveKeeps DEF LoggerPlaces
    <3> QED BY <2>4, <3>1, <3>2, <3>3 DEF RollOver
  <2>5. ASSUME NEW t \in Threads, Write(t) PROVE Undisturbed'
    BY <2>5, WriteKeeps
  <2>6. ASSUME NEW t \in Threads, ExitOnFatalLevel(t) PROVE Undisturbed'
    BY <2>6, MoveKeeps DEF ExitOnFatalLevel, LoggerPlaces
  <2>7. ASSUME NEW t \in Threads, MacroEnds(t) PROVE Undisturbed'
    BY <2>7, MoveKeeps DEF MacroEnds, LoggerPlaces
  <2>8. ASSUME NEW t \in Threads, Configure(t) PROVE Undisturbed'
    <3>1. CASE CloseFile(t, "nameClose", "nameOpen")
      BY <3>1, CloseKeeps
    <3>2. CASE OpenFile(t, "nameOpen", "idle")
      BY <3>2, OpenKeeps DEF LoggerPlaces
    <3>3. CASE Go(t, "idle", "nameClose") /\ UNCHANGED <<logVars, fdVars, level, ended>>
      BY <3>3, MoveKeeps DEF LoggerPlaces
    <3>4. CASE /\ Go(t, "idle", "idle")
               /\ UNCHANGED <<logLevel_, log_file_fd_, due, fdVars, level, ended, calls>>
      BY <3>4, MoveKeeps DEF LoggerPlaces
    <3> QED BY <2>8, <3>1, <3>2, <3>3, <3>4 DEF Configure
  <2>9. CASE HourPasses \/ UNCHANGED loggerVars
    <3>1. UNCHANGED <<at, overlap, log_file_fd_, table, conn, harm>>
      BY <2>9 DEF HourPasses, loggerVars
    <3>2. Undisturbed
      BY <3>1 DEF LoggerInv
    <3> QED BY <3>1, <3>2 DEF Undisturbed, OneUser, OthersOwn, FileIsOurs, Reopens
  <2>10. CASE OthersOpen \/ \E fd \in 1..MaxFd : OthersClose(fd)
    BY <2>10, OthersKeep
  <2> QED BY <2>1, <2>2, <2>3, <2>4, <2>5, <2>6, <2>7, <2>8, <2>9, <2>10
          DEF LoggerNext, ThreadStep
<1>3. (~overlap => Undisturbed) => HarmOnlyByOverlap
  BY DEF Undisturbed, HarmOnlyByOverlap
<1>4. LoggerTypeOK /\ (~overlap => Undisturbed) => LoggerInv
  BY DEF LoggerInv
<1> QED BY <1>1, <1>2, <1>3, <1>4, LoggerTypeCorrect, PTL DEF LoggerSpec

(* The level that log reads back is that of some thread's last macro; only *)
(* before the first macro it is the constructor's.                         *)
LevelIsOfSomeMacro ==
    \/ \E u \in Threads : level[u] = logLevel_
    \/ \A u \in Threads : at[u] \in {"idle", "nameClose", "nameOpen"}

(* No thread ends the process unless some thread's last macro is           *)
(* LOG_FATAL, though log reads back a level that any thread may have set   *)
(* in between: the safety half of FatalEndsProcess.                        *)
THEOREM NothingElseEndsProcess == LoggerSpec => []EndsOnlyByFatal
<1> DEFINE Inv == LevelIsOfSomeMacro /\ EndsOnlyByFatal
<1>1. LoggerInit => Inv
  BY DEF LoggerInit, LevelIsOfSomeMacro, EndsOnlyByFatal
<1>2. LoggerTypeOK /\ Inv /\ [LoggerNext]_loggerVars => Inv'
  <2> SUFFICES ASSUME LoggerTypeOK, Inv, [LoggerNext]_loggerVars PROVE Inv'
    OBVIOUS
  <2> USE DEF logVars, fdVars
  <2>1. at \in [Threads -> LoggerPlaces] /\ level \in [Threads -> Levels]
    BY DEF LoggerTypeOK, LoggerPlaces
  <2>2. ASSUME NEW t \in Threads, NEW l \in Levels, Macro(t, l) PROVE Inv'
    <3>1. level'[t] = logLevel_' /\ ~ended' /\ ended' = ended
      BY <2>1, <2>2 DEF Macro, Go
    <3> QED BY <3>1 DEF LevelIsOfSomeMacro, EndsOnlyByFatal
  <2>3. ASSUME NEW t \in Threads, NEW from, NEW to \in LoggerPlaces, Go(t, from, to),
               from \in {"idle", "nameClose", "nameOpen"} =>
                  to \in {"idle", "nameClose", "nameOpen"},
               UNCHANGED <<level, logLevel_>>
        PROVE  LevelIsOfSomeMacro'
    <3>1. at[t] = from /\ at'[t] = to /\ \A u \in Threads : u # t => at'[u] = at[u]
      BY <2>1, <2>3, GoMoves
    <3> QED BY <2>3, <3>1 DEF LevelIsOfSomeMacro
  <2>4. UNCHANGED <<level, ended>> => EndsOnlyByFatal'
    BY DEF EndsOnlyByFatal
  <2>5. ASSUME NEW t \in Threads, Log(t) \/ TestRollOver(t) \/ Write(t) PROVE Inv'
    BY <2>3, <2>4, <2>5 DEF Log, TestRollOver, Write, LoggerPlaces
  <2>6. ASSUME NEW t \in Threads, RollOver(t) PROVE Inv'
    BY <2>3, <2>4, <2>6 DEF RollOver, CloseFile, OpenFile, LoggerPlaces
  <2>7. ASSUME NEW t \in Threads, Configure(t) PROVE Inv'
    BY <2>3, <2>4, <2>7 DEF Configure, CloseFile, OpenFile, LoggerPlaces
  <2>8. ASSUME NEW t \in Threads, ExitOnFatalLevel(t) PROVE Inv'
    <3>1. /\ Go(t, "level", "return") /\ UNCHANGED <<level, logLevel_>>
          /\ ended' = (logLevel_ = "FATAL")
      BY <2>8 DEF ExitOnFatalLevel
    <3>2. LevelIsOfSomeMacro'
      BY <2>3, <3>1 DEF LoggerPlaces
    <3>3. at[t] = "level"
      BY <3>1 DEF Go
    <3>4. PICK u \in Threads : level[u] = logLevel_
      BY <3>3 DEF LevelIsOfSomeMacro
    <3>5. EndsOnlyByFatal'
      BY <3>1, <3>4 DEF EndsOnlyByFatal
    <3> QED BY <3>2, <3>5
  <2>9. ASSUME NEW t \in Threads, MacroEnds(t) PROVE Inv'
    <3>1. /\ Go(t, "return", "idle") /\ UNCHANGED <<level, logLevel_>>
          /\ ended' = (level[t] = "FATAL")
      BY <2>9 DEF MacroEnds
    <3>2. LevelIsOfSomeMacro'
      BY <2>3, <3>1 DEF LoggerPlaces
    <3>3. EndsOnlyByFatal'
      BY <3>1 DEF EndsOnlyByFatal
    <3> QED BY <3>2, <3>3
  <2>10. CASE \/ HourPasses \/ OthersOpen \/ (\E fd \in 1..MaxFd : OthersClose(fd))
              \/ UNCHANGED loggerVars
    <3>1. UNCHANGED <<at, level, logLevel_, ended>>
      BY <2>10 DEF HourPasses, OthersOpen, OthersClose, loggerVars
    <3> QED BY <3>1 DEF LevelIsOfSomeMacro, EndsOnlyByFatal
  <2> QED BY <2>2, <2>5, <2>6, <2>7, <2>8, <2>9, <2>10 DEF LoggerNext, ThreadStep
<1> QED BY <1>1, <1>2, LoggerTypeCorrect, PTL DEF LoggerSpec
=============================================================================
