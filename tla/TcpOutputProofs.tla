--------------------------- MODULE TcpOutputProofs ---------------------------
(***************************************************************************)
(* For any room in the socket, any high water mark and any number and      *)
(* length of sends: the output of a connection is delivered in order       *)
(* without loss, and the flow control callbacks come in pairs.             *)
(***************************************************************************)
EXTENDS TcpOutput, SequenceTheorems, TLAPS

-----------------------------------------------------------------------------
(* Facts about sequences.                                                  *)

(* A sequence cut at n is its two parts joined.                            *)
LEMMA CutAndJoin ==
    ASSUME NEW S, NEW s \in Seq(S), NEW n \in 0..Len(s)
    PROVE  /\ SubSeq(s, 1, n) \in Seq(S) /\ Len(SubSeq(s, 1, n)) = n
           /\ SubSeq(s, n + 1, Len(s)) \in Seq(S)
           /\ Len(SubSeq(s, n + 1, Len(s))) = Len(s) - n
           /\ SubSeq(s, 1, n) \o SubSeq(s, n + 1, Len(s)) = s
<1>1. \A i \in 1..Len(s) : s[i] \in S
  BY ElementOfSeq
<1>2. SubSeq(s, 1, n) \in Seq(S) /\ Len(SubSeq(s, 1, n)) = n
  BY <1>1, SubSeqProperties
<1>3. SubSeq(s, n + 1, Len(s)) \in Seq(S) /\ Len(SubSeq(s, n + 1, Len(s))) = Len(s) - n
  BY <1>1, SubSeqProperties
<1>4. SubSeq(s, 1, n) \o SubSeq(s, n + 1, Len(s)) = SubSeq(s, 1, Len(s))
  <2>1. Len(s) \in Nat /\ 1 \in 1..(Len(s) + 1) /\ n \in (1 - 1)..Len(s) /\ Len(s) \in n..Len(s)
    BY LenProperties
  <2> QED BY <2>1, ConcatAdjacentSubSeq
<1> QED BY <1>2, <1>3, <1>4, SubSeqFull

(* Only the empty sequence has no elements.                                *)
LEMMA EmptyByLength ==
    ASSUME NEW S, NEW s \in Seq(S)
    PROVE  Len(s) \in Nat /\ (s = <<>> <=> Len(s) = 0)
BY EmptySeq, LenProperties

-----------------------------------------------------------------------------
(* Flow control, of a queue q, a user that is throttled or not, with       *)
(* output pending or not, and the backlog at or over the mark or not. Over *)
(* the mark no writeCompleteCallback_ is the last word.                    *)

Has(q, from, f) == \E j \in from..Len(q) : q[j] = f

Flow(q, told, pending, over) ==
    /\ over => /\ told \/ Has(q, 1, HighWater)
               /\ \A i \in 1..Len(q) : q[i] = WriteComplete => Has(q, i + 1, HighWater)
    /\ pending \/ /\ told => Has(q, 1, WriteComplete)
                  /\ \A i \in 1..Len(q) : q[i] = HighWater => Has(q, i + 1, WriteComplete)

Pending == writing /\ outputBuffer_ # <<>>
Over == Len(outputBuffer_) >= highWaterMark_

FlowInv ==
    state_ = "kConnected" =>
        /\ outputBuffer_ # <<>> => writing
        /\ Flow(queue, throttled, Pending, Over)

(* The two callbacks differ from each other and from every send.           *)
LEMMA FunctorFacts ==
    /\ WriteComplete \in Functor /\ HighWater \in Functor
    /\ WriteComplete # HighWater
    /\ WriteComplete.op # "send" /\ HighWater.op # "send"
    /\ \A f \in Functor : f.op = "send" => f # WriteComplete /\ f # HighWater
BY DEF WriteComplete, HighWater, Functor, Sends

(* Running the first functor of the queue leaves the callbacks in order.   *)
LEMMA FlowPop ==
    ASSUME NEW q \in Seq(Functor), q # <<>>, NEW told \in BOOLEAN,
           NEW pending \in BOOLEAN, NEW over \in BOOLEAN,
           Flow(q, told, pending, over)
    PROVE  /\ Head(q).op = "send" => Flow(Tail(q), told, pending, over)
           /\ Head(q).op # "send" => Flow(Tail(q), Head(q) = HighWater, pending, over)
<1>1. /\ Tail(q) \in Seq(Functor) /\ Len(Tail(q)) = Len(q) - 1 /\ Len(q) \in Nat \ {0}
      /\ \A i \in 1..Len(Tail(q)) : Tail(q)[i] = q[i + 1]
      /\ Head(q) = q[1] /\ Head(q) \in Functor
  BY HeadTailProperties, LenProperties
<1>2. ASSUME NEW f, NEW i \in 1..Len(q), Has(q, i + 1, f)
      PROVE  Has(Tail(q), i, f)
  <2>1. PICK j \in (i + 1)..Len(q) : q[j] = f
    BY <1>2 DEF Has
  <2>2. j - 1 \in i..Len(Tail(q)) /\ Tail(q)[j - 1] = f
    BY <1>1, <2>1
  <2> QED BY <2>2 DEF Has
<1>3. ASSUME NEW f, Has(q, 1, f), Head(q) # f
      PROVE  Has(q, 2, f)
  BY <1>1, <1>3 DEF Has
<1>4. ASSUME NEW f, NEW g, \A i \in 1..Len(q) : q[i] = f => Has(q, i + 1, g)
      PROVE  \A i \in 1..Len(Tail(q)) : Tail(q)[i] = f => Has(Tail(q), i + 1, g)
  BY <1>1, <1>2, <1>4
<1>5. ASSUME Head(q).op = "send" PROVE Flow(Tail(q), told, pending, over)
  <2>1. Head(q) # HighWater /\ Head(q) # WriteComplete
    BY <1>1, <1>5, FunctorFacts
  <2> QED BY <1>1, <1>2, <1>3, <1>4, <2>1 DEF Flow
<1>6. ASSUME Head(q).op # "send" PROVE Flow(Tail(q), Head(q) = HighWater, pending, over)
  <2>1. CASE Head(q) = HighWater
    BY <1>1, <1>2, <1>4, <2>1 DEF Flow
  <2>2. CASE Head(q) = WriteComplete
    BY <1>1, <1>2, <1>4, <2>2, FunctorFacts DEF Flow
  <2> QED BY <1>1, <1>6, <2>1, <2>2 DEF Functor, Sends
<1> QED BY <1>5, <1>6

(* So does queueing a send, a write-complete or a high-water-mark          *)
(* callback.                                                               *)
LEMMA FlowPush ==
    ASSUME NEW q \in Seq(Functor), NEW told \in BOOLEAN, NEW f \in Functor,
           NEW pending \in BOOLEAN, NEW over \in BOOLEAN,
           Flow(q, told, pending, over)
    PROVE  /\ f.op = "send" => Flow(Append(q, f), told, pending, over)
           /\ Flow(Append(q, WriteComplete), told, FALSE, FALSE)
           /\ \A o \in BOOLEAN : Flow(Append(q, HighWater), told, TRUE, o)
<1>1. ASSUME NEW g \in Functor
      PROVE  /\ Append(q, g) \in Seq(Functor) /\ Len(Append(q, g)) = Len(q) + 1
             /\ \A i \in 1..Len(q) : Append(q, g)[i] = q[i]
             /\ Append(q, g)[Len(q) + 1] = g
             /\ Len(q) \in Nat
  BY AppendProperties, LenProperties
<1>2. ASSUME NEW g \in Functor, NEW h, NEW i \in Nat \ {0}, Has(q, i, h)
      PROVE  Has(Append(q, g), i, h)
  BY <1>1, <1>2 DEF Has
<1>3. ASSUME NEW g \in Functor, NEW i \in 1..(Len(q) + 1)
      PROVE  Has(Append(q, g), i, g)
  BY <1>1, <1>3 DEF Has
<1>4. ASSUME f.op = "send" PROVE Flow(Append(q, f), told, pending, over)
  <2>1. f # HighWater /\ f # WriteComplete
    BY <1>4, FunctorFacts
  <2> QED BY <1>1, <1>2, <2>1 DEF Flow
<1>5. Flow(Append(q, WriteComplete), told, FALSE, FALSE)
  BY <1>1, <1>3, FunctorFacts DEF Flow
<1>6. \A o \in BOOLEAN : Flow(Append(q, HighWater), told, TRUE, o)
  BY <1>1, <1>3, FunctorFacts DEF Flow
<1> QED BY <1>4, <1>5, <1>6

(* Less backlog and more pending output need fewer callbacks.              *)
LEMMA FlowWeaker ==
    ASSUME NEW q, NEW told, NEW pending, NEW over, NEW p, NEW o,
           Flow(q, told, pending, over), pending => p, o => over
    PROVE  Flow(q, told, p, o)
BY DEF Flow

-----------------------------------------------------------------------------
(* sendInLoop.                                                             *)

(* sendInLoop keeps the types, and passes on every byte it accepts in      *)
(* order.                                                                  *)
LEMMA SendInLoopFacts ==
    ASSUME TypeOK, NEW data \in Seq(Bytes), NEW nwrote, NEW q \in Seq(Functor),
           SendInLoop(data, nwrote, q)
    PROVE  /\ writing' \in BOOLEAN /\ queue' \in Seq(Functor)
           /\ outputBuffer_' \in Seq(Bytes) /\ accepted' \in Seq(Bytes)
           /\ kernel' \in Seq(Bytes) /\ Len(kernel') <= Room
           /\ StreamIntact => StreamIntact'
           /\ (outputBuffer_ # <<>> => writing) /\ Flow(q, throttled, Pending, Over)
                => /\ outputBuffer_' # <<>> => writing'
                   /\ Flow(queue', throttled, Pending', Over')
<1> DEFINE rest == SubSeq(data, nwrote + 1, Len(data))
           part == SubSeq(data, 1, nwrote)
           old == Len(outputBuffer_)
           refused == state_ = "kDisconnected" \/ (Direct /\ WriteFails)
           done == Direct /\ rest = <<>>
           high == rest # <<>> /\ Crosses(old, old + Len(rest))
<1>1. /\ Room \in Nat /\ highWaterMark_ \in Nat \ {0}
      /\ Len(data) \in Nat /\ Len(kernel) \in Nat /\ Len(kernel) <= Room /\ old \in Nat
  BY OutputAssumption, LenProperties DEF TypeOK
<1>2. /\ nwrote \in 0..Len(data) /\ Len(kernel) + nwrote <= Room
      /\ ~Direct => nwrote = 0
  BY <1>1 DEF SendInLoop, SpaceFor
<1>3. /\ part \in Seq(Bytes) /\ Len(part) = nwrote
      /\ rest \in Seq(Bytes) /\ part \o rest = data
  BY <1>2, CutAndJoin
<1>4. \/ refused /\ UNCHANGED <<writing, outputBuffer_, kernel, accepted>> /\ queue' = q
      \/ /\ kernel' = kernel \o part
         /\ queue' = q \o (IF done THEN <<WriteComplete>> ELSE <<>>)
                      \o (IF high THEN <<HighWater>> ELSE <<>>)
         /\ outputBuffer_' = outputBuffer_ \o rest
         /\ writing' = (writing \/ rest # <<>>)
         /\ accepted' = accepted \o data
  BY DEF SendInLoop, Enabled
<1>r. UNCHANGED received
  BY DEF SendInLoop
<1>o. /\ received \in Seq(Bytes) /\ kernel \in Seq(Bytes)
      /\ outputBuffer_ \in Seq(Bytes) /\ accepted \in Seq(Bytes)
  BY DEF TypeOK
<1> HIDE DEF rest, part
<1>b. /\ Len(rest) \in Nat /\ (rest = <<>> <=> Len(rest) = 0)
      /\ (outputBuffer_ = <<>> <=> old = 0)
      /\ (part = <<>> <=> nwrote = 0)
  BY <1>3, <1>o, EmptyByLength
<1>d. /\ done => rest = <<>> /\ outputBuffer_ = <<>>
      /\ high => rest # <<>>
      /\ ~high /\ old + Len(rest) >= highWaterMark_ => rest = <<>> \/ old >= highWaterMark_
  BY <1>1, <1>b DEF Direct, Crosses
<1> HIDE DEF done, high
<1>5. CASE refused /\ UNCHANGED <<writing, outputBuffer_, kernel, accepted>> /\ queue' = q
  BY <1>5, <1>r DEF TypeOK, StreamIntact, Pending, Over
<1>6. ASSUME kernel' = kernel \o part,
             queue' = q \o (IF done THEN <<WriteComplete>> ELSE <<>>)
                        \o (IF high THEN <<HighWater>> ELSE <<>>),
             outputBuffer_' = outputBuffer_ \o rest,
             writing' = (writing \/ rest # <<>>),
             accepted' = accepted \o data
      PROVE  /\ writing' \in BOOLEAN /\ queue' \in Seq(Functor)
             /\ outputBuffer_' \in Seq(Bytes) /\ accepted' \in Seq(Bytes)
             /\ kernel' \in Seq(Bytes) /\ Len(kernel') <= Room
             /\ StreamIntact => StreamIntact'
             /\ (outputBuffer_ # <<>> => writing) /\ Flow(q, throttled, Pending, Over)
                  => /\ outputBuffer_' # <<>> => writing'
                     /\ Flow(queue', throttled, Pending', Over')
  <2>0. Direct => outputBuffer_ = <<>>
    BY DEF Direct
  <2>1. queue' = IF done THEN Append(q, WriteComplete)
                 ELSE IF high THEN Append(q, HighWater) ELSE q
    <3>1. /\ q \o <<WriteComplete>> = Append(q, WriteComplete)
          /\ q \o <<HighWater>> = Append(q, HighWater)
          /\ q \o <<>> = q
          /\ Append(q, WriteComplete) \o <<>> = Append(q, WriteComplete)
      BY FunctorFacts, AppendIsConcat, AppendProperties, ConcatEmptySeq
    <3>2. ~(done /\ high)
      BY <1>d
    <3> QED BY <1>6, <3>1, <3>2
  <2>2. queue' \in Seq(Functor) /\ writing' \in BOOLEAN
    BY <1>6, <2>1, FunctorFacts, AppendProperties DEF TypeOK
  <2>3. /\ outputBuffer_' \in Seq(Bytes) /\ Len(outputBuffer_') = old + Len(rest)
        /\ accepted' \in Seq(Bytes)
        /\ kernel' \in Seq(Bytes) /\ Len(kernel') = Len(kernel) + nwrote
    BY <1>3, <1>6, ConcatProperties DEF TypeOK
  <2>4. ASSUME StreamIntact PROVE StreamIntact'
    <3>0. received \o kernel \in Seq(Bytes)
      BY <1>o, ConcatProperties
    <3>1. CASE Direct
      <4>1. outputBuffer_' = rest
        BY <1>3, <1>6, <2>0, <3>1, ConcatEmptySeq
      <4>2. accepted = received \o kernel
        BY <2>0, <2>4, <3>0, <3>1, ConcatEmptySeq DEF StreamIntact
      <4>3. received \o (kernel \o part) \o rest = received \o kernel \o data
        <5>1. received \o (kernel \o part) \o rest = received \o kernel \o (part \o rest)
          BY SMTT(30)
        <5> QED BY <1>3, <5>1
      <4> QED BY <1>6, <1>r, <4>1, <4>2, <4>3 DEF StreamIntact
    <3>2. CASE ~Direct
      <4>1. part = <<>>
        BY <1>2, <1>b, <3>2
      <4>2. rest = data /\ kernel' = kernel
        BY <1>3, <1>6, <1>o, <4>1, ConcatEmptySeq
      <4>3. received \o kernel \o (outputBuffer_ \o data) = received \o kernel \o outputBuffer_ \o data
        OBVIOUS
      <4> QED BY <1>6, <1>r, <2>4, <4>2, <4>3 DEF StreamIntact
    <3> QED BY <3>1, <3>2
  <2>5. ASSUME outputBuffer_ # <<>> => writing, Flow(q, throttled, Pending, Over)
        PROVE  /\ outputBuffer_' # <<>> => writing'
               /\ Flow(queue', throttled, Pending', Over')
    <3>1. outputBuffer_' # <<>> => writing'
      BY <1>3, <1>6, <2>5, ConcatEmptySeq DEF TypeOK
    <3>2. Pending \in BOOLEAN /\ Over \in BOOLEAN /\ throttled \in BOOLEAN
      BY DEF Pending, Over, TypeOK
    <3>3. CASE done
      <4>1. outputBuffer_' = <<>> /\ ~Pending' /\ ~Over'
        <5>1. outputBuffer_' = <<>> /\ Len(outputBuffer_') = 0
          BY <1>6, <1>b, <1>d, <2>3, <3>3, EmptySeq
        <5> QED BY <1>1, <5>1 DEF Pending, Over
      <4>2. Flow(queue', throttled, FALSE, FALSE)
        BY <2>1, <2>5, <3>2, <3>3, FunctorFacts, FlowPush
      <4> QED BY <3>1, <4>1, <4>2, FlowWeaker
    <3>4. CASE ~done /\ high
      <4>1. outputBuffer_' # <<>> /\ Pending' /\ Over' \in BOOLEAN
        <5>1. rest # <<>> /\ Len(outputBuffer_') > 0
          BY <1>1, <1>b, <1>d, <2>3, <3>4
        <5>2. outputBuffer_' # <<>>
          BY <5>1, EmptySeq
        <5>3. writing'
          BY <1>6, <5>1
        <5> QED BY <5>2, <5>3 DEF Pending, Over
      <4>2. Flow(queue', throttled, TRUE, Over')
        BY <2>1, <2>5, <3>2, <3>4, <4>1, FunctorFacts, FlowPush
      <4> QED BY <3>1, <4>1, <4>2, FlowWeaker
    <3>5. CASE ~done /\ ~high
      <4>1. Pending => Pending'
        <5>1. old > 0 => Len(outputBuffer_') > 0
          BY <1>1, <1>b, <2>3
        <5>2. outputBuffer_ # <<>> => outputBuffer_' # <<>>
          BY <1>1, <1>b, <5>1, EmptySeq
        <5> QED BY <1>6, <5>2 DEF Pending
      <4>2. Over' => Over
        BY <1>1, <1>b, <1>d, <2>3, <3>5 DEF Over
      <4>3. queue' = q
        BY <2>1, <3>5
      <4> QED BY <2>5, <3>1, <4>1, <4>2, <4>3, FlowWeaker
    <3> QED BY <3>3, <3>4, <3>5
  <2> QED BY <1>1, <1>2, <2>2, <2>3, <2>4, <2>5
<1> QED BY <1>4, <1>5, <1>6

-----------------------------------------------------------------------------
(* The bytes that are sent.                                                *)

(* What a user sends is a sequence of bytes.                               *)
LEMMA DataIsBytes ==
    ASSUME NEW n \in 0..MaxSends, NEW len \in 0..MaxLen
    PROVE  Data(n, len) \in Seq(Bytes) /\ Send(Data(n, len)) \in Sends
<1>1. MaxSends \in Nat /\ MaxLen \in Nat
  BY OutputAssumption
<1>2. \A i \in 1..len : <<n, i>> \in Bytes
  BY <1>1 DEF Bytes
<1>3. Data(n, len) \in [1..len -> Bytes]
  BY <1>2 DEF Data
<1>4. Data(n, len) \in Seq(Bytes)
  BY <1>1, <1>3, SeqDef
<1> QED BY <1>4 DEF Send, Sends

(* What sendInLoop reads at a stale c_str() is one too.                    *)
LEMMA ReadIsBytes ==
    ASSUME NEW data \in Seq(Bytes), NEW d \in ReadAtCStr(data)
    PROVE  d \in Seq(Bytes)
<1>1. Garbage \in Bytes
  BY OutputAssumption DEF Garbage, Bytes
<1>2. Len(data) \in Nat /\ DOMAIN data = 1..Len(data)
  BY LenProperties
<1>3. [j \in DOMAIN data |-> Garbage] \in [1..Len(data) -> Bytes]
  BY <1>1, <1>2
<1>4. [j \in DOMAIN data |-> Garbage] \in Seq(Bytes)
  BY <1>2, <1>3, SeqDef
<1> QED BY <1>4 DEF ReadAtCStr

-----------------------------------------------------------------------------
Inv == TypeOK /\ StreamIntact /\ FlowInv

(* Before the first send everything is empty.                              *)
LEMMA InvInit == Init => Inv
<1> SUFFICES ASSUME Init PROVE Inv
  OBVIOUS
<1>1. <<>> \in Seq(Bytes) /\ <<>> \in Seq(Functor) /\ Len(<<>>) = 0
  BY EmptySeq
<1>2. TypeOK
  <2>1. Len(kernel) <= Room /\ sends \in 0..MaxSends
    BY <1>1, OutputAssumption DEF Init
  <2> QED BY <1>1, <2>1 DEF Init, TypeOK
<1>3. StreamIntact
  BY <1>1, ConcatEmptySeq DEF Init, StreamIntact
<1>4. FlowInv
  BY <1>1, OutputAssumption DEF Init, FlowInv, Flow, Pending, Over, Has
<1> QED BY <1>2, <1>3, <1>4 DEF Inv

(* A step that leaves the connection and the net alone.                    *)
LEMMA QueueStep ==
    ASSUME Inv, TypeOK', UNCHANGED <<connVars, kernel, received, accepted>>,
           Flow(queue, throttled, Pending, Over) => Flow(queue', throttled', Pending, Over)
    PROVE  Inv'
<1>1. StreamIntact'
  BY DEF Inv, StreamIntact, connVars
<1>2. FlowInv'
  BY DEF Inv, FlowInv, Pending, Over, connVars
<1> QED BY <1>1, <1>2 DEF Inv

(* send in the loop keeps the invariant.                                   *)
LEMMA InLoopSendInv ==
    ASSUME Inv, NEW len \in 0..MaxLen, NEW nwrote \in 0..MaxLen, InLoopSend(len, nwrote)
    PROVE  Inv'
<1>1. /\ sends' \in 0..MaxSends
      /\ SendInLoop(Data(sends', len), nwrote, queue)
      /\ UNCHANGED <<state_, wrClosed, peer, received, calls, throttled>>
  <2>1. sends' = sends + 1 /\ sends < MaxSends /\ sends \in 0..MaxSends /\ MaxSends \in Nat
    BY OutputAssumption DEF InLoopSend, Inv, TypeOK
  <2>2. UNCHANGED <<state_, wrClosed, peer, received, calls, throttled>>
    BY DEF InLoopSend, SendInLoop
  <2> QED BY <2>1, <2>2 DEF InLoopSend
<1>2. Data(sends', len) \in Seq(Bytes)
  BY <1>1, DataIsBytes
<1>3. TypeOK /\ queue \in Seq(Functor)
  BY DEF Inv, TypeOK
<1> DEFINE data == Data(sends', len)
<1> HIDE DEF data
<1>4. SendInLoop(data, nwrote, queue) /\ data \in Seq(Bytes)
  BY <1>1, <1>2 DEF data
<1>5. TypeOK'
  BY <1>1, <1>3, <1>4, SendInLoopFacts DEF TypeOK
<1>6. StreamIntact'
  BY <1>3, <1>4, SendInLoopFacts DEF Inv
<1>7. FlowInv'
  BY <1>1, <1>3, <1>4, SendInLoopFacts DEF Inv, FlowInv
<1> QED BY <1>5, <1>6, <1>7 DEF Inv

(* The queued sendInLoop of another thread keeps the invariant.            *)
LEMMA RunSendInv ==
    ASSUME Inv, NEW nwrote \in 0..MaxLen, RunSend(nwrote)
    PROVE  Inv'
<1>1. PICK data \in ReadAtCStr(Head(queue).data) : SendInLoop(data, nwrote, Tail(queue))
  BY DEF RunSend
<1>2. /\ queue # <<>> /\ queue \in Seq(Functor) /\ Head(queue).op = "send"
      /\ UNCHANGED <<state_, wrClosed, peer, received, calls, throttled, sends>>
      /\ TypeOK
  BY <1>1 DEF RunSend, SendInLoop, Inv, TypeOK
<1>3. Head(queue) \in Functor /\ Tail(queue) \in Seq(Functor)
  BY <1>2, HeadTailProperties
<1>4. Head(queue).data \in Seq(Bytes)
  BY <1>2, <1>3, FunctorFacts DEF Functor, Sends
<1>5. data \in Seq(Bytes)
  BY <1>4, ReadIsBytes
<1>6. TypeOK'
  BY <1>1, <1>2, <1>3, <1>5, SendInLoopFacts DEF TypeOK
<1>7. StreamIntact'
  BY <1>1, <1>2, <1>3, <1>5, SendInLoopFacts DEF Inv
<1>8. ASSUME state_ = "kConnected" PROVE FlowInv'
  <2>1. Flow(Tail(queue), throttled, Pending, Over)
    <3>1. Flow(queue, throttled, Pending, Over)
      BY <1>8 DEF Inv, FlowInv
    <3>2. Pending \in BOOLEAN /\ Over \in BOOLEAN /\ throttled \in BOOLEAN
      BY <1>2 DEF Pending, Over, TypeOK
    <3> QED BY <1>2, <3>1, <3>2, FlowPop
  <2>2. outputBuffer_ # <<>> => writing
    BY <1>8 DEF Inv, FlowInv
  <2> QED BY <1>1, <1>2, <1>3, <1>5, <2>1, <2>2, SendInLoopFacts DEF FlowInv
<1> QED BY <1>2, <1>6, <1>7, <1>8 DEF Inv, FlowInv

(* handleWrite keeps the invariant.                                        *)
LEMMA HandleWriteInv ==
    ASSUME Inv, NEW n \in 1..Room, HandleWrite(n)
    PROVE  Inv'
<1> DEFINE part == SubSeq(outputBuffer_, 1, n)
           rest == SubSeq(outputBuffer_, n + 1, Len(outputBuffer_))
<1>1. /\ kernel' = kernel \o part /\ outputBuffer_' = rest /\ writing
      /\ n \in 1..SpaceFor(outputBuffer_)
      /\ UNCHANGED <<state_, peer, received, calls, throttled, sends, accepted>>
  BY DEF HandleWrite
<1>2. /\ \/ rest = <<>> /\ writing' = FALSE /\ queue' = Append(queue, WriteComplete)
         \/ rest # <<>> /\ UNCHANGED <<writing, queue>>
      /\ wrClosed' \in BOOLEAN
  BY DEF HandleWrite, CompleteQueued, ShutdownInLoop, Inv, TypeOK
<1>3. /\ received \in Seq(Bytes) /\ kernel \in Seq(Bytes) /\ outputBuffer_ \in Seq(Bytes)
      /\ queue \in Seq(Functor) /\ Room \in Nat /\ highWaterMark_ \in Nat \ {0}
      /\ Len(kernel) \in Nat /\ Len(outputBuffer_) \in Nat /\ throttled \in BOOLEAN
  BY OutputAssumption, LenProperties DEF Inv, TypeOK
<1>4. n \in 0..Len(outputBuffer_) /\ Len(kernel) + n <= Room /\ n > 0
  BY <1>1, <1>3 DEF SpaceFor
<1>5. /\ part \in Seq(Bytes) /\ Len(part) = n
      /\ rest \in Seq(Bytes) /\ Len(rest) = Len(outputBuffer_) - n
      /\ part \o rest = outputBuffer_
  BY <1>3, <1>4, CutAndJoin
<1> HIDE DEF part, rest
<1>6. kernel' \in Seq(Bytes) /\ Len(kernel') <= Room
  BY <1>1, <1>3, <1>4, <1>5, ConcatProperties
<1>7. queue' \in Seq(Functor)
  <2>1. Append(queue, WriteComplete) \in Seq(Functor)
    BY <1>3, FunctorFacts, AppendProperties
  <2> QED BY <1>2, <1>3, <2>1
<1>8. TypeOK'
  BY <1>1, <1>2, <1>5, <1>6, <1>7 DEF Inv, TypeOK
<1>9. StreamIntact'
  <2>1. received \o (kernel \o part) \o rest = received \o kernel \o (part \o rest)
    OBVIOUS
  <2> QED BY <1>1, <1>5, <2>1 DEF Inv, StreamIntact
<1>10. ASSUME state_ = "kConnected" PROVE FlowInv'
  <2>1. Flow(queue, throttled, Pending, Over) /\ Pending \in BOOLEAN /\ Over \in BOOLEAN
    BY <1>10 DEF Inv, FlowInv, TypeOK, Pending, Over
  <2>2. CASE rest = <<>>
    <3>1. Flow(queue', throttled, FALSE, FALSE)
      BY <1>2, <1>3, <2>1, <2>2, FlowPush, FunctorFacts
    <3>2. outputBuffer_' = <<>> /\ ~Pending' /\ ~Over'
      BY <1>1, <1>3, <2>2, EmptyByLength DEF Pending, Over
    <3>3. Flow(queue', throttled', Pending', Over')
      BY <1>1, <3>1, <3>2, FlowWeaker
    <3> QED BY <3>2, <3>3 DEF FlowInv
  <2>3. CASE rest # <<>>
    <3>1. Pending' /\ (Over' => Over) /\ writing'
      <4>1. writing' /\ outputBuffer_' # <<>>
        BY <1>1, <1>2, <2>3
      <4>2. Len(outputBuffer_') = Len(outputBuffer_) - n
        BY <1>1, <1>5
      <4>3. Over' => Over
        BY <1>3, <1>4, <4>2 DEF Over
      <4> QED BY <4>1, <4>3 DEF Pending
    <3>2. queue' = queue /\ throttled' = throttled
      BY <1>1, <1>2, <2>3
    <3>3. Flow(queue, throttled, Pending', Over')
      BY <2>1, <3>1, FlowWeaker
    <3>4. Flow(queue', throttled', Pending', Over')
      BY <3>2, <3>3
    <3> QED BY <3>1, <3>4 DEF FlowInv
  <2> QED BY <2>2, <2>3
<1> QED BY <1>1, <1>8, <1>9, <1>10 DEF Inv, FlowInv

(* A peer that reads moves bytes from the kernel and keeps the invariant.  *)
LEMMA PeerReadsInv ==
    ASSUME Inv, NEW n \in 1..Room, PeerReads(n)
    PROVE  Inv'
<1> DEFINE part == SubSeq(kernel, 1, n)
           rest == SubSeq(kernel, n + 1, Len(kernel))
<1>1. /\ received' = received \o part /\ kernel' = rest
      /\ n \in 1..Len(kernel)
      /\ UNCHANGED <<connVars, wrClosed, peer, queue, calls, throttled, sends, accepted>>
  BY DEF PeerReads
<1>2. /\ received \in Seq(Bytes) /\ kernel \in Seq(Bytes) /\ outputBuffer_ \in Seq(Bytes)
      /\ Len(kernel) \in Nat /\ Len(kernel) <= Room /\ Room \in Nat
  BY OutputAssumption, LenProperties DEF Inv, TypeOK
<1>3. /\ part \in Seq(Bytes)
      /\ rest \in Seq(Bytes) /\ Len(rest) = Len(kernel) - n
      /\ part \o rest = kernel
  BY <1>1, <1>2, CutAndJoin, SMTT(30)
<1> HIDE DEF part, rest
<1>4. received' \in Seq(Bytes)
  BY <1>1, <1>2, <1>3, ConcatProperties
<1>5. TypeOK'
  BY <1>1, <1>2, <1>3, <1>4 DEF Inv, TypeOK, connVars
<1>6. StreamIntact'
  <2>1. (received \o part) \o rest = received \o (part \o rest)
    OBVIOUS
  <2> QED BY <1>1, <1>3, <2>1 DEF Inv, StreamIntact, connVars
<1>7. FlowInv'
  BY <1>1 DEF Inv, FlowInv, Pending, Over, connVars
<1> QED BY <1>5, <1>6, <1>7 DEF Inv

(* Every step keeps the invariant.                                         *)
LEMMA InvStep == Inv /\ [Next]_vars => Inv'
<1> SUFFICES ASSUME Inv, [Next]_vars PROVE Inv'
  OBVIOUS
<1>t. /\ throttled \in BOOLEAN /\ Pending \in BOOLEAN /\ Over \in BOOLEAN
      /\ queue \in Seq(Functor) /\ TypeOK
  BY DEF Inv, TypeOK, Pending, Over
<1>1. CASE RunCallback
  <2>1. /\ queue # <<>> /\ Head(queue).op # "send"
        /\ throttled' = (Head(queue) = HighWater) /\ queue' = Tail(queue)
        /\ UNCHANGED <<connVars, netVars, calls, sends, accepted>>
    BY <1>1 DEF RunCallback
  <2>2. TypeOK'
    BY <1>t, <2>1, HeadTailProperties DEF TypeOK, connVars, netVars
  <2>3. ASSUME Flow(queue, throttled, Pending, Over)
        PROVE  Flow(queue', throttled', Pending, Over)
    <3>1. Flow(Tail(queue), Head(queue) = HighWater, Pending, Over)
      BY <1>t, <2>1, <2>3, FlowPop
    <3> QED BY <2>1, <3>1
  <2> QED BY <2>1, <2>2, <2>3, QueueStep DEF netVars
<1>2. CASE HandleClose
  <2>1. TypeOK' /\ state_' # "kConnected"
    BY <1>2 DEF HandleClose, netVars, Inv, TypeOK
  <2>2. StreamIntact'
    BY <1>2 DEF HandleClose, netVars, Inv, StreamIntact
  <2> QED BY <2>1, <2>2 DEF Inv, FlowInv
<1>3. CASE Shutdown
  <2>1. TypeOK'
    BY <1>3 DEF Shutdown, ShutdownInLoop, Inv, TypeOK
  <2>2. StreamIntact'
    BY <1>3 DEF Shutdown, Inv, StreamIntact
  <2>3. FlowInv'
    BY <1>3 DEF Shutdown, Inv, FlowInv, Pending, Over
  <2> QED BY <2>1, <2>2, <2>3 DEF Inv
<1>4. ASSUME NEW n \in 0..MaxLen, RunSend(n) PROVE Inv'
  BY <1>4, RunSendInv
<1>5. ASSUME NEW n \in 1..Room, HandleWrite(n) PROVE Inv'
  BY <1>5, HandleWriteInv
<1>6. ASSUME NEW len \in 0..MaxLen, NEW n \in 0..MaxLen, InLoopSend(len, n) PROVE Inv'
  BY <1>6, InLoopSendInv
<1>7. ASSUME NEW len \in 1..MaxLen, OtherSend(len) PROVE Inv'
  <2>1. sends' \in 0..MaxSends /\ len \in 0..MaxLen
    BY <1>7, OutputAssumption DEF OtherSend, Inv, TypeOK
  <2>2. Send(Data(sends', len)) \in Sends
    BY <2>1, DataIsBytes
  <2>3. TypeOK'
    BY <1>7, <2>1, <2>2 DEF OtherSend, connVars, netVars, Inv, TypeOK
  <2> QED BY <1>7, <2>3, QueueStep DEF OtherSend, netVars
<1>8. ASSUME NEW f \in calls, OtherPush(f) PROVE Inv'
  <2>1. /\ f \in Functor /\ f.op = "send" /\ queue' = Append(queue, f)
        /\ UNCHANGED <<connVars, netVars, throttled, sends, accepted>>
    BY <1>8 DEF OtherPush, Inv, TypeOK, Functor, Sends
  <2>2. TypeOK'
    BY <1>8, <2>1, AppendProperties DEF OtherPush, connVars, netVars, Inv, TypeOK
  <2>3. Flow(queue, throttled, Pending, Over) => Flow(queue', throttled', Pending, Over)
    BY <1>t, <2>1, FlowPush
  <2> QED BY <2>1, <2>2, <2>3, QueueStep DEF netVars
<1>9. ASSUME NEW n \in 1..Room, PeerReads(n) PROVE Inv'
  BY <1>9, PeerReadsInv
<1>10. ASSUME NEW how \in {"closed", "reset"}, PeerLeaves(how) PROVE Inv'
  <2>1. TypeOK'
    BY <1>10 DEF PeerLeaves, connVars, Inv, TypeOK
  <2> QED BY <1>10, <2>1, QueueStep DEF PeerLeaves
<1>11. CASE UNCHANGED vars
  <2>1. TypeOK'
    BY <1>11 DEF vars, connVars, netVars, Inv, TypeOK
  <2> QED BY <1>11, <2>1, QueueStep DEF vars, netVars
<1> QED BY <1>1, <1>2, <1>3, <1>4, <1>5, <1>6, <1>7, <1>8, <1>9, <1>10, <1>11
        DEF Next, LoopStep

(* The invariant holds in every state.                                     *)
LEMMA InvHolds == Spec => []Inv
BY InvInit, InvStep, PTL DEF Spec

(* What a connection has accepted is what its peer has read, followed by   *)
(* what the socket and outputBuffer_ still hold, in order: sendInLoop's    *)
(* direct write never overtakes pending output, and handleWrite retrieves  *)
(* exactly what it has written.                                            *)
THEOREM OutputInOrder == Spec => []StreamIntact
<1>1. Inv => StreamIntact
  BY DEF Inv
<1> QED BY <1>1, InvHolds, PTL

(* A backlog at the mark has been told to the user, and behind every       *)
(* highWaterMarkCallback_ comes a writeCompleteCallback_.                  *)
THEOREM CallbacksControlFlow == Spec => []FlowControl
<1>1. Inv => FlowControl
  <2> SUFFICES ASSUME Inv PROVE FlowControl
    OBVIOUS
  <2>1. MarkIsTold
    BY DEF Inv, FlowInv, Flow, Has, Over, MarkIsTold
  <2>2. ThrottledIsReleased
    BY DEF Inv, FlowInv, Flow, Has, Pending, ThrottledIsReleased, CompleteComes
  <2> QED BY <2>1, <2>2 DEF FlowControl
<1> QED BY <1>1, InvHolds, PTL
=============================================================================
