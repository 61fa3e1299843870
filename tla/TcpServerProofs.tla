--------------------------- MODULE TcpServerProofs ---------------------------
(***************************************************************************)
(* For any connections, any number of I/O loops and any program that is    *)
(* Orderly: from newConnection to the last TcpConnectionPtr every          *)
(* connection has one owner that will take its channel out of the poller,  *)
(* exactly once and not while the channel is in activeChannels_. (Run      *)
(* tcp_assert is about the programs that are not.)                         *)
(***************************************************************************)
EXTENDS TcpServer, SequenceTheorems, TLAPS

-----------------------------------------------------------------------------
(* Functors in a queue.                                                    *)
In(q, f) == \E i \in 1..Len(q) : q[i] = f
Once(q, f) == \A i, j \in 1..Len(q) : q[i] = f /\ q[j] = f => i = j
Before(q, f, g) == \A i, j \in 1..Len(q) : q[i] = f /\ q[j] = g => i < j
Within(q, f, n) == \A i \in 1..Len(q) : q[i] = f => i <= n

(* The queue of a loop: connectEstablished before connectDestroyed, and    *)
(* every one of the three functors of a connection's life at most once.    *)
Ordered(q) ==
    \A c \in Conns :
        /\ \A op \in {"established", "destroyed", "remove"} : Once(q, F(op, c))
        /\ Before(q, F("established", c), F("destroyed", c))

QueuedIn(q, f) == \E l \in DOMAIN q : In(q[l], f)

Establishing(c) == QueuedIn(queue, F("established", c))
Destroying(c) == QueuedIn(queue, F("destroyed", c))
Removing(c) == QueuedIn(queue, F("remove", c))

-----------------------------------------------------------------------------
(* The stages of a connection, by what the user was told.                  *)
Unregistered(ch) == ch.index = "kNew" /\ ~ch.added /\ ~ch.listed /\ ~ch.polled /\ ch.events = {}
Listening(ch) == ch.index = "kAdded" /\ ch.polled /\ "R" \in ch.events
Quiet(ch) == ch.index = "kDeleted" /\ ~ch.polled /\ ch.events = {}

Stage(k) ==
    \/ k.told = 0 /\ k.state_ \in {"unborn", "kConnecting"} /\ Unregistered(k.ch)
    \/ k.told = 1 /\ k.state_ = "kConnected" /\ Listening(k.ch)
    \/ k.told = 2 /\ k.state_ \in {"kDisconnected", "kDisconnecting"}
                  /\ (Quiet(k.ch) \/ Unregistered(k.ch))

Stages ==
    \A c \in Conns : /\ Stage(conn[c])
                     /\ conn[c].state_ = "kDisconnecting" => program.lateShutdown

Told(c) == conn[c].told
Home(c) == conn[c].loop
Connecting(c) == conn[c].state_ = "kConnecting"
Removed(c) == Told(c) = 2 /\ conn[c].ch.index = "kNew"
BaseStopped == running[Base] = "stopped"

(* Where the functors are: the ones of a connection in its own loop, but   *)
(* removeConnectionInLoop in the base loop, and none of a connection that  *)
(* does not exist.                                                         *)
Placed(l, f) ==
    /\ Created(f.conn)
    /\ f.op = "remove" => l = Base /\ Home(f.conn) # Base /\ Told(f.conn) = 2
    /\ f.op # "remove" => Home(f.conn) = l
    /\ f.op \in Raw => program.userThread
    /\ f.op \in Raw \cup {"writeComplete"} => Told(f.conn) # 0

QueueOK(q) ==
    \A l \in Loops : Ordered(q[l]) /\ \A f \in Functor : In(q[l], f) => Placed(l, f)

(* A connectDestroyed of the base loop is run in the round it is queued in. *)
InRound(q, n) == \A c \in Conns : Within(q[Base], F("destroyed", c), n)

Queues == QueueOK(queue) /\ (phase[Base] = "pending" => InRound(queue, left[Base]))

(* Who will remove the channel: the server's map, a queued                 *)
(* connectDestroyed, or the one that is in the user's callback.            *)
InDestroy(c) == \E l \in Loops : current[l] = c /\ callback[l] = "destroy"

Owned(c) ==
    /\ c \in connections_ => Created(c) /\ ~Removed(c)
    /\ Destroying(c) => /\ c \notin connections_ /\ ~Removed(c) /\ ~InDestroy(c) /\ ~LoopGone(c)
                        /\ Told(c) # 2 => BaseStopped
    /\ InDestroy(c) => c \notin connections_ /\ ~Removed(c) /\ Told(c) = 2
    /\ Created(c) /\ ~LoopGone(c) /\ ~Removed(c)
         => c \in connections_ \/ Destroying(c) \/ InDestroy(c)
    /\ Connecting(c) /\ ~LoopGone(c) => Establishing(c)
    /\ Establishing(c) => Told(c) = 0
    /\ Connecting(c) => Home(c) # Base

(* A connection is closed once, and the base loop, as long as it runs, has *)
(* it in the map until removeConnectionInLoop.                             *)
InClose(c) == \E l \in Loops : current[l] = c /\ callback[l] = "close"

ClosedOnce(c) ==
    /\ InClose(c) => Told(c) = 2 /\ ~Removing(c)
    /\ InClose(c) \/ Removing(c) => BaseStopped \/ c \in connections_

Owners == \A c \in Conns : Owned(c) /\ ClosedOnce(c)

(* The loops' rounds.                                                      *)
LoopOK(l) ==
    /\ current[l] \in Conns => Home(current[l]) = l /\ Told(current[l]) # 0
    /\ callback[l] # "none" => current[l] \in Conns
    /\ callback[l] = "close" => phase[l] = "events"
    /\ callback[l] = "destroy" => phase[l] = "pending"
    /\ running[l] = "stopped" =>
           phase[l] = "pending" /\ left[l] = 0 /\ callback[l] \in {"none", "destroy"}

EventsOK(c) ==
    /\ c \in active => phase[Home(c)] = "events" /\ Told(c) # 0 /\ ~Removed(c)
    /\ c \notin active => conn[c].revents = {}
    /\ Told(c) # 1 => "IN" \notin conn[c].revents /\ "HUP" \notin conn[c].revents

Rounds == (\A l \in Loops : LoopOK(l)) /\ (\A c \in Conns : EventsOK(c))

(* Tear-down in the order of main().                                       *)
Teardown ==
    /\ serverAlive => \A l \in Loops \ {Base} : running[l] = "run"
    /\ ~serverAlive => connections_ = {} /\ running[Base] = "stopped"

(* The user thread's pointers and calls.                                   *)
Pointers ==
    /\ \A c \in held : program.userThread /\ Told(c) # 0
    /\ ucall # None => ucall.op \in Raw /\ program.userThread /\ Told(ucall.conn) # 0

Inv ==
    /\ TypeOK /\ Stages /\ Queues /\ Owners /\ Rounds /\ Teardown /\ Pointers

-----------------------------------------------------------------------------
(* Sequences.                                                              *)

(* What queueInLoop does to the places of the functors in a queue.         *)
LEMMA Pushed ==
    ASSUME NEW q \in Seq(Functor), NEW g \in Functor, NEW r, r = Append(q, g)
    PROVE  /\ r \in Seq(Functor) /\ Len(r) = Len(q) + 1 /\ Len(q) \in Nat
           /\ \A i \in 1..Len(q) : r[i] = q[i]
           /\ r[Len(q) + 1] = g
           /\ \A f : In(r, f) <=> In(q, f) \/ f = g
           /\ \A f : Once(q, f) /\ (f = g => ~In(q, f)) => Once(r, f)
           /\ \A f, h : Before(q, f, h) /\ (f = g => ~In(q, h) /\ f # h) => Before(r, f, h)
           /\ \A f, n : Within(q, f, n) /\ f # g => Within(r, f, n)
<1>1. /\ r \in Seq(Functor) /\ Len(r) = Len(q) + 1 /\ Len(q) \in Nat
      /\ \A i \in 1..Len(q) : r[i] = q[i]
      /\ r[Len(q) + 1] = g
  BY AppendProperties, LenProperties
<1>2. 1..Len(r) = (1..Len(q)) \cup {Len(q) + 1} /\ Len(q) + 1 \notin 1..Len(q)
  BY <1>1
<1>3. \A f : In(r, f) <=> In(q, f) \/ f = g
  BY <1>1, <1>2 DEF In
<1>4. ASSUME NEW f, Once(q, f), f = g => ~In(q, f) PROVE Once(r, f)
  BY <1>1, <1>2, <1>4 DEF Once, In
<1>5. ASSUME NEW f, NEW h, Before(q, f, h), f = g => ~In(q, h) /\ f # h PROVE Before(r, f, h)
  <2> SUFFICES ASSUME NEW i \in 1..Len(r), NEW j \in 1..Len(r), r[i] = f, r[j] = h PROVE i < j
    BY DEF Before
  <2>1. CASE i \in 1..Len(q) /\ j \in 1..Len(q)
    BY <1>1, <1>5, <2>1 DEF Before
  <2>2. CASE i \in 1..Len(q) /\ j = Len(q) + 1
    BY <1>1, <2>2
  <2>3. CASE i = Len(q) + 1 /\ j \in 1..Len(q)
    BY <1>1, <1>5, <2>3 DEF In
  <2>4. CASE i = Len(q) + 1 /\ j = Len(q) + 1
    BY <1>1, <1>5, <2>4
  <2> QED BY <1>2, <2>1, <2>2, <2>3, <2>4
<1>6. ASSUME NEW f, NEW n, Within(q, f, n), f # g PROVE Within(r, f, n)
  BY <1>1, <1>2, <1>6 DEF Within
<1> QED BY <1>1, <1>3, <1>4, <1>5, <1>6

(* What taking the first functor does to them.                             *)
LEMMA Popped ==
    ASSUME NEW q \in Seq(Functor), q # <<>>, NEW r, r = Tail(q)
    PROVE  /\ Head(q) \in Functor /\ In(q, Head(q))
           /\ r \in Seq(Functor) /\ Len(r) = Len(q) - 1 /\ Len(q) \in Nat /\ Len(q) > 0
           /\ \A i \in 1..Len(r) : i + 1 \in 1..Len(q) /\ r[i] = q[i + 1]
           /\ \A f : In(r, f) => In(q, f)
           /\ \A f : In(q, f) => In(r, f) \/ f = Head(q)
           /\ Once(q, Head(q)) => ~In(r, Head(q))
           /\ \A f : Once(q, f) => Once(r, f)
           /\ \A f, h : Before(q, f, h) => Before(r, f, h)
           /\ \A f : Before(q, f, Head(q)) => ~In(q, f)
           /\ \A f : \A n \in Nat : n > 0 /\ Within(q, f, n) => Within(r, f, n - 1)
<1>1. /\ r \in Seq(Functor) /\ Len(r) = Len(q) - 1 /\ Len(q) \in Nat /\ Len(q) > 0
      /\ \A i \in 1..Len(r) : r[i] = q[i + 1]
  BY HeadTailProperties, EmptySeq
<1>2. Head(q) = q[1] /\ 1 \in 1..Len(q) /\ Head(q) \in Functor
  BY <1>1, HeadTailProperties
<1>3. \A i \in 1..Len(r) : i + 1 \in 1..Len(q) /\ i + 1 # 1
  BY <1>1
<1>4. \A j \in 1..Len(q) : j = 1 \/ (j - 1 \in 1..Len(r) /\ j = (j - 1) + 1)
  BY <1>1
<1>5. In(q, Head(q)) /\ \A f : In(r, f) => In(q, f)
  BY <1>1, <1>2, <1>3 DEF In
<1>6. ASSUME NEW f, In(q, f) PROVE In(r, f) \/ f = Head(q)
  <2>1. PICK j \in 1..Len(q) : q[j] = f
    BY <1>6 DEF In
  <2>2. CASE j = 1
    BY <1>2, <2>1, <2>2
  <2>3. CASE j - 1 \in 1..Len(r) /\ j = (j - 1) + 1
    <3>1. r[j - 1] = f
      BY <1>1, <2>1, <2>3
    <3> QED BY <2>3, <3>1 DEF In
  <2> QED BY <1>4, <2>2, <2>3
<1>7. Once(q, Head(q)) => ~In(r, Head(q))
  BY <1>1, <1>2, <1>3 DEF Once, In
<1>8. ASSUME NEW f, Once(q, f) PROVE Once(r, f)
  <2> SUFFICES ASSUME NEW i \in 1..Len(r), NEW j \in 1..Len(r), r[i] = f, r[j] = f PROVE i = j
    BY DEF Once
  <2>1. i + 1 = j + 1
    BY <1>1, <1>3, <1>8 DEF Once
  <2> QED BY <1>1, <2>1
<1>9. ASSUME NEW f, NEW h, Before(q, f, h) PROVE Before(r, f, h)
  <2> SUFFICES ASSUME NEW i \in 1..Len(r), NEW j \in 1..Len(r), r[i] = f, r[j] = h PROVE i < j
    BY DEF Before
  <2>1. i + 1 < j + 1
    BY <1>1, <1>3, <1>9 DEF Before
  <2> QED BY <1>1, <2>1
<1>10. ASSUME NEW f, Before(q, f, Head(q)) PROVE ~In(q, f)
  <2>1. \A i \in 1..Len(q) : ~(i < 1)
    BY <1>1
  <2> QED BY <1>2, <1>10, <2>1 DEF Before, In
<1>11. ASSUME NEW f, NEW n \in Nat, n > 0, Within(q, f, n) PROVE Within(r, f, n - 1)
  <2> SUFFICES ASSUME NEW i \in 1..Len(r), r[i] = f PROVE i <= n - 1
    BY DEF Within
  <2>1. i + 1 <= n
    BY <1>1, <1>3, <1>11 DEF Within
  <2> QED BY <1>1, <2>1
<1> QED BY <1>1, <1>2, <1>3, <1>5, <1>6, <1>7, <1>8, <1>9, <1>10, <1>11

(* Functors differ by what they do and for which connection.               *)
LEMMA FunctorFacts ==
    /\ \A op, p, c, d : F(op, c) = F(p, d) <=> op = p /\ c = d
    /\ \A op, c : F(op, c).op = op /\ F(op, c).conn = c
    /\ \A op \in Ops, c \in Conns : F(op, c) \in Functor
    /\ \A f \in Functor : f.op \in Ops /\ f.conn \in Conns /\ f = F(f.op, f.conn)
BY DEF F, Functor

-----------------------------------------------------------------------------
(* The queues of the loops.                                                *)

LifeOps == {"established", "destroyed", "remove"}
QueueType == [Loops -> Seq(Functor)]

(* Loops are numbered, and the base loop is one of them.                   *)
LEMMA Bases == TypeOK => /\ Base \in Loops /\ numThreads_ \in Nat
                         /\ \A l \in Loops : l \in Nat
<1> SUFFICES ASSUME TypeOK PROVE numThreads_ \in Nat
  BY DEF Base, Loops
<1>1. program \in Program
  BY TcpServerAssumption DEF TypeOK
<1> QED BY <1>1, TcpServerAssumption DEF Program, numThreads_

(* A functor queued where it belongs, and not twice, keeps the queues in   *)
(* order.                                                                  *)
LEMMA Posts ==
    ASSUME NEW q \in QueueType, QueueOK(q), NEW l \in Loops, NEW f \in Functor, Placed(l, f),
           f.op \in LifeOps => ~QueuedIn(q, f),
           f.op = "established" => ~QueuedIn(q, F("destroyed", f.conn)),
           NEW r, r = Post(q, l, f)
    PROVE  /\ r \in QueueType /\ QueueOK(r)
           /\ \A g : QueuedIn(r, g) <=> QueuedIn(q, g) \/ g = f
           /\ Len(r[l]) = Len(q[l]) + 1 /\ Len(q[l]) \in Nat
           /\ \A m \in Loops : m # l => r[m] = q[m]
           /\ \A n : InRound(q, n) /\ (l # Base \/ f.op # "destroyed") => InRound(r, n)
<1>1. q[l] \in Seq(Functor) /\ DOMAIN q = Loops
  BY DEF QueueType
<1>2. r[l] = Append(q[l], f) /\ \A m \in Loops : m # l => r[m] = q[m]
  BY DEF Post, QueueType
<1>3. /\ r[l] \in Seq(Functor) /\ Len(r[l]) = Len(q[l]) + 1 /\ Len(q[l]) \in Nat
      /\ \A g : In(r[l], g) <=> In(q[l], g) \/ g = f
      /\ \A g : Once(q[l], g) /\ (g = f => ~In(q[l], g)) => Once(r[l], g)
      /\ \A g, h : Before(q[l], g, h) /\ (g = f => ~In(q[l], h) /\ g # h) => Before(r[l], g, h)
      /\ \A g, n : Within(q[l], g, n) /\ g # f => Within(r[l], g, n)
  <2> PICK a, b : a = q[l] /\ b = r[l]
    OBVIOUS
  <2>1. a \in Seq(Functor) /\ b = Append(a, f)
    BY <1>1, <1>2
  <2>2. b \in Seq(Functor) /\ Len(b) = Len(a) + 1 /\ Len(a) \in Nat
    BY <2>1, Pushed
  <2>3. \A g : In(b, g) <=> In(a, g) \/ g = f
    BY <2>1, Pushed, ZenonT(30)
  <2>4. \A g : Once(a, g) /\ (g = f => ~In(a, g)) => Once(b, g)
    BY <2>1, Pushed
  <2>5. \A g, h : Before(a, g, h) /\ (g = f => ~In(a, h) /\ g # h) => Before(b, g, h)
    BY <2>1, Pushed
  <2>6. \A g, n : Within(a, g, n) /\ g # f => Within(b, g, n)
    BY <2>1, Pushed
  <2> QED BY <2>2, <2>3, <2>4, <2>5, <2>6
<1>4. r \in QueueType /\ DOMAIN r = Loops
  BY <1>2, <1>3 DEF QueueType, Post
<1>5. \A g : QueuedIn(r, g) <=> QueuedIn(q, g) \/ g = f
  BY <1>1, <1>2, <1>3, <1>4 DEF QueuedIn
<1>6. ASSUME NEW c \in Conns
      PROVE  /\ \A op \in LifeOps : Once(r[l], F(op, c))
             /\ Before(r[l], F("established", c), F("destroyed", c))
  <2>1. /\ \A op \in LifeOps : Once(q[l], F(op, c))
        /\ Before(q[l], F("established", c), F("destroyed", c))
    BY DEF QueueOK, Ordered, LifeOps
  <2>2. ASSUME NEW op \in LifeOps, F(op, c) = f PROVE ~In(q[l], F(op, c))
    BY <1>1, <2>2, FunctorFacts DEF QueuedIn
  <2>3. ASSUME F("established", c) = f
        PROVE  ~In(q[l], F("destroyed", c)) /\ f # F("destroyed", c)
    BY <1>1, <2>3, FunctorFacts DEF QueuedIn
  <2> QED BY <1>3, <2>1, <2>2, <2>3
<1>7. Ordered(r[l])
  BY <1>6 DEF Ordered, LifeOps
<1>8. QueueOK(r)
  BY <1>2, <1>3, <1>7 DEF QueueOK
<1>9. ASSUME NEW n, InRound(q, n), l # Base \/ f.op # "destroyed" PROVE InRound(r, n)
  <2> SUFFICES ASSUME NEW c \in Conns PROVE Within(r[Base], F("destroyed", c), n)
    BY DEF InRound
  <2>1. Within(q[Base], F("destroyed", c), n)
    BY <1>9 DEF InRound
  <2>2. CASE l = Base
    <3>1. F("destroyed", c) # f
      BY <1>9, <2>2, FunctorFacts
    <3> QED BY <1>3, <2>1, <2>2, <3>1
  <2>3. CASE l # Base
    <3>1. r[Base] = q[Base]
      BY <2>3 DEF Post
    <3> QED BY <2>1, <3>1
  <2> QED BY <2>2, <2>3
<1> QED BY <1>2, <1>3, <1>4, <1>5, <1>8, <1>9

(* r: the queues q without f, the first functor of loop l.                 *)
Without(q, l, f, r) ==
    /\ f \in Functor /\ Placed(l, f) /\ QueuedIn(q, f)
    /\ r \in QueueType /\ QueueOK(r)
    /\ \A g : QueuedIn(r, g) => QueuedIn(q, g)
    /\ \A g : QueuedIn(q, g) /\ g # f => QueuedIn(r, g)
    /\ f.op \in LifeOps => ~QueuedIn(r, f)
    /\ f.op = "destroyed" => ~QueuedIn(q, F("established", f.conn))
    /\ Len(r[l]) = Len(q[l]) - 1 /\ Len(q[l]) \in Nat
    /\ \A m \in Loops : m # l => r[m] = q[m]
    /\ \A n \in Nat : n > 0 /\ InRound(q, n) => InRound(r, IF l = Base THEN n - 1 ELSE n)

(* Taking the first functor of a loop keeps them in order.                 *)
LEMMA Pops ==
    ASSUME NEW q \in QueueType, QueueOK(q), NEW l \in Loops, q[l] # <<>>,
           NEW f, f = Head(q[l]),
           NEW r, r = [q EXCEPT ![l] = Tail(@)]
    PROVE  Without(q, l, f, r)
<1>1. q[l] \in Seq(Functor) /\ DOMAIN q = Loops
  BY DEF QueueType
<1>2. r[l] = Tail(q[l]) /\ \A m \in Loops : m # l => r[m] = q[m]
  BY DEF QueueType
<1>3. /\ f \in Functor /\ In(q[l], f)
      /\ r[l] \in Seq(Functor) /\ Len(r[l]) = Len(q[l]) - 1 /\ Len(q[l]) \in Nat
      /\ \A g : In(r[l], g) => In(q[l], g)
      /\ \A g : In(q[l], g) => In(r[l], g) \/ g = f
      /\ Once(q[l], f) => ~In(r[l], f)
      /\ \A g : Once(q[l], g) => Once(r[l], g)
      /\ \A g, h : Before(q[l], g, h) => Before(r[l], g, h)
      /\ \A g : Before(q[l], g, f) => ~In(q[l], g)
      /\ \A g : \A n \in Nat : n > 0 /\ Within(q[l], g, n) => Within(r[l], g, n - 1)
  BY <1>1, <1>2, Popped
<1>4. r \in QueueType /\ DOMAIN r = Loops
  BY <1>2, <1>3 DEF QueueType
<1>5. Placed(l, f) /\ QueuedIn(q, f)
  BY <1>1, <1>3 DEF QueueOK, QueuedIn
<1>6. \A g : QueuedIn(r, g) => QueuedIn(q, g)
  BY <1>1, <1>2, <1>3, <1>4 DEF QueuedIn
<1>7. \A g : QueuedIn(q, g) /\ g # f => QueuedIn(r, g)
  BY <1>1, <1>2, <1>3, <1>4 DEF QueuedIn
<1>8. QueueOK(r)
  <2>1. Ordered(r[l])
    BY <1>3 DEF QueueOK, Ordered
  <2> QED BY <1>2, <1>3, <2>1 DEF QueueOK
<1>9. \A m \in Loops : In(q[m], f) => m = l
  BY <1>3, <1>5 DEF QueueOK, Placed
<1>10. f.op \in LifeOps => Once(q[l], f)
  <2>1. f.conn \in Conns /\ f = F(f.op, f.conn)
    BY <1>3, FunctorFacts
  <2> QED BY <2>1 DEF QueueOK, Ordered, LifeOps
<1>11. f.op \in LifeOps => ~QueuedIn(r, f)
  BY <1>2, <1>3, <1>4, <1>9, <1>10 DEF QueuedIn
<1>12. ASSUME f.op = "destroyed" PROVE ~QueuedIn(q, F("established", f.conn))
  <2>1. f.conn \in Conns /\ f = F("destroyed", f.conn)
    BY <1>3, <1>12, FunctorFacts
  <2>2. ~In(q[l], F("established", f.conn))
    BY <1>3, <2>1 DEF QueueOK, Ordered
  <2>3. F("established", f.conn) \in Functor /\ F("established", f.conn).op = "established"
        /\ F("established", f.conn).conn = f.conn
    BY <2>1, FunctorFacts DEF Ops
  <2>4. \A m \in Loops : In(q[m], F("established", f.conn)) => m = l
    BY <1>5, <1>12, <2>3 DEF QueueOK, Placed
  <2> QED BY <1>1, <2>2, <2>4 DEF QueuedIn
<1>13. ASSUME NEW n \in Nat, n > 0, InRound(q, n)
       PROVE  InRound(r, IF l = Base THEN n - 1 ELSE n)
  <2>1. CASE l = Base
    BY <1>3, <1>13, <2>1 DEF InRound
  <2>2. CASE l # Base
    <3>1. r[Base] = q[Base]
      BY <2>2
    <3> QED BY <1>13, <2>2, <3>1 DEF InRound
  <2> QED BY <2>1, <2>2
<1> QED BY <1>2, <1>3, <1>4, <1>5, <1>6, <1>7, <1>8, <1>11, <1>12, <1>13 DEF Without

(* The functors stay where they belong while connections go on.            *)
GoesOn(c) ==
    Created(c) => /\ Created(c)' /\ Home(c)' = Home(c)
                  /\ Told(c) # 0 => Told(c)' # 0
                  /\ Told(c) = 2 => Told(c)' = 2

(* A queue stays in order while no connection goes back.                   *)
LEMMA StillPlaced ==
    ASSUME NEW q, QueueOK(q), program' = program, \A c \in Conns : GoesOn(c)
    PROVE  QueueOK(q)'
<1>1. Loops' = Loops
  BY DEF Loops, numThreads_
<1>2. ASSUME NEW l \in Loops, NEW f \in Functor, Placed(l, f) PROVE Placed(l, f)'
  <2>1. f.conn \in Conns
    BY FunctorFacts
  <2> QED BY <1>2, <2>1 DEF Placed, GoesOn
<1> QED BY <1>1, <1>2 DEF QueueOK

-----------------------------------------------------------------------------
(* What the methods do to a connection's channel.                          *)

(* What updateChannel makes of a channel whose events were set.            *)
LEMMA Updated ==
    ASSUME NEW ch \in ChannelType, NEW wanted \in SUBSET Events,
           NEW new, new = update([ch EXCEPT !.events = wanted])
    PROVE  /\ new \in ChannelType /\ new.events = wanted
           /\ wanted = {} /\ ch.index = "kAdded" => new.index = "kDeleted" /\ ~new.polled
           /\ wanted # {} /\ (ch.index = "kAdded" => ch.polled) => new.index = "kAdded" /\ new.polled
<1> DEFINE asked == [ch EXCEPT !.events = wanted, !.added = TRUE]
<1>1. new = updateChannel(asked)
  BY DEF update, ChannelType
<1>2. asked \in ChannelType /\ asked.events = wanted /\ asked.index = ch.index
      /\ asked.polled = ch.polled
  BY DEF ChannelType
<1> HIDE DEF asked
<1>3. CASE ch.index = "kAdded" /\ wanted = {}
  <2>1. new = [asked EXCEPT !.polled = FALSE, !.mask = {}, !.index = "kDeleted"]
    BY <1>1, <1>2, <1>3 DEF updateChannel, isNoneEvent, EpollDel, ChannelType
  <2>2. new \in ChannelType
    BY <1>2, <2>1 DEF ChannelType
  <2>3. new.events = wanted /\ new.index = "kDeleted" /\ new.polled = FALSE
    BY <1>2, <2>1 DEF ChannelType
  <2> QED BY <1>3, <2>2, <2>3
<1>4. CASE ch.index = "kAdded" /\ wanted # {}
  <2>1. new = EpollMod(asked)
    BY <1>1, <1>2, <1>4 DEF updateChannel, isNoneEvent
  <2>2. new \in ChannelType
    BY <1>2, <2>1 DEF EpollMod, ChannelType
  <2>3. new.events = wanted /\ new.index = "kAdded" /\ new.polled = ch.polled
    BY <1>2, <1>4, <2>1 DEF EpollMod, ChannelType
  <2> QED BY <1>4, <2>2, <2>3
<1>5. CASE ch.index # "kAdded"
  <2> DEFINE entered == [asked EXCEPT !.index = "kAdded", !.listed = TRUE]
  <2>1. entered \in ChannelType /\ entered.events = wanted /\ entered.index = "kAdded"
    BY <1>2 DEF ChannelType
  <2>2. new = EpollAdd(entered)
    BY <1>1, <1>2, <1>5 DEF updateChannel
  <2> HIDE DEF entered
  <2>3. new \in ChannelType
    BY <2>1, <2>2 DEF EpollAdd, ChannelType
  <2>4. new.events = wanted /\ new.index = "kAdded" /\ new.polled = TRUE
    BY <2>1, <2>2 DEF EpollAdd, ChannelType
  <2> QED BY <1>5, <2>3, <2>4
<1> QED BY <1>3, <1>4, <1>5

(* The calls of a TcpConnection take its channel from unregistered to      *)
(* listening, quiet and back.                                              *)
LEMMA ChannelSteps ==
    ASSUME NEW ch \in ChannelType
    PROVE  /\ Unregistered(ch) => /\ enableReading(ch) \in ChannelType
                                  /\ Listening(enableReading(ch))
           /\ Listening(ch) => /\ enableWriting(ch) \in ChannelType /\ Listening(enableWriting(ch))
                               /\ disableWriting(ch) \in ChannelType /\ Listening(disableWriting(ch))
                               /\ disableAll(ch) \in ChannelType /\ Quiet(disableAll(ch))
           /\ Quiet(ch) => remove(ch) \in ChannelType /\ Unregistered(remove(ch))
<1>0. ch.events \in SUBSET Events /\ "R" \in Events /\ "W" \in Events
  BY DEF ChannelType, Events
<1>1. ASSUME Unregistered(ch)
      PROVE  enableReading(ch) \in ChannelType /\ Listening(enableReading(ch))
  <2> DEFINE wanted == ch.events \cup {"R"}
  <2>1. wanted \in SUBSET Events /\ wanted # {} /\ "R" \in wanted
    BY <1>0
  <2>2. enableReading(ch) = update([ch EXCEPT !.events = wanted])
    BY DEF enableReading
  <2> HIDE DEF wanted
  <2>3. /\ enableReading(ch) \in ChannelType /\ enableReading(ch).events = wanted
        /\ enableReading(ch).index = "kAdded" /\ enableReading(ch).polled
    BY <1>1, <2>1, <2>2, Updated DEF Unregistered
  <2> QED BY <2>1, <2>3 DEF Listening
<1>2. ASSUME Listening(ch)
      PROVE  enableWriting(ch) \in ChannelType /\ Listening(enableWriting(ch))
  <2> DEFINE wanted == ch.events \cup {"W"}
  <2>1. wanted \in SUBSET Events /\ wanted # {} /\ "R" \in wanted
    BY <1>0, <1>2 DEF Listening
  <2>2. enableWriting(ch) = update([ch EXCEPT !.events = wanted])
    BY DEF enableWriting
  <2> HIDE DEF wanted
  <2>3. /\ enableWriting(ch) \in ChannelType /\ enableWriting(ch).events = wanted
        /\ enableWriting(ch).index = "kAdded" /\ enableWriting(ch).polled
    BY <1>2, <2>1, <2>2, Updated DEF Listening
  <2> QED BY <2>1, <2>3 DEF Listening
<1>3. ASSUME Listening(ch)
      PROVE  disableWriting(ch) \in ChannelType /\ Listening(disableWriting(ch))
  <2> DEFINE wanted == ch.events \ {"W"}
  <2>1. wanted \in SUBSET Events /\ wanted # {} /\ "R" \in wanted
    BY <1>0, <1>3 DEF Listening
  <2>2. disableWriting(ch) = update([ch EXCEPT !.events = wanted])
    BY DEF disableWriting
  <2> HIDE DEF wanted
  <2>3. /\ disableWriting(ch) \in ChannelType /\ disableWriting(ch).events = wanted
        /\ disableWriting(ch).index = "kAdded" /\ disableWriting(ch).polled
    BY <1>3, <2>1, <2>2, Updated DEF Listening
  <2> QED BY <2>1, <2>3 DEF Listening
<1>4. ASSUME Listening(ch)
      PROVE  disableAll(ch) \in ChannelType /\ Quiet(disableAll(ch))
  <2>1. disableAll(ch) = update([ch EXCEPT !.events = {}]) /\ {} \in SUBSET Events
    BY DEF disableAll
  <2>2. /\ disableAll(ch) \in ChannelType /\ disableAll(ch).events = {}
        /\ disableAll(ch).index = "kDeleted" /\ ~disableAll(ch).polled
    <3> PICK wanted : wanted = {}
      OBVIOUS
    <3> QED BY <1>4, <2>1, Updated DEF Listening
  <2> QED BY <2>2 DEF Quiet
<1>5. ASSUME Quiet(ch)
      PROVE  remove(ch) \in ChannelType /\ Unregistered(remove(ch))
  <2>1. remove(ch) = [ch EXCEPT !.added = FALSE, !.listed = FALSE, !.index = "kNew"]
    BY <1>5 DEF remove, removeChannel, Quiet, ChannelType
  <2>2. remove(ch) \in ChannelType
    BY <2>1 DEF ChannelType
  <2> QED BY <1>5, <2>1, <2>2 DEF Quiet, Unregistered, ChannelType
<1> QED BY <1>1, <1>2, <1>3, <1>4, <1>5

(* connectEstablished, handleClose, channel_->remove().                    *)
LEMMA StageSteps ==
    ASSUME NEW k \in Connection, Stage(k)
    PROVE  /\ k.told = 0 =>
                 /\ Established(k) \in Connection /\ Stage(Established(k))
                 /\ Established(k).told = 1 /\ Established(k).state_ = "kConnected"
                 /\ Established(k).loop = k.loop /\ Established(k).revents = k.revents
           /\ k.told = 1 =>
                 /\ Closed(k) \in Connection /\ Stage(Closed(k)) /\ Quiet(Closed(k).ch)
                 /\ Closed(k).told = 2 /\ Closed(k).state_ = "kDisconnected"
                 /\ Closed(k).loop = k.loop /\ Closed(k).revents = k.revents
           /\ k.told = 2 /\ k.ch.index # "kNew" =>
                 LET n == [k EXCEPT !.ch = remove(@)] IN
                 /\ n \in Connection /\ Stage(n) /\ n.ch.index = "kNew"
                 /\ n.told = 2 /\ n.state_ = k.state_ /\ n.loop = k.loop /\ n.revents = k.revents
<1>0. k.ch \in ChannelType /\ k.told \in 0..2
  BY DEF Connection
<1>t. ASSUME NEW s \in StateE, NEW ch \in ChannelType, NEW t \in 0..2
      PROVE  [k EXCEPT !.state_ = s, !.ch = ch, !.told = t] \in Connection
  BY DEF Connection
<1>1. ASSUME k.told = 0
      PROVE  /\ Established(k) \in Connection /\ Stage(Established(k))
             /\ Established(k).told = 1 /\ Established(k).state_ = "kConnected"
             /\ Established(k).loop = k.loop /\ Established(k).revents = k.revents
  <2>1. enableReading(k.ch) \in ChannelType /\ Listening(enableReading(k.ch))
    BY <1>0, <1>1, ChannelSteps DEF Stage
  <2>2. Established(k) = [k EXCEPT !.state_ = "kConnected", !.ch = enableReading(k.ch), !.told = 1]
    BY <1>1 DEF Established, Connection
  <2>3. Established(k) \in Connection
    <3>1. "kConnected" \in StateE /\ 1 \in 0..2
      BY DEF StateE
    <3> QED BY <1>t, <2>1, <2>2, <3>1
  <2>4. /\ Established(k).told = 1 /\ Established(k).state_ = "kConnected"
        /\ Established(k).loop = k.loop /\ Established(k).revents = k.revents
        /\ Established(k).ch = enableReading(k.ch)
    BY <2>2 DEF Connection
  <2> QED BY <2>1, <2>3, <2>4 DEF Stage
<1>2. ASSUME k.told = 1
      PROVE  /\ Closed(k) \in Connection /\ Stage(Closed(k)) /\ Quiet(Closed(k).ch)
             /\ Closed(k).told = 2 /\ Closed(k).state_ = "kDisconnected"
             /\ Closed(k).loop = k.loop /\ Closed(k).revents = k.revents
  <2>1. disableAll(k.ch) \in ChannelType /\ Quiet(disableAll(k.ch))
    BY <1>0, <1>2, ChannelSteps DEF Stage
  <2>2. Closed(k) = [k EXCEPT !.state_ = "kDisconnected", !.ch = disableAll(k.ch), !.told = 2]
    BY <1>2 DEF Closed, Connection
  <2>3. Closed(k) \in Connection
    <3>1. "kDisconnected" \in StateE /\ 2 \in 0..2
      BY DEF StateE
    <3>2. [k EXCEPT !.state_ = "kDisconnected", !.ch = disableAll(k.ch), !.told = 2] \in Connection
      BY <1>t, <2>1, <3>1
    <3> QED BY <2>2, <3>2
  <2>4. /\ Closed(k).told = 2 /\ Closed(k).state_ = "kDisconnected"
        /\ Closed(k).loop = k.loop /\ Closed(k).revents = k.revents
        /\ Closed(k).ch = disableAll(k.ch)
    BY <2>2 DEF Connection
  <2> QED BY <2>1, <2>3, <2>4 DEF Stage
<1>3. ASSUME k.told = 2, k.ch.index # "kNew", NEW n, n = [k EXCEPT !.ch = remove(@)]
      PROVE  /\ n \in Connection /\ Stage(n) /\ n.ch.index = "kNew"
             /\ n.told = 2 /\ n.state_ = k.state_ /\ n.loop = k.loop /\ n.revents = k.revents
  <2>1. remove(k.ch) \in ChannelType /\ Unregistered(remove(k.ch))
    BY <1>0, <1>3, ChannelSteps DEF Stage, Unregistered
  <2>2. n \in Connection
    BY <1>3, <2>1 DEF Connection
  <2>3. /\ n.told = 2 /\ n.state_ = k.state_ /\ n.loop = k.loop /\ n.revents = k.revents
        /\ n.ch = remove(k.ch)
    BY <1>3 DEF Connection
  <2>4. k.state_ \in {"kDisconnected", "kDisconnecting"}
    BY <1>3 DEF Stage
  <2> QED BY <2>1, <2>2, <2>3, <2>4 DEF Stage, Unregistered
<1> QED BY <1>1, <1>2, <1>3

-----------------------------------------------------------------------------
(* Frames: what a step that does not concern a connection leaves as it is. *)

SameStage(d) ==
    /\ Told(d)' = Told(d) /\ Home(d)' = Home(d)
    /\ Created(d)' <=> Created(d)
    /\ Connecting(d)' <=> Connecting(d)
    /\ Removed(d)' <=> Removed(d)

SameFunctors(d) ==
    /\ Establishing(d)' <=> Establishing(d)
    /\ Destroying(d)' <=> Destroying(d)
    /\ Removing(d)' <=> Removing(d)

Undisturbed(d) ==
    /\ SameStage(d) /\ SameFunctors(d)
    /\ d \in connections_' <=> d \in connections_
    /\ InDestroy(d)' <=> InDestroy(d)
    /\ InClose(d)' <=> InClose(d)
    /\ LoopGone(d)' <=> LoopGone(d)
    /\ BaseStopped => BaseStopped'

(* A connection that a step does not concern keeps its owner.              *)
LEMMA UndisturbedKeeps ==
    ASSUME NEW d, Owned(d), ClosedOnce(d), Undisturbed(d)
    PROVE  Owned(d)' /\ ClosedOnce(d)'
BY DEF Owned, ClosedOnce, Undisturbed, SameStage, SameFunctors

(* The same record is the same stage.                                      *)
LEMMA SameConn ==
    ASSUME NEW d, conn'[d] = conn[d]
    PROVE  SameStage(d)
BY DEF SameStage, Told, Home, Created, Connecting, Removed

(* Who stays at his stage does not go back.                                *)
LEMMA SameGoesOn ==
    ASSUME NEW d, SameStage(d)
    PROVE  GoesOn(d)
BY DEF SameStage, GoesOn

(* The queue of the next state, with the connections of this one.          *)
LEMMA QueuesKept ==
    ASSUME program' = program, \A c \in Conns : GoesOn(c), NEW r, r = queue', QueueOK(r),
           phase'[Base] = "pending" => InRound(r, left'[Base])
    PROVE  Queues'
<1>1. QueueOK(r)'
  BY StillPlaced
<1> QED BY <1>1 DEF Queues

(* A loop that goes into a callback other than the ones that matter here,  *)
(* leaves one, or takes up a connection.                                   *)
QuietTurn(l) ==
    /\ callback'[l] = callback[l] \/ {callback[l], callback'[l]} \subseteq {"none", "plain"}
    /\ callback[l] \in {"close", "destroy"} => current'[l] = current[l]
    /\ current'[l] \in Conns => \/ current'[l] = current[l]
                                \/ Home(current'[l]) = l /\ Told(current'[l]) # 0
    /\ callback'[l] # "none" => current'[l] \in Conns
    /\ running[l] = "stopped" => left'[l] = left[l] /\ callback'[l] = callback[l]

(* A loop that does not move makes a quiet turn.                           *)
LEMMA StillTurn ==
    ASSUME Inv, NEW l \in Loops, current'[l] = current[l], callback'[l] = callback[l],
           running[l] = "stopped" => left'[l] = left[l]
    PROVE  QuietTurn(l)
BY DEF QuietTurn, Inv, Rounds, LoopOK

(* Quiet turns begin and end no callback of handleClose or                 *)
(* connectDestroyed.                                                       *)
LEMMA QuietTurns ==
    ASSUME program' = program, \A l \in Loops : QuietTurn(l), NEW d
    PROVE  (InDestroy(d)' <=> InDestroy(d)) /\ (InClose(d)' <=> InClose(d))
<1>1. Loops' = Loops
  BY DEF Loops, numThreads_
<1>2. ASSUME NEW l \in Loops
      PROVE  /\ current'[l] = d /\ callback'[l] = "destroy" <=> current[l] = d /\ callback[l] = "destroy"
             /\ current'[l] = d /\ callback'[l] = "close" <=> current[l] = d /\ callback[l] = "close"
  BY DEF QuietTurn
<1> QED BY <1>1, <1>2 DEF InDestroy, InClose

(* If all stages and functors stay, so do the owners and the tear-down.    *)
LEMMA CalmOwners ==
    ASSUME Inv, UNCHANGED <<program, connections_, running, serverAlive>>,
           \A c \in Conns : SameStage(c) /\ SameFunctors(c),
           \A l \in Loops : QuietTurn(l)
    PROVE  Owners' /\ Teardown'
<1>1. Loops' = Loops
  BY DEF Loops, numThreads_
<1>2. ASSUME NEW c \in Conns PROVE Undisturbed(c)
  <2>1. SameStage(c) /\ SameFunctors(c)
    OBVIOUS
  <2>2. (InDestroy(c)' <=> InDestroy(c)) /\ (InClose(c)' <=> InClose(c))
    BY QuietTurns
  <2>3. LoopGone(c)' <=> LoopGone(c)
    BY <2>1 DEF LoopGone, SameStage, Home
  <2> QED BY <2>1, <2>2, <2>3 DEF Undisturbed, BaseStopped
<1>3. Owners'
  BY <1>2, UndisturbedKeeps DEF Inv, Owners
<1> QED BY <1>1, <1>3 DEF Inv, Teardown

(* If all stages stay and no event is added, the rounds stay as they       *)
(* should be.                                                              *)
LEMMA CalmRounds ==
    ASSUME Inv, UNCHANGED <<program, phase, active, running>>,
           \A c \in Conns : SameStage(c) /\ conn'[c].revents \subseteq conn[c].revents,
           \A l \in Loops : QuietTurn(l)
    PROVE  Rounds'
<1>1. Loops' = Loops
  BY DEF Loops, numThreads_
<1>2. ASSUME NEW l \in Loops PROVE LoopOK(l)'
  <2>1. LoopOK(l)
    BY DEF Inv, Rounds
  <2>2. current'[l] \in Conns => Home(current[l])' = l /\ Told(current[l])' # 0
    <3> SUFFICES ASSUME NEW c \in Conns, c = current'[l] PROVE Home(c)' = l /\ Told(c)' # 0
      BY DEF Home, Told
    <3>1. Home(c) = l /\ Told(c) # 0
      BY <2>1 DEF QuietTurn, LoopOK
    <3> QED BY <3>1 DEF SameStage
  <2> QED BY <2>1, <2>2 DEF QuietTurn, LoopOK
<1>3. ASSUME NEW c \in Conns PROVE EventsOK(c)'
  BY DEF Inv, Rounds, EventsOK, SameStage
<1> QED BY <1>1, <1>2, <1>3 DEF Rounds

(* A connection whose stage stays: d goes on with some of its events done. *)
Calm(d) ==
    /\ SameStage(d) /\ Stage(conn'[d])
    /\ conn'[d].state_ = "kDisconnecting" => program.lateShutdown
    /\ conn'[d].revents \subseteq conn[d].revents

(* A change to one connection that leaves its stage leaves all calm.       *)
LEMMA TouchCalm ==
    ASSUME Inv, NEW c \in Conns, \A d \in Conns : d # c => conn'[d] = conn[d],
           NEW k, k = conn'[c], Stage(k), k.told = conn[c].told, k.loop = conn[c].loop,
           \/ k.state_ = conn[c].state_
           \/ conn[c].state_ = "kDisconnected" /\ k.state_ = "kDisconnecting" /\ program.lateShutdown,
           k.ch.index = "kNew" <=> conn[c].ch.index = "kNew",
           k.revents \subseteq conn[c].revents
    PROVE  \A d \in Conns : Calm(d)
<1> SUFFICES ASSUME NEW d \in Conns PROVE Calm(d)
  OBVIOUS
<1>1. CASE d = c
  <2>1. SameStage(d)
    BY <1>1 DEF SameStage, Told, Home, Created, Connecting, Removed
  <2>2. conn[c].state_ = "kDisconnecting" => program.lateShutdown
    BY DEF Inv, Stages
  <2> QED BY <1>1, <2>1, <2>2 DEF Calm
<1>2. CASE d # c
  BY <1>2, SameConn DEF Calm, Inv, Stages
<1> QED BY <1>1, <1>2

(* So does no change at all.                                               *)
LEMMA SameCalm ==
    ASSUME Inv, UNCHANGED conn
    PROVE  \A d \in Conns : Calm(d)
BY SameConn DEF Calm, Inv, Stages

(* A step that leaves all connections calm keeps the invariant.            *)
LEMMA CalmKeeps ==
    ASSUME Inv, UNCHANGED <<program, phase, active, running, connections_, serverAlive>>,
           \A c \in Conns : Calm(c), \A l \in Loops : QuietTurn(l),
           NEW r, r = queue', QueueOK(r), phase[Base] = "pending" => InRound(r, left'[Base]),
           \A c \in Conns, op \in LifeOps : QueuedIn(r, F(op, c)) <=> QueuedIn(queue, F(op, c)),
           Pointers', TypeOK'
    PROVE  Inv'
<1>1. \A c \in Conns : SameStage(c) /\ GoesOn(c)
  BY SameGoesOn DEF Calm
<1>2. \A c \in Conns : SameFunctors(c)
  BY DEF SameFunctors, Establishing, Destroying, Removing, LifeOps
<1>3. Stages'
  BY DEF Calm, Stages
<1>4. Queues'
  BY <1>1, QueuesKept
<1>5. Owners' /\ Teardown'
  BY <1>1, <1>2, CalmOwners
<1>6. Rounds'
  BY CalmRounds DEF Calm
<1> QED BY <1>3, <1>4, <1>5, <1>6 DEF Inv

(* The user thread keeps pointers only to connections that are or were up. *)
LEMMA PointersKept ==
    ASSUME Inv, program' = program, \A c \in Conns : GoesOn(c), TypeOK',
           \A c \in held' : c \in held \/ (program.userThread /\ Told(c) # 0),
           ucall' # None => \/ ucall' = ucall
                            \/ ucall'.op \in Raw /\ ucall'.conn \in held
    PROVE  Pointers'
<1>1. \A c \in Conns : Told(c) # 0 => Created(c)
  BY DEF Inv, Stages, Stage, Told, Created
<1>2. \A c \in Conns : Told(c) # 0 => Told(c)' # 0
  BY <1>1 DEF GoesOn
<1>3. \A c \in held' : program.userThread /\ Told(c)' # 0
  BY <1>2 DEF Inv, Pointers, TypeOK
<1>4. ASSUME ucall' # None PROVE ucall'.op \in Raw /\ program.userThread /\ Told(ucall.conn)'  # 0
  <2>1. PICK u : u = ucall'
    OBVIOUS
  <2>2. u.conn \in Conns
    BY <1>4, <2>1, FunctorFacts DEF TypeOK
  <2>3. u.op \in Raw /\ program.userThread /\ Told(u.conn) # 0
    BY <1>4, <2>1 DEF Inv, Pointers
  <2>4. Told(u.conn)' # 0
    BY <1>2, <2>2, <2>3
  <2> QED BY <2>1, <2>3, <2>4
<1> QED BY <1>3, <1>4 DEF Pointers

(* sendInLoop of a connection that is up or that it refuses.               *)
LEMMA SendCalm ==
    ASSUME Inv, NEW c \in Conns, NEW fits \in BOOLEAN, NEW q, SendInLoop(c, fits, q),
           Told(c) = 1 \/ conn[c].state_ = "kDisconnected"
    PROVE  /\ conn' \in [Conns -> Connection] /\ net' \in [Conns -> Endpoint]
           /\ \A d \in Conns : Calm(d)
           /\ queue' = q \/ (Told(c) = 1 /\ queue' = Post(q, Home(c), F("writeComplete", c)))
<1>0. conn[c] \in Connection /\ Stage(conn[c]) /\ conn[c].ch \in ChannelType
  BY DEF Inv, TypeOK, Stages, Connection
<1>1. queue' = q \/ (Told(c) = 1 /\ queue' = Post(q, Home(c), F("writeComplete", c)))
  BY DEF SendInLoop, Home
<1>2. CASE UNCHANGED <<conn, net>>
  BY <1>1, <1>2, SameCalm DEF Inv, TypeOK
<1>3. CASE ~UNCHANGED <<conn, net>>
  <2> PICK direct \in BOOLEAN : net' = [net EXCEPT ![c].writable = @ /\ ~direct]
    BY <1>3 DEF SendInLoop
  <2>1. conn' = [conn EXCEPT ![c].out = TRUE,
                     ![c].ch = IF isWriting(@) THEN @ ELSE enableWriting(@)]
    BY <1>3 DEF SendInLoop
  <2>2. Told(c) = 1
    BY <1>3 DEF SendInLoop
  <2>3. PICK ch : ch = IF isWriting(conn[c].ch) THEN conn[c].ch ELSE enableWriting(conn[c].ch)
    OBVIOUS
  <2>4. ch \in ChannelType /\ Listening(ch) /\ Listening(conn[c].ch)
    BY <1>0, <2>2, <2>3, ChannelSteps DEF Stage, Told
  <2>5. PICK k : k = [conn[c] EXCEPT !.out = TRUE, !.ch = ch]
    OBVIOUS
  <2>6. conn' = [conn EXCEPT ![c] = k]
    BY <1>0, <2>1, <2>3, <2>5 DEF Inv, TypeOK, Connection
  <2>7. /\ k \in Connection /\ k.told = conn[c].told /\ k.loop = conn[c].loop /\ k.ch = ch
        /\ k.state_ = conn[c].state_ /\ k.revents = conn[c].revents
    BY <1>0, <2>4, <2>5 DEF Connection
  <2>8. conn' \in [Conns -> Connection] /\ conn'[c] = k /\ \A d \in Conns : d # c => conn'[d] = conn[d]
    BY <2>6, <2>7 DEF Inv, TypeOK
  <2>9. Stage(k)
    BY <1>0, <2>2, <2>4, <2>7 DEF Stage, Told
  <2>10. \A d \in Conns : Calm(d)
    BY <2>4, <2>7, <2>8, <2>9, TouchCalm DEF Listening
  <2>11. net' \in [Conns -> Endpoint]
    <3>1. PICK w \in BOOLEAN : w = (net[c].writable /\ ~direct)
      OBVIOUS
    <3>2. PICK n : n = [net[c] EXCEPT !.writable = w]
      OBVIOUS
    <3>3. net[c] \in Endpoint
      BY DEF Inv, TypeOK
    <3>4. n \in Endpoint
      BY <3>2, <3>3 DEF Endpoint
    <3>5. net' = [net EXCEPT ![c] = n]
      BY <3>1, <3>2
    <3> QED BY <3>4, <3>5 DEF Inv, TypeOK
  <2> QED BY <1>1, <2>8, <2>10, <2>11
<1> QED BY <1>2, <1>3

-----------------------------------------------------------------------------
(* Types.                                                                  *)

(* The program, and with it the number of loops, never changes.            *)
LEMMA SameProgram ==
    ASSUME program' = program
    PROVE  Loops' = Loops /\ numThreads_' = numThreads_ /\ Connection' = Connection
           /\ QueueType' = QueueType
BY DEF Loops, numThreads_, Connection, QueueType

(* The types of the next state, from those of its parts.                   *)
LEMMA TypeStepNext ==
    ASSUME TypeOK, program' = program,
           conn' \in [Conns -> Connection], net' \in [Conns -> Endpoint],
           connections_' \subseteq Conns,
           next_' \in Nat, numThreads_ > 0 => next_' < numThreads_, queue' \in QueueType,
           left' \in [Loops -> Nat], \A l \in Loops : left'[l] <= Len(queue'[l]),
           phase' \in [Loops -> {"events", "pending"}], active' \subseteq Conns \cup {Acceptor},
           current' \in [Loops -> Conns \cup {None}],
           callback' \in [Loops -> {"none", "plain", "close", "destroy"}],
           running' \in [Loops -> {"run", "quit", "stopped"}], serverAlive' \in BOOLEAN,
           held' \subseteq Conns, ucall' \in Functor \cup {None}, sends' \in 0..MaxSends
    PROVE  TypeOK'
BY SameProgram DEF TypeOK, QueueType

(* The same for the steps that leave the round robin alone.                *)
LEMMA TypeStep ==
    ASSUME TypeOK, program' = program,
           conn' \in [Conns -> Connection], net' \in [Conns -> Endpoint],
           connections_' \subseteq Conns, next_' = next_, queue' \in QueueType,
           left' \in [Loops -> Nat], \A l \in Loops : left'[l] <= Len(queue'[l]),
           phase' \in [Loops -> {"events", "pending"}], active' \subseteq Conns \cup {Acceptor},
           current' \in [Loops -> Conns \cup {None}],
           callback' \in [Loops -> {"none", "plain", "close", "destroy"}],
           running' \in [Loops -> {"run", "quit", "stopped"}], serverAlive' \in BOOLEAN,
           held' \subseteq Conns, ucall' \in Functor \cup {None}, sends' \in 0..MaxSends
    PROVE  TypeOK'
<1>1. next_' \in Nat /\ (numThreads_ > 0 => next_' < numThreads_)
  BY DEF TypeOK
<1> QED BY <1>1, TypeStepNext

(* What the types say of one connection and one loop.                      *)
LEMMA Typed ==
    ASSUME TypeOK
    PROVE  /\ queue \in QueueType
           /\ \A c \in Conns : conn[c] \in Connection /\ net[c] \in Endpoint
           /\ \A l \in Loops : /\ queue[l] \in Seq(Functor) /\ left[l] \in Nat
                               /\ Len(queue[l]) \in Nat /\ left[l] <= Len(queue[l])
                               /\ left[l] > 0 => queue[l] # <<>>
<1>1. queue \in QueueType
  BY DEF TypeOK, QueueType
<1>2. \A c \in Conns : conn[c] \in Connection /\ net[c] \in Endpoint
  BY DEF TypeOK
<1>3. ASSUME NEW l \in Loops
      PROVE  /\ queue[l] \in Seq(Functor) /\ left[l] \in Nat
             /\ Len(queue[l]) \in Nat /\ left[l] <= Len(queue[l])
             /\ left[l] > 0 => queue[l] # <<>>
  <2>1. queue[l] \in Seq(Functor) /\ left[l] \in Nat /\ left[l] <= Len(queue[l])
    BY DEF TypeOK
  <2>2. Len(queue[l]) \in Nat /\ (queue[l] = <<>> => Len(queue[l]) = 0)
    BY <2>1, LenProperties
  <2> QED BY <2>1, <2>2
<1> QED BY <1>1, <1>2, <1>3

(* What the network does to an endpoint leaves it one.                     *)
LEMMA EndpointSteps ==
    ASSUME NEW n \in Endpoint, NEW b \in BOOLEAN, NEW p \in {"open", "fin", "rst", "hup"}
    PROVE  /\ [n EXCEPT !.inbound = b] \in Endpoint /\ [n EXCEPT !.writable = b] \in Endpoint
           /\ [n EXCEPT !.wrClosed = b] \in Endpoint /\ [n EXCEPT !.peer = p] \in Endpoint
BY DEF Endpoint

(* So does shutdownWrite.                                                  *)
LEMMA ShutdownEndpoint ==
    ASSUME NEW n \in Endpoint, NEW ch
    PROVE  ShutdownInLoop(n, ch) \in Endpoint
<1>1. PICK b \in BOOLEAN : b = (n.wrClosed \/ ~isWriting(ch))
  OBVIOUS
<1>2. ShutdownInLoop(n, ch) = [n EXCEPT !.wrClosed = b]
  BY <1>1 DEF ShutdownInLoop
<1> QED BY <1>2, EndpointSteps

-----------------------------------------------------------------------------
(* Steps that leave the connections, the queues and the map alone.         *)

(* Steps of the network and the user alone keep the invariant.             *)
LEMMA OnlyOthers ==
    ASSUME Inv, UNCHANGED <<conn, loopVars, mgmtVars, program>>, Pointers', TypeOK'
    PROVE  Inv'
<1>1. UNCHANGED <<queue, left, phase, active, current, callback, connections_, running, serverAlive>>
  BY DEF loopVars, mgmtVars
<1>2. PICK r : r = queue'
  OBVIOUS
<1>3. QueueOK(r) /\ (phase[Base] = "pending" => InRound(r, left'[Base]))
  BY <1>1, <1>2 DEF Inv, Queues
<1>4. \A l \in Loops : QuietTurn(l)
  BY <1>1, StillTurn
<1>5. \A c \in Conns : Calm(c)
  BY SameCalm
<1>6. \A c \in Conns, op \in LifeOps : QueuedIn(r, F(op, c)) <=> QueuedIn(queue, F(op, c))
  BY <1>1, <1>2
<1> QED BY <1>1, <1>2, <1>3, <1>4, <1>5, <1>6, CalmKeeps

(* A step that does not concern the user thread keeps its pointers.        *)
LEMMA SameUser ==
    ASSUME Inv, UNCHANGED <<program, held, ucall>>, \A c \in Conns : GoesOn(c), TypeOK'
    PROVE  Pointers'
BY PointersKept

(* Connections that do not change go on.                                   *)
LEMMA ConnsGoOn ==
    ASSUME UNCHANGED conn
    PROVE  \A c \in Conns : GoesOn(c)
BY SameConn, SameGoesOn

(* The peers and the kernel keep the invariant.                            *)
LEMMA NetworkKeeps ==
    ASSUME Inv, NEW c \in Conns, PeerSends(c) \/ PeerCloses(c) \/ PeerResets(c) \/ Drains(c)
    PROVE  Inv'
<1>1. net[c] \in Endpoint
  BY Typed DEF Inv
<1>2. PICK n \in Endpoint : Network(c, n)
  BY <1>1, EndpointSteps DEF PeerSends, PeerCloses, PeerResets, Drains
<1>3. net' \in [Conns -> Endpoint] /\ UNCHANGED <<conn, loopVars, mgmtVars, userVars>>
  BY <1>2 DEF Network, Inv, TypeOK
<1>4. TypeOK'
  BY <1>3, TypeStep DEF Inv, TypeOK, loopVars, mgmtVars, userVars, QueueType
<1>5. Pointers'
  BY <1>3, <1>4, ConnsGoOn, SameUser DEF userVars
<1> QED BY <1>3, <1>4, <1>5, OnlyOthers DEF userVars

(* Keeping and dropping a pointer, and send of the user thread, keep it.   *)
LEMMA UserCallsKeep ==
    ASSUME Inv, \/ \E l \in Loops : KeepPtr(l)
                \/ \E c \in Conns : UserSend(c) \/ DropPtr(c)
    PROVE  Inv'
<1>1. UNCHANGED <<conn, net, loopVars, mgmtVars, program>>
  BY DEF KeepPtr, UserSend, DropPtr, connVars
<1> DEFINE UserOK ==
             /\ held' \subseteq Conns
             /\ \A c \in held' : c \in held \/ (program.userThread /\ Told(c) # 0)
             /\ sends' \in 0..MaxSends
             /\ ucall' \in Functor \cup {None}
             /\ ucall' # None => ucall' = ucall \/ (ucall'.op \in Raw /\ ucall'.conn \in held)
<1>2. UserOK
  <2>1. ASSUME NEW l \in Loops, KeepPtr(l) PROVE UserOK
    BY <2>1 DEF KeepPtr, Inv, TypeOK, Rounds, LoopOK
  <2>2. ASSUME NEW c \in Conns, UserSend(c) PROVE UserOK
    <3>1. F("send", c) \in Functor /\ F("send", c).op \in Raw /\ F("send", c).conn = c
      BY FunctorFacts DEF Ops, Raw
    <3>2. sends' \in 0..MaxSends
      BY <2>2, TcpServerAssumption DEF UserSend, Inv, TypeOK
    <3> QED BY <2>2, <3>1, <3>2 DEF UserSend, Inv, TypeOK
  <2>3. ASSUME NEW c \in Conns, DropPtr(c) PROVE UserOK
    BY <2>3 DEF DropPtr, Inv, TypeOK
  <2> QED BY <2>1, <2>2, <2>3
<1>3. TypeOK'
  BY <1>1, <1>2, TypeStep DEF Inv, TypeOK, loopVars, mgmtVars, QueueType
<1>4. Pointers'
  BY <1>1, <1>2, <1>3, ConnsGoOn, PointersKept
<1> QED BY <1>1, <1>3, <1>4, OnlyOthers

-----------------------------------------------------------------------------
(* Steps that touch one connection and leave its stage.                    *)

(* Queueing a functor other than the three of a connection's life.         *)
LEMMA PostsPlain ==
    ASSUME NEW q \in QueueType, QueueOK(q), NEW l \in Loops, NEW f \in Functor, Placed(l, f),
           f.op \notin LifeOps, NEW r, r = Post(q, l, f)
    PROVE  /\ r \in QueueType /\ QueueOK(r)
           /\ \A n : InRound(q, n) => InRound(r, n)
           /\ \A c \in Conns, op \in LifeOps : QueuedIn(r, F(op, c)) <=> QueuedIn(q, F(op, c))
           /\ \A m \in Loops : Len(q[m]) <= Len(r[m])
<1>1. f.op # "established" /\ f.op # "destroyed"
  BY DEF LifeOps
<1>2. /\ r \in QueueType /\ QueueOK(r)
      /\ \A g : QueuedIn(r, g) <=> QueuedIn(q, g) \/ g = f
      /\ Len(r[l]) = Len(q[l]) + 1 /\ Len(q[l]) \in Nat
      /\ \A m \in Loops : m # l => r[m] = q[m]
      /\ \A n : InRound(q, n) => InRound(r, n)
  BY <1>1, Posts
<1>3. \A c \in Conns, op \in LifeOps : F(op, c) # f
  BY FunctorFacts
<1>4. ASSUME NEW m \in Loops PROVE Len(q[m]) <= Len(r[m])
  <2>1. q[m] \in Seq(Functor)
    BY DEF QueueType
  <2>2. Len(q[m]) \in Nat
    BY <2>1
  <2> QED BY <1>2, <2>2
<1> QED BY <1>2, <1>3, <1>4

(* A connection with some of its events handled is at the same stage.      *)
LEMMA EventDone ==
    ASSUME Inv, NEW c \in Conns, NEW R, R \subseteq conn[c].revents,
           NEW k, k = [conn[c] EXCEPT !.revents = R]
    PROVE  /\ k \in Connection /\ Stage(k) /\ k.told = conn[c].told /\ k.loop = conn[c].loop
           /\ k.state_ = conn[c].state_ /\ k.ch = conn[c].ch /\ k.revents = R
<1>1. conn[c] \in Connection /\ Stage(conn[c])
  BY Typed DEF Inv, Stages
<1>2. /\ k \in Connection /\ k.told = conn[c].told /\ k.loop = conn[c].loop
      /\ k.state_ = conn[c].state_ /\ k.ch = conn[c].ch /\ k.revents = R
  BY <1>1 DEF Connection
<1>3. Stage(k)
  BY <1>1, <1>2 DEF Stage
<1> QED BY <1>2, <1>3

(* Handling an event leaves all calm.                                      *)
LEMMA EventCalm ==
    ASSUME Inv, NEW c \in Conns, NEW R, R \subseteq conn[c].revents,
           conn' = [conn EXCEPT ![c].revents = R]
    PROVE  conn' \in [Conns -> Connection] /\ \A d \in Conns : Calm(d)
<1>1. PICK k : k = [conn[c] EXCEPT !.revents = R]
  OBVIOUS
<1>2. /\ k \in Connection /\ Stage(k) /\ k.told = conn[c].told /\ k.loop = conn[c].loop
      /\ k.state_ = conn[c].state_ /\ k.ch = conn[c].ch /\ k.revents = R
  BY <1>1, EventDone
<1>3. conn' = [conn EXCEPT ![c] = k]
  BY <1>1
<1>4. conn' \in [Conns -> Connection] /\ conn'[c] = k /\ \A d \in Conns : d # c => conn'[d] = conn[d]
  BY <1>2, <1>3, ZenonT(30) DEF Inv, TypeOK
<1> QED BY <1>2, <1>4, TouchCalm

(* The connection whose event or callback a loop is in.                    *)
LEMMA AtWork ==
    ASSUME Inv, NEW l \in Loops, current[l] \in active \/ callback[l] # "none"
    PROVE  /\ current[l] \in Conns /\ Home(current[l]) = l /\ Told(current[l]) # 0
           /\ current[l] \in active => phase[l] = "events" /\ running[l] # "stopped"
<1>1. current[l] \in Conns
  BY TcpServerAssumption DEF Inv, TypeOK, Rounds, LoopOK
<1>2. Home(current[l]) = l /\ Told(current[l]) # 0
  BY <1>1 DEF Inv, Rounds, LoopOK
<1>3. current[l] \in active => phase[l] = "events"
  BY <1>1, <1>2 DEF Inv, Rounds, EventsOK
<1>4. phase[l] = "events" => running[l] # "stopped"
  BY DEF Inv, Rounds, LoopOK
<1> QED BY <1>1, <1>2, <1>3, <1>4

(* Work of a loop on one of its connections, at the same stage, keeps the  *)
(* invariant.                                                              *)
LEMMA WorkKeeps ==
    ASSUME Inv, NEW l \in Loops, NEW c \in Conns, Home(c) = l, Told(c) # 0,
           UNCHANGED <<program, phase, active, connections_, next_, running, serverAlive, held, ucall>>,
           sends' \in 0..MaxSends,
           conn' \in [Conns -> Connection], net' \in [Conns -> Endpoint], \A d \in Conns : Calm(d),
           \/ UNCHANGED <<current, callback>>
           \/ /\ running[l] # "stopped" /\ callback[l] \in {"none", "plain"}
              /\ \E cur \in {c, None}, cb \in {"none", "plain"} :
                    /\ cb = "plain" => cur = c
                    /\ current' = [current EXCEPT ![l] = cur]
                    /\ callback' = [callback EXCEPT ![l] = cb],
           NEW q \in QueueType, QueueOK(q),
           \A d \in Conns, op \in LifeOps : QueuedIn(q, F(op, d)) <=> QueuedIn(queue, F(op, d)),
           left' \in [Loops -> Nat], \A m \in Loops : left'[m] <= Len(q[m]),
           \A m \in Loops : running[m] = "stopped" => left'[m] = left[m],
           phase[Base] = "pending" => InRound(q, left'[Base]),
           queue' = q \/ queue' = Post(q, l, F("writeComplete", c))
    PROVE  Inv'
<1>1. \A m \in Loops : QuietTurn(m)
  <2> SUFFICES ASSUME NEW m \in Loops PROVE QuietTurn(m)
    OBVIOUS
  <2>1. CASE current'[m] = current[m] /\ callback'[m] = callback[m]
    BY <2>1, StillTurn
  <2>2. CASE ~(current'[m] = current[m] /\ callback'[m] = callback[m])
    <3>1. m = l /\ running[l] # "stopped" /\ callback[l] \in {"none", "plain"}
      BY <2>2 DEF Inv, TypeOK
    <3>2. PICK cur \in {c, None}, cb \in {"none", "plain"} :
             /\ cb = "plain" => cur = c
             /\ current'[l] = cur /\ callback'[l] = cb
      BY <2>2 DEF Inv, TypeOK
    <3>3. cur \in Conns => cur = c
      BY TcpServerAssumption
    <3> QED BY <3>1, <3>2, <3>3 DEF QuietTurn
  <2> QED BY <2>1, <2>2
<1>2. PICK r : r = queue'
  OBVIOUS
<1>3. /\ r \in QueueType /\ QueueOK(r)
      /\ phase[Base] = "pending" => InRound(r, left'[Base])
      /\ \A d \in Conns, op \in LifeOps : QueuedIn(r, F(op, d)) <=> QueuedIn(queue, F(op, d))
      /\ \A m \in Loops : left'[m] <= Len(r[m])
  <2>1. CASE r = q
    BY <2>1
  <2>2. CASE r = Post(q, l, F("writeComplete", c))
    <3>1. PICK f \in Functor : f = F("writeComplete", c)
      BY FunctorFacts DEF Ops
    <3>2. f.op = "writeComplete" /\ f.conn = c
      BY <3>1, FunctorFacts
    <3>3. Created(c)
      BY DEF Inv, Stages, Stage, Created, Told
    <3>4. Placed(l, f) /\ f.op \notin LifeOps
      BY <3>2, <3>3 DEF Placed, LifeOps, Raw
    <3>5. r = Post(q, l, f)
      BY <2>2, <3>1
    <3>6. /\ r \in QueueType /\ QueueOK(r)
          /\ \A n : InRound(q, n) => InRound(r, n)
          /\ \A d \in Conns, op \in LifeOps : QueuedIn(r, F(op, d)) <=> QueuedIn(q, F(op, d))
          /\ \A m \in Loops : Len(q[m]) <= Len(r[m])
      BY <3>4, <3>5, PostsPlain
    <3>7. ASSUME NEW m \in Loops PROVE left'[m] <= Len(r[m])
      <4>1. q[m] \in Seq(Functor) /\ r[m] \in Seq(Functor)
        BY <3>6 DEF QueueType
      <4>2. Len(q[m]) \in Nat /\ Len(r[m]) \in Nat /\ left'[m] \in Nat
        BY <4>1
      <4> QED BY <3>6, <4>2
    <3> QED BY <3>6, <3>7
  <2> QED BY <1>2, <2>1, <2>2
<1>4. current' \in [Loops -> Conns \cup {None}]
      /\ callback' \in [Loops -> {"none", "plain", "close", "destroy"}]
  <2>1. CASE UNCHANGED <<current, callback>>
    BY <2>1 DEF Inv, TypeOK
  <2>2. CASE ~UNCHANGED <<current, callback>>
    <3>1. PICK cur \in {c, None}, cb \in {"none", "plain"} :
             /\ current' = [current EXCEPT ![l] = cur]
             /\ callback' = [callback EXCEPT ![l] = cb]
      BY <2>2
    <3>2. current' \in [Loops -> Conns \cup {None}]
      BY <3>1 DEF Inv, TypeOK
    <3>3. callback' \in [Loops -> {"none", "plain", "close", "destroy"}]
      BY <3>1 DEF Inv, TypeOK
    <3> QED BY <3>2, <3>3
  <2> QED BY <2>1, <2>2
<1>5. TypeOK'
  BY <1>2, <1>3, <1>4, TypeStep DEF Inv, TypeOK
<1>6. \A d \in Conns : GoesOn(d)
  BY SameGoesOn DEF Calm
<1>7. Pointers'
  BY <1>5, <1>6, SameUser
<1> QED BY <1>1, <1>2, <1>3, <1>5, <1>7, CalmKeeps

(* The same when no functor is taken out of the queue.                     *)
LEMMA WorkHere ==
    ASSUME Inv, NEW l \in Loops, NEW c \in Conns, Home(c) = l, Told(c) # 0,
           UNCHANGED <<program, left, phase, active, connections_, next_, running, serverAlive,
                       held, ucall>>,
           sends' \in 0..MaxSends,
           conn' \in [Conns -> Connection], net' \in [Conns -> Endpoint], \A d \in Conns : Calm(d),
           \/ UNCHANGED <<current, callback>>
           \/ /\ running[l] # "stopped" /\ callback[l] \in {"none", "plain"}
              /\ \E cur \in {c, None}, cb \in {"none", "plain"} :
                    /\ cb = "plain" => cur = c
                    /\ current' = [current EXCEPT ![l] = cur]
                    /\ callback' = [callback EXCEPT ![l] = cb],
           queue' = queue \/ queue' = Post(queue, l, F("writeComplete", c))
    PROVE  Inv'
<1>1. PICK q : q = queue
  OBVIOUS
<1>2. /\ q \in QueueType /\ QueueOK(q)
      /\ \A d \in Conns, op \in LifeOps : QueuedIn(q, F(op, d)) <=> QueuedIn(queue, F(op, d))
      /\ left' \in [Loops -> Nat] /\ \A m \in Loops : left'[m] <= Len(q[m])
      /\ phase[Base] = "pending" => InRound(q, left'[Base])
      /\ queue' = q \/ queue' = Post(q, l, F("writeComplete", c))
  BY <1>1 DEF Inv, TypeOK, QueueType, Queues
<1>3. \A m \in Loops : running[m] = "stopped" => left'[m] = left[m]
  OBVIOUS
<1> QED BY <1>2, <1>3, WorkKeeps

(* handleError and handleRead keep the invariant.                          *)
LEMMA HandlersKeep ==
    ASSUME Inv, NEW l \in Loops, HandleError(l) \/ HandleRead(l)
    PROVE  Inv'
<1>1. PICK c : c = current[l]
  OBVIOUS
<1>2. c \in active /\ callback[l] = "none"
  BY <1>1 DEF HandleError, HandleRead, Handling
<1>3. c \in Conns /\ Home(c) = l /\ Told(c) # 0 /\ phase[l] = "events" /\ running[l] # "stopped"
  BY <1>1, <1>2, AtWork
<1>4. /\ UNCHANGED <<program, left, phase, active, connections_, next_, running, serverAlive,
                     held, ucall, current, queue>>
      /\ sends' \in 0..MaxSends
  BY DEF HandleError, HandleRead, loopVars, mgmtVars, userVars, Inv, TypeOK
<1>5. PICK R \in SUBSET conn[c].revents : conn' = [conn EXCEPT ![c].revents = R]
  <2>1. conn[c].revents \in SUBSET {"IN", "OUT", "HUP", "ERR"}
    BY <1>3, Typed DEF Inv, Connection
  <2> QED BY <1>1, <2>1 DEF HandleError, HandleRead
<1>8. conn' \in [Conns -> Connection] /\ \A d \in Conns : Calm(d)
  BY <1>3, <1>5, EventCalm
<1>9. net' \in [Conns -> Endpoint]
  <2>1. net[c] \in Endpoint
    BY <1>3, Typed DEF Inv
  <2>2. net[c].peer \in {"open", "fin", "rst", "hup"}
    BY <2>1 DEF Endpoint
  <2>3. \E n \in Endpoint : net' = [net EXCEPT ![c] = n]
    BY <1>1, <2>1, <2>2, EndpointSteps DEF HandleError, HandleRead
  <2> QED BY <1>3, <2>3 DEF Inv, TypeOK
<1>10. \/ UNCHANGED <<current, callback>>
       \/ \E cur \in {c, None}, cb \in {"none", "plain"} :
             /\ cb = "plain" => cur = c
             /\ current' = [current EXCEPT ![l] = cur]
             /\ callback' = [callback EXCEPT ![l] = cb]
  <2>1. current' = [current EXCEPT ![l] = c]
    BY <1>1, <1>4 DEF Inv, TypeOK
  <2>2. UNCHANGED callback \/ callback' = [callback EXCEPT ![l] = "plain"]
    BY DEF HandleError, HandleRead, loopVars
  <2> QED BY <1>4, <2>1, <2>2
<1> QED BY <1>2, <1>3, <1>4, <1>8, <1>9, <1>10, WorkHere

(* handleWrite keeps the invariant.                                        *)
LEMMA HandleWriteKeeps ==
    ASSUME Inv, NEW l \in Loops, HandleWrite(l)
    PROVE  Inv'
<1>1. PICK c : c = current[l]
  OBVIOUS
<1>2. c \in active /\ callback[l] = "none"
  BY <1>1 DEF HandleWrite, Handling
<1>3. c \in Conns /\ Home(c) = l /\ Told(c) # 0
  BY <1>1, <1>2, AtWork
<1>4. /\ UNCHANGED <<program, left, phase, active, connections_, next_, running, serverAlive,
                     held, ucall, current, callback>>
      /\ sends' \in 0..MaxSends
  BY DEF HandleWrite, mgmtVars, userVars, Inv, TypeOK
<1>5. conn[c] \in Connection /\ Stage(conn[c]) /\ net[c] \in Endpoint /\ conn[c].ch \in ChannelType
  BY <1>3, Typed DEF Inv, Stages, Connection
<1>6. PICK R : R = conn[c].revents \ {"OUT"} /\ R \subseteq conn[c].revents
  OBVIOUS
<1>7. PICK k : k = [conn[c] EXCEPT !.revents = R]
  OBVIOUS
<1>8. /\ k \in Connection /\ Stage(k) /\ k.told = conn[c].told /\ k.loop = conn[c].loop
      /\ k.state_ = conn[c].state_ /\ k.ch = conn[c].ch /\ k.revents = R
  <2>1. /\ k \in Connection /\ k.told = conn[c].told /\ k.loop = conn[c].loop
        /\ k.state_ = conn[c].state_ /\ k.ch = conn[c].ch /\ k.revents = R
    BY <1>5, <1>6, <1>7 DEF Connection
  <2> QED BY <1>5, <2>1 DEF Stage
<1>9. CASE conn' = [conn EXCEPT ![c].revents = R] /\ UNCHANGED queue /\ net' \in [Conns -> Endpoint]
  <2>1. conn' \in [Conns -> Connection] /\ \A d \in Conns : Calm(d)
    BY <1>3, <1>6, <1>9, EventCalm
  <2> QED BY <1>3, <1>4, <1>9, <2>1, WorkHere
<1> DEFINE gone == [k EXCEPT !.out = FALSE, !.ch = disableWriting(k.ch)]
<1>10. CASE /\ isWriting(k.ch)
            /\ conn' = [conn EXCEPT ![c] = gone]
            /\ queue' = queue \/ queue' = Post(queue, l, F("writeComplete", c))
            /\ net' \in [Conns -> Endpoint]
  <2>1. k.told = 1 /\ Listening(k.ch)
    BY <1>8, <1>10 DEF isWriting, Stage, Quiet, Unregistered
  <2>2. disableWriting(k.ch) \in ChannelType /\ Listening(disableWriting(k.ch))
    BY <1>5, <1>8, <2>1, ChannelSteps
  <2>3. PICK g : g = gone
    OBVIOUS
  <2>4. /\ g \in Connection /\ g.told = k.told /\ g.loop = k.loop /\ g.state_ = k.state_
        /\ g.ch = disableWriting(k.ch) /\ g.revents = R
    BY <1>8, <2>2, <2>3 DEF Connection
  <2>5. conn' \in [Conns -> Connection] /\ conn'[c] = g /\ \A d \in Conns : d # c => conn'[d] = conn[d]
    BY <1>3, <1>10, <2>3, <2>4 DEF Inv, TypeOK
  <2>6. Stage(g)
    BY <1>8, <2>1, <2>2, <2>4 DEF Stage, Unregistered
  <2>7. g.ch.index = "kNew" <=> conn[c].ch.index = "kNew"
    BY <1>8, <2>1, <2>2, <2>4 DEF Listening
  <2>8. \A d \in Conns : Calm(d)
    <3>1. g.told = conn[c].told /\ g.loop = conn[c].loop /\ g.state_ = conn[c].state_
          /\ g.revents \subseteq conn[c].revents
      BY <1>6, <1>8, <2>4
    <3> QED BY <1>3, <2>5, <2>6, <2>7, <3>1, TouchCalm
  <2> QED BY <1>3, <1>4, <1>10, <2>5, <2>8, WorkHere
<1>11. net' \in [Conns -> Endpoint]
  <2>1. \A n \in Endpoint : [net EXCEPT ![c] = n] \in [Conns -> Endpoint]
    BY DEF Inv, TypeOK
  <2>2. ASSUME NEW ch PROVE [net EXCEPT ![c] = ShutdownInLoop(@, ch)] \in [Conns -> Endpoint]
    <3>1. ShutdownInLoop(net[c], ch) \in Endpoint
      BY <1>5, ShutdownEndpoint
    <3> QED BY <2>1, <3>1
  <2>3. [net EXCEPT ![c].writable = FALSE] \in [Conns -> Endpoint]
    BY <1>5, <2>1, EndpointSteps
  <2>4. net \in [Conns -> Endpoint]
    BY DEF Inv, TypeOK
  <2> QED BY <1>1, <2>2, <2>3, <2>4 DEF HandleWrite
<1> QED
  <2>1. [conn EXCEPT ![c] = [conn[c] EXCEPT !.revents = @ \ {"OUT"}]] = [conn EXCEPT ![c].revents = R]
    BY <1>6
  <2>2. k = [conn[c] EXCEPT !.revents = @ \ {"OUT"}]
    BY <1>6, <1>7
  <2>3. \/ conn' = [conn EXCEPT ![c] = k] /\ UNCHANGED queue
        \/ /\ isWriting(k.ch)
           /\ conn' = [conn EXCEPT ![c] = gone]
           /\ queue' = queue \/ queue' = Post(queue, l, F("writeComplete", c))
    BY <1>1, <2>2 DEF HandleWrite
  <2> QED BY <1>9, <1>10, <1>11, <2>1, <2>2, <2>3

(* send in a callback keeps the invariant.                                 *)
LEMMA InLoopSendKeeps ==
    ASSUME Inv, NEW l \in Loops, NEW fits \in BOOLEAN, InLoopSend(l, fits)
    PROVE  Inv'
<1>1. PICK c : c = current[l]
  OBVIOUS
<1>2. c \in Conns /\ Home(c) = l /\ Told(c) # 0
  BY <1>1, AtWork DEF InLoopSend
<1>3. /\ UNCHANGED <<program, left, phase, active, connections_, next_, running, serverAlive,
                     held, ucall, current, callback>>
      /\ conn[c].state_ = "kConnected" /\ SendInLoop(c, fits, queue)
  BY <1>1 DEF InLoopSend, mgmtVars
<1>4. sends' \in 0..MaxSends
  BY TcpServerAssumption DEF InLoopSend, Inv, TypeOK
<1>5. Told(c) = 1
  BY <1>2, <1>3 DEF Inv, Stages, Stage, Told
<1>6. PICK q : q = queue
  OBVIOUS
<1>7. /\ conn' \in [Conns -> Connection] /\ net' \in [Conns -> Endpoint]
      /\ \A d \in Conns : Calm(d)
      /\ queue' = q \/ queue' = Post(q, Home(c), F("writeComplete", c))
  BY <1>2, <1>3, <1>5, <1>6, SendCalm
<1> QED BY <1>2, <1>3, <1>4, <1>6, <1>7, WorkHere

(* shutdown() leaves all calm, a late one too.                             *)
LEMMA ShutdownCalm ==
    ASSUME Inv, NEW c \in Conns, Shutdown(c)
    PROVE  conn' \in [Conns -> Connection] /\ \A d \in Conns : Calm(d)
<1>1. conn[c] \in Connection /\ Stage(conn[c])
  BY Typed DEF Inv, Stages
<1>2. CASE conn[c].state_ # "kDisconnected"
  <2>1. UNCHANGED conn
    BY <1>1, <1>2 DEF Shutdown, ShutdownApplies, Inv, TypeOK, Connection
  <2> QED BY <2>1, SameCalm DEF Inv, TypeOK
<1>3. CASE conn[c].state_ = "kDisconnected"
  <2>1. PICK k : k = [conn[c] EXCEPT !.state_ = "kDisconnecting"]
    OBVIOUS
  <2>2. /\ k \in Connection /\ k.told = conn[c].told /\ k.loop = conn[c].loop
        /\ k.state_ = "kDisconnecting" /\ k.ch = conn[c].ch /\ k.revents = conn[c].revents
    BY <1>1, <2>1 DEF Connection, StateE
  <2>3. Stage(k)
    BY <1>1, <1>3, <2>2 DEF Stage
  <2>4. conn' = [conn EXCEPT ![c] = k] /\ program.lateShutdown
    BY <1>3, <2>1 DEF Shutdown, ShutdownApplies
  <2>5. conn' \in [Conns -> Connection] /\ conn'[c] = k /\ \A d \in Conns : d # c => conn'[d] = conn[d]
    BY <2>2, <2>4 DEF Inv, TypeOK
  <2>6. k.revents \subseteq conn[c].revents /\ (k.ch.index = "kNew" <=> conn[c].ch.index = "kNew")
    BY <2>2
  <2> QED BY <1>3, <2>2, <2>3, <2>4, <2>5, <2>6, TouchCalm
<1> QED BY <1>2, <1>3

(* shutdown() in a callback keeps the invariant.                           *)
LEMMA InLoopShutdownKeeps ==
    ASSUME Inv, NEW l \in Loops, InLoopShutdown(l)
    PROVE  Inv'
<1>1. PICK c : c = current[l]
  OBVIOUS
<1>2. c \in Conns /\ Home(c) = l /\ Told(c) # 0
  BY <1>1, AtWork DEF InLoopShutdown
<1>3. /\ UNCHANGED <<program, left, phase, active, connections_, next_, running, serverAlive,
                     held, ucall, current, callback, queue>>
      /\ sends' \in 0..MaxSends
      /\ Shutdown(c)
  BY <1>1 DEF InLoopShutdown, loopVars, mgmtVars, userVars, Inv, TypeOK
<1>4. conn' \in [Conns -> Connection] /\ \A d \in Conns : Calm(d)
  BY <1>2, <1>3, ShutdownCalm
<1>5. net' \in [Conns -> Endpoint]
  <2>1. ShutdownInLoop(net[c], conn[c].ch) \in Endpoint
    BY <1>2, ShutdownEndpoint, Typed DEF Inv
  <2>2. net' = net \/ net' = [net EXCEPT ![c] = ShutdownInLoop(net[c], conn[c].ch)]
    BY <1>1 DEF InLoopShutdown
  <2> QED BY <2>1, <2>2 DEF Inv, TypeOK
<1> QED BY <1>2, <1>3, <1>4, <1>5, WorkHere

(* Channel::handleEvent under its tie guard keeps the invariant.           *)
LEMMA BeginEventKeeps ==
    ASSUME Inv, NEW l \in Loops, NEW c \in Conns, BeginEvent(l, c)
    PROVE  Inv'
<1>1. Home(c) = l /\ Told(c) # 0 /\ callback[l] = "none" /\ phase[l] = "events"
  BY DEF BeginEvent, Idle, Inv, Rounds, EventsOK, Home
<1>2. running[l] # "stopped"
  BY <1>1 DEF Inv, Rounds, LoopOK
<1>3. /\ UNCHANGED <<program, left, phase, active, connections_, next_, running, serverAlive,
                     held, ucall, callback, queue, conn, net>>
      /\ sends' \in 0..MaxSends
      /\ current' = [current EXCEPT ![l] = c]
  BY DEF BeginEvent, connVars, mgmtVars, userVars, Inv, TypeOK
<1>4. callback' = [callback EXCEPT ![l] = "none"]
  BY <1>1, <1>3 DEF Inv, TypeOK
<1>5. conn' \in [Conns -> Connection] /\ net' \in [Conns -> Endpoint] /\ \A d \in Conns : Calm(d)
  BY <1>3, SameCalm DEF Inv, TypeOK
<1>6. \E cur \in {c, None}, cb \in {"none", "plain"} :
          /\ cb = "plain" => cur = c
          /\ current' = [current EXCEPT ![l] = cur]
          /\ callback' = [callback EXCEPT ![l] = cb]
  BY <1>3, <1>4
<1> QED BY <1>1, <1>2, <1>3, <1>5, <1>6, WorkHere

(* The end of a message or write-complete callback keeps the invariant.    *)
LEMMA EndPlainKeeps ==
    ASSUME Inv, NEW l \in Loops, EndCallback(l), callback[l] = "plain"
    PROVE  Inv'
<1>1. PICK c : c = current[l]
  OBVIOUS
<1>2. c \in Conns /\ Home(c) = l /\ Told(c) # 0
  BY <1>1, AtWork
<1>3. running[l] # "stopped"
  BY DEF Inv, Rounds, LoopOK
<1>4. UNCHANGED <<program, left, phase, active, connections_, next_, running, serverAlive,
                  held, ucall, sends, queue, conn, net>>
  BY DEF EndCallback, userVars
<1>5. /\ callback' = [callback EXCEPT ![l] = "none"]
      /\ \E cur \in {c, None} : current' = [current EXCEPT ![l] = cur]
  BY <1>1 DEF EndCallback
<1>6. conn' \in [Conns -> Connection] /\ net' \in [Conns -> Endpoint] /\ \A d \in Conns : Calm(d)
      /\ sends' \in 0..MaxSends
  BY <1>4, SameCalm DEF Inv, TypeOK
<1>7. \E cur \in {c, None}, cb \in {"none", "plain"} :
          /\ cb = "plain" => cur = c
          /\ current' = [current EXCEPT ![l] = cur]
          /\ callback' = [callback EXCEPT ![l] = cb]
  BY <1>5
<1> QED BY <1>2, <1>3, <1>4, <1>6, <1>7, WorkHere

-----------------------------------------------------------------------------
(* doPendingFunctors takes a functor out of the queue.                     *)
Taking(l) == phase[l] = "pending" /\ left[l] > 0 /\ left' = [left EXCEPT ![l] = @ - 1]

Taken(l, f, q) ==
    /\ f \in Functor /\ f.conn \in Conns /\ Placed(l, f) /\ QueuedIn(queue, f)
    /\ q \in QueueType /\ QueueOK(q)
    /\ \A g : QueuedIn(q, g) => QueuedIn(queue, g)
    /\ \A g : QueuedIn(queue, g) /\ g # f => QueuedIn(q, g)
    /\ f.op \in LifeOps => ~QueuedIn(q, f)
    /\ f.op = "destroyed" => ~Establishing(f.conn)
    /\ left' \in [Loops -> Nat] /\ \A m \in Loops : left'[m] <= Len(q[m])
    /\ running[l] # "stopped"
    /\ \A m \in Loops : m # l => left'[m] = left[m]
    /\ phase[Base] = "pending" => InRound(q, left'[Base])

(* It is the first functor of the queue and of the round.                  *)
LEMMA TakesOne ==
    ASSUME Inv, NEW l \in Loops, Taking(l),
           NEW f, f = Head(queue[l]), NEW q, q = [queue EXCEPT ![l] = Tail(@)]
    PROVE  Taken(l, f, q)
<1>1. /\ queue \in QueueType /\ QueueOK(queue) /\ queue[l] # <<>>
      /\ left[l] \in Nat /\ Len(queue[l]) \in Nat /\ left[l] <= Len(queue[l])
  BY Typed DEF Inv, Queues, Taking
<1>2. PICK p : p = queue
  OBVIOUS
<1>3. p \in QueueType /\ QueueOK(p) /\ p[l] # <<>> /\ f = Head(p[l]) /\ q = [p EXCEPT ![l] = Tail(@)]
  BY <1>1, <1>2
<1>4. Without(p, l, f, q)
  BY <1>3, Pops
<1>5. f \in Functor /\ Placed(l, f) /\ QueuedIn(p, f) /\ q \in QueueType /\ QueueOK(q)
  BY <1>4 DEF Without
<1>6. /\ \A g : QueuedIn(q, g) => QueuedIn(p, g)
      /\ \A g : QueuedIn(p, g) /\ g # f => QueuedIn(q, g)
      /\ f.op \in LifeOps => ~QueuedIn(q, f)
      /\ f.op = "destroyed" => ~QueuedIn(p, F("established", f.conn))
  BY <1>4 DEF Without
<1>7. Len(q[l]) = Len(p[l]) - 1 /\ \A m \in Loops : m # l => q[m] = p[m]
  BY <1>4 DEF Without
<1>8. \A n \in Nat : n > 0 /\ InRound(p, n) => InRound(q, IF l = Base THEN n - 1 ELSE n)
  BY <1>4 DEF Without
<1>9. left' \in [Loops -> Nat] /\ left'[l] = left[l] - 1 /\ \A m \in Loops : m # l => left'[m] = left[m]
  BY <1>1 DEF Taking, Inv, TypeOK
<1>10. ASSUME NEW m \in Loops PROVE left'[m] <= Len(q[m])
  <2>1. CASE m = l
    BY <1>1, <1>2, <1>7, <1>9, <2>1
  <2>2. CASE m # l
    BY <1>2, <1>7, <1>9, <2>2 DEF Inv, TypeOK
  <2> QED BY <2>1, <2>2
<1>11. running[l] # "stopped"
  <2>1. running[l] = "stopped" => left[l] = 0
    BY DEF Inv, Rounds, LoopOK
  <2> QED BY <1>1, <2>1 DEF Taking
<1>12. ASSUME phase[Base] = "pending" PROVE InRound(q, left'[Base])
  <2>1. InRound(p, left[Base]) /\ left[Base] \in Nat /\ Base \in Loops
    BY <1>2, <1>12, Bases DEF Inv, Queues, TypeOK
  <2>2. CASE l = Base
    <3>1. left[Base] > 0
      BY <2>2 DEF Taking
    <3> QED BY <1>8, <1>9, <2>1, <2>2, <3>1
  <2>3. CASE l # Base
    <3>1. q[Base] = p[Base] /\ left'[Base] = left[Base]
      BY <1>7, <1>9, <2>1, <2>3
    <3> QED BY <2>1, <3>1 DEF InRound
  <2> QED BY <2>2, <2>3
<1>13. f.conn \in Conns
  BY <1>5, FunctorFacts
<1> QED BY <1>2, <1>5, <1>6, <1>9, <1>10, <1>11, <1>12, <1>13 DEF Taken, Establishing

(* A functor other than the three of a connection's life.                  *)
LEMMA TakesPlain ==
    ASSUME NEW l \in Loops, NEW q, NEW f, Taken(l, f, q), f.op \notin LifeOps
    PROVE  /\ \A d \in Conns, op \in LifeOps : QueuedIn(q, F(op, d)) <=> QueuedIn(queue, F(op, d))
           /\ \A m \in Loops : running[m] = "stopped" => left'[m] = left[m]
<1>1. \A d \in Conns, op \in LifeOps : F(op, d) # f
  BY FunctorFacts
<1> QED BY <1>1 DEF Taken

(* The write-complete callback and shutdownInLoop keep the invariant.      *)
LEMMA RunPlainKeeps ==
    ASSUME Inv, NEW l \in Loops, RunFunctor(l), Head(queue[l]).op \in {"writeComplete", "shutdown"}
    PROVE  Inv'
<1>1. PICK q, f : q = [queue EXCEPT ![l] = Tail(@)] /\ f = Head(queue[l])
  OBVIOUS
<1>2. Taking(l) /\ f.op \notin LifeOps /\ f.op # "remove" /\ callback[l] = "none"
  BY <1>1 DEF RunFunctor, Taking, LifeOps, Idle
<1>3. Taken(l, f, q)
  BY <1>1, <1>2, TakesOne
<1>4. /\ \A d \in Conns, op \in LifeOps : QueuedIn(q, F(op, d)) <=> QueuedIn(queue, F(op, d))
      /\ \A m \in Loops : running[m] = "stopped" => left'[m] = left[m]
  BY <1>2, <1>3, TakesPlain
<1>5. PICK c \in Conns : c = f.conn
  BY <1>3 DEF Taken
<1>6. /\ UNCHANGED <<program, phase, active, connections_, next_, running, serverAlive,
                     held, ucall, conn>>
      /\ sends' \in 0..MaxSends /\ queue' = q
  BY <1>1 DEF RunFunctor, userVars, Inv, TypeOK
<1>7. conn' \in [Conns -> Connection] /\ \A d \in Conns : Calm(d)
  BY <1>6, SameCalm DEF Inv, TypeOK
<1>8. net' \in [Conns -> Endpoint]
  <2>1. ShutdownInLoop(net[c], conn[c].ch) \in Endpoint
    BY ShutdownEndpoint, Typed DEF Inv
  <2>2. net' = net \/ net' = [net EXCEPT ![c] = ShutdownInLoop(net[c], conn[c].ch)]
    BY <1>1, <1>5 DEF RunFunctor
  <2> QED BY <2>1, <2>2 DEF Inv, TypeOK
<1>9. \/ UNCHANGED <<current, callback>>
      \/ \E cur \in {c, None}, cb \in {"none", "plain"} :
            /\ cb = "plain" => cur = c
            /\ current' = [current EXCEPT ![l] = cur]
            /\ callback' = [callback EXCEPT ![l] = cb]
  BY <1>1, <1>5 DEF RunFunctor
<1>10. Home(c) = l /\ Told(c) # 0
  BY <1>1, <1>2, <1>3, <1>5 DEF Taken, Placed, Raw
<1>11. /\ q \in QueueType /\ QueueOK(q)
       /\ left' \in [Loops -> Nat] /\ \A m \in Loops : left'[m] <= Len(q[m])
       /\ running[l] # "stopped"
       /\ phase[Base] = "pending" => InRound(q, left'[Base])
  BY <1>3 DEF Taken
<1> QED BY <1>2, <1>4, <1>6, <1>7, <1>8, <1>9, <1>10, <1>11, WorkKeeps

(* sendInLoop of the user thread: no send outlives handleClose as anything *)
(* but a send to a connection that is kDisconnected.                       *)
LEMMA RunSendKeeps ==
    ASSUME Orderly, Inv, NEW l \in Loops, NEW fits \in BOOLEAN, RunSend(l, fits)
    PROVE  Inv'
<1>1. PICK q, f : q = [queue EXCEPT ![l] = Tail(@)] /\ f = Head(queue[l])
  OBVIOUS
<1>2. Taking(l) /\ f.op = "send" /\ f.op \notin LifeOps
  BY <1>1 DEF RunSend, Taking, LifeOps
<1>3. Taken(l, f, q)
  BY <1>1, <1>2, TakesOne
<1>4. /\ \A d \in Conns, op \in LifeOps : QueuedIn(q, F(op, d)) <=> QueuedIn(queue, F(op, d))
      /\ \A m \in Loops : running[m] = "stopped" => left'[m] = left[m]
  BY <1>2, <1>3, TakesPlain
<1>5. PICK c \in Conns : c = f.conn
  BY <1>3 DEF Taken
<1>6. Home(c) = l /\ Told(c) # 0 /\ program.userThread
  BY <1>2, <1>3, <1>5 DEF Taken, Placed, Raw
<1>7. Told(c) = 1 \/ conn[c].state_ = "kDisconnected"
  <2>1. ~program.lateShutdown
    BY <1>6 DEF Orderly
  <2> QED BY <1>6, <2>1 DEF Inv, Stages, Stage, Told
<1>8. /\ UNCHANGED <<program, phase, active, connections_, next_, running, serverAlive,
                     held, ucall, current, callback>>
      /\ sends' \in 0..MaxSends /\ SendInLoop(c, fits, q)
  BY <1>1, <1>5 DEF RunSend, mgmtVars, userVars, Inv, TypeOK
<1>9. /\ conn' \in [Conns -> Connection] /\ net' \in [Conns -> Endpoint]
      /\ \A d \in Conns : Calm(d)
      /\ queue' = q \/ queue' = Post(q, l, F("writeComplete", c))
  BY <1>6, <1>7, <1>8, SendCalm
<1>10. /\ q \in QueueType /\ QueueOK(q)
       /\ left' \in [Loops -> Nat] /\ \A m \in Loops : left'[m] <= Len(q[m])
       /\ phase[Base] = "pending" => InRound(q, left'[Base])
  BY <1>3 DEF Taken
<1> QED BY <1>4, <1>6, <1>8, <1>9, <1>10, WorkKeeps

(* shutdown() of the user thread keeps the invariant.                      *)
LEMMA UserShutdownKeeps ==
    ASSUME Inv, NEW c \in Conns, UserShutdown(c)
    PROVE  Inv'
<1>1. UNCHANGED <<net, queue, left, phase, active, current, callback, connections_, next_, running,
                  serverAlive, program, held, sends>>
  BY DEF UserShutdown, loopVars, mgmtVars
<1>2. conn' \in [Conns -> Connection] /\ \A d \in Conns : Calm(d)
  BY ShutdownCalm DEF UserShutdown
<1>3. ucall' = None \/ ucall' = F("shutdown", c)
  BY DEF UserShutdown
<1>4. F("shutdown", c) \in Functor /\ F("shutdown", c).op \in Raw /\ F("shutdown", c).conn = c
  BY FunctorFacts DEF Ops, Raw
<1>5. ucall' \in Functor \cup {None}
  BY <1>3, <1>4
<1>6. TypeOK'
  BY <1>1, <1>2, <1>5, TypeStep DEF Inv, TypeOK, QueueType
<1>7. \A d \in Conns : GoesOn(d)
  BY <1>2, SameGoesOn DEF Calm
<1>8. ucall' # None => ucall' = ucall \/ (ucall'.op \in Raw /\ ucall'.conn \in held)
  BY <1>3, <1>4 DEF UserShutdown
<1>9. Pointers'
  BY <1>1, <1>6, <1>7, <1>8, PointersKept
<1>10. PICK r : r = queue'
  OBVIOUS
<1>11. /\ QueueOK(r) /\ (phase[Base] = "pending" => InRound(r, left'[Base]))
       /\ \A d \in Conns, op \in LifeOps : QueuedIn(r, F(op, d)) <=> QueuedIn(queue, F(op, d))
  BY <1>1, <1>10 DEF Inv, Queues
<1>12. \A m \in Loops : QuietTurn(m)
  BY <1>1, StillTurn
<1> QED BY <1>1, <1>2, <1>6, <1>9, <1>10, <1>11, <1>12, CalmKeeps

(* The user thread's queueInLoop keeps the invariant.                      *)
LEMMA UserPushKeeps ==
    ASSUME Inv, UserPush
    PROVE  Inv'
<1>1. UNCHANGED <<conn, net, left, phase, active, current, callback, connections_, next_, running,
                  serverAlive, program, held, sends>>
  BY DEF UserPush, connVars, mgmtVars
<1>2. PICK f \in Functor : f = ucall
  BY DEF UserPush, Inv, TypeOK
<1>3. f.op \in Raw /\ program.userThread /\ Told(f.conn) # 0 /\ f.conn \in Conns
  BY <1>2, FunctorFacts DEF UserPush, Inv, Pointers
<1>4. PICK l : l = Home(f.conn)
  OBVIOUS
<1>5. l \in Loops
  BY <1>3, <1>4, Typed DEF Inv, Connection, Home
<1>6. Placed(l, f) /\ f.op \notin LifeOps
  BY <1>3, <1>4 DEF Placed, Raw, LifeOps, Inv, Stages, Stage, Told, Created
<1>7. PICK q, r : q = queue /\ r = Post(q, l, f)
  OBVIOUS
<1>8. q \in QueueType /\ QueueOK(q)
  BY <1>7, Typed DEF Inv, Queues
<1>9. /\ r \in QueueType /\ QueueOK(r)
      /\ \A n : InRound(q, n) => InRound(r, n)
      /\ \A c \in Conns, op \in LifeOps : QueuedIn(r, F(op, c)) <=> QueuedIn(q, F(op, c))
      /\ \A m \in Loops : Len(q[m]) <= Len(r[m])
  BY <1>5, <1>6, <1>7, <1>8, PostsPlain
<1>10. queue' = r /\ ucall' = None
  BY <1>2, <1>4, <1>7 DEF UserPush, Home
<1>11. ASSUME NEW m \in Loops PROVE left'[m] <= Len(queue'[m])
  <2>1. q[m] \in Seq(Functor) /\ r[m] \in Seq(Functor)
    BY <1>8, <1>9 DEF QueueType
  <2>2. Len(q[m]) \in Nat /\ Len(r[m]) \in Nat
    BY <2>1
  <2>3. left[m] \in Nat /\ left[m] <= Len(q[m])
    BY <1>7, Typed DEF Inv
  <2> QED BY <1>1, <1>9, <1>10, <2>2, <2>3
<1>12. TypeOK'
  BY <1>1, <1>9, <1>10, <1>11, TypeStep DEF Inv, TypeOK
<1>13. Pointers'
  BY <1>1, <1>10, <1>12, ConnsGoOn, PointersKept
<1>14. phase[Base] = "pending" => InRound(r, left'[Base])
  BY <1>1, <1>7, <1>9 DEF Inv, Queues
<1>15. \A m \in Loops : QuietTurn(m)
  BY <1>1, StillTurn
<1>16. \A d \in Conns : Calm(d)
  BY <1>1, SameCalm
<1> QED BY <1>1, <1>7, <1>9, <1>10, <1>12, <1>13, <1>14, <1>15, <1>16, CalmKeeps

-----------------------------------------------------------------------------
(* Steps of a loop that take one connection to its next stage.             *)

Turn(l, c) ==
    /\ current[l] \in {c, None} /\ current'[l] \in {c, None}
    /\ \A m \in Loops \ {l} :
          /\ current'[m] = current[m] /\ callback'[m] = callback[m] /\ left'[m] = left[m]
          /\ current[m] = c => conn'[c] = conn[c]

Elsewhere(c) ==
    \A d \in Conns \ {c} :
        /\ conn'[d] = conn[d]
        /\ d \in connections_' <=> d \in connections_
        /\ d \in active' <=> d \in active

(* The other connections keep their owners.                                *)
LEMMA TurnOwners ==
    ASSUME Inv, UNCHANGED <<program, running>>, NEW l \in Loops, NEW c \in Conns, Turn(l, c),
           Elsewhere(c), NEW d \in Conns \ {c}, SameFunctors(d)
    PROVE  Owned(d)' /\ ClosedOnce(d)'
<1>1. Loops' = Loops /\ d # None
  BY TcpServerAssumption DEF Loops, numThreads_
<1>2. SameStage(d)
  BY SameConn DEF Elsewhere
<1>3. LoopGone(d)' <=> LoopGone(d)
  BY <1>2 DEF LoopGone, SameStage, Home
<1>4. ASSUME NEW m \in Loops PROVE current'[m] = d <=> current[m] = d
  BY <1>1 DEF Turn
<1>5. ASSUME NEW m \in Loops, current[m] = d PROVE callback'[m] = callback[m]
  BY <1>1, <1>5 DEF Turn
<1>6. (InDestroy(d)' <=> InDestroy(d)) /\ (InClose(d)' <=> InClose(d))
  BY <1>1, <1>4, <1>5 DEF InDestroy, InClose
<1>7. Undisturbed(d)
  BY <1>2, <1>3, <1>6 DEF Undisturbed, BaseStopped, Elsewhere
<1> QED BY <1>7, UndisturbedKeeps DEF Inv, Owners

(* The other loops keep their rounds.                                      *)
LEMMA TurnRounds ==
    ASSUME Inv, UNCHANGED <<program, running, phase>>, NEW l \in Loops, NEW c \in Conns, Turn(l, c),
           Elsewhere(c), LoopOK(l)', EventsOK(c)'
    PROVE  Rounds'
<1>1. Loops' = Loops
  BY DEF Loops, numThreads_
<1>2. ASSUME NEW m \in Loops, m # l PROVE LoopOK(m)'
  <2>1. LoopOK(m) /\ current'[m] = current[m] /\ callback'[m] = callback[m] /\ left'[m] = left[m]
    BY <1>2 DEF Turn, Inv, Rounds
  <2>2. PICK d : d = current[m]
    OBVIOUS
  <2>3. d \in Conns => conn'[d] = conn[d]
    BY <1>2, <2>2 DEF Turn, Elsewhere
  <2>4. d \in Conns => Home(d)' = m /\ Told(d)' # 0
    BY <2>1, <2>2, <2>3 DEF LoopOK, Home, Told
  <2> QED BY <2>1, <2>2, <2>4 DEF LoopOK, Home, Told
<1>3. ASSUME NEW d \in Conns, d # c PROVE EventsOK(d)'
  <2>1. EventsOK(d) /\ conn'[d] = conn[d] /\ (d \in active' <=> d \in active)
    BY <1>3 DEF Elsewhere, Inv, Rounds
  <2> QED BY <2>1 DEF EventsOK, Home, Told, Removed
<1> QED BY <1>1, <1>2, <1>3 DEF Rounds

(* The step keeps the invariant if it does for its own connection and      *)
(* loop.                                                                   *)
LEMMA TurnInv ==
    ASSUME Inv, UNCHANGED <<program, running, phase, held, ucall>>,
           NEW l \in Loops, NEW c \in Conns, Turn(l, c), Elsewhere(c),
           Stage(conn'[c]), conn'[c].state_ = "kDisconnecting" => program.lateShutdown, GoesOn(c),
           NEW r, r = queue', Queues',
           \A d \in Conns \ {c}, op \in LifeOps : QueuedIn(r, F(op, d)) <=> QueuedIn(queue, F(op, d)),
           Owned(c)', ClosedOnce(c)', LoopOK(l)', EventsOK(c)', Teardown', TypeOK'
    PROVE  Inv'
<1>1. Stages'
  BY DEF Stages, Elsewhere, Inv
<1>2. \A d \in Conns : GoesOn(d)
  BY SameConn, SameGoesOn DEF Elsewhere
<1>3. \A d \in Conns \ {c} : SameFunctors(d)
  BY DEF SameFunctors, Establishing, Destroying, Removing, LifeOps
<1>4. Owners'
  BY <1>3, TurnOwners DEF Owners
<1>5. Rounds'
  BY TurnRounds
<1>6. Pointers'
  BY <1>2, SameUser
<1> QED BY <1>1, <1>4, <1>5, <1>6 DEF Inv

(* The same, from the queues before and after.                             *)
LEMMA TurnKeeps ==
    ASSUME Inv, UNCHANGED <<program, running, phase, held, ucall>>,
           NEW l \in Loops, NEW c \in Conns, Turn(l, c), Elsewhere(c),
           Stage(conn'[c]), conn'[c].state_ = "kDisconnecting" => program.lateShutdown, GoesOn(c),
           NEW r, r = queue', QueueOK(r), phase[Base] = "pending" => InRound(r, left'[Base]),
           \A d \in Conns \ {c}, op \in LifeOps : QueuedIn(r, F(op, d)) <=> QueuedIn(queue, F(op, d)),
           Owned(c)', ClosedOnce(c)', LoopOK(l)', EventsOK(c)', Teardown', TypeOK'
    PROVE  Inv'
<1>1. \A d \in Conns : GoesOn(d)
  BY SameConn, SameGoesOn DEF Elsewhere
<1>2. Queues'
  BY <1>1, QueuesKept
<1> QED BY <1>2, TurnInv

(* The loop that makes the step.                                           *)
LEMMA TurnLoop ==
    ASSUME NEW l, NEW c \in Conns, current'[l] \in {c, None},
           current'[l] = c => Home(c)' = l /\ Told(c)' # 0,
           callback'[l] # "none" => current'[l] = c,
           callback'[l] = "close" => phase'[l] = "events",
           callback'[l] = "destroy" => phase'[l] = "pending",
           running'[l] = "stopped" =>
               phase'[l] = "pending" /\ left'[l] = 0 /\ callback'[l] \in {"none", "destroy"}
    PROVE  LoopOK(l)'
<1>1. None \notin Conns
  BY TcpServerAssumption
<1> QED BY <1>1 DEF LoopOK, Home, Told

(* Which callbacks of c are on: the ones of loop l.                        *)
LEMMA TurnCallbacks ==
    ASSUME Inv, program' = program, NEW l \in Loops, NEW c \in Conns, Turn(l, c),
           \A m \in Loops : current[m] = c => m = l
    PROVE  /\ InDestroy(c)' <=> current'[l] = c /\ callback'[l] = "destroy"
           /\ InClose(c)' <=> current'[l] = c /\ callback'[l] = "close"
           /\ InDestroy(c) <=> current[l] = c /\ callback[l] = "destroy"
           /\ InClose(c) <=> current[l] = c /\ callback[l] = "close"
<1>1. Loops' = Loops
  BY DEF Loops, numThreads_
<1>2. \A m \in Loops : current'[m] = c => m = l
  BY DEF Turn
<1> QED BY <1>1, <1>2 DEF InDestroy, InClose

(* Where the functors of a connection are, if there are any.               *)
LEMMA WherePlaced ==
    ASSUME Inv, NEW c \in Conns
    PROVE  /\ Removing(c) => Created(c) /\ Home(c) # Base /\ Told(c) = 2
           /\ Destroying(c) => Created(c) /\ In(queue[Home(c)], F("destroyed", c))
           /\ Establishing(c) => Created(c) /\ In(queue[Home(c)], F("established", c))
<1>1. ASSUME NEW op \in LifeOps, QueuedIn(queue, F(op, c))
      PROVE  \E l \in Loops : In(queue[l], F(op, c)) /\ Placed(l, F(op, c))
  <2>1. DOMAIN queue = Loops /\ F(op, c) \in Functor
    BY FunctorFacts DEF Inv, TypeOK, LifeOps, Ops
  <2> QED BY <1>1, <2>1 DEF QueuedIn, Inv, Queues, QueueOK
<1>2. \A op \in LifeOps : F(op, c).op = op /\ F(op, c).conn = c
  BY FunctorFacts
<1>3. Removing(c) => Created(c) /\ Home(c) # Base /\ Told(c) = 2
  BY <1>1, <1>2 DEF Removing, Placed, LifeOps
<1>4. Destroying(c) => Created(c) /\ In(queue[Home(c)], F("destroyed", c))
  BY <1>1, <1>2 DEF Destroying, Placed, LifeOps
<1>5. Establishing(c) => Created(c) /\ In(queue[Home(c)], F("established", c))
  BY <1>1, <1>2 DEF Establishing, Placed, LifeOps
<1> QED BY <1>3, <1>4, <1>5

(* The next state's facts about a connection's functors, read off r.       *)
LEMMA FunctorsNext ==
    ASSUME NEW r, r = queue', NEW c
    PROVE  /\ Establishing(c)' <=> QueuedIn(r, F("established", c))
           /\ Destroying(c)' <=> QueuedIn(r, F("destroyed", c))
           /\ Removing(c)' <=> QueuedIn(r, F("remove", c))
BY DEF Establishing, Destroying, Removing

(* handleClose up to the user's callback keeps the invariant.              *)
LEMMA HandleCloseKeeps ==
    ASSUME Inv, NEW l \in Loops, HandleClose(l)
    PROVE  Inv'
<1>1. PICK c : c = current[l]
  OBVIOUS
<1>2. /\ c \in active /\ callback[l] = "none" /\ phase[l] = "events"
      /\ "IN" \in conn[c].revents \/ "HUP" \in conn[c].revents
  BY <1>1 DEF HandleClose, Closing, Handling, Todo
<1>3. c \in Conns /\ Home(c) = l /\ running[l] # "stopped"
  BY <1>1, <1>2, AtWork
<1>4. Told(c) = 1 /\ Owned(c) /\ ClosedOnce(c) /\ EventsOK(c)
  BY <1>2, <1>3 DEF Inv, Rounds, Owners, EventsOK
<1>5. conn[c] \in Connection /\ Stage(conn[c])
  BY <1>3, Typed DEF Inv, Stages
<1>6. PICK k : k = [Closed(conn[c]) EXCEPT !.revents = @ \ {"IN", "HUP"}]
  OBVIOUS
<1>7. /\ k \in Connection /\ Stage(k) /\ Quiet(k.ch) /\ k.told = 2 /\ k.state_ = "kDisconnected"
      /\ k.loop = conn[c].loop /\ k.revents = conn[c].revents \ {"IN", "HUP"}
  <2>1. PICK g : g = Closed(conn[c])
    OBVIOUS
  <2>2. /\ g \in Connection /\ Stage(g) /\ Quiet(g.ch)
        /\ g.told = 2 /\ g.state_ = "kDisconnected"
        /\ g.loop = conn[c].loop /\ g.revents = conn[c].revents
    BY <1>4, <1>5, <2>1, StageSteps DEF Told
  <2>3. /\ k \in Connection /\ k.ch = g.ch /\ k.told = 2 /\ k.state_ = "kDisconnected"
        /\ k.loop = conn[c].loop /\ k.revents = conn[c].revents \ {"IN", "HUP"}
    BY <1>6, <2>1, <2>2 DEF Connection
  <2> QED BY <2>2, <2>3 DEF Stage
<1>8. /\ UNCHANGED <<program, net, queue, left, phase, active, current, connections_, next_, running,
                     serverAlive, held, ucall, sends>>
      /\ callback' = [callback EXCEPT ![l] = "close"]
      /\ conn' = [conn EXCEPT ![c] = k]
  <2>1. conn' = [conn EXCEPT ![c] = k]
    BY <1>1, <1>6 DEF HandleClose
  <2> QED BY <2>1 DEF HandleClose, mgmtVars, userVars
<1>9. conn' \in [Conns -> Connection] /\ conn'[c] = k /\ \A d \in Conns : d # c => conn'[d] = conn[d]
  BY <1>3, <1>7, <1>8 DEF Inv, TypeOK
<1>10. callback'[l] = "close" /\ \A m \in Loops : m # l => callback'[m] = callback[m]
  BY <1>8 DEF Inv, TypeOK
<1>11. \A m \in Loops : current[m] = c => m = l
  BY <1>3 DEF Inv, Rounds, LoopOK
<1>12. Turn(l, c) /\ Elsewhere(c)
  BY <1>1, <1>8, <1>9, <1>10, <1>11 DEF Turn, Elsewhere
<1>13. TypeOK'
  <2>1. callback' \in [Loops -> {"none", "plain", "close", "destroy"}]
    BY <1>8 DEF Inv, TypeOK
  <2> QED BY <1>8, <1>9, <2>1, TypeStep DEF Inv, TypeOK, QueueType
<1>14. ~InDestroy(c) /\ ~InDestroy(c)' /\ InClose(c)'
  BY <1>1, <1>2, <1>3, <1>8, <1>10, <1>11, <1>12, TurnCallbacks
<1>15. /\ Told(c)' = 2 /\ Home(c)' = Home(c) /\ Created(c)' /\ Created(c) /\ ~Connecting(c)'
       /\ ~Removed(c) /\ ~Removed(c)'
  BY <1>4, <1>5, <1>7, <1>9
  DEF Told, Home, Created, Connecting, Removed, Quiet, Stage
<1>16. /\ ~Removing(c) /\ ~Removing(c)' /\ ~Establishing(c)'
       /\ Destroying(c)' <=> Destroying(c)
       /\ LoopGone(c)' <=> LoopGone(c)
       /\ ~LoopGone(c)
       /\ BaseStopped' <=> BaseStopped
  BY <1>3, <1>4, <1>8, <1>15, WherePlaced
  DEF Removing, Establishing, Destroying, LoopGone, BaseStopped, Home, Owned
<1>17. Owned(c)' /\ ClosedOnce(c)'
  BY <1>4, <1>8, <1>14, <1>15, <1>16 DEF Owned, ClosedOnce
<1>18. LoopOK(l)'
  BY <1>1, <1>2, <1>3, <1>8, <1>10, <1>15, TurnLoop
<1>19. EventsOK(c)'
  BY <1>2, <1>3, <1>4, <1>7, <1>8, <1>9, <1>15 DEF EventsOK, Home, Told
<1>20. Teardown'
  BY <1>8, SameProgram DEF Inv, Teardown
<1>21. PICK r : r = queue'
  OBVIOUS
<1>22. /\ QueueOK(r) /\ (phase[Base] = "pending" => InRound(r, left'[Base]))
       /\ \A d \in Conns \ {c}, op \in LifeOps : QueuedIn(r, F(op, d)) <=> QueuedIn(queue, F(op, d))
  BY <1>8, <1>21 DEF Inv, Queues
<1>23. GoesOn(c) /\ Stage(conn'[c]) /\ conn'[c].state_ # "kDisconnecting"
  BY <1>7, <1>9, <1>15 DEF GoesOn
<1> QED BY <1>3, <1>8, <1>12, <1>13, <1>17, <1>18, <1>19, <1>20, <1>21, <1>22, <1>23, TurnKeeps

EndsTurn(l, c) ==
    /\ c \in Conns /\ Home(c) = l /\ Told(c) # 0 /\ Created(c)
    /\ UNCHANGED <<program, net, left, phase, active, next_, running, serverAlive, held, ucall, sends>>
    /\ Turn(l, c) /\ \A m \in Loops : current[m] = c => m = l
    /\ callback'[l] = "none" /\ ~InDestroy(c)' /\ ~InClose(c)'
    /\ callback' \in [Loops -> {"none", "plain", "close", "destroy"}]
    /\ current' \in [Loops -> Conns \cup {None}]
    /\ BaseStopped' <=> BaseStopped

(* The end of a callback frees the loop and changes no other connection.   *)
LEMMA EndTurn ==
    ASSUME Inv, NEW l \in Loops, EndCallback(l), NEW c, c = current[l]
    PROVE  EndsTurn(l, c)
<1>1. c \in Conns /\ Home(c) = l /\ Told(c) # 0
  BY AtWork DEF EndCallback
<1>2. UNCHANGED <<program, net, left, phase, active, next_, running, serverAlive, held, ucall, sends>>
  BY DEF EndCallback, userVars
<1>3. callback' = [callback EXCEPT ![l] = "none"]
  BY DEF EndCallback
<1>4. PICK cur \in {c, None} : current' = [current EXCEPT ![l] = cur]
  BY DEF EndCallback
<1>5. callback' \in [Loops -> {"none", "plain", "close", "destroy"}]
  BY <1>3 DEF Inv, TypeOK
<1>6. current' \in [Loops -> Conns \cup {None}]
  BY <1>1, <1>4 DEF Inv, TypeOK
<1>7. \A m \in Loops : current[m] = c => m = l
  BY <1>1 DEF Inv, Rounds, LoopOK
<1>8. callback'[l] = "none" /\ \A m \in Loops : m # l => callback'[m] = callback[m]
  BY <1>3 DEF Inv, TypeOK
<1>9. current'[l] \in {c, None} /\ \A m \in Loops : m # l => current'[m] = current[m]
  BY <1>4 DEF Inv, TypeOK
<1>10. Turn(l, c)
  BY <1>2, <1>7, <1>8, <1>9 DEF Turn
<1>11. ~InDestroy(c)' /\ ~InClose(c)'
  BY <1>1, <1>2, <1>7, <1>8, <1>10, TurnCallbacks
<1>12. Created(c)
  BY <1>1 DEF Inv, Stages, Stage, Told, Created
<1> QED BY <1>1, <1>2, <1>5, <1>6, <1>7, <1>8, <1>10, <1>11, <1>12 DEF EndsTurn, BaseStopped

(* The end of the callback in connectDestroyed, with channel_->remove(),   *)
(* keeps the invariant.                                                    *)
LEMMA EndDestroyKeeps ==
    ASSUME Inv, NEW l \in Loops, EndCallback(l), callback[l] = "destroy"
    PROVE  Inv'
<1>1. PICK c : c = current[l]
  OBVIOUS
<1>2. EndsTurn(l, c)
  BY <1>1, EndTurn
<1>3. c \in Conns /\ phase[l] = "pending" /\ Home(c) = l
  BY <1>2 DEF EndsTurn, Inv, Rounds, LoopOK
<1>4. Owned(c) /\ ClosedOnce(c) /\ EventsOK(c) /\ InDestroy(c)
  BY <1>1, <1>3 DEF Inv, Rounds, Owners, InDestroy
<1>5. Told(c) = 2 /\ ~Removed(c) /\ c \notin connections_ /\ ~Destroying(c) /\ c \notin active
  BY <1>3, <1>4 DEF Owned, EventsOK
<1>6. conn[c] \in Connection /\ Stage(conn[c])
  BY <1>3, Typed DEF Inv, Stages
<1>7. PICK k : k = [conn[c] EXCEPT !.ch = remove(@)]
  OBVIOUS
<1>8. /\ k \in Connection /\ Stage(k) /\ k.ch.index = "kNew"
      /\ k.told = 2 /\ k.state_ = conn[c].state_ /\ k.loop = conn[c].loop /\ k.revents = conn[c].revents
  BY <1>5, <1>6, <1>7, StageSteps DEF Told, Removed
<1>9. UNCHANGED <<queue, connections_>> /\ conn' = [conn EXCEPT ![c] = k]
  BY <1>1, <1>7 DEF EndCallback
<1>10. conn' \in [Conns -> Connection] /\ conn'[c] = k /\ \A d \in Conns : d # c => conn'[d] = conn[d]
  BY <1>3, <1>8, <1>9 DEF Inv, TypeOK
<1>11. Elsewhere(c)
  BY <1>2, <1>9, <1>10 DEF Elsewhere, EndsTurn
<1>12. TypeOK'
  BY <1>2, <1>9, <1>10, TypeStep DEF Inv, TypeOK, QueueType, EndsTurn
<1>13. /\ Told(c)' = 2 /\ Home(c)' = Home(c) /\ Created(c)' /\ ~Connecting(c)' /\ Removed(c)'
  BY <1>8, <1>10 DEF Told, Home, Created, Connecting, Removed, Stage
<1>14. /\ Removing(c)' <=> Removing(c)
       /\ ~Establishing(c)' /\ ~Destroying(c)' /\ c \notin connections_'
       /\ ~InDestroy(c)' /\ ~InClose(c)' /\ (BaseStopped' <=> BaseStopped)
  BY <1>2, <1>4, <1>5, <1>9
  DEF Removing, Establishing, Destroying, Owned, EndsTurn
<1>15. Owned(c)' /\ ClosedOnce(c)'
  BY <1>4, <1>5, <1>13, <1>14 DEF Owned, ClosedOnce
<1>16. LoopOK(l)'
  BY <1>2, <1>3, <1>13, TurnLoop DEF EndsTurn, Turn, Inv, Rounds, LoopOK
<1>17. EventsOK(c)'
  BY <1>2, <1>4, <1>5, <1>8, <1>10, <1>13 DEF EventsOK, EndsTurn
<1>18. Teardown'
  BY <1>2, <1>9, SameProgram DEF Inv, Teardown, EndsTurn
<1>19. PICK r : r = queue'
  OBVIOUS
<1>20. /\ QueueOK(r) /\ (phase[Base] = "pending" => InRound(r, left'[Base]))
       /\ \A d \in Conns \ {c}, op \in LifeOps : QueuedIn(r, F(op, d)) <=> QueuedIn(queue, F(op, d))
  BY <1>2, <1>9, <1>19 DEF Inv, Queues, EndsTurn
<1>21. GoesOn(c) /\ Stage(conn'[c]) /\ (conn'[c].state_ = "kDisconnecting" => program.lateShutdown)
  BY <1>3, <1>8, <1>10, <1>13 DEF GoesOn, Inv, Stages
<1>22. UNCHANGED <<program, running, phase, held, ucall>> /\ Turn(l, c)
  BY <1>2 DEF EndsTurn
<1> QED BY <1>3, <1>11, <1>12, <1>15, <1>16, <1>17, <1>18, <1>19, <1>20, <1>21, <1>22, TurnKeeps

(* A functor of c's life is queued.                                        *)
Posted(l, c, op, q, r) ==
    /\ r \in QueueType /\ QueueOK(r)
    /\ \A d \in Conns, o \in LifeOps :
          QueuedIn(r, F(o, d)) <=> QueuedIn(q, F(o, d)) \/ (o = op /\ d = c)
    /\ \A m \in Loops : Len(q[m]) \in Nat /\ Len(r[m]) \in Nat /\ Len(q[m]) <= Len(r[m])
    /\ \A n : InRound(q, n) /\ (l # Base \/ op # "destroyed") => InRound(r, n)

(* It is in its queue once, and nothing else moves.                        *)
LEMMA PostsLife ==
    ASSUME NEW q \in QueueType, QueueOK(q), NEW l \in Loops, NEW c \in Conns, NEW op \in LifeOps,
           Created(c), op = "remove" => l = Base /\ Home(c) # Base /\ Told(c) = 2,
           op # "remove" => Home(c) = l,
           ~QueuedIn(q, F(op, c)), op = "established" => ~QueuedIn(q, F("destroyed", c)),
           NEW r, r = Post(q, l, F(op, c))
    PROVE  Posted(l, c, op, q, r)
<1>1. PICK f : f = F(op, c)
  OBVIOUS
<1>2. f \in Functor /\ f.op = op /\ f.conn = c
  BY <1>1, FunctorFacts DEF LifeOps, Ops
<1>3. Placed(l, f)
  BY <1>2 DEF Placed, LifeOps, Raw
<1>4. r = Post(q, l, f)
  BY <1>1
<1>5. r \in QueueType /\ QueueOK(r)
  BY <1>1, <1>2, <1>3, <1>4, Posts
<1>6. \A g : QueuedIn(r, g) <=> QueuedIn(q, g) \/ g = f
  BY <1>1, <1>2, <1>3, <1>4, Posts
<1>7. Len(r[l]) = Len(q[l]) + 1 /\ \A m \in Loops : m # l => r[m] = q[m]
  BY <1>1, <1>2, <1>3, <1>4, Posts
<1>8. \A n : InRound(q, n) /\ (l # Base \/ op # "destroyed") => InRound(r, n)
  BY <1>1, <1>2, <1>3, <1>4, Posts
<1>9. ASSUME NEW m \in Loops PROVE Len(q[m]) \in Nat /\ Len(r[m]) \in Nat /\ Len(q[m]) <= Len(r[m])
  <2>1. q[m] \in Seq(Functor) /\ r[m] \in Seq(Functor)
    BY <1>5 DEF QueueType
  <2>2. Len(q[m]) \in Nat /\ Len(r[m]) \in Nat
    BY <2>1
  <2> QED BY <1>7, <2>2
<1>10. \A d \in Conns, o \in LifeOps :
           QueuedIn(r, F(o, d)) <=> QueuedIn(q, F(o, d)) \/ (o = op /\ d = c)
  BY <1>1, <1>6, FunctorFacts
<1> QED BY <1>5, <1>8, <1>9, <1>10 DEF Posted

(* The end of the callback in handleClose, with removeConnection, keeps    *)
(* the invariant.                                                          *)
LEMMA EndCloseKeeps ==
    ASSUME Inv, NEW l \in Loops, EndCallback(l), callback[l] = "close"
    PROVE  Inv'
<1>1. PICK c : c = current[l]
  OBVIOUS
<1>2. EndsTurn(l, c)
  BY <1>1, EndTurn
<1>3. c \in Conns /\ phase[l] = "events" /\ running[l] # "stopped" /\ Home(c) = l /\ Created(c)
  BY <1>2 DEF EndsTurn, Inv, Rounds, LoopOK
<1>4. Owned(c) /\ ClosedOnce(c) /\ EventsOK(c) /\ InClose(c)
  BY <1>1, <1>3 DEF Inv, Rounds, Owners, InClose
<1>5. Told(c) = 2 /\ ~Removing(c) /\ (BaseStopped \/ c \in connections_) /\ ~Establishing(c)
  BY <1>4 DEF Owned, ClosedOnce
<1>6. ~LoopGone(c)
  BY <1>3 DEF LoopGone, Home
<1>7. UNCHANGED conn
  BY DEF EndCallback, DestroyLater
<1>8. PICK q, r : q = queue /\ r = queue'
  OBVIOUS
<1>9. q \in QueueType /\ QueueOK(q) /\ (phase[Base] = "pending" => InRound(q, left[Base]))
  BY <1>8, Typed DEF Inv, Queues
<1> DEFINE Step(op) ==
        /\ Posted(Home(c), c, op, q, r) \/ (op = "remove" /\ Posted(Base, c, op, q, r))
        /\ phase[Base] = "pending" => InRound(r, left[Base])
        /\ Owned(c)' /\ ClosedOnce(c)'
        /\ connections_' \subseteq connections_ /\ connections_ \subseteq connections_' \cup {c}
<1>10. /\ SameStage(c) /\ (LoopGone(c)' <=> LoopGone(c)) /\ (BaseStopped' <=> BaseStopped)
       /\ ~InDestroy(c)' /\ ~InClose(c)'
  BY <1>2, <1>7, SameConn DEF EndsTurn, LoopGone
<1>11. /\ Establishing(c) <=> QueuedIn(q, F("established", c))
       /\ Destroying(c) <=> QueuedIn(q, F("destroyed", c))
       /\ Removing(c) <=> QueuedIn(q, F("remove", c))
  BY <1>8 DEF Establishing, Destroying, Removing
<1>12. /\ Establishing(c)' <=> QueuedIn(r, F("established", c))
       /\ Destroying(c)' <=> QueuedIn(r, F("destroyed", c))
       /\ Removing(c)' <=> QueuedIn(r, F("remove", c))
  BY <1>8, FunctorsNext
<1>13. ASSUME l = Base PROVE Step("destroyed")
  <2>1. c \in connections_ /\ ~Destroying(c) /\ ~Removed(c)
    BY <1>3, <1>4, <1>5, <1>13 DEF BaseStopped, Owned
  <2>2. r = Post(q, l, F("destroyed", c)) /\ connections_' = connections_ \ {c}
    BY <1>1, <1>3, <1>8, <1>13 DEF EndCallback, DestroyLater, Erased, Home
  <2>3. Posted(l, c, "destroyed", q, r)
    BY <1>3, <1>9, <1>11, <2>1, <2>2, PostsLife DEF LifeOps
  <2>4. Destroying(c)' /\ ~Establishing(c)' /\ ~Removing(c)'
    BY <1>3, <1>5, <1>11, <1>12, <2>3 DEF Posted, LifeOps
  <2>5. Owned(c)' /\ ClosedOnce(c)'
    BY <1>4, <1>5, <1>6, <1>10, <2>1, <2>2, <2>4 DEF Owned, ClosedOnce, SameStage
  <2> QED BY <1>3, <1>13, <2>2, <2>3, <2>5
<1>14. ASSUME l # Base PROVE Step("remove")
  <2>1. r = Post(q, Base, F("remove", c)) /\ connections_' = connections_
    BY <1>1, <1>8, <1>14 DEF EndCallback
  <2>2. Base \in Loops
    BY Bases DEF Inv
  <2>3. Posted(Base, c, "remove", q, r)
    BY <1>3, <1>5, <1>9, <1>11, <1>14, <2>1, <2>2, PostsLife DEF LifeOps
  <2>4. (Destroying(c)' <=> Destroying(c)) /\ ~Establishing(c)'
    BY <1>3, <1>5, <1>11, <1>12, <2>3 DEF Posted, LifeOps
  <2>5. ~InDestroy(c)
    <3>1. callback[l] # "destroy"
      OBVIOUS
    <3> QED BY <1>2, <1>3, <3>1, TurnCallbacks DEF EndsTurn
  <2>6. Owned(c)' /\ ClosedOnce(c)'
    BY <1>4, <1>5, <1>6, <1>10, <2>1, <2>4, <2>5 DEF Owned, ClosedOnce, SameStage
  <2>7. phase[Base] = "pending" => InRound(r, left[Base])
    BY <1>9, <2>3 DEF Posted
  <2> QED BY <2>1, <2>3, <2>6, <2>7
<1>15. PICK h \in Loops, op \in LifeOps : Posted(h, c, op, q, r)
  BY <1>3, <1>13, <1>14, Bases DEF Inv, LifeOps
<1>16. /\ phase[Base] = "pending" => InRound(r, left[Base])
       /\ Owned(c)' /\ ClosedOnce(c)'
       /\ connections_' \subseteq connections_ /\ connections_ \subseteq connections_' \cup {c}
  BY <1>13, <1>14
<1> HIDE DEF Step
<1>17. /\ QueueOK(r) /\ r \in QueueType
       /\ \A d \in Conns \ {c}, o \in LifeOps : QueuedIn(r, F(o, d)) <=> QueuedIn(queue, F(o, d))
       /\ \A m \in Loops : Len(q[m]) \in Nat /\ Len(r[m]) \in Nat /\ Len(q[m]) <= Len(r[m])
  BY <1>8, <1>15 DEF Posted
<1>18. ASSUME NEW m \in Loops PROVE left[m] <= Len(r[m])
  <2>1. left[m] \in Nat /\ left[m] <= Len(q[m])
    BY <1>8, Typed DEF Inv
  <2> QED BY <1>17, <2>1
<1>19. Elsewhere(c)
  BY <1>2, <1>7, <1>16 DEF Elsewhere, EndsTurn
<1>20. TypeOK'
  <2>1. connections_' \subseteq Conns /\ conn' \in [Conns -> Connection]
    BY <1>7, <1>16 DEF Inv, TypeOK
  <2> QED BY <1>2, <1>8, <1>17, <1>18, <2>1, TypeStep DEF Inv, TypeOK, EndsTurn
<1>21. LoopOK(l)'
  BY <1>2, <1>3, <1>5, <1>10, TurnLoop DEF EndsTurn, Turn, SameStage
<1>22. EventsOK(c)'
  BY <1>2, <1>4, <1>7 DEF EventsOK, EndsTurn, Home, Told, Removed
<1>23. Teardown'
  BY <1>2, <1>16, SameProgram DEF Inv, Teardown, EndsTurn
<1>24. GoesOn(c) /\ Stage(conn'[c]) /\ (conn'[c].state_ = "kDisconnecting" => program.lateShutdown)
  BY <1>3, <1>7, <1>10, SameGoesOn DEF Inv, Stages
<1>25. UNCHANGED <<program, running, phase, held, ucall, left>> /\ Turn(l, c)
  BY <1>2 DEF EndsTurn
<1> QED BY <1>3, <1>8, <1>16, <1>17, <1>19, <1>20, <1>21, <1>22, <1>23, <1>24, <1>25, TurnKeeps

(* connectEstablished, run by the loop of the connection.                  *)
LEMMA RunEstablishedKeeps ==
    ASSUME Inv, NEW l \in Loops, RunFunctor(l), Head(queue[l]).op = "established"
    PROVE  Inv'
<1>1. PICK q, f : q = [queue EXCEPT ![l] = Tail(@)] /\ f = Head(queue[l])
  OBVIOUS
<1>2. Taking(l) /\ f.op = "established" /\ callback[l] = "none" /\ current[l] = None
  BY <1>1 DEF RunFunctor, Taking, Idle
<1>3. Taken(l, f, q)
  BY <1>1, <1>2, TakesOne
<1>4. PICK c \in Conns : c = f.conn
  BY <1>3 DEF Taken
<1>5. f = F("established", c) /\ f.op \in LifeOps
  BY <1>2, <1>3, <1>4, FunctorFacts DEF Taken, LifeOps
<1>6. Home(c) = l /\ Created(c) /\ Establishing(c) /\ running[l] # "stopped"
  BY <1>2, <1>3, <1>4, <1>5 DEF Taken, Placed, Establishing
<1>7. Owned(c) /\ ClosedOnce(c) /\ EventsOK(c)
  BY DEF Inv, Rounds, Owners
<1>8. Told(c) = 0 /\ c \notin active /\ ~Removed(c)
  BY <1>6, <1>7 DEF Owned, EventsOK, Removed
<1>9. conn[c] \in Connection /\ Stage(conn[c])
  BY Typed DEF Inv, Stages
<1>10. PICK k : k = Established(conn[c])
  OBVIOUS
<1>11. /\ k \in Connection /\ Stage(k) /\ k.told = 1 /\ k.state_ = "kConnected"
       /\ k.loop = conn[c].loop /\ k.revents = conn[c].revents
  BY <1>8, <1>9, <1>10, StageSteps DEF Told
<1>12. /\ UNCHANGED <<program, net, phase, active, connections_, next_, running, serverAlive,
                      held, ucall, sends>>
       /\ queue' = q /\ conn' = [conn EXCEPT ![c] = k]
       /\ current' = [current EXCEPT ![l] = c] /\ callback' = [callback EXCEPT ![l] = "plain"]
  BY <1>1, <1>2, <1>4, <1>10 DEF RunFunctor, userVars
<1>13. conn' \in [Conns -> Connection] /\ conn'[c] = k /\ \A d \in Conns : d # c => conn'[d] = conn[d]
  BY <1>11, <1>12 DEF Inv, TypeOK
<1>14. /\ current'[l] = c /\ callback'[l] = "plain"
       /\ \A m \in Loops : m # l => current'[m] = current[m] /\ callback'[m] = callback[m]
  BY <1>12 DEF Inv, TypeOK
<1>15. \A m \in Loops : current[m] # c
  BY <1>8 DEF Inv, Rounds, LoopOK
<1>16. Turn(l, c) /\ Elsewhere(c)
  BY <1>2, <1>3, <1>12, <1>13, <1>14, <1>15 DEF Turn, Elsewhere, Taken
<1>17. TypeOK'
  <2>1. current' \in [Loops -> Conns \cup {None}]
    BY <1>12 DEF Inv, TypeOK
  <2>2. callback' \in [Loops -> {"none", "plain", "close", "destroy"}]
    BY <1>12 DEF Inv, TypeOK
  <2>3. queue' \in QueueType /\ left' \in [Loops -> Nat] /\ \A m \in Loops : left'[m] <= Len(queue'[m])
    BY <1>3, <1>12 DEF Taken
  <2> QED BY <1>12, <1>13, <2>1, <2>2, <2>3, TypeStep DEF Inv, TypeOK
<1>18. ~InDestroy(c) /\ ~InDestroy(c)' /\ ~InClose(c)'
  BY <1>12, <1>14, <1>15, <1>16, TurnCallbacks
<1>19. /\ Told(c)' = 1 /\ Home(c)' = Home(c) /\ Created(c)' /\ ~Connecting(c)' /\ ~Removed(c)'
  BY <1>11, <1>13 DEF Told, Home, Created, Connecting, Removed
<1>20. /\ ~Establishing(c)' /\ (Destroying(c)' <=> Destroying(c)) /\ ~Removing(c)'
       /\ \A d \in Conns \ {c}, op \in LifeOps : QueuedIn(q, F(op, d)) <=> QueuedIn(queue, F(op, d))
  <2>1. /\ \A g : QueuedIn(q, g) => QueuedIn(queue, g)
        /\ \A g : QueuedIn(queue, g) /\ g # f => QueuedIn(q, g)
        /\ ~QueuedIn(q, f)
    BY <1>3, <1>5 DEF Taken
  <2>2. ~Removing(c)
    BY <1>8, WherePlaced
  <2>3. \A op, d : op # "established" \/ d # c => F(op, d) # f
    BY <1>5, FunctorFacts
  <2>4. /\ Establishing(c)' <=> QueuedIn(q, F("established", c))
        /\ Destroying(c)' <=> QueuedIn(q, F("destroyed", c))
        /\ Removing(c)' <=> QueuedIn(q, F("remove", c))
    BY <1>12, FunctorsNext
  <2> QED BY <1>5, <2>1, <2>2, <2>3, <2>4 DEF Destroying, Removing
<1>21. (LoopGone(c)' <=> LoopGone(c)) /\ (BaseStopped' <=> BaseStopped)
  BY <1>12, <1>19 DEF LoopGone, BaseStopped, Home
<1>22. Owned(c)' /\ ClosedOnce(c)'
  BY <1>6, <1>7, <1>8, <1>12, <1>18, <1>19, <1>20, <1>21 DEF Owned, ClosedOnce
<1>23. LoopOK(l)'
  BY <1>6, <1>12, <1>14, <1>19, TurnLoop
<1>24. EventsOK(c)'
  BY <1>7, <1>8, <1>11, <1>12, <1>13 DEF EventsOK
<1>25. Teardown'
  BY <1>12, SameProgram DEF Inv, Teardown
<1>26. QueueOK(q) /\ (phase[Base] = "pending" => InRound(q, left'[Base]))
  BY <1>3 DEF Taken
<1>27. GoesOn(c) /\ Stage(conn'[c]) /\ conn'[c].state_ # "kDisconnecting"
  BY <1>8, <1>11, <1>13, <1>19 DEF GoesOn
<1>28. UNCHANGED <<program, running, phase, held, ucall>> /\ q = queue'
  BY <1>12
<1> QED BY <1>16, <1>17, <1>20, <1>22, <1>23, <1>24, <1>25, <1>26, <1>27, <1>28, TurnKeeps

(* removeConnectionInLoop, run by the base loop for one of an I/O loop.    *)
LEMMA RunRemoveKeeps ==
    ASSUME Inv, NEW l \in Loops, RunFunctor(l), Head(queue[l]).op = "remove"
    PROVE  Inv'
<1>1. PICK q, f : q = [queue EXCEPT ![l] = Tail(@)] /\ f = Head(queue[l])
  OBVIOUS
<1>2. Taking(l) /\ f.op = "remove" /\ callback[l] = "none" /\ current[l] = None
  BY <1>1 DEF RunFunctor, Taking, Idle
<1>3. Taken(l, f, q)
  BY <1>1, <1>2, TakesOne
<1>4. PICK c \in Conns : c = f.conn
  BY <1>3 DEF Taken
<1>5. f = F("remove", c) /\ f.op \in LifeOps
  BY <1>2, <1>3, <1>4, FunctorFacts DEF Taken, LifeOps
<1>6. l = Base /\ Home(c) # Base /\ Told(c) = 2 /\ Created(c) /\ Removing(c) /\ ~BaseStopped
  BY <1>2, <1>3, <1>4, <1>5 DEF Taken, Placed, Removing, BaseStopped
<1>7. Owned(c) /\ ClosedOnce(c) /\ EventsOK(c)
  BY DEF Inv, Rounds, Owners
<1>8. /\ c \in connections_ /\ ~Destroying(c) /\ ~Removed(c) /\ ~InDestroy(c) /\ ~InClose(c)
      /\ ~Establishing(c)
  BY <1>6, <1>7 DEF Owned, ClosedOnce
<1>9. Home(c) \in Loops /\ ~LoopGone(c)
  <2>1. Home(c) \in Loops
    BY Typed DEF Inv, Connection, Home
  <2>2. serverAlive
    BY <1>8 DEF Inv, Teardown
  <2>3. running[Home(c)] = "run"
    BY <1>6, <2>1, <2>2 DEF Inv, Teardown
  <2> QED BY <2>1, <2>3 DEF LoopGone, Home
<1>10. PICK h \in Loops : h = Home(c)
  BY <1>9
<1>11. PICK r : r = queue'
  OBVIOUS
<1>12. /\ UNCHANGED <<program, conn, net, phase, active, current, callback, next_, running, serverAlive,
                      held, ucall, sends>>
       /\ r = Post(q, h, F("destroyed", c)) /\ connections_' = connections_ \ {c}
  BY <1>1, <1>2, <1>4, <1>10, <1>11 DEF RunFunctor, DestroyLater, Erased, userVars, Home
<1>13. q \in QueueType /\ QueueOK(q) /\ ~QueuedIn(q, F("destroyed", c))
  BY <1>3, <1>8 DEF Taken, Destroying
<1>14. Posted(h, c, "destroyed", q, r)
  BY <1>6, <1>10, <1>12, <1>13, PostsLife DEF LifeOps
<1>15. Turn(l, c) /\ Elsewhere(c)
  BY <1>2, <1>3, <1>12 DEF Turn, Elsewhere, Taken
<1>16. TypeOK'
  <2>1. queue' \in QueueType
    BY <1>11, <1>14 DEF Posted
  <2>2. left' \in [Loops -> Nat] /\ \A m \in Loops : left'[m] <= Len(q[m])
    BY <1>3 DEF Taken
  <2>3. ASSUME NEW m \in Loops PROVE left'[m] <= Len(queue'[m])
    BY <1>11, <1>14, <2>2 DEF Posted
  <2> QED BY <1>12, <2>1, <2>2, <2>3, TypeStep DEF Inv, TypeOK
<1>17. SameStage(c) /\ (LoopGone(c)' <=> LoopGone(c)) /\ (BaseStopped' <=> BaseStopped)
       /\ ~InDestroy(c)' /\ ~InClose(c)'
  <2>1. Loops' = Loops
    BY <1>12, SameProgram
  <2> QED BY <1>8, <1>12, <2>1, SameConn DEF LoopGone, BaseStopped, InDestroy, InClose
<1>18. /\ ~Establishing(c)' /\ Destroying(c)' /\ ~Removing(c)'
       /\ \A d \in Conns \ {c}, op \in LifeOps : QueuedIn(r, F(op, d)) <=> QueuedIn(queue, F(op, d))
  <2>1. /\ \A g : QueuedIn(q, g) => QueuedIn(queue, g)
        /\ \A g : QueuedIn(queue, g) /\ g # f => QueuedIn(q, g)
        /\ ~QueuedIn(q, f)
    BY <1>3, <1>5 DEF Taken
  <2>2. \A d, op : d # c => F(op, d) # f
    BY <1>5, FunctorFacts
  <2>3. /\ Establishing(c)' <=> QueuedIn(r, F("established", c))
        /\ Destroying(c)' <=> QueuedIn(r, F("destroyed", c))
        /\ Removing(c)' <=> QueuedIn(r, F("remove", c))
    BY <1>11, FunctorsNext
  <2>4. \A d \in Conns, o \in LifeOps :
            QueuedIn(r, F(o, d)) <=> QueuedIn(q, F(o, d)) \/ (o = "destroyed" /\ d = c)
    BY <1>14 DEF Posted
  <2>5. ~QueuedIn(q, F("established", c))
    BY <1>8, <2>1 DEF Establishing
  <2>6. ~Establishing(c)' /\ Destroying(c)' /\ ~Removing(c)'
    BY <1>5, <2>1, <2>3, <2>4, <2>5 DEF LifeOps
  <2> QED BY <2>1, <2>2, <2>4, <2>6
<1>19. Owned(c)' /\ ClosedOnce(c)'
  BY <1>6, <1>7, <1>8, <1>9, <1>12, <1>17, <1>18 DEF Owned, ClosedOnce, SameStage
<1>20. LoopOK(l)'
  <2>1. c # None /\ current'[l] = None /\ callback'[l] = "none" /\ running'[l] # "stopped"
    BY <1>2, <1>3, <1>12, TcpServerAssumption DEF Taken
  <2> QED BY <2>1, TurnLoop
<1>21. EventsOK(c)'
  BY <1>7, <1>12 DEF EventsOK, Home, Told, Removed
<1>22. Teardown'
  BY <1>12, SameProgram DEF Inv, Teardown
<1>23. QueueOK(r) /\ (phase[Base] = "pending" => InRound(r, left'[Base]))
  BY <1>3, <1>6, <1>10, <1>14 DEF Taken, Posted
<1>24. GoesOn(c) /\ Stage(conn'[c]) /\ (conn'[c].state_ = "kDisconnecting" => program.lateShutdown)
  BY <1>12, <1>17, SameGoesOn DEF Inv, Stages
<1>25. UNCHANGED <<program, running, phase, held, ucall>>
  BY <1>12
<1> QED BY <1>11, <1>15, <1>16, <1>18, <1>19, <1>20, <1>21, <1>22, <1>23, <1>24, <1>25, TurnKeeps

(* connectDestroyed: the callback, or the channel's removal at once.       *)
Destroys(l, c) ==
    /\ conn' \in [Conns -> Connection] /\ \A d \in Conns : d # c => conn'[d] = conn[d]
    /\ Stage(conn'[c]) /\ (conn'[c].state_ = "kDisconnecting" => program.lateShutdown)
    /\ Told(c)' = 2 /\ Home(c)' = Home(c) /\ Created(c)' /\ ~Connecting(c)'
    /\ conn'[c].revents = conn[c].revents
    /\ current' \in [Loops -> Conns \cup {None}]
    /\ callback' \in [Loops -> {"none", "plain", "close", "destroy"}]
    /\ \A m \in Loops : m # l => current'[m] = current[m] /\ callback'[m] = callback[m]
    /\ \/ Removed(c)' /\ current'[l] = None /\ callback'[l] = "none" /\ Told(c) = 2
       \/ ~Removed(c)' /\ current'[l] = c /\ callback'[l] = "destroy" /\ Told(c) = 1

(* Both cases of connectDestroyed, by the stage of the connection.         *)
LEMMA ConnectDestroyedSteps ==
    ASSUME Inv, NEW l \in Loops, NEW c \in Conns, ConnectDestroyed(l, c),
           Told(c) # 0, ~Removed(c), Idle(l)
    PROVE  Destroys(l, c)
<1>1. conn[c] \in Connection /\ Stage(conn[c])
      /\ (conn[c].state_ = "kDisconnecting" => program.lateShutdown)
  BY Typed DEF Inv, Stages
<1>2. CASE conn[c].state_ = "kConnected"
  <2>1. Told(c) = 1
    BY <1>1, <1>2 DEF Stage, Told
  <2>2. PICK k : k = Closed(conn[c])
    OBVIOUS
  <2>3. /\ k \in Connection /\ Stage(k) /\ Quiet(k.ch) /\ k.told = 2 /\ k.state_ = "kDisconnected"
        /\ k.loop = conn[c].loop /\ k.revents = conn[c].revents
    BY <1>1, <2>1, <2>2, StageSteps DEF Told
  <2>4. /\ conn' = [conn EXCEPT ![c] = k]
        /\ current' = [current EXCEPT ![l] = c] /\ callback' = [callback EXCEPT ![l] = "destroy"]
    BY <1>2, <2>2 DEF ConnectDestroyed
  <2>5. conn' \in [Conns -> Connection] /\ conn'[c] = k /\ \A d \in Conns : d # c => conn'[d] = conn[d]
    BY <2>3, <2>4 DEF Inv, TypeOK
  <2>6. current' \in [Loops -> Conns \cup {None}]
    BY <2>4 DEF Inv, TypeOK
  <2>7. callback' \in [Loops -> {"none", "plain", "close", "destroy"}]
    BY <2>4 DEF Inv, TypeOK
  <2>8. /\ current'[l] = c /\ callback'[l] = "destroy"
        /\ \A m \in Loops : m # l => current'[m] = current[m] /\ callback'[m] = callback[m]
    BY <2>4 DEF Inv, TypeOK
  <2>9. Told(c)' = 2 /\ Home(c)' = Home(c) /\ Created(c)' /\ ~Connecting(c)' /\ ~Removed(c)'
    BY <2>3, <2>5 DEF Told, Home, Created, Connecting, Removed, Quiet
  <2> QED BY <2>1, <2>3, <2>5, <2>6, <2>7, <2>8, <2>9 DEF Destroys
<1>3. CASE conn[c].state_ # "kConnected"
  <2>1. Told(c) = 2 /\ conn[c].ch.index # "kNew"
    BY <1>1, <1>3 DEF Stage, Told, Removed
  <2>2. PICK k : k = [conn[c] EXCEPT !.ch = remove(@)]
    OBVIOUS
  <2>3. /\ k \in Connection /\ Stage(k) /\ k.ch.index = "kNew"
        /\ k.told = 2 /\ k.state_ = conn[c].state_ /\ k.loop = conn[c].loop
        /\ k.revents = conn[c].revents
    BY <1>1, <2>1, <2>2, StageSteps DEF Told
  <2>4. conn' = [conn EXCEPT ![c] = k] /\ UNCHANGED <<current, callback>>
    BY <1>3, <2>2 DEF ConnectDestroyed
  <2>5. conn' \in [Conns -> Connection] /\ conn'[c] = k /\ \A d \in Conns : d # c => conn'[d] = conn[d]
    BY <2>3, <2>4 DEF Inv, TypeOK
  <2>6. /\ current' \in [Loops -> Conns \cup {None}]
        /\ callback' \in [Loops -> {"none", "plain", "close", "destroy"}]
        /\ current'[l] = None /\ callback'[l] = "none"
        /\ \A m \in Loops : m # l => current'[m] = current[m] /\ callback'[m] = callback[m]
    BY <2>4 DEF Inv, TypeOK, Idle
  <2>7. Told(c)' = 2 /\ Home(c)' = Home(c) /\ Created(c)' /\ ~Connecting(c)' /\ Removed(c)'
    BY <1>1, <2>1, <2>3, <2>5 DEF Told, Home, Created, Connecting, Removed, Stage
  <2> QED BY <1>1, <2>1, <2>3, <2>5, <2>6, <2>7 DEF Destroys
<1> QED BY <1>2, <1>3

(* The owner of the connection, the map or a queued functor, gives it to   *)
(* connectDestroyed.                                                       *)
LEMMA DestroysKeeps ==
    ASSUME Inv, NEW l \in Loops, NEW c \in Conns, Destroys(l, c), Home(c) = l, ~Removed(c), Idle(l),
           UNCHANGED <<program, net, phase, active, next_, running, serverAlive, held, ucall, sends>>,
           phase[l] = "pending", connections_' = connections_ \ {c},
           NEW r, r = queue', r \in QueueType, QueueOK(r),
           left' \in [Loops -> Nat], \A m \in Loops : left'[m] <= Len(r[m]),
           \A m \in Loops : m # l \/ running[m] = "stopped" => left'[m] = left[m],
           phase[Base] = "pending" => InRound(r, left'[Base]),
           \A d \in Conns \ {c}, op \in LifeOps : QueuedIn(r, F(op, d)) <=> QueuedIn(queue, F(op, d)),
           ~QueuedIn(r, F("established", c)), ~QueuedIn(r, F("destroyed", c)),
           QueuedIn(r, F("remove", c)) => Removing(c) /\ (BaseStopped \/ c \notin connections_)
    PROVE  Inv'
<1>1. Owned(c) /\ ClosedOnce(c) /\ EventsOK(c) /\ LoopOK(l)
  BY DEF Inv, Rounds, Owners
<1>2. c \notin active
  BY <1>1 DEF EventsOK
<1>3. \A m \in Loops : current[m] # c
  <2>1. c # None /\ current[l] = None
    BY TcpServerAssumption DEF Idle
  <2> QED BY <2>1 DEF Inv, Rounds, LoopOK
<1>4. Turn(l, c) /\ Elsewhere(c)
  BY <1>3 DEF Turn, Elsewhere, Destroys, Idle
<1>5. TypeOK'
  <2>1. /\ conn' \in [Conns -> Connection] /\ current' \in [Loops -> Conns \cup {None}]
        /\ callback' \in [Loops -> {"none", "plain", "close", "destroy"}]
    BY DEF Destroys
  <2> QED BY <2>1, TypeStep DEF Inv, TypeOK
<1>6. /\ InDestroy(c)' <=> current'[l] = c /\ callback'[l] = "destroy"
      /\ InClose(c)' <=> current'[l] = c /\ callback'[l] = "close"
  BY <1>3, <1>4, TurnCallbacks
<1>7. c # None
  BY TcpServerAssumption
<1>8. /\ ~InClose(c)' /\ (InDestroy(c)' <=> ~Removed(c)') /\ (InDestroy(c)' => Told(c) = 1)
      /\ Told(c)' = 2 /\ Created(c)' /\ ~Connecting(c)' /\ Home(c)' = l
  BY <1>6, <1>7 DEF Destroys
<1>9. ~Establishing(c)' /\ ~Destroying(c)' /\ (Removing(c)' => Removing(c) /\ (BaseStopped \/ c \notin connections_))
  BY FunctorsNext
<1>10. BaseStopped' <=> BaseStopped
  BY DEF BaseStopped
<1>11. Owned(c)' /\ ClosedOnce(c)'
  BY <1>1, <1>8, <1>9, <1>10 DEF Owned, ClosedOnce
<1>12. LoopOK(l)'
  <2>1. /\ current'[l] \in {c, None} /\ callback'[l] \in {"none", "destroy"}
        /\ callback'[l] # "none" => current'[l] = c
    BY DEF Destroys
  <2>2. running'[l] = "stopped" => left'[l] = 0
    BY <1>1 DEF LoopOK
  <2> QED BY <1>8, <2>1, <2>2, TurnLoop
<1>13. EventsOK(c)'
  BY <1>1, <1>2 DEF EventsOK, Destroys
<1>14. Teardown'
  BY SameProgram DEF Inv, Teardown
<1>15. GoesOn(c)
  BY DEF GoesOn, Destroys
<1>16. Stage(conn'[c]) /\ (conn'[c].state_ = "kDisconnecting" => program.lateShutdown)
  BY DEF Destroys
<1> QED BY <1>4, <1>5, <1>11, <1>12, <1>13, <1>14, <1>15, <1>16, TurnKeeps

(* The queued connectDestroyed keeps the invariant.                        *)
LEMMA RunDestroyedKeeps ==
    ASSUME Inv, NEW l \in Loops, RunFunctor(l), Head(queue[l]).op = "destroyed"
    PROVE  Inv'
<1>1. PICK q, f : q = [queue EXCEPT ![l] = Tail(@)] /\ f = Head(queue[l])
  OBVIOUS
<1>2. Taking(l) /\ f.op = "destroyed" /\ Idle(l)
  BY <1>1 DEF RunFunctor, Taking
<1>3. Taken(l, f, q)
  BY <1>1, <1>2, TakesOne
<1>4. PICK c \in Conns : c = f.conn
  BY <1>3 DEF Taken
<1>5. f = F("destroyed", c) /\ f.op \in LifeOps
  BY <1>2, <1>3, <1>4, FunctorFacts DEF Taken, LifeOps
<1>6. Home(c) = l /\ Created(c) /\ Destroying(c) /\ ~Establishing(c)
  BY <1>2, <1>3, <1>4, <1>5 DEF Taken, Placed, Destroying
<1>7. Owned(c) /\ ClosedOnce(c)
  BY DEF Inv, Owners
<1>8. c \notin connections_ /\ ~Removed(c) /\ ~LoopGone(c) /\ ~Connecting(c)
  BY <1>6, <1>7 DEF Owned
<1>9. Told(c) # 0
  BY <1>6, <1>8 DEF Inv, Stages, Stage, Told, Created, Connecting
<1>10. /\ UNCHANGED <<program, net, phase, active, next_, running, serverAlive, held, ucall, sends>>
       /\ queue' = q /\ connections_' = connections_ \ {c} /\ ConnectDestroyed(l, c)
  BY <1>1, <1>2, <1>4, <1>8 DEF RunFunctor, userVars
<1>11. Destroys(l, c)
  BY <1>2, <1>8, <1>9, <1>10, ConnectDestroyedSteps
<1>12. /\ q \in QueueType /\ QueueOK(q)
       /\ left' \in [Loops -> Nat] /\ \A m \in Loops : left'[m] <= Len(q[m])
       /\ \A m \in Loops : m # l \/ running[m] = "stopped" => left'[m] = left[m]
       /\ phase[Base] = "pending" => InRound(q, left'[Base])
  BY <1>3 DEF Taken
<1>13. /\ \A g : QueuedIn(q, g) => QueuedIn(queue, g)
       /\ \A g : QueuedIn(queue, g) /\ g # f => QueuedIn(q, g)
       /\ ~QueuedIn(q, f)
  BY <1>3, <1>5 DEF Taken
<1>14. \A d, op : d # c => F(op, d) # f
  BY <1>5, FunctorFacts
<1>15. \A d \in Conns \ {c}, op \in LifeOps : QueuedIn(q, F(op, d)) <=> QueuedIn(queue, F(op, d))
  BY <1>13, <1>14
<1>16. /\ ~QueuedIn(q, F("established", c)) /\ ~QueuedIn(q, F("destroyed", c))
       /\ QueuedIn(q, F("remove", c)) => Removing(c) /\ (BaseStopped \/ c \notin connections_)
  BY <1>5, <1>6, <1>8, <1>13 DEF Establishing, Removing
<1>17. phase[l] = "pending"
  BY <1>2 DEF Taking
<1> QED BY <1>2, <1>6, <1>8, <1>10, <1>11, <1>12, <1>15, <1>16, <1>17, DestroysKeeps

-----------------------------------------------------------------------------
(* Tear-down.                                                              *)

(* ~TcpServer for a connection of the base loop: connectDestroyed at once. *)
LEMMA DestroyServerHereKeeps ==
    ASSUME Inv, NEW c \in Conns, DestroyServer(c), Home(c) = Base
    PROVE  Inv'
<1>1. Base \in Loops /\ BaseStopped /\ Idle(Base) /\ c \in connections_
  BY Bases DEF DestroyServer, Inv, BaseStopped
<1>2. Owned(c) /\ LoopOK(Base)
  BY <1>1 DEF Inv, Rounds, Owners
<1>3. Created(c) /\ ~Removed(c) /\ ~Destroying(c) /\ ~Connecting(c) /\ phase[Base] = "pending"
  BY <1>1, <1>2 DEF Owned, LoopOK, BaseStopped
<1>4. Told(c) # 0
  BY <1>3 DEF Inv, Stages, Stage, Told, Created, Connecting
<1>5. ~Establishing(c)
  BY <1>2, <1>4 DEF Owned
<1>6. /\ UNCHANGED <<program, net, left, phase, active, next_, running, serverAlive, held, ucall, sends,
                     queue>>
      /\ connections_' = connections_ \ {c} /\ ConnectDestroyed(Base, c)
  BY DEF DestroyServer, userVars, Home
<1>7. Destroys(Base, c)
  BY <1>1, <1>3, <1>4, <1>6, ConnectDestroyedSteps
<1>8. PICK r : r = queue'
  OBVIOUS
<1>9. /\ r \in QueueType /\ QueueOK(r)
      /\ left' \in [Loops -> Nat] /\ \A m \in Loops : left'[m] <= Len(r[m])
      /\ phase[Base] = "pending" => InRound(r, left'[Base])
  BY <1>6, <1>8, Typed DEF Inv, Queues, TypeOK
<1>10. /\ ~QueuedIn(r, F("established", c)) /\ ~QueuedIn(r, F("destroyed", c))
       /\ QueuedIn(r, F("remove", c)) => Removing(c) /\ (BaseStopped \/ c \notin connections_)
       /\ \A d \in Conns \ {c}, op \in LifeOps : QueuedIn(r, F(op, d)) <=> QueuedIn(queue, F(op, d))
  BY <1>1, <1>3, <1>5, <1>6, <1>8 DEF Establishing, Destroying, Removing
<1>11. \A m \in Loops : m # Base \/ running[m] = "stopped" => left'[m] = left[m]
  BY <1>6
<1> QED BY <1>1, <1>3, <1>6, <1>7, <1>8, <1>9, <1>10, <1>11, DestroysKeeps

(* ~TcpServer for a connection of an I/O loop: connectDestroyed is queued. *)
LEMMA DestroyServerThereKeeps ==
    ASSUME Inv, NEW c \in Conns, DestroyServer(c), Home(c) # Base
    PROVE  Inv'
<1>1. Base \in Loops /\ BaseStopped /\ Idle(Base) /\ c \in connections_
  BY Bases DEF DestroyServer, Inv, BaseStopped
<1>2. Owned(c) /\ ClosedOnce(c) /\ EventsOK(c) /\ LoopOK(Base)
  BY <1>1 DEF Inv, Rounds, Owners
<1>3. Created(c) /\ ~Removed(c) /\ ~Destroying(c) /\ ~InDestroy(c)
  BY <1>1, <1>2 DEF Owned
<1>4. Home(c) \in Loops /\ ~LoopGone(c)
  <2>1. Home(c) \in Loops
    BY Typed DEF Inv, Connection, Home
  <2>2. serverAlive
    BY <1>1 DEF Inv, Teardown
  <2>3. running[Home(c)] = "run"
    BY <2>1, <2>2 DEF Inv, Teardown
  <2> QED BY <2>1, <2>3 DEF LoopGone, Home
<1>5. PICK h \in Loops : h = Home(c)
  BY <1>4
<1>6. PICK q, r : q = queue /\ r = queue'
  OBVIOUS
<1>7. /\ UNCHANGED <<program, conn, net, left, phase, active, current, callback, next_, running,
                     serverAlive, held, ucall, sends>>
      /\ r = Post(q, h, F("destroyed", c)) /\ connections_' = connections_ \ {c}
  BY <1>5, <1>6 DEF DestroyServer, userVars, Home
<1>8. /\ q \in QueueType /\ QueueOK(q) /\ ~QueuedIn(q, F("destroyed", c))
      /\ phase[Base] = "pending" => InRound(q, left[Base])
  BY <1>3, <1>6, Typed DEF Inv, Queues, Destroying
<1>9. Posted(h, c, "destroyed", q, r)
  BY <1>3, <1>5, <1>7, <1>8, PostsLife DEF LifeOps
<1>10. Turn(Base, c) /\ Elsewhere(c)
  BY <1>1, <1>7 DEF Turn, Elsewhere, Idle
<1>11. TypeOK'
  <2>1. queue' \in QueueType
    BY <1>6, <1>9 DEF Posted
  <2>2. \A m \in Loops : left[m] \in Nat /\ left[m] <= Len(q[m])
    BY <1>6, Typed DEF Inv
  <2>3. ASSUME NEW m \in Loops PROVE left'[m] <= Len(queue'[m])
    BY <1>6, <1>7, <1>9, <2>2 DEF Posted
  <2> QED BY <1>7, <2>1, <2>3, TypeStep DEF Inv, TypeOK
<1>12. SameStage(c) /\ (LoopGone(c)' <=> LoopGone(c)) /\ BaseStopped'
       /\ ~InDestroy(c)' /\ (InClose(c)' <=> InClose(c))
  <2>1. Loops' = Loops
    BY <1>7, SameProgram
  <2> QED BY <1>1, <1>3, <1>7, <2>1, SameConn DEF LoopGone, BaseStopped, InDestroy, InClose
<1>13. /\ Destroying(c)' /\ (Establishing(c)' <=> Establishing(c)) /\ (Removing(c)' <=> Removing(c))
       /\ \A d \in Conns \ {c}, op \in LifeOps : QueuedIn(r, F(op, d)) <=> QueuedIn(queue, F(op, d))
  <2>1. /\ Establishing(c)' <=> QueuedIn(r, F("established", c))
        /\ Destroying(c)' <=> QueuedIn(r, F("destroyed", c))
        /\ Removing(c)' <=> QueuedIn(r, F("remove", c))
    BY <1>6, FunctorsNext
  <2>2. \A d \in Conns, o \in LifeOps :
            QueuedIn(r, F(o, d)) <=> QueuedIn(q, F(o, d)) \/ (o = "destroyed" /\ d = c)
    BY <1>9 DEF Posted
  <2> QED BY <1>6, <2>1, <2>2 DEF LifeOps, Establishing, Removing
<1>14. Owned(c)' /\ ClosedOnce(c)'
  BY <1>2, <1>3, <1>4, <1>7, <1>12, <1>13 DEF Owned, ClosedOnce, SameStage
<1>15. LoopOK(Base)'
  <2>1. c # None /\ current'[Base] = None /\ callback'[Base] = "none"
    BY <1>1, <1>7, TcpServerAssumption DEF Idle
  <2>2. running'[Base] = "stopped" => phase'[Base] = "pending" /\ left'[Base] = 0
    BY <1>2, <1>7 DEF LoopOK
  <2> QED BY <2>1, <2>2, TurnLoop
<1>16. EventsOK(c)'
  BY <1>2, <1>7 DEF EventsOK, Home, Told, Removed
<1>17. Teardown'
  BY <1>7, SameProgram DEF Inv, Teardown
<1>18. QueueOK(r) /\ (phase[Base] = "pending" => InRound(r, left'[Base]))
  BY <1>5, <1>7, <1>8, <1>9 DEF Posted
<1>19. GoesOn(c) /\ Stage(conn'[c]) /\ (conn'[c].state_ = "kDisconnecting" => program.lateShutdown)
  BY <1>7, <1>12, SameGoesOn DEF Inv, Stages
<1>20. UNCHANGED <<program, running, phase, held, ucall>>
  BY <1>7
<1> QED BY <1>1, <1>6, <1>10, <1>11, <1>13, <1>14, <1>15, <1>16, <1>17, <1>18, <1>19, <1>20, TurnKeeps

(* The steps that change only who runs, and the queues of loops that end.  *)
LEMMA RunningKeeps ==
    ASSUME Inv, UNCHANGED <<program, conn, net, left, phase, active, current, callback, connections_, next_,
                            held, ucall, sends>>,
           running' \in [Loops -> {"run", "quit", "stopped"}], serverAlive' \in BOOLEAN,
           \A l \in Loops : running'[l] = "stopped" =>
               running[l] = "stopped" \/ (phase[l] = "pending" /\ left[l] = 0 /\ callback[l] = "none"),
           BaseStopped => running'[Base] = "stopped",
           NEW r, r = queue', r \in QueueType, QueueOK(r), \A l \in Loops : left[l] <= Len(r[l]),
           phase[Base] = "pending" => InRound(r, left[Base]),
           \A c \in Conns : Owned(c)' /\ ClosedOnce(c)',
           Teardown'
    PROVE  Inv'
<1>1. \A c \in Conns : SameStage(c) /\ GoesOn(c)
  BY SameConn, SameGoesOn
<1>2. Loops' = Loops
  BY SameProgram
<1>3. TypeOK'
  BY TypeStep DEF Inv, TypeOK
<1>4. Stages'
  BY DEF Inv, Stages
<1>5. Queues'
  BY <1>1, QueuesKept
<1>6. Owners'
  BY DEF Owners
<1>7. Rounds'
  <2>1. ASSUME NEW l \in Loops PROVE LoopOK(l)'
    BY DEF Inv, Rounds, LoopOK, Home, Told
  <2>2. ASSUME NEW c \in Conns PROVE EventsOK(c)'
    BY DEF Inv, Rounds, EventsOK, Home, Told, Removed
  <2> QED BY <1>2, <2>1, <2>2 DEF Rounds
<1>8. Pointers'
  BY <1>1, <1>3, SameUser
<1> QED BY <1>3, <1>4, <1>5, <1>6, <1>7, <1>8 DEF Inv

(* Owners stay while no loop with a connection ends.                       *)
LEMMA OwnersRemain ==
    ASSUME Inv, UNCHANGED <<program, conn, current, callback, connections_>>, NEW c \in Conns,
           SameFunctors(c), LoopGone(c)' <=> LoopGone(c), BaseStopped => BaseStopped'
    PROVE  Owned(c)' /\ ClosedOnce(c)'
<1>1. SameStage(c)
  BY SameConn
<1>2. (InDestroy(c)' <=> InDestroy(c)) /\ (InClose(c)' <=> InClose(c))
  BY SameProgram DEF InDestroy, InClose
<1>3. Undisturbed(c)
  BY <1>1, <1>2 DEF Undisturbed
<1> QED BY <1>3, UndisturbedKeeps DEF Inv, Owners

(* quit of the base loop and of the I/O loops, and the end of ~TcpServer,  *)
(* keep the invariant.                                                     *)
LEMMA QuitsKeep ==
    ASSUME Inv, QuitBase \/ ServerGone \/ \E l \in Loops : QuitIo(l)
    PROVE  Inv'
<1>1. UNCHANGED <<program, conn, net, queue, left, phase, active, current, callback, connections_, next_,
                  held, ucall, sends>>
  BY DEF QuitBase, ServerGone, QuitIo, connVars, loopVars, userVars
<1>2. /\ running' \in [Loops -> {"run", "quit", "stopped"}]
      /\ \A l \in Loops : running'[l] = "stopped" <=> running[l] = "stopped"
  BY DEF QuitBase, ServerGone, QuitIo, Inv, TypeOK
<1>3. serverAlive' \in BOOLEAN
  BY DEF QuitBase, ServerGone, QuitIo, Inv, TypeOK
<1>4. Base \in Loops /\ Loops' = Loops
  BY <1>1, Bases, SameProgram DEF Inv
<1>5. BaseStopped' <=> BaseStopped
  BY <1>2, <1>4 DEF BaseStopped
<1>6. Teardown'
  <2>1. CASE QuitBase
    BY <1>1, <1>4, <2>1 DEF QuitBase, Inv, Teardown, TypeOK
  <2>2. CASE ServerGone
    BY <1>1, <1>4, <2>2 DEF ServerGone, Inv, Teardown
  <2>3. ASSUME NEW l \in Loops, QuitIo(l) PROVE Teardown'
    BY <1>1, <1>4, <2>3 DEF QuitIo, Inv, Teardown, TypeOK
  <2> QED BY <2>1, <2>2, <2>3
<1>7. ASSUME NEW c \in Conns PROVE Owned(c)' /\ ClosedOnce(c)'
  <2>1. conn[c].loop \in Loops
    BY Typed DEF Inv, Connection
  <2>2. LoopGone(c)' <=> LoopGone(c)
    BY <1>1, <1>2, <2>1 DEF LoopGone
  <2>3. SameFunctors(c)
    BY <1>1 DEF SameFunctors, Establishing, Destroying, Removing
  <2> QED BY <1>1, <1>5, <2>2, <2>3, OwnersRemain
<1>8. PICK r : r = queue'
  OBVIOUS
<1>9. /\ r \in QueueType /\ QueueOK(r) /\ \A l \in Loops : left[l] <= Len(r[l])
      /\ phase[Base] = "pending" => InRound(r, left[Base])
  BY <1>1, <1>8, Typed DEF Inv, Queues
<1>10. /\ BaseStopped => running'[Base] = "stopped"
       /\ \A l \in Loops : running'[l] = "stopped" =>
              running[l] = "stopped" \/ (phase[l] = "pending" /\ left[l] = 0 /\ callback[l] = "none")
  BY <1>2, <1>5 DEF BaseStopped
<1> QED BY <1>1, <1>2, <1>3, <1>6, <1>7, <1>8, <1>9, <1>10, RunningKeeps

(* The queue of a loop is emptied.                                         *)
LEMMA Empties ==
    ASSUME NEW q \in QueueType, QueueOK(q), NEW l \in Loops, NEW r, r = [q EXCEPT ![l] = <<>>]
    PROVE  /\ r \in QueueType /\ QueueOK(r)
           /\ \A f : QueuedIn(r, f) => QueuedIn(q, f)
           /\ \A f : QueuedIn(r, f) <=> \E m \in Loops : m # l /\ In(q[m], f)
           /\ \A n : InRound(q, n) => InRound(r, n)
<1>1. r[l] = <<>> /\ \A m \in Loops : m # l => r[m] = q[m]
  BY DEF QueueType
<1>2. r \in QueueType /\ DOMAIN r = Loops /\ DOMAIN q = Loops
  <2>1. <<>> \in Seq(Functor)
    OBVIOUS
  <2> QED BY <2>1 DEF QueueType
<1>3. Len(r[l]) = 0 /\ \A i : i \notin 1..Len(r[l])
  BY <1>1
<1>4. \A f : ~In(r[l], f)
  BY <1>3 DEF In
<1>5. \A f : QueuedIn(r, f) <=> \E m \in Loops : m # l /\ In(q[m], f)
  BY <1>1, <1>2, <1>4 DEF QueuedIn
<1>6. \A f : QueuedIn(r, f) => QueuedIn(q, f)
  BY <1>2, <1>5 DEF QueuedIn
<1>7. Ordered(r[l])
  BY <1>3 DEF Ordered, Once, Before
<1>8. QueueOK(r)
  BY <1>1, <1>4, <1>7 DEF QueueOK
<1>9. ASSUME NEW n, InRound(q, n) PROVE InRound(r, n)
  <2>1. CASE l = Base
    BY <1>3, <2>1 DEF InRound, Within
  <2>2. CASE l # Base
    <3>1. r[Base] = q[Base]
      BY <2>2
    <3> QED BY <1>9, <3>1 DEF InRound
  <2> QED BY <2>1, <2>2
<1> QED BY <1>1, <1>2, <1>3, <1>5, <1>6, <1>8, <1>9

(* The loops in which functors of a connection can be queued.              *)
LEMMA FunctorHomes ==
    ASSUME Inv, NEW c \in Conns, NEW m \in Loops
    PROVE  /\ In(queue[m], F("destroyed", c)) => m = Home(c)
           /\ In(queue[m], F("established", c)) => m = Home(c)
           /\ In(queue[m], F("remove", c)) => m = Base
<1>1. \A op \in LifeOps : F(op, c) \in Functor /\ F(op, c).op = op /\ F(op, c).conn = c
  BY FunctorFacts DEF LifeOps, Ops
<1>2. \A op \in LifeOps : In(queue[m], F(op, c)) => Placed(m, F(op, c))
  BY <1>1 DEF Inv, Queues, QueueOK
<1> QED BY <1>1, <1>2 DEF Placed, LifeOps

(* The end of an I/O loop drops its queue and keeps the invariant.         *)
LEMMA StopLoopKeeps ==
    ASSUME Inv, NEW l \in Loops, StopLoop(l)
    PROVE  Inv'
<1>1. /\ UNCHANGED <<program, conn, net, left, phase, active, current, callback, connections_, next_,
                     serverAlive, held, ucall, sends>>
      /\ phase[l] = "pending" /\ left[l] = 0 /\ callback[l] = "none" /\ running[l] = "quit"
      /\ running' = [running EXCEPT ![l] = "stopped"]
  BY DEF StopLoop, Idle, connVars, userVars
<1>2. /\ running' \in [Loops -> {"run", "quit", "stopped"}] /\ running'[l] = "stopped"
      /\ \A m \in Loops : m # l => running'[m] = running[m]
  BY <1>1 DEF Inv, TypeOK
<1>3. Base \in Loops /\ Loops' = Loops
  BY <1>1, Bases, SameProgram DEF Inv
<1>4. BaseStopped => BaseStopped'
  BY <1>1, <1>2, <1>3 DEF BaseStopped
<1>5. PICK q, r : q = queue /\ r = queue'
  OBVIOUS
<1>6. q \in QueueType /\ QueueOK(q) /\ (phase[Base] = "pending" => InRound(q, left[Base]))
      /\ \A m \in Loops : left[m] <= Len(q[m])
  BY <1>5, Typed DEF Inv, Queues
<1>7. l # Base => ~serverAlive /\ connections_ = {} /\ BaseStopped
  BY <1>1 DEF Inv, Teardown, BaseStopped
<1>8. Teardown'
  BY <1>1, <1>2, <1>3, <1>7 DEF Inv, Teardown, BaseStopped
<1>9. CASE l = Base
  <2>1. r = q
    BY <1>5, <1>9 DEF StopLoop
  <2>2. ASSUME NEW c \in Conns PROVE Owned(c)' /\ ClosedOnce(c)'
    <3>1. conn[c].loop \in Loops
      BY Typed DEF Inv, Connection
    <3>2. LoopGone(c)' <=> LoopGone(c)
      BY <1>1, <1>2, <1>9, <3>1 DEF LoopGone
    <3>3. SameFunctors(c)
      BY <1>5, <2>1 DEF SameFunctors, Establishing, Destroying, Removing
    <3> QED BY <1>1, <1>4, <3>2, <3>3, OwnersRemain
  <2>3. \A m \in Loops : running'[m] = "stopped" =>
            running[m] = "stopped" \/ (phase[m] = "pending" /\ left[m] = 0 /\ callback[m] = "none")
    BY <1>1, <1>2
  <2>4. serverAlive' \in BOOLEAN /\ (BaseStopped => running'[Base] = "stopped")
    BY <1>1, <1>4 DEF Inv, TypeOK, BaseStopped
  <2> QED BY <1>1, <1>2, <1>5, <1>6, <1>8, <2>1, <2>2, <2>3, <2>4, RunningKeeps
<1>10. CASE l # Base
  <2>1. r = [q EXCEPT ![l] = <<>>]
    BY <1>5, <1>10 DEF StopLoop
  <2>2. r \in QueueType /\ QueueOK(r)
    BY <1>6, <2>1, Empties
  <2>3. \A f : QueuedIn(r, f) <=> \E m \in Loops : m # l /\ In(q[m], f)
    BY <1>6, <2>1, Empties
  <2>4. \A n : InRound(q, n) => InRound(r, n)
    BY <1>6, <2>1, Empties
  <2>5. Len(r[l]) = 0 /\ \A m \in Loops : m # l => r[m] = q[m]
    <3>1. r[l] = <<>> /\ \A m \in Loops : m # l => r[m] = q[m]
      BY <1>6, <2>1 DEF QueueType
    <3> QED BY <3>1
  <2>6. ASSUME NEW c \in Conns PROVE Owned(c)' /\ ClosedOnce(c)'
    <3>1. Home(c) \in Loops /\ DOMAIN queue = Loops
      BY Typed DEF Inv, Connection, Home, QueueType
    <3>2. /\ Establishing(c)' <=> QueuedIn(r, F("established", c))
          /\ Destroying(c)' <=> QueuedIn(r, F("destroyed", c))
          /\ Removing(c)' <=> QueuedIn(r, F("remove", c))
      BY <1>5, FunctorsNext
    <3>3. /\ Establishing(c)' <=> Establishing(c) /\ Home(c) # l
          /\ Destroying(c)' <=> Destroying(c) /\ Home(c) # l
          /\ Removing(c)' <=> Removing(c)
      BY <1>5, <1>10, <2>3, <3>1, <3>2, FunctorHomes DEF Establishing, Destroying, Removing, QueuedIn
    <3>4. CASE Home(c) # l
      <4>1. LoopGone(c)' <=> LoopGone(c)
        BY <1>1, <1>2, <3>1, <3>4 DEF LoopGone, Home
      <4>2. SameFunctors(c)
        BY <3>3, <3>4 DEF SameFunctors
      <4> QED BY <1>1, <1>4, <4>1, <4>2, OwnersRemain
    <3>5. CASE Home(c) = l
      <4>1. LoopGone(c)' /\ ~Destroying(c)' /\ ~Establishing(c)' /\ c \notin connections_' /\ BaseStopped'
        BY <1>1, <1>2, <1>4, <1>7, <1>10, <3>3, <3>5 DEF LoopGone, Home
      <4>2. SameStage(c) /\ (InDestroy(c)' <=> InDestroy(c)) /\ (InClose(c)' <=> InClose(c))
        BY <1>1, <1>3, SameConn DEF InDestroy, InClose
      <4>3. Owned(c) /\ ClosedOnce(c)
        BY DEF Inv, Owners
      <4> QED BY <3>3, <4>1, <4>2, <4>3 DEF Owned, ClosedOnce, SameStage
    <3> QED BY <3>4, <3>5
  <2>7. ASSUME NEW m \in Loops PROVE left[m] <= Len(r[m])
    <3>1. CASE m = l
      BY <1>1, <2>5, <3>1
    <3>2. CASE m # l
      BY <1>6, <2>5, <3>2
    <3> QED BY <3>1, <3>2
  <2>8. \A m \in Loops : running'[m] = "stopped" =>
            running[m] = "stopped" \/ (phase[m] = "pending" /\ left[m] = 0 /\ callback[m] = "none")
    BY <1>1, <1>2
  <2>9. serverAlive' \in BOOLEAN /\ (BaseStopped => running'[Base] = "stopped")
    BY <1>1, <1>4 DEF Inv, TypeOK, BaseStopped
  <2>10. phase[Base] = "pending" => InRound(r, left[Base])
    BY <1>6, <2>4
  <2> QED BY <1>1, <1>2, <1>5, <1>8, <2>2, <2>6, <2>7, <2>8, <2>9, <2>10, RunningKeeps
<1> QED BY <1>9, <1>10

(* So does the end of the base loop.                                       *)
LEMMA DeleteBaseKeeps ==
    ASSUME Inv, DeleteBase
    PROVE  Inv'
<1>1. /\ UNCHANGED <<program, conn, net, left, phase, active, current, callback, connections_, next_,
                     running, serverAlive, held, ucall, sends>>
      /\ \A m \in Loops : running[m] = "stopped"
      /\ ~serverAlive
  BY DEF DeleteBase, connVars, mgmtVars, userVars
<1>2. Base \in Loops /\ Loops' = Loops
  BY <1>1, Bases, SameProgram DEF Inv
<1>3. BaseStopped /\ BaseStopped' /\ connections_ = {} /\ left[Base] = 0 /\ phase[Base] = "pending"
  BY <1>1, <1>2 DEF BaseStopped, Inv, Teardown, Rounds, LoopOK
<1>4. PICK q, r : q = queue /\ r = queue'
  OBVIOUS
<1>5. q \in QueueType /\ QueueOK(q) /\ InRound(q, 0) /\ \A m \in Loops : left[m] <= Len(q[m])
  BY <1>3, <1>4, Typed DEF Inv, Queues
<1>6. r = [q EXCEPT ![Base] = <<>>]
  BY <1>4 DEF DeleteBase
<1>7. r \in QueueType /\ QueueOK(r)
  BY <1>2, <1>5, <1>6, Empties
<1>8. \A f : QueuedIn(r, f) => QueuedIn(q, f)
  BY <1>2, <1>5, <1>6, Empties
<1>9. \A n : InRound(q, n) => InRound(r, n)
  BY <1>2, <1>5, <1>6, Empties
<1>10. Len(r[Base]) = 0 /\ \A m \in Loops : m # Base => r[m] = q[m]
  <2>1. r[Base] = <<>> /\ \A m \in Loops : m # Base => r[m] = q[m]
    BY <1>2, <1>5, <1>6 DEF QueueType
  <2> QED BY <2>1
<1>11. ASSUME NEW c \in Conns PROVE Owned(c)' /\ ClosedOnce(c)'
  <2>1. Owned(c) /\ ClosedOnce(c)
    BY DEF Inv, Owners
  <2>2. Home(c) # Base => LoopGone(c)
    <3>1. conn[c].loop \in Loops
      BY Typed DEF Inv, Connection
    <3> QED BY <1>1, <3>1 DEF LoopGone, Home
  <2>3. Home(c) = Base => ~Destroying(c)
    <3>1. \A i \in 1..Len(q[Base]) : ~(i <= 0)
      <4>1. Len(q[Base]) \in Nat
        BY <1>2, <1>4, Typed DEF Inv
      <4> QED BY <4>1
    <3>2. ~In(q[Base], F("destroyed", c))
      BY <1>5, <3>1 DEF InRound, Within, In
    <3> QED BY <1>4, <3>2, WherePlaced
  <2>4. ~Destroying(c)
    BY <2>1, <2>2, <2>3 DEF Owned
  <2>5. /\ Establishing(c)' <=> QueuedIn(r, F("established", c))
        /\ Destroying(c)' <=> QueuedIn(r, F("destroyed", c))
        /\ Removing(c)' <=> QueuedIn(r, F("remove", c))
    BY <1>4, FunctorsNext
  <2>6. /\ Establishing(c)' => Establishing(c)
        /\ Destroying(c)' => Destroying(c)
        /\ Removing(c)' => Removing(c)
    BY <1>4, <1>8, <2>5 DEF Establishing, Destroying, Removing
  <2>7. SameStage(c) /\ (InDestroy(c)' <=> InDestroy(c)) /\ (InClose(c)' <=> InClose(c))
        /\ (LoopGone(c)' <=> LoopGone(c))
    BY <1>1, <1>2, SameConn DEF InDestroy, InClose, LoopGone
  <2> QED BY <1>1, <1>3, <2>1, <2>2, <2>4, <2>6, <2>7 DEF Owned, ClosedOnce, SameStage
<1>12. ASSUME NEW m \in Loops PROVE left[m] <= Len(r[m])
  <2>1. CASE m = Base
    BY <1>3, <1>10, <2>1
  <2>2. CASE m # Base
    BY <1>5, <1>10, <2>2
  <2> QED BY <2>1, <2>2
<1>13. Teardown'
  BY <1>1, <1>2 DEF Inv, Teardown
<1>14. /\ running' \in [Loops -> {"run", "quit", "stopped"}] /\ serverAlive' \in BOOLEAN
       /\ BaseStopped => running'[Base] = "stopped"
       /\ \A m \in Loops : running'[m] = "stopped" =>
              running[m] = "stopped" \/ (phase[m] = "pending" /\ left[m] = 0 /\ callback[m] = "none")
  BY <1>1 DEF Inv, TypeOK, BaseStopped
<1>15. phase[Base] = "pending" => InRound(r, left[Base])
  BY <1>3, <1>5, <1>9
<1> QED BY <1>1, <1>4, <1>7, <1>11, <1>12, <1>13, <1>14, <1>15, RunningKeeps

-----------------------------------------------------------------------------
(* The phases of a loop's round.                                           *)

(* A loop that goes from one phase to the next keeps the invariant.        *)
LEMMA PhaseKeeps ==
    ASSUME Inv, UNCHANGED <<program, net, queue, callback, connections_, next_, running, serverAlive,
                            held, ucall, sends>>,
           NEW l \in Loops, Idle(l) \/ callback[l] = "none", running[l] # "stopped",
           conn' \in [Conns -> Connection],
           \A c \in Conns : SameStage(c) /\ Stage(conn'[c]) /\ conn'[c].state_ = conn[c].state_,
           \A m \in Loops : m # l => left'[m] = left[m] /\ phase'[m] = phase[m] /\ current'[m] = current[m],
           current'[l] \in {None, current[l]},
           left' \in [Loops -> Nat], left'[l] <= Len(queue[l]),
           phase' \in [Loops -> {"events", "pending"}], active' \subseteq Conns \cup {Acceptor},
           current' \in [Loops -> Conns \cup {None}],
           phase'[Base] = "pending" => InRound(queue, left'[Base]),
           \A c \in Conns : EventsOK(c)'
    PROVE  Inv'
<1>1. Loops' = Loops /\ callback[l] = "none" /\ None \notin Conns
  BY SameProgram, TcpServerAssumption DEF Idle
<1>2. \A m \in Loops : QuietTurn(m)
  <2> SUFFICES ASSUME NEW m \in Loops PROVE QuietTurn(m)
    OBVIOUS
  <2>1. CASE m # l
    BY <2>1, StillTurn
  <2>2. CASE m = l
    BY <1>1, <2>2 DEF QuietTurn
  <2> QED BY <2>1, <2>2
<1>3. \A c \in Conns : GoesOn(c) /\ SameFunctors(c)
  BY SameGoesOn DEF SameFunctors, Establishing, Destroying, Removing
<1>4. Owners' /\ Teardown'
  BY <1>2, <1>3, CalmOwners
<1>5. Stages'
  BY DEF Inv, Stages
<1>6. PICK r : r = queue'
  OBVIOUS
<1>7. QueueOK(r) /\ (phase'[Base] = "pending" => InRound(r, left'[Base]))
  BY <1>6 DEF Inv, Queues
<1>8. Queues'
  BY <1>3, <1>6, <1>7, QueuesKept
<1>9. ASSUME NEW m \in Loops PROVE LoopOK(m)'
  <2>1. LoopOK(m)
    BY DEF Inv, Rounds
  <2>2. PICK d : d = current'[m]
    OBVIOUS
  <2>3. d \in Conns => Home(d) = m /\ Told(d) # 0
    BY <1>1, <2>1, <2>2 DEF LoopOK
  <2>4. d \in Conns => Home(d)' = m /\ Told(d)' # 0
    BY <2>3 DEF SameStage
  <2>5. current'[m] \in Conns => Home(current[m])' = m /\ Told(current[m])' # 0
    BY <2>2, <2>4 DEF Home, Told
  <2>6. CASE m # l
    BY <2>1, <2>5, <2>6 DEF LoopOK
  <2>7. CASE m = l
    BY <1>1, <2>5, <2>7 DEF LoopOK
  <2> QED BY <2>6, <2>7
<1>10. Rounds'
  BY <1>1, <1>9 DEF Rounds
<1>11. TypeOK'
  <2>1. ASSUME NEW m \in Loops PROVE left'[m] <= Len(queue'[m])
    BY DEF Inv, TypeOK
  <2> QED BY <2>1, TypeStep DEF Inv, TypeOK, QueueType
<1>12. Pointers'
  BY <1>3, <1>11, SameUser
<1> QED BY <1>4, <1>5, <1>8, <1>10, <1>11, <1>12 DEF Inv

(* The end of a channel's events keeps the invariant.                      *)
LEMMA EndEventKeeps ==
    ASSUME Inv, NEW l \in Loops, EndEvent(l)
    PROVE  Inv'
<1>1. PICK c : c = current[l]
  OBVIOUS
<1>2. c \in active /\ callback[l] = "none" /\ Todo(conn[c].revents) = "done"
  BY <1>1 DEF EndEvent, Handling
<1>3. c \in Conns /\ Home(c) = l /\ Told(c) # 0 /\ running[l] # "stopped"
  BY <1>1, <1>2, AtWork
<1>4. conn[c].revents = {}
  <2>1. conn[c].revents \subseteq {"IN", "OUT", "HUP", "ERR"}
    BY <1>3, Typed DEF Inv, Connection
  <2> QED BY <1>2, <2>1 DEF Todo
<1>5. /\ UNCHANGED <<program, conn, net, queue, left, phase, callback, connections_, next_, running,
                     serverAlive, held, ucall, sends>>
      /\ active' = active \ {c} /\ current' = [current EXCEPT ![l] = None]
  BY <1>1 DEF EndEvent, connVars, mgmtVars, userVars
<1>6. /\ current' \in [Loops -> Conns \cup {None}] /\ current'[l] = None
      /\ \A m \in Loops : m # l => current'[m] = current[m]
  BY <1>5 DEF Inv, TypeOK
<1>7. \A d \in Conns : SameStage(d) /\ Stage(conn'[d]) /\ conn'[d].state_ = conn[d].state_
  BY <1>5, SameConn DEF Inv, Stages
<1>8. ASSUME NEW d \in Conns PROVE EventsOK(d)'
  <2>1. EventsOK(d)
    BY DEF Inv, Rounds
  <2> QED BY <1>4, <1>5, <2>1 DEF EventsOK, Home, Told, Removed
<1>9. /\ conn' \in [Conns -> Connection] /\ left' \in [Loops -> Nat] /\ left'[l] <= Len(queue[l])
      /\ phase' \in [Loops -> {"events", "pending"}] /\ active' \subseteq Conns \cup {Acceptor}
  BY <1>5 DEF Inv, TypeOK
<1>10. phase'[Base] = "pending" => InRound(queue, left'[Base])
  BY <1>5 DEF Inv, Queues
<1>11. \A m \in Loops : m # l => left'[m] = left[m] /\ phase'[m] = phase[m] /\ current'[m] = current[m]
  BY <1>5, <1>6
<1> QED BY <1>2, <1>3, <1>5, <1>6, <1>7, <1>8, <1>9, <1>10, <1>11, PhaseKeeps

(* doPendingFunctors takes the queue as it is and keeps the invariant.     *)
LEMMA BeginPendingKeeps ==
    ASSUME Inv, NEW l \in Loops, BeginPending(l)
    PROVE  Inv'
<1>1. /\ UNCHANGED <<program, conn, net, queue, active, current, callback, connections_, next_, running,
                     serverAlive, held, ucall, sends>>
      /\ phase' = [phase EXCEPT ![l] = "pending"] /\ left' = [left EXCEPT ![l] = Len(queue[l])]
      /\ phase[l] = "events" /\ Idle(l)
  BY DEF BeginPending, connVars, mgmtVars, userVars
<1>2. running[l] # "stopped"
  BY <1>1 DEF Inv, Rounds, LoopOK
<1>3. Len(queue[l]) \in Nat
  BY Typed DEF Inv
<1>4. /\ phase' \in [Loops -> {"events", "pending"}] /\ phase'[l] = "pending"
      /\ \A m \in Loops : m # l => phase'[m] = phase[m]
  BY <1>1 DEF Inv, TypeOK
<1>5. /\ left' \in [Loops -> Nat] /\ left'[l] = Len(queue[l])
      /\ \A m \in Loops : m # l => left'[m] = left[m]
  BY <1>1, <1>3 DEF Inv, TypeOK
<1>6. \A d \in Conns : SameStage(d) /\ Stage(conn'[d]) /\ conn'[d].state_ = conn[d].state_
  BY <1>1, SameConn DEF Inv, Stages
<1>7. ASSUME NEW d \in Conns PROVE EventsOK(d)'
  <2>1. EventsOK(d) /\ Home(d) \in Loops
    BY Typed DEF Inv, Rounds, Connection, Home
  <2>2. d \in active => Home(d) # l
    BY TcpServerAssumption DEF BeginPending, Home
  <2>3. d \in active => phase'[Home(d)] = "events"
    BY <1>4, <2>1, <2>2 DEF EventsOK
  <2> QED BY <1>1, <2>1, <2>3 DEF EventsOK, Home, Told, Removed
<1>8. /\ conn' \in [Conns -> Connection] /\ active' \subseteq Conns \cup {Acceptor}
      /\ current' \in [Loops -> Conns \cup {None}]
  BY <1>1 DEF Inv, TypeOK
<1>9. Base \in Loops
  BY Bases DEF Inv
<1>10. ASSUME phase'[Base] = "pending" PROVE InRound(queue, left'[Base])
  <2>1. CASE l = Base
    BY <1>3, <1>5, <2>1 DEF InRound, Within
  <2>2. CASE l # Base
    BY <1>4, <1>5, <1>9, <1>10, <2>2 DEF Inv, Queues
  <2> QED BY <2>1, <2>2
<1>11. left'[l] <= Len(queue[l])
  BY <1>3, <1>5
<1>12. \A m \in Loops : m # l => left'[m] = left[m] /\ phase'[m] = phase[m] /\ current'[m] = current[m]
  BY <1>1, <1>4, <1>5
<1> QED BY <1>1, <1>2, <1>4, <1>5, <1>6, <1>7, <1>8, <1>10, <1>11, <1>12, PhaseKeeps

(* poll reports channels that are registered and keeps the invariant.      *)
LEMMA PollKeeps ==
    ASSUME Inv, NEW l \in Loops, Poll(l)
    PROVE  Inv'
<1>1. /\ UNCHANGED <<program, net, queue, left, current, callback, connections_, next_, running,
                     serverAlive, held, ucall, sends>>
      /\ phase' = [phase EXCEPT ![l] = "events"] /\ phase[l] = "pending" /\ Idle(l)
      /\ running[l] # "stopped"
      /\ conn' = [c \in Conns |-> IF c \in Reported(l)
                                  THEN [conn[c] EXCEPT !.revents = Revents(c)] ELSE conn[c]]
  BY DEF Poll, mgmtVars, userVars
<1>2. PICK clients \in SUBSET {Acceptor} : active' = active \cup Reported(l) \cup clients
  BY DEF Poll
<1>3. /\ phase' \in [Loops -> {"events", "pending"}] /\ phase'[l] = "events"
      /\ \A m \in Loops : m # l => phase'[m] = phase[m]
  BY <1>1 DEF Inv, TypeOK
<1>4. ASSUME NEW c \in Conns
      PROVE  /\ conn'[c] \in Connection /\ Stage(conn'[c]) /\ conn'[c].state_ = conn[c].state_
             /\ conn'[c].told = conn[c].told /\ conn'[c].loop = conn[c].loop /\ conn'[c].ch = conn[c].ch
             /\ c \in Reported(l) => Told(c) = 1 /\ Home(c) = l
             /\ c \notin Reported(l) => conn'[c] = conn[c]
  <2>1. conn[c] \in Connection /\ Stage(conn[c])
    BY Typed DEF Inv, Stages
  <2>2. CASE c \notin Reported(l)
    BY <1>1, <2>1, <2>2
  <2>3. CASE c \in Reported(l)
    <3>1. Revents(c) \subseteq {"IN", "OUT", "HUP", "ERR"}
      BY DEF Revents
    <3>2. PICK R \in SUBSET {"IN", "OUT", "HUP", "ERR"} : R = Revents(c)
      BY <3>1
    <3>3. conn'[c] = [conn[c] EXCEPT !.revents = R]
      BY <1>1, <2>3, <3>2
    <3>4. /\ conn'[c] \in Connection /\ conn'[c].state_ = conn[c].state_
          /\ conn'[c].told = conn[c].told /\ conn'[c].loop = conn[c].loop /\ conn'[c].ch = conn[c].ch
      BY <2>1, <3>3 DEF Connection
    <3>5. conn[c].ch.polled
      BY <2>3 DEF Reported, Revents
    <3>6. Told(c) = 1 /\ Home(c) = l
      BY <2>1, <2>3, <3>5 DEF Reported, Told, Home, Stage, Unregistered, Quiet
    <3> QED BY <2>1, <2>3, <3>4, <3>6 DEF Stage
  <2> QED BY <2>2, <2>3
<1>5. ASSUME NEW c \in Conns PROVE SameStage(c)
  BY <1>4 DEF SameStage, Told, Home, Created, Connecting, Removed
<1>6. conn' \in [Conns -> Connection]
  BY <1>1, <1>4
<1>7. ASSUME NEW c \in Conns PROVE EventsOK(c)'
  <2>1. EventsOK(c) /\ Home(c) \in Loops /\ SameStage(c) /\ Acceptor # c
    BY <1>5, Typed, TcpServerAssumption DEF Inv, Rounds, Connection, Home
  <2>2. CASE c \in Reported(l)
    <3>1. /\ Told(c)' = 1 /\ Home(c)' = l
      BY <1>4, <2>1, <2>2 DEF SameStage
    <3>2. c \in active'
      BY <1>2, <2>2
    <3> QED BY <1>3, <3>1, <3>2 DEF EventsOK, Removed
  <2>3. CASE c \notin Reported(l)
    <3>1. conn'[c] = conn[c] /\ (c \in active' <=> c \in active)
      BY <1>2, <1>4, <2>1, <2>3
    <3>2. c \in active => phase'[Home(c)] = "events"
      BY <1>1, <1>3, <2>1 DEF EventsOK
    <3> QED BY <2>1, <3>1, <3>2 DEF EventsOK, Home, Told, Removed
  <2> QED BY <2>2, <2>3
<1>8. /\ left' \in [Loops -> Nat] /\ left'[l] <= Len(queue[l])
      /\ current' \in [Loops -> Conns \cup {None}]
  BY <1>1 DEF Inv, TypeOK
<1>9. active' \subseteq Conns \cup {Acceptor}
  BY <1>2 DEF Reported, Inv, TypeOK
<1>10. Base \in Loops
  BY Bases DEF Inv
<1>11. phase'[Base] = "pending" => InRound(queue, left'[Base])
  BY <1>1, <1>3, <1>10 DEF Inv, Queues
<1>12. /\ \A c \in Conns : SameStage(c) /\ Stage(conn'[c]) /\ conn'[c].state_ = conn[c].state_
       /\ \A m \in Loops : m # l => left'[m] = left[m] /\ phase'[m] = phase[m] /\ current'[m] = current[m]
  BY <1>1, <1>3, <1>4, <1>5
<1>13. current'[l] \in {None, current[l]}
  BY <1>1
<1> QED BY <1>1, <1>3, <1>6, <1>7, <1>8, <1>9, <1>11, <1>12, <1>13, PhaseKeeps

-----------------------------------------------------------------------------
(* newConnection.                                                          *)

(* Nothing knows of a connection that was not accepted yet.                *)
LEMMA Unborn ==
    ASSUME Inv, NEW c \in Conns, ~Created(c)
    PROVE  /\ Told(c) = 0 /\ c \notin connections_ /\ c \notin active /\ conn[c].revents = {}
           /\ ~Establishing(c) /\ ~Destroying(c) /\ ~Removing(c)
           /\ \A m \in Loops : current[m] # c
<1>1. Told(c) = 0
  BY DEF Inv, Stages, Stage, Told, Created
<1>2. c \notin connections_ /\ c \notin active /\ conn[c].revents = {}
  BY <1>1 DEF Inv, Owners, Owned, Rounds, EventsOK
<1>3. ~Establishing(c) /\ ~Destroying(c) /\ ~Removing(c)
  BY WherePlaced
<1>4. \A m \in Loops : current[m] # c
  BY <1>1 DEF Inv, Rounds, LoopOK
<1> QED BY <1>1, <1>2, <1>3, <1>4

(* getNextLoop returns a loop.                                             *)
LEMMA NextLoopIsLoop ==
    ASSUME TypeOK
    PROVE  NextLoop \in Loops /\ NextAfter \in Nat /\ (numThreads_ > 0 => NextAfter < numThreads_)
<1>1. PICK n : n = numThreads_
  OBVIOUS
<1>2. n \in Nat /\ next_ \in Nat /\ (n > 0 => next_ < n)
  BY <1>1, Bases DEF TypeOK
<1>3. CASE n = 0
  BY <1>1, <1>2, <1>3 DEF NextLoop, NextAfter, Loops, Base
<1>4. CASE n # 0
  <2>1. next_ + 1 \in 0..n /\ (next_ + 1) % n \in Nat /\ (next_ + 1) % n < n
    BY <1>2, <1>4
  <2> QED BY <1>1, <1>4, <2>1 DEF NextLoop, NextAfter, Loops
<1> QED BY <1>3, <1>4

Accepted(c, k) ==
    /\ UNCHANGED <<program, net, left, phase, running, serverAlive, held, ucall, sends>>
    /\ active' = active \ {Acceptor} /\ connections_' = connections_ \cup {c} /\ next_' = NextAfter
    /\ conn' \in [Conns -> Connection] /\ conn'[c] = k /\ \A d \in Conns : d # c => conn'[d] = conn[d]
    /\ Stage(k) /\ k.state_ \in {"kConnecting", "kConnected"} /\ k.revents = {}
    /\ current' \in [Loops -> Conns \cup {None}]
    /\ callback' \in [Loops -> {"none", "plain", "close", "destroy"}]
    /\ current'[Base] \in {c, None} /\ (current'[Base] = c => k.told = 1 /\ k.loop = Base)
    /\ callback'[Base] = IF current'[Base] = c THEN "plain" ELSE "none"
    /\ \A m \in Loops : m # Base => current'[m] = current[m] /\ callback'[m] = callback[m]

(* A new connection with its functor queued, or up at once, keeps the      *)
(* invariant.                                                              *)
LEMMA AcceptedKeeps ==
    ASSUME Inv, NEW c \in Conns, AcceptorReady(c), NEW k, Accepted(c, k),
           NEW r, r = queue', r \in QueueType, \A m \in Loops : left[m] <= Len(r[m]), Queues',
           \A d \in Conns, op \in LifeOps :
               QueuedIn(r, F(op, d)) <=> \/ QueuedIn(queue, F(op, d))
                                         \/ op = "established" /\ d = c /\ k.state_ = "kConnecting",
           k.state_ = "kConnecting" => k.loop # Base
    PROVE  Inv'
<1>1. /\ Told(c) = 0 /\ c \notin connections_ /\ c \notin active /\ ~Created(c)
      /\ ~Establishing(c) /\ ~Destroying(c) /\ ~Removing(c)
      /\ \A m \in Loops : current[m] # c
  BY Unborn DEF AcceptorReady
<1>2. /\ Base \in Loops /\ phase[Base] = "events" /\ running[Base] # "stopped" /\ c # None
      /\ Idle(Base) /\ serverAlive /\ Acceptor \notin Conns
  BY Bases, TcpServerAssumption DEF AcceptorReady, Inv, Rounds, LoopOK
<1>3. Turn(Base, c) /\ Elsewhere(c)
  BY <1>1, <1>2 DEF Turn, Elsewhere, Accepted, Idle
<1>4. /\ InDestroy(c)' <=> current'[Base] = c /\ callback'[Base] = "destroy"
      /\ InClose(c)' <=> current'[Base] = c /\ callback'[Base] = "close"
  BY <1>1, <1>2, <1>3, TurnCallbacks DEF Accepted
<1>5. ~InDestroy(c)' /\ ~InClose(c)'
  BY <1>4 DEF Accepted
<1>6. /\ Created(c)' /\ ~Removed(c)' /\ (Connecting(c)' <=> k.state_ = "kConnecting")
      /\ Home(c)' = k.loop /\ Told(c)' = k.told /\ (Connecting(c)' => Told(c)' = 0)
  BY DEF Accepted, Created, Removed, Connecting, Home, Told, Stage
<1>7. /\ ~Destroying(c)' /\ ~Removing(c)' /\ (Establishing(c)' <=> k.state_ = "kConnecting")
  <2>1. /\ Establishing(c)' <=> QueuedIn(r, F("established", c))
        /\ Destroying(c)' <=> QueuedIn(r, F("destroyed", c))
        /\ Removing(c)' <=> QueuedIn(r, F("remove", c))
    BY FunctorsNext
  <2> QED BY <1>1, <2>1 DEF LifeOps, Establishing, Destroying, Removing
<1>8. Owned(c)' /\ ClosedOnce(c)'
  BY <1>5, <1>6, <1>7 DEF Owned, ClosedOnce, Accepted
<1>9. LoopOK(Base)'
  <2>1. current'[Base] \in {c, None} /\ (current'[Base] = c => Home(c)' = Base /\ Told(c)' # 0)
    BY <1>6 DEF Accepted
  <2>2. /\ callback'[Base] # "none" => current'[Base] = c
        /\ callback'[Base] \in {"none", "plain"} /\ running'[Base] # "stopped"
    BY <1>2 DEF Accepted
  <2> QED BY <2>1, <2>2, TurnLoop
<1>10. EventsOK(c)'
  BY <1>1 DEF EventsOK, Accepted
<1>11. Teardown'
  BY <1>2, SameProgram DEF Inv, Teardown, Accepted
<1>12. TypeOK'
  <2>1. next_' \in Nat /\ (numThreads_ > 0 => next_' < numThreads_)
    BY NextLoopIsLoop DEF Inv, Accepted
  <2>2. /\ queue' \in QueueType /\ left' \in [Loops -> Nat]
        /\ \A m \in Loops : left'[m] <= Len(queue'[m])
    BY DEF Inv, TypeOK, Accepted
  <2>3. connections_' \subseteq Conns /\ active' \subseteq Conns \cup {Acceptor}
    BY DEF Inv, TypeOK, Accepted
  <2>4. /\ program' = program /\ conn' \in [Conns -> Connection] /\ net' \in [Conns -> Endpoint]
        /\ phase' \in [Loops -> {"events", "pending"}]
        /\ current' \in [Loops -> Conns \cup {None}]
        /\ callback' \in [Loops -> {"none", "plain", "close", "destroy"}]
        /\ running' \in [Loops -> {"run", "quit", "stopped"}] /\ serverAlive' \in BOOLEAN
        /\ held' \subseteq Conns /\ ucall' \in Functor \cup {None} /\ sends' \in 0..MaxSends
    BY DEF Inv, TypeOK, Accepted
  <2> QED BY <2>1, <2>2, <2>3, <2>4, TypeStepNext DEF Inv
<1>13. GoesOn(c) /\ Stage(conn'[c]) /\ conn'[c].state_ # "kDisconnecting"
  BY <1>1 DEF GoesOn, Accepted
<1>14. /\ UNCHANGED <<program, running, phase, held, ucall>>
       /\ \A d \in Conns \ {c}, op \in LifeOps : QueuedIn(r, F(op, d)) <=> QueuedIn(queue, F(op, d))
  BY DEF Accepted
<1> QED BY <1>2, <1>3, <1>8, <1>9, <1>10, <1>11, <1>12, <1>13, <1>14, TurnInv

(* Acceptor::handleRead with newConnection keeps the invariant.            *)
LEMMA AcceptKeeps ==
    ASSUME Inv, NEW c \in Conns, Accept(c)
    PROVE  Inv'
<1>1. /\ AcceptorReady(c) /\ ~Created(c) /\ phase[Base] = "events"
      /\ UNCHANGED <<program, net, left, phase, running, serverAlive, held, ucall, sends>>
      /\ active' = active \ {Acceptor} /\ connections_' = connections_ \cup {c} /\ next_' = NextAfter
      /\ callback[Base] = "none" /\ current[Base] = None
  BY DEF Accept, AcceptorReady, userVars, Idle
<1>2. /\ Told(c) = 0 /\ conn[c].revents = {}
      /\ ~Establishing(c) /\ ~Destroying(c) /\ ~Removing(c)
  BY <1>1, Unborn
<1>3. PICK h \in Loops : h = NextLoop
  BY NextLoopIsLoop DEF Inv
<1>4. conn[c] \in Connection /\ Stage(conn[c]) /\ Base \in Loops /\ c # None
  BY Typed, Bases, TcpServerAssumption DEF Inv, Stages
<1>5. PICK k : k = [conn[c] EXCEPT !.state_ = "kConnecting", !.loop = h]
  OBVIOUS
<1>6. k \in Connection /\ k.state_ = "kConnecting" /\ k.loop = h /\ k.told = 0 /\ k.revents = {}
      /\ k.ch = conn[c].ch
  BY <1>2, <1>4, <1>5 DEF Connection, StateE, Told
<1>7. Stage(k)
  BY <1>2, <1>4, <1>6 DEF Stage, Told
<1>8. PICK q, r : q = queue /\ r = queue'
  OBVIOUS
<1>9. q \in QueueType /\ QueueOK(q) /\ \A m \in Loops : left[m] <= Len(q[m])
  BY <1>8, Typed DEF Inv, Queues
<1>10. phase'[Base] # "pending"
  BY <1>1
<1>11. CASE h = Base
  <2>1. PICK g : g = Established(k)
    OBVIOUS
  <2>2. /\ g \in Connection /\ Stage(g) /\ g.told = 1 /\ g.state_ = "kConnected"
        /\ g.loop = h /\ g.revents = {}
    BY <1>6, <1>7, <2>1, StageSteps
  <2>3. /\ conn' = [conn EXCEPT ![c] = g] /\ queue' = queue
        /\ current' = [current EXCEPT ![Base] = c] /\ callback' = [callback EXCEPT ![Base] = "plain"]
    BY <1>3, <1>5, <1>11, <2>1 DEF Accept
  <2>4. conn' \in [Conns -> Connection] /\ conn'[c] = g /\ \A d \in Conns : d # c => conn'[d] = conn[d]
    BY <2>2, <2>3 DEF Inv, TypeOK
  <2>5. current' \in [Loops -> Conns \cup {None}]
    BY <2>3 DEF Inv, TypeOK
  <2>6. callback' \in [Loops -> {"none", "plain", "close", "destroy"}]
    BY <2>3 DEF Inv, TypeOK
  <2>7. /\ current'[Base] = c /\ callback'[Base] = "plain"
        /\ \A m \in Loops : m # Base => current'[m] = current[m] /\ callback'[m] = callback[m]
    BY <1>4, <2>3 DEF Inv, TypeOK
  <2>8. Accepted(c, g)
    BY <1>1, <1>11, <2>2, <2>4, <2>5, <2>6, <2>7 DEF Accepted
  <2>9. \A d \in Conns : GoesOn(d)
    BY <1>1, <2>4, SameConn, SameGoesOn DEF GoesOn
  <2>10. Queues'
    BY <1>1, <1>8, <1>9, <1>10, <2>3, <2>9, QueuesKept
  <2>11. \A d \in Conns, op \in LifeOps :
             QueuedIn(r, F(op, d)) <=> \/ QueuedIn(queue, F(op, d))
                                       \/ op = "established" /\ d = c /\ g.state_ = "kConnecting"
    BY <1>8, <2>2, <2>3
  <2>12. r \in QueueType /\ \A m \in Loops : left[m] <= Len(r[m])
    BY <1>8, <1>9, <2>3
  <2>13. g.state_ = "kConnecting" => g.loop # Base
    BY <2>2
  <2> QED BY <1>1, <1>8, <2>8, <2>10, <2>11, <2>12, <2>13, AcceptedKeeps
<1>12. CASE h # Base
  <2>1. /\ conn' = [conn EXCEPT ![c] = k] /\ r = Post(q, h, F("established", c))
        /\ UNCHANGED <<current, callback>>
    BY <1>3, <1>5, <1>8, <1>12 DEF Accept
  <2>2. conn' \in [Conns -> Connection] /\ conn'[c] = k /\ \A d \in Conns : d # c => conn'[d] = conn[d]
    BY <1>6, <2>1 DEF Inv, TypeOK
  <2>3. Accepted(c, k)
    <3>1. /\ current' \in [Loops -> Conns \cup {None}]
          /\ callback' \in [Loops -> {"none", "plain", "close", "destroy"}]
      BY <2>1 DEF Inv, TypeOK
    <3> QED BY <1>1, <1>4, <1>6, <1>7, <2>1, <2>2, <3>1 DEF Accepted
  <2>4. \A d \in Conns : GoesOn(d)
    BY <1>1, <2>2, SameConn, SameGoesOn DEF GoesOn
  <2>5. QueueOK(q)' /\ Loops' = Loops
    BY <1>1, <1>9, <2>4, StillPlaced, SameProgram
  <2>6. PICK f, a, b : f = F("established", c) /\ a = q[h] /\ b = r[h]
    OBVIOUS
  <2>7. /\ f \in Functor /\ f.op = "established" /\ f.conn = c /\ f # F("destroyed", c)
    BY <2>6, FunctorFacts DEF Ops
  <2>8. /\ a \in Seq(Functor) /\ b = Append(a, f) /\ \A m \in Loops : m # h => r[m] = q[m]
        /\ DOMAIN r = Loops /\ DOMAIN q = Loops
    BY <1>9, <2>1, <2>6 DEF QueueType, Post
  <2>9. /\ b \in Seq(Functor) /\ Len(b) = Len(a) + 1 /\ Len(a) \in Nat
    BY <2>7, <2>8, Pushed
  <2>10. \A g : In(b, g) <=> In(a, g) \/ g = f
    BY <2>7, <2>8, Pushed
  <2>11. \A g : Once(a, g) /\ (g = f => ~In(a, g)) => Once(b, g)
    BY <2>7, <2>8, Pushed
  <2>12. \A g, i : Before(a, g, i) /\ (g = f => ~In(a, i) /\ g # i) => Before(b, g, i)
    BY <2>7, <2>8, Pushed
  <2>13. ~In(a, f) /\ ~In(a, F("destroyed", c))
    BY <1>2, <1>8, <2>6, <2>8 DEF Establishing, Destroying, QueuedIn
  <2>14. Ordered(b)
    <3>1. Ordered(a)
      BY <1>9, <2>6 DEF QueueOK
    <3>2. ASSUME NEW d \in Conns PROVE Before(b, F("established", d), F("destroyed", d))
      <4>1. F("established", d) = f => d = c
        BY <2>6, FunctorFacts
      <4> QED BY <2>7, <2>12, <2>13, <3>1, <4>1 DEF Ordered
    <3> QED BY <2>11, <2>13, <3>1, <3>2 DEF Ordered
  <2>15. Placed(h, f)'
    <3>1. Created(c)' /\ Home(c)' = h
      BY <1>6, <2>2 DEF Created, Home
    <3> QED BY <2>7, <3>1 DEF Placed, Raw
  <2>16. QueueOK(r)'
    <3>1. ASSUME NEW m \in Loops PROVE Ordered(r[m])
      BY <1>9, <2>6, <2>8, <2>14 DEF QueueOK
    <3>2. ASSUME NEW m \in Loops, NEW g \in Functor, In(r[m], g) PROVE Placed(m, g)'
      <4>1. CASE In(q[m], g)
        BY <2>5, <4>1 DEF QueueOK
      <4>2. CASE ~In(q[m], g)
        <5>1. m = h /\ g = f
          BY <2>6, <2>8, <2>10, <3>2, <4>2
        <5> QED BY <2>15, <5>1
      <4> QED BY <4>1, <4>2
    <3> QED BY <2>5, <3>1, <3>2 DEF QueueOK
  <2>17. Queues'
    BY <1>8, <1>10, <2>16 DEF Queues
  <2>18. r \in QueueType
    BY <1>9, <2>1, <2>6, <2>8, <2>9 DEF QueueType, Post
  <2>19. \A g : QueuedIn(r, g) <=> QueuedIn(q, g) \/ g = f
    BY <2>6, <2>8, <2>10 DEF QueuedIn
  <2>20. \A d \in Conns, op \in LifeOps :
             QueuedIn(r, F(op, d)) <=> \/ QueuedIn(queue, F(op, d))
                                       \/ op = "established" /\ d = c /\ k.state_ = "kConnecting"
    BY <1>6, <1>8, <2>6, <2>19, FunctorFacts
  <2>21. ASSUME NEW m \in Loops PROVE left[m] <= Len(r[m])
    <3>1. left[m] \in Nat /\ left[m] <= Len(q[m])
      BY <1>8, Typed DEF Inv
    <3>2. CASE m = h
      BY <2>6, <2>9, <3>1, <3>2
    <3>3. CASE m # h
      BY <2>8, <3>1, <3>3
    <3> QED BY <3>2, <3>3
  <2>22. k.loop # Base
    BY <1>6, <1>12
  <2> QED BY <1>1, <1>8, <2>3, <2>17, <2>18, <2>20, <2>21, <2>22, AcceptedKeeps
<1> QED BY <1>11, <1>12

-----------------------------------------------------------------------------
(* The inductive invariant.                                                *)

(* Before the first client there is nothing.                               *)
LEMMA InvInit == Init => Inv
<1> SUFFICES ASSUME Init PROVE Inv
  OBVIOUS
<1>1. program \in Program /\ numThreads_ \in Nat /\ Base \in Loops
  <2>1. program \in Program
    BY TcpServerAssumption DEF Init
  <2> QED BY <2>1, TcpServerAssumption DEF Program, numThreads_, Loops, Base
<1>2. ASSUME NEW c \in Conns
      PROVE  conn[c] \in Connection /\ net[c] \in Endpoint
  <2>1. NewChannel \in ChannelType
    BY DEF NewChannel, ChannelType
  <2>2. conn[c] \in Connection
    BY <1>1, <2>1 DEF Init, Connection
  <2>3. net[c] \in Endpoint
    BY DEF Init, Endpoint
  <2> QED BY <2>2, <2>3
<1>3. TypeOK
  <2>1. conn \in [Conns -> Connection] /\ net \in [Conns -> Endpoint]
    BY <1>2 DEF Init
  <2>2. queue \in [Loops -> Seq(Functor)]
    <3>1. <<>> \in Seq(Functor)
      OBVIOUS
    <3> QED BY <3>1 DEF Init
  <2>3. \A l \in Loops : left[l] <= Len(queue[l])
    <3>1. Len(<<>>) = 0
      OBVIOUS
    <3>2. ASSUME NEW l \in Loops PROVE left[l] = 0 /\ queue[l] = <<>>
      BY DEF Init
    <3> QED BY <3>1, <3>2
  <2>4. sends \in 0..MaxSends /\ next_ \in Nat /\ (numThreads_ > 0 => next_ < numThreads_)
    BY <1>1, TcpServerAssumption DEF Init
  <2>5. left \in [Loops -> Nat]
    BY DEF Init
  <2> QED BY <2>1, <2>2, <2>3, <2>4, <2>5 DEF Init, TypeOK
<1>4. ASSUME NEW c \in Conns
      PROVE  conn[c].told = 0 /\ conn[c].state_ = "unborn" /\ conn[c].ch = NewChannel
             /\ conn[c].revents = {} /\ conn[c].loop = Base
  BY DEF Init
<1>5. Stages
  BY <1>4 DEF Stages, Stage, Unregistered, NewChannel
<1>6. \A l \in Loops : \A f : ~In(queue[l], f)
  <2>1. \A i : i \notin 1..Len(<<>>)
    OBVIOUS
  <2> QED BY <2>1 DEF Init, In
<1>7. Queues
  <2>1. ASSUME NEW l \in Loops PROVE Ordered(queue[l])
    BY <1>6 DEF Ordered, Once, Before, In
  <2>2. InRound(queue, left[Base])
    BY <1>1, <1>6 DEF InRound, Within, In
  <2> QED BY <1>6, <2>1, <2>2 DEF Queues, QueueOK
<1>8. Owners
  <2>1. \A f : ~QueuedIn(queue, f)
    <3>1. DOMAIN queue = Loops
      BY DEF Init
    <3> QED BY <1>6, <3>1 DEF QueuedIn
  <2>2. ASSUME NEW c \in Conns PROVE Owned(c) /\ ClosedOnce(c)
    <3>1. ~Created(c) /\ ~Connecting(c) /\ c \notin connections_
      BY <1>4 DEF Created, Connecting, Init
    <3>2. ~InDestroy(c) /\ ~InClose(c)
      BY DEF InDestroy, InClose, Init
    <3>3. ~Establishing(c) /\ ~Destroying(c) /\ ~Removing(c)
      BY <2>1 DEF Establishing, Destroying, Removing
    <3> QED BY <3>1, <3>2, <3>3 DEF Owned, ClosedOnce
  <2> QED BY <2>2 DEF Owners
<1>9. Rounds
  <2>1. ASSUME NEW l \in Loops PROVE LoopOK(l)
    BY TcpServerAssumption DEF Init, LoopOK
  <2>2. ASSUME NEW c \in Conns PROVE EventsOK(c)
    BY <1>4 DEF Init, EventsOK
  <2> QED BY <2>1, <2>2 DEF Rounds
<1>10. Teardown /\ Pointers
  BY DEF Init, Teardown, Pointers
<1> QED BY <1>3, <1>5, <1>7, <1>8, <1>9, <1>10 DEF Inv

(* Every step of a loop keeps the invariant.                               *)
LEMMA LoopStepKeeps ==
    ASSUME Orderly, Inv, NEW l \in Loops, LoopStep(l)
    PROVE  Inv'
<1>1. ASSUME RunFunctor(l) PROVE Inv'
  <2>1. Head(queue[l]).op \in {"established", "writeComplete", "remove", "destroyed", "shutdown"}
    BY <1>1 DEF RunFunctor
  <2> QED BY <1>1, <2>1, RunEstablishedKeeps, RunRemoveKeeps, RunDestroyedKeeps, RunPlainKeeps
<1>2. ASSUME EndCallback(l) PROVE Inv'
  <2>1. callback[l] \in {"plain", "close", "destroy"}
    BY <1>2 DEF EndCallback
  <2> QED BY <1>2, <2>1, EndPlainKeeps, EndCloseKeeps, EndDestroyKeeps
<1> QED
  BY <1>1, <1>2, PollKeeps, StopLoopKeeps, BeginEventKeeps, HandleCloseKeeps, HandlersKeep,
     HandleWriteKeeps, EndEventKeeps, BeginPendingKeeps, RunSendKeeps, AcceptKeeps
  DEF LoopStep

(* Every step keeps the invariant.                                         *)
LEMMA InvStep ==
    ASSUME Orderly, Inv, [Next]_vars
    PROVE  Inv'
<1>1. CASE UNCHANGED vars
  <2>1. UNCHANGED <<conn, net, loopVars, mgmtVars, program, held, ucall, sends>>
    BY <1>1 DEF vars, connVars, userVars
  <2>2. TypeOK'
    BY <2>1, TypeStep DEF Inv, TypeOK, loopVars, mgmtVars, QueueType
  <2>3. Pointers'
    BY <2>1, <2>2, ConnsGoOn, SameUser
  <2> QED BY <2>1, <2>2, <2>3, OnlyOthers
<1>2. CASE UserStep
  BY <1>2, InLoopShutdownKeeps, UserCallsKeep, InLoopSendKeeps, UserShutdownKeeps, UserPushKeeps
  DEF UserStep
<1>3. CASE NetStep
  BY <1>3, NetworkKeeps DEF NetStep
<1>4. CASE TeardownStep
  BY <1>4, QuitsKeep, DeleteBaseKeeps, DestroyServerHereKeeps, DestroyServerThereKeeps DEF TeardownStep
<1>5. CASE \E l \in Loops : LoopStep(l)
  BY <1>5, LoopStepKeeps
<1> QED BY <1>1, <1>2, <1>3, <1>4, <1>5 DEF Next

(* The program that runs stays the same.                                   *)
LEMMA ProgramStays == [Next]_vars => UNCHANGED program
<1> SUFFICES ASSUME [Next]_vars PROVE program' = program
  OBVIOUS
<1>1. CASE UNCHANGED vars
  BY <1>1 DEF vars, userVars
<1>2. CASE UserStep
  BY <1>2 DEF UserStep, InLoopShutdown, KeepPtr, InLoopSend, UserSend, UserShutdown, DropPtr, UserPush,
              userVars
<1>3. CASE NetStep
  BY <1>3 DEF NetStep, PeerSends, PeerCloses, PeerResets, Drains, Network, userVars
<1>4. CASE TeardownStep
  BY <1>4 DEF TeardownStep, QuitBase, ServerGone, DeleteBase, DestroyServer, QuitIo, userVars
<1>5. ASSUME NEW l \in Loops, LoopStep(l) PROVE program' = program
  BY <1>5 DEF LoopStep, Poll, StopLoop, BeginEvent, HandleClose, HandleError, HandleRead, HandleWrite,
              EndEvent, EndCallback, BeginPending, RunFunctor, RunSend, Accept, userVars
<1> QED BY <1>1, <1>2, <1>3, <1>4, <1>5 DEF Next

(* Under an Orderly program the server never leaves the states that Inv    *)
(* describes: every accepted connection has exactly one owner that will    *)
(* remove its channel.                                                     *)
THEOREM ServerInvariant == Spec => [](Orderly => Inv)
<1>1. Init => (Orderly => Inv)
  BY InvInit
<1>2. (Orderly => Inv) /\ [Next]_vars => (Orderly => Inv)'
  <2> SUFFICES ASSUME Orderly => Inv, [Next]_vars, Orderly' PROVE Inv'
    OBVIOUS
  <2>1. program' = program
    BY ProgramStays
  <2>2. Orderly
    BY <2>1 DEF Orderly
  <2> QED BY <2>2, InvStep
<1> QED BY <1>1, <1>2, PTL DEF Spec

-----------------------------------------------------------------------------
(* What Inv says of the properties.                                        *)

(* Two ways to say that a functor is queued.                               *)
LEMMA QueuedHere ==
    ASSUME Inv, NEW f
    PROVE  Queued(f) <=> QueuedIn(queue, f)
<1>1. DOMAIN queue = Loops
  BY DEF Inv, TypeOK
<1> QED BY <1>1 DEF Queued, QueuedIn, In

(* A connection that nobody has a pointer to was removed.                  *)
LEMMA DestroyedIsRemoved ==
    ASSUME Inv, NEW c \in Conns, Destroyed(c), ~LoopGone(c)
    PROVE  Removed(c)
<1>1. Created(c) /\ c \notin connections_ /\ ~InDestroy(c)
  BY DEF Destroyed, Alive, InDestroy
<1>2. ~Queued(F("destroyed", c))
  BY DEF Destroyed, Alive, Ops, Raw
<1>3. ~Destroying(c)
  BY <1>2, QueuedHere DEF Destroying
<1> QED BY <1>1, <1>3 DEF Inv, Owners, Owned

(* By the invariant who loses the last pointer was removed.                *)
LEMMA InvDestroyedAfterRemoved == Inv => DestroyedAfterRemoved
<1> SUFFICES ASSUME Inv, NEW c \in Conns, Destroyed(c), ~LoopGone(c)
             PROVE  ~conn[c].ch.added /\ ~conn[c].ch.listed /\ ~conn[c].ch.polled
  BY DEF DestroyedAfterRemoved
<1>1. Told(c) = 2 /\ conn[c].ch.index = "kNew" /\ Stage(conn[c])
  BY DestroyedIsRemoved DEF Removed, Inv, Stages
<1> QED BY <1>1 DEF Stage, Told, Quiet, Unregistered

(* By the invariant state_ and the callbacks go together.                  *)
LEMMA InvCallbacksPaired == Inv => CallbacksPaired
<1> SUFFICES ASSUME Inv, NEW c \in Conns
             PROVE  /\ conn[c].told = 0 <=> conn[c].state_ \in {"unborn", "kConnecting"}
                    /\ conn[c].told = 2 => conn[c].state_ \in {"kDisconnected", "kDisconnecting"}
                    /\ conn[c].told = 1 => conn[c].state_ = "kConnected"
                    /\ Destroyed(c) /\ ~LoopGone(c) => conn[c].told = 2
  BY DEF CallbacksPaired
<1>1. Stage(conn[c])
  BY DEF Inv, Stages
<1>2. Destroyed(c) /\ ~LoopGone(c) => conn[c].told = 2
  BY DestroyedIsRemoved DEF Removed, Told
<1> QED BY <1>1, <1>2 DEF Stage

(* By the invariant a connection has one connectDestroyed at most.         *)
LEMMA InvRemovedOnce == Inv => RemovedOnce
<1> SUFFICES ASSUME Inv, NEW c \in Conns
             PROVE  /\ LET q == queue[conn[c].loop] IN
                           \A i, j \in 1..Len(q) : q[i] = F("destroyed", c) /\ q[j] = q[i] => i = j
                    /\ Queued(F("destroyed", c)) => c \notin connections_
                    /\ Queued(F("destroyed", c)) =>
                           conn[c].ch.index # "kNew" \/ Queued(F("established", c))
  BY DEF RemovedOnce
<1>1. conn[c].loop \in Loops
  BY Typed DEF Inv, Connection
<1>2. Once(queue[conn[c].loop], F("destroyed", c))
  BY <1>1 DEF Inv, Queues, QueueOK, Ordered
<1>3. \A i, j \in 1..Len(queue[conn[c].loop]) :
          queue[conn[c].loop][i] = F("destroyed", c)
            /\ queue[conn[c].loop][j] = queue[conn[c].loop][i] => i = j
  BY <1>2 DEF Once
<1>4. /\ Queued(F("destroyed", c)) <=> Destroying(c)
      /\ Queued(F("established", c)) <=> Establishing(c)
  BY QueuedHere DEF Destroying, Establishing
<1>5. Owned(c) /\ Stage(conn[c]) /\ (Destroying(c) => Created(c))
  BY WherePlaced DEF Inv, Owners, Stages
<1>6. Destroying(c) => conn[c].ch.index # "kNew" \/ Establishing(c)
  BY <1>5 DEF Owned, Stage, Removed, Told, Created, Connecting, Listening
<1> QED BY <1>3, <1>4, <1>5, <1>6 DEF Owned

(* By the invariant a reported channel is registered.                      *)
LEMMA InvActiveChannelsStay == Inv => ActiveChannelsStay
<1> SUFFICES ASSUME Inv, NEW c \in active \cap Conns
             PROVE  Alive(c) /\ conn[c].ch.index # "kNew"
  BY DEF ActiveChannelsStay
<1>1. phase[Home(c)] = "events" /\ Told(c) # 0 /\ ~Removed(c) /\ Stage(conn[c]) /\ Home(c) \in Loops
  BY Typed DEF Inv, Rounds, EventsOK, Stages, Connection, Home
<1>2. conn[c].ch.index # "kNew"
  BY <1>1 DEF Stage, Told, Removed, Listening
<1>3. ~LoopGone(c) /\ Created(c)
  BY <1>1 DEF Inv, Rounds, LoopOK, LoopGone, Home, Stage, Told, Created
<1>4. c \in connections_ \/ Destroying(c) \/ InDestroy(c)
  BY <1>1, <1>3 DEF Inv, Owners, Owned
<1>5. Destroying(c) => Queued(F("destroyed", c))
  BY QueuedHere DEF Destroying
<1> QED BY <1>2, <1>4, <1>5 DEF Alive, InDestroy, Ops, Raw

(* By the invariant connectDestroyed finds no events left.                 *)
LEMMA InvRemoveFindsNoEvents == Inv => RemoveFindsNoEvents
<1> SUFFICES ASSUME Inv, NEW l \in Loops, left[l] > 0, NEW c, c = Head(queue[l]).conn
             PROVE  conn[c].state_ = "kConnected" \/ isNoneEvent(conn[c].ch)
  BY DEF RemoveFindsNoEvents
<1>1. queue[l] \in Seq(Functor) /\ queue[l] # <<>>
  BY Typed DEF Inv
<1>2. c \in Conns
  BY <1>1, FunctorFacts
<1> QED BY <1>2 DEF Inv, Stages, Stage, Quiet, Unregistered, isNoneEvent

(* The kernel and the poller keep raw Channel pointers: in Orderly         *)
(* programs, with any number of loops and connections, the last            *)
(* TcpConnectionPtr goes only after connectDestroyed has taken the channel *)
(* out of both.                                                            *)
THEOREM PointersOutliveChannels == Spec => [](Orderly => DestroyedAfterRemoved)
BY ServerInvariant, InvDestroyedAfterRemoved, PTL

(* In Orderly programs the user's connection callback is called once when  *)
(* connectEstablished makes the connection and once when handleClose or    *)
(* connectDestroyed ends it, and state_ says which of them has been.       *)
THEOREM ConnectionCallbacks == Spec => [](Orderly => CallbacksPaired)
BY ServerInvariant, InvCallbacksPaired, PTL

(* In Orderly programs removeConnectionInLoop and ~TcpServer never queue   *)
(* connectDestroyed for the same connection, and it finds the channel in   *)
(* the poller.                                                             *)
THEOREM DestroyedOnce == Spec => [](Orderly => RemovedOnce)
BY ServerInvariant, InvRemovedOnce, PTL

(* In Orderly programs a channel that poll reported stays registered, and  *)
(* its TcpConnection alive, until the loop has handled it:                 *)
(* connectDestroyed runs with the pending functors, never among the        *)
(* events.                                                                 *)
THEOREM ReportedChannelsStay == Spec => [](Orderly => ActiveChannelsStay)
BY ServerInvariant, InvActiveChannelsStay, PTL

(* The assert in Channel::remove holds in every program that does not both *)
(* let another thread send and call shutdown() on connections that are     *)
(* down: connectDestroyed comes upon a channel without events, or upon one *)
(* that is still connected and clears them. Of the other programs, in      *)
(* which the assert can fail, the theorem says nothing.                    *)
THEOREM RemovesQuietChannels == Spec => []OrderlyRemoveFindsNoEvents
BY ServerInvariant, InvRemoveFindsNoEvents, PTL DEF OrderlyRemoveFindsNoEvents
=============================================================================
