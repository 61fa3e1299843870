------------------------------ MODULE TcpServer ------------------------------
(***************************************************************************)
(* TcpServer, its TcpConnections and their Channels, over a base loop and  *)
(* numThreads_ I/O loops, with peers that send, close and reset, user       *)
(* callbacks, and a user thread that keeps TcpConnectionPtrs.              *)
(*                                                                         *)
(* Loop 0 is the base loop. A loop alternates between two phases: in       *)
(* "events" it handles the channels its last poll reported (active), in    *)
(* "pending" it runs the functors that were queued when the phase began    *)
(* (left of them); with left = 0 it is about to poll. That a queued        *)
(* functor wakes the loop is EventLoop's NoLostWakeup, that the queue is   *)
(* first in first out is its ImplementsTaskQueue.                          *)
(*                                                                         *)
(* A handler is one step up to the user callback it makes: other threads   *)
(* reach a connection only through state_ and through the loop's queue.    *)
(***************************************************************************)
EXTENDS Naturals, Sequences, FiniteSets, Channel

CONSTANTS Conns,              \* connections, each accepted at most once
          MaxThreads,         \* largest number of I/O loops
          None, Acceptor,     \* no connection; the listening channel
          MaxSends,           \* bound on the calls of send()
          Programs            \* the programs that use the server

(* A program: what main() sets up and what its user code does.             *)
Program == [numThreads_   : 0..MaxThreads,   \* setThreadNum
            clients       : SUBSET Conns,    \* the connections it gets
            writeComplete : BOOLEAN,        \* setWriteCompleteCallback
            userThread    : BOOLEAN,         \* callbacks give pointers to a thread,
                                            \* which keeps them until its calls have run
            lateShutdown  : BOOLEAN]         \* shutdown() also when no longer connected

ASSUME TcpServerAssumption ==
    /\ MaxThreads \in Nat /\ MaxSends \in Nat
    /\ Programs \subseteq Program
    /\ None \notin Conns /\ Acceptor \notin Conns /\ None # Acceptor

VARIABLES
    program,       \* the program that runs
    conn,          \* TcpConnection: the program's side
    net,           \* its socket: the kernel's side
    connections_,  \* TcpServer's map
    next_,         \* EventLoopThreadPool::next_
    queue,         \* loop -> pending functors
    left,          \* loop -> functors of this round still to run
    phase,         \* loop -> "events" or "pending"
    active,        \* channels reported and not yet handled, of all loops
    current,       \* loop -> connection its thread works for
    callback,      \* loop -> user callback its thread is in, or "none"
    running,       \* loop -> "run", "quit" (quit_ set) or "stopped"
    serverAlive,
    held,          \* connections the user thread has a pointer to
    ucall,         \* call of the user thread between its check and its push
    sends

connVars == <<conn, net>>
loopVars == <<queue, left, phase, active, current, callback>>
mgmtVars == <<connections_, next_, running, serverAlive>>
userVars == <<program, held, ucall, sends>>
vars == <<connVars, loopVars, mgmtVars, userVars>>

Base == 0
numThreads_ == program.numThreads_
Loops == 0..numThreads_

(* Functors. sendInLoop and shutdownInLoop are bound to a raw this, the    *)
(* others hold a TcpConnectionPtr.                                         *)
Ops == {"established", "destroyed", "remove", "send", "shutdown", "writeComplete"}
Raw == {"send", "shutdown"}
Functor == [op : Ops, conn : Conns]
F(op, c) == [op |-> op, conn |-> c]
Post(q, l, f) == [q EXCEPT ![l] = Append(@, f)]
Queued(f) == \E l \in Loops : \E i \in 1..Len(queue[l]) : queue[l][i] = f

StateE == {"kConnecting", "kConnected", "kDisconnecting", "kDisconnected"}

Connection == [state_ : StateE \cup {"unborn"}, loop : Loops, ch : ChannelType, out : BOOLEAN,
               revents : SUBSET {"IN", "OUT", "HUP", "ERR"}, told : 0..2]
Endpoint == [peer : {"open", "fin", "rst", "hup"}, inbound : BOOLEAN, writable : BOOLEAN,
             wrClosed : BOOLEAN]

TypeOK ==
    /\ program \in Programs
    /\ conn \in [Conns -> Connection]
    /\ net \in [Conns -> Endpoint]
    /\ connections_ \subseteq Conns
    /\ next_ \in Nat /\ (numThreads_ > 0 => next_ < numThreads_)
    /\ queue \in [Loops -> Seq(Functor)]
    /\ left \in [Loops -> Nat] /\ \A l \in Loops : left[l] <= Len(queue[l])
    /\ phase \in [Loops -> {"events", "pending"}]
    /\ active \subseteq Conns \cup {Acceptor}
    /\ current \in [Loops -> Conns \cup {None}]
    /\ callback \in [Loops -> {"none", "plain", "close", "destroy"}]
    /\ running \in [Loops -> {"run", "quit", "stopped"}]
    /\ serverAlive \in BOOLEAN
    /\ held \subseteq Conns
    /\ ucall \in Functor \cup {None}
    /\ sends \in 0..MaxSends

Init ==
    /\ program \in Programs
    /\ conn = [c \in Conns |-> [state_ |-> "unborn", loop |-> Base, ch |-> NewChannel,
                                out |-> FALSE, revents |-> {}, told |-> 0]]
    /\ net = [c \in Conns |-> [peer |-> "open", inbound |-> FALSE,
                               writable |-> TRUE, wrClosed |-> FALSE]]
    /\ connections_ = {}
    /\ next_ = 0
    /\ queue = [l \in Loops |-> <<>>]
    /\ left = [l \in Loops |-> 0]
    /\ phase = [l \in Loops |-> "pending"]
    /\ active = {}
    /\ current = [l \in Loops |-> None]
    /\ callback = [l \in Loops |-> "none"]
    /\ running = [l \in Loops |-> "run"]
    /\ serverAlive = TRUE
    /\ held = {}
    /\ ucall = None
    /\ sends = 0

(* Who holds a TcpConnectionPtr: the map, a functor, the thread that works *)
(* for the connection (tie_'s guard, handleClose's connPtr), the user.     *)
Alive(c) ==
    \/ c \in connections_
    \/ c \in held
    \/ \E l \in Loops : current[l] = c
    \/ \E op \in Ops \ Raw : Queued(F(op, c))
Created(c) == conn[c].state_ # "unborn"
Destroyed(c) == Created(c) /\ ~Alive(c)

-----------------------------------------------------------------------------
(* TcpConnection: what its methods do to the connection.                   *)

(* shutdownInLoop: the write end is closed unless output is pending.       *)
ShutdownInLoop(n, ch) == [n EXCEPT !.wrClosed = @ \/ ~isWriting(ch)]

(* sendInLoop; fits: the kernel takes all of it; q: the queues before it.  *)
SendInLoop(c, fits, q) ==
    LET k == conn[c]
        n == net[c]
        direct == ~isWriting(k.ch) /\ ~k.out
        fault  == direct /\ (n.peer \in {"rst", "hup"} \/ n.wrClosed)
        sent   == direct /\ ~fault /\ n.writable /\ fits
        refused == k.state_ = "kDisconnected" \/ fault
    IN  /\ queue' = IF ~refused /\ sent /\ program.writeComplete
                    THEN Post(q, k.loop, F("writeComplete", c)) ELSE q
        /\ IF refused \/ sent
           THEN UNCHANGED <<conn, net>>
           ELSE /\ conn' = [conn EXCEPT ![c].out = TRUE,
                               ![c].ch = IF isWriting(@) THEN @ ELSE enableWriting(@)]
                /\ net' = [net EXCEPT ![c].writable = @ /\ ~direct]

(* connectEstablished up to the user's callback.                           *)
Established(k) == [k EXCEPT !.state_ = "kConnected", !.ch = enableReading(@), !.told = @ + 1]

(* Mutant: handleClose also takes the channel out of the poller.           *)
ClosedAndRemoved(k) ==
    [k EXCEPT !.state_ = "kDisconnected", !.ch = remove(disableAll(@)), !.told = @ + 1]

(* Mutant: the channel keeps its events.                                   *)
ClosedButListening(k) == [k EXCEPT !.state_ = "kDisconnected", !.told = @ + 1]

(* handleClose up to the user's callback; connectDestroyed of a connection *)
(* that is still connected does the same.                                  *)
Closed(k) == [k EXCEPT !.state_ = "kDisconnected", !.ch = disableAll(@), !.told = @ + 1]

-----------------------------------------------------------------------------
(* A loop's round.                                                         *)

Idle(l) == callback[l] = "none" /\ current[l] = None

(* epoll_wait, level triggered. HUP and ERR are reported for every         *)
(* registered fd, IN and OUT where the mask has them.                      *)
Revents(c) ==
    LET ch == conn[c].ch
        n  == net[c]
    IN  IF ~ch.polled THEN {} ELSE
        (IF "R" \in ch.mask /\ (n.inbound \/ n.peer # "open") THEN {"IN"} ELSE {})
        \cup (IF "W" \in ch.mask /\ (n.writable \/ n.peer \in {"rst", "hup"}) THEN {"OUT"} ELSE {})
        \cup (IF n.peer \in {"rst", "hup"} \/ (n.peer = "fin" /\ n.wrClosed) THEN {"HUP"} ELSE {})
        \cup (IF n.peer = "rst" THEN {"ERR"} ELSE {})

Reported(l) == {c \in Conns : Created(c) /\ conn[c].loop = l /\ Revents(c) # {}}

Poll(l) ==
    /\ phase[l] = "pending" /\ left[l] = 0 /\ Idle(l)
    /\ running[l] # "stopped"
    /\ \E clients \in SUBSET {Acceptor} :
          /\ clients # {} => l = Base /\ \E c \in program.clients : ~Created(c)
          /\ \/ Reported(l) \cup clients # {}
             \/ queue[l] # <<>>
             \/ running[l] = "quit"
          /\ active' = active \cup Reported(l) \cup clients
    /\ conn' = [c \in Conns |-> IF c \in Reported(l)
                                THEN [conn[c] EXCEPT !.revents = Revents(c)] ELSE conn[c]]
    /\ phase' = [phase EXCEPT ![l] = "events"]
    /\ UNCHANGED <<net, queue, left, current, callback, mgmtVars, userVars>>

(* while (!quit_) ends. The EventLoop of an I/O thread is destroyed with   *)
(* the functors that are still queued; the base loop outlives its loop().  *)
StopLoop(l) ==
    /\ phase[l] = "pending" /\ left[l] = 0 /\ Idle(l)
    /\ running[l] = "quit"
    /\ running' = [running EXCEPT ![l] = "stopped"]
    /\ queue' = IF l = Base THEN queue ELSE [queue EXCEPT ![l] = <<>>]
    /\ UNCHANGED <<connVars, left, phase, active, current, callback,
                   connections_, next_, serverAlive, userVars>>

BeginEvent(l, c) ==
    /\ phase[l] = "events" /\ Idle(l)
    /\ c \in active /\ conn[c].loop = l
    /\ current' = [current EXCEPT ![l] = c]
    /\ UNCHANGED <<connVars, queue, left, phase, active, callback, mgmtVars, userVars>>

(* Channel::handleEventWithGuard: which callback is next. The test for HUP *)
(* without IN comes first, so taking IN out takes HUP out with it.         *)
Todo(r) ==
    IF "HUP" \in r /\ "IN" \notin r THEN "close"
    ELSE IF "ERR" \in r THEN "error"
    ELSE IF "IN" \in r THEN "read"
    ELSE IF "OUT" \in r THEN "write" ELSE "done"

Handling(l, what) ==
    /\ phase[l] = "events" /\ callback[l] = "none"
    /\ current[l] \in active
    /\ Todo(conn[current[l]].revents) = what

EndEvent(l) ==
    /\ Handling(l, "done")
    /\ active' = active \ {current[l]}
    /\ current' = [current EXCEPT ![l] = None]
    /\ UNCHANGED <<connVars, queue, left, phase, callback, mgmtVars, userVars>>

(* handleError reads SO_ERROR and so clears it.                            *)
HandleError(l) ==
    /\ Handling(l, "error")
    /\ LET c == current[l] IN
          /\ conn' = [conn EXCEPT ![c].revents = @ \ {"ERR"}]
          /\ net' = [net EXCEPT ![c].peer = IF @ = "rst" THEN "hup" ELSE @]
    /\ UNCHANGED <<loopVars, mgmtVars, userVars>>

(* Who calls handleClose: a hang-up without input, and handleRead at the   *)
(* end of the stream.                                                      *)
EndOfFile(c) == ~net[c].inbound /\ net[c].peer \in {"fin", "hup"}
Closing(l) == Handling(l, "close") \/ (Handling(l, "read") /\ EndOfFile(current[l]))

HandleClose(l) ==
    /\ Closing(l)
    /\ LET c == current[l]
           k == Closed(conn[c])
       IN  conn' = [conn EXCEPT ![c] = [k EXCEPT !.revents = @ \ {"IN", "HUP"}]]
    /\ callback' = [callback EXCEPT ![l] = "close"]
    /\ UNCHANGED <<net, queue, left, phase, active, current, mgmtVars, userVars>>

(* handleRead otherwise: data, or an error.                                *)
HandleRead(l) ==
    /\ Handling(l, "read")
    /\ LET c == current[l] IN
          /\ \/ /\ net[c].inbound
                /\ net' = [net EXCEPT ![c].inbound = FALSE]
                /\ callback' = [callback EXCEPT ![l] = "plain"]
             \/ /\ ~net[c].inbound /\ net[c].peer = "rst"
                /\ net' = [net EXCEPT ![c].peer = "hup"]
                /\ UNCHANGED callback
          /\ conn' = [conn EXCEPT ![c].revents = @ \ {"IN", "HUP"}]
    /\ UNCHANGED <<queue, left, phase, active, current, mgmtVars, userVars>>

(* handleWrite: nothing to do, a failed write, a part, or all of it.       *)
HandleWrite(l) ==
    /\ Handling(l, "write")
    /\ LET c == current[l]
           k == [conn[c] EXCEPT !.revents = @ \ {"OUT"}]
           gone == [k EXCEPT !.out = FALSE, !.ch = disableWriting(@)]
           writes == isWriting(k.ch) /\ net[c].writable /\ net[c].peer \notin {"rst", "hup"}
       IN  \/ /\ ~writes
              /\ conn' = [conn EXCEPT ![c] = k]
              /\ UNCHANGED <<net, queue>>
           \/ /\ writes
              /\ conn' = [conn EXCEPT ![c] = k]
              /\ net' = [net EXCEPT ![c].writable = FALSE]
              /\ UNCHANGED queue
           \/ /\ writes
              /\ conn' = [conn EXCEPT ![c] = gone]
              /\ queue' = IF program.writeComplete
                        THEN Post(queue, l, F("writeComplete", c)) ELSE queue
              /\ net' = IF k.state_ = "kDisconnecting"
                        THEN [net EXCEPT ![c] = ShutdownInLoop(@, gone.ch)] ELSE net
    /\ UNCHANGED <<left, phase, active, current, callback, mgmtVars, userVars>>

BeginPending(l) ==
    /\ phase[l] = "events" /\ Idle(l)
    /\ \A c \in active : IF c = Acceptor THEN l # Base ELSE conn[c].loop # l
    /\ phase' = [phase EXCEPT ![l] = "pending"]
    /\ left' = [left EXCEPT ![l] = Len(queue[l])]
    /\ UNCHANGED <<connVars, queue, active, current, callback, mgmtVars, userVars>>

-----------------------------------------------------------------------------
(* TcpServer.                                                              *)

NextLoop == IF numThreads_ = 0 THEN Base ELSE next_ + 1

(* getNextLoop's increment of next_.                                       *)
NextAfter == IF numThreads_ = 0 THEN next_ ELSE (next_ + 1) % numThreads_

(* Mutant: removeConnectionInLoop does not erase it from the map.          *)
NotErased(c) == connections_

Erased(c) == connections_ \ {c}

(* Acceptor::handleRead has accepted a client and calls newConnection.     *)
AcceptorReady(c) ==
    /\ phase[Base] = "events" /\ Idle(Base) /\ Acceptor \in active
    /\ serverAlive /\ c \in program.clients /\ ~Created(c)

(* newConnection; runInLoop calls connectEstablished at once when the base *)
(* loop is the only one.                                                   *)
Accept(c) ==
    /\ AcceptorReady(c)
    /\ active' = active \ {Acceptor}
    /\ connections_' = connections_ \cup {c}
    /\ next_' = NextAfter
    /\ LET k == [conn[c] EXCEPT !.state_ = "kConnecting", !.loop = NextLoop] IN
          IF NextLoop = Base
          THEN /\ conn' = [conn EXCEPT ![c] = Established(k)]
               /\ current' = [current EXCEPT ![Base] = c]
               /\ callback' = [callback EXCEPT ![Base] = "plain"]
               /\ UNCHANGED queue
          ELSE /\ conn' = [conn EXCEPT ![c] = k]
               /\ queue' = Post(queue, NextLoop, F("established", c))
               /\ UNCHANGED <<current, callback>>
    /\ UNCHANGED <<net, left, phase, running, serverAlive, userVars>>

(* Mutant: connectDestroyed is called at once in the loop's own thread.    *)
DestroyAtOnce(c, q) ==
    IF conn[c].loop = Base
    THEN conn' = [conn EXCEPT ![c].ch = remove(@)] /\ queue' = q
    ELSE UNCHANGED conn /\ queue' = Post(q, conn[c].loop, F("destroyed", c))

(* removeConnectionInLoop's last statement.                                *)
DestroyLater(c, q) == UNCHANGED conn /\ queue' = Post(q, conn[c].loop, F("destroyed", c))

(* The user's callback returns, and what comes after it is done:           *)
(* closeCallback_ (removeConnection) or channel_->remove().                *)
EndCallback(l) ==
    /\ callback[l] # "none"
    /\ callback' = [callback EXCEPT ![l] = "none"]
    /\ LET c == current[l] IN
          /\ current' = [current EXCEPT ![l] = IF phase[l] = "events" /\ c \in active THEN c ELSE None]
          /\ \/ callback[l] = "plain" /\ UNCHANGED <<conn, queue, connections_>>
             \/ /\ callback[l] = "close" /\ l = Base
                /\ connections_' = Erased(c)
                /\ DestroyLater(c, queue)
             \/ /\ callback[l] = "close" /\ l # Base
                /\ queue' = Post(queue, Base, F("remove", c))
                /\ UNCHANGED <<conn, connections_>>
             \/ /\ callback[l] = "destroy"
                /\ conn' = [conn EXCEPT ![c].ch = remove(@)]
                /\ UNCHANGED <<queue, connections_>>
    /\ UNCHANGED <<net, left, phase, active, next_, running, serverAlive, userVars>>

(* Mutant: connectDestroyed does not look at the state.                    *)
DestroyedInAnyState(l, c) ==
    /\ conn' = [conn EXCEPT ![c] = Closed(@)]
    /\ current' = [current EXCEPT ![l] = c]
    /\ callback' = [callback EXCEPT ![l] = "destroy"]

(* Mutant: only a connection that is still connected is removed.           *)
DestroyedIfConnected(l, c) ==
    IF conn[c].state_ = "kConnected"
    THEN /\ conn' = [conn EXCEPT ![c] = Closed(@)]
         /\ current' = [current EXCEPT ![l] = c]
         /\ callback' = [callback EXCEPT ![l] = "destroy"]
    ELSE UNCHANGED <<conn, current, callback>>

(* connectDestroyed, run by loop l.                                        *)
ConnectDestroyed(l, c) ==
    IF conn[c].state_ = "kConnected"
    THEN /\ conn' = [conn EXCEPT ![c] = Closed(@)]
         /\ current' = [current EXCEPT ![l] = c]
         /\ callback' = [callback EXCEPT ![l] = "destroy"]
    ELSE /\ conn' = [conn EXCEPT ![c].ch = remove(@)]
         /\ UNCHANGED <<current, callback>>

(* doPendingFunctors runs the next functor.                                *)
RunFunctor(l) ==
    /\ phase[l] = "pending" /\ left[l] > 0 /\ Idle(l)
    /\ left' = [left EXCEPT ![l] = @ - 1]
    /\ LET f == Head(queue[l])
           c == f.conn
           rest == [queue EXCEPT ![l] = Tail(@)]
       IN  \/ /\ f.op = "established"
              /\ conn' = [conn EXCEPT ![c] = Established(@)]
              /\ queue' = rest
              /\ current' = [current EXCEPT ![l] = c]
              /\ callback' = [callback EXCEPT ![l] = "plain"]
              /\ UNCHANGED <<net, connections_>>
           \/ /\ f.op = "writeComplete"
              /\ queue' = rest
              /\ current' = [current EXCEPT ![l] = c]
              /\ callback' = [callback EXCEPT ![l] = "plain"]
              /\ UNCHANGED <<conn, net, connections_>>
           \/ /\ f.op = "remove"
              /\ connections_' = Erased(c)
              /\ DestroyLater(c, rest)
              /\ UNCHANGED <<net, current, callback>>
           \/ /\ f.op = "destroyed"
              /\ ConnectDestroyed(l, c)
              /\ queue' = rest
              /\ UNCHANGED <<net, connections_>>
           \/ /\ f.op = "shutdown"
              /\ net' = [net EXCEPT ![c] = ShutdownInLoop(@, conn[c].ch)]
              /\ queue' = rest
              /\ UNCHANGED <<conn, current, callback, connections_>>
    /\ UNCHANGED <<phase, active, next_, running, serverAlive, userVars>>

RunSend(l, fits) ==
    /\ phase[l] = "pending" /\ left[l] > 0 /\ Idle(l)
    /\ Head(queue[l]).op = "send"
    /\ left' = [left EXCEPT ![l] = @ - 1]
    /\ SendInLoop(Head(queue[l]).conn, fits, [queue EXCEPT ![l] = Tail(@)])
    /\ UNCHANGED <<phase, active, current, callback, mgmtVars, userVars>>

-----------------------------------------------------------------------------
(* User code: in a callback of a loop's thread, and in a thread of its own. *)

(* The state in which shutdown() does anything.                            *)
ShutdownApplies(state) == state = "kDisconnected"

InLoopSend(l, fits) ==
    /\ callback[l] # "none" /\ sends < MaxSends
    /\ conn[current[l]].state_ = "kConnected"
    /\ sends' = sends + 1
    /\ SendInLoop(current[l], fits, queue)
    /\ UNCHANGED <<left, phase, active, current, callback, mgmtVars, program, held, ucall>>

(* shutdown() as every caller starts it.                                   *)
Shutdown(c) ==
    /\ program.lateShutdown \/ conn[c].state_ = "kConnected"
    /\ conn' = [conn EXCEPT ![c].state_ = IF ShutdownApplies(@) THEN "kDisconnecting" ELSE @]

InLoopShutdown(l) ==
    /\ callback[l] # "none"
    /\ LET c == current[l] IN
          /\ Shutdown(c)
          /\ net' = IF ShutdownApplies(conn[c].state_)
                    THEN [net EXCEPT ![c] = ShutdownInLoop(@, conn[c].ch)] ELSE net
    /\ UNCHANGED <<loopVars, mgmtVars, userVars>>

(* The callback gives the connection's pointer to the user thread.         *)
KeepPtr(l) ==
    /\ program.userThread /\ callback[l] = "plain"
    /\ held' = held \cup {current[l]}
    /\ UNCHANGED <<connVars, loopVars, mgmtVars, program, ucall, sends>>

UserSend(c) ==
    /\ c \in held /\ ucall = None /\ sends < MaxSends
    /\ running[conn[c].loop] = "run"
    /\ conn[c].state_ = "kConnected"
    /\ sends' = sends + 1
    /\ ucall' = F("send", c)
    /\ UNCHANGED <<connVars, loopVars, mgmtVars, program, held>>

UserShutdown(c) ==
    /\ c \in held /\ ucall = None
    /\ running[conn[c].loop] = "run"
    /\ Shutdown(c)
    /\ ucall' = IF ShutdownApplies(conn[c].state_) THEN F("shutdown", c) ELSE None
    /\ UNCHANGED <<net, loopVars, mgmtVars, program, held, sends>>

(* runInLoop of another thread: queueInLoop.                               *)
UserPush ==
    /\ ucall # None
    /\ queue' = Post(queue, conn[ucall.conn].loop, ucall)
    /\ ucall' = None
    /\ UNCHANGED <<connVars, left, phase, active, current, callback, mgmtVars, program, held, sends>>

DropPtr(c) ==
    /\ c \in held /\ ucall = None
    /\ \A op \in Raw : ~Queued(F(op, c))
    /\ held' = held \ {c}
    /\ UNCHANGED <<connVars, loopVars, mgmtVars, program, ucall, sends>>

-----------------------------------------------------------------------------
(* The kernel and the peer.                                                *)

Network(c, n) ==
    /\ Created(c) /\ ~Destroyed(c) /\ n # net[c]
    /\ net' = [net EXCEPT ![c] = n]
    /\ UNCHANGED <<conn, loopVars, mgmtVars, userVars>>

PeerSends(c)  == net[c].peer = "open" /\ Network(c, [net[c] EXCEPT !.inbound = TRUE])
PeerCloses(c) == net[c].peer = "open" /\ Network(c, [net[c] EXCEPT !.peer = "fin"])
PeerResets(c) == net[c].peer \in {"open", "fin"} /\ Network(c, [net[c] EXCEPT !.peer = "rst"])
Drains(c)     == net[c].peer \in {"open", "fin"} /\ Network(c, [net[c] EXCEPT !.writable = TRUE])

-----------------------------------------------------------------------------
(* Tear-down, as in the servers' main(): the base loop quits and returns,  *)
(* then ~TcpServer runs in its thread, then the pool quits and joins its   *)
(* threads one after the other, then the base loop is deleted.             *)

QuitBase ==
    /\ running[Base] = "run"
    /\ running' = [running EXCEPT ![Base] = "quit"]
    /\ UNCHANGED <<connVars, loopVars, connections_, next_, serverAlive, userVars>>

(* ~TcpServer, for one connection of the map.                              *)
DestroyServer(c) ==
    /\ running[Base] = "stopped" /\ Idle(Base)
    /\ c \in connections_
    /\ connections_' = connections_ \ {c}
    /\ IF conn[c].loop = Base
       THEN ConnectDestroyed(Base, c) /\ UNCHANGED queue
       ELSE queue' = Post(queue, conn[c].loop, F("destroyed", c)) /\ UNCHANGED <<conn, current, callback>>
    /\ UNCHANGED <<net, left, phase, active, next_, running, serverAlive, userVars>>

ServerGone ==
    /\ running[Base] = "stopped" /\ Idle(Base) /\ serverAlive
    /\ connections_ = {}
    /\ serverAlive' = FALSE
    /\ UNCHANGED <<connVars, loopVars, connections_, next_, running, userVars>>

QuitIo(l) ==
    /\ ~serverAlive /\ l # Base /\ running[l] = "run"
    /\ \A m \in 1..(l - 1) : running[m] = "stopped"
    /\ running' = [running EXCEPT ![l] = "quit"]
    /\ UNCHANGED <<connVars, loopVars, connections_, next_, serverAlive, userVars>>

DeleteBase ==
    /\ ~serverAlive /\ \A l \in Loops : running[l] = "stopped"
    /\ queue[Base] # <<>>
    /\ queue' = [queue EXCEPT ![Base] = <<>>]
    /\ UNCHANGED <<connVars, left, phase, active, current, callback, mgmtVars, userVars>>

-----------------------------------------------------------------------------
LoopStep(l) ==
    \/ Poll(l) \/ StopLoop(l)
    \/ \E c \in Conns : BeginEvent(l, c)
    \/ HandleClose(l) \/ HandleError(l) \/ HandleRead(l) \/ HandleWrite(l)
    \/ EndEvent(l) \/ EndCallback(l)
    \/ BeginPending(l) \/ RunFunctor(l) \/ \E fits \in BOOLEAN : RunSend(l, fits)
    \/ l = Base /\ \E c \in Conns : Accept(c)

UserStep ==
    \/ \E l \in Loops : InLoopShutdown(l) \/ KeepPtr(l) \/ \E fits \in BOOLEAN : InLoopSend(l, fits)
    \/ \E c \in Conns : UserSend(c) \/ UserShutdown(c) \/ DropPtr(c)
    \/ UserPush

NetStep == \E c \in Conns : PeerSends(c) \/ PeerCloses(c) \/ PeerResets(c) \/ Drains(c)

TeardownStep ==
    \/ QuitBase \/ ServerGone \/ DeleteBase
    \/ \E c \in Conns : DestroyServer(c)
    \/ \E l \in Loops : QuitIo(l)

Next == UserStep \/ NetStep \/ TeardownStep \/ \E l \in Loops : LoopStep(l)

Spec == Init /\ [][Next]_vars

(* Every loop's thread is scheduled and user callbacks return.             *)
FairSpec ==
    Spec /\ \A l \in 0..MaxThreads : WF_vars(l \in Loops /\ LoopStep(l))

-----------------------------------------------------------------------------
(* The program does not both let another thread send and call shutdown()   *)
(* on connections that are down: ShutdownApplies then makes kDisconnecting *)
(* of kDisconnected, and a send still queued is taken for one to a living  *)
(* connection and enables its channel again.                               *)
Orderly == ~(program.userThread /\ program.lateShutdown)

(* The raw Channel pointers of a round's activeChannels_ stay good until   *)
(* they are handled: nobody removes or destroys such a channel meanwhile.  *)
ActiveChannelsStay ==
    \A c \in active \cap Conns : Alive(c) /\ conn[c].ch.index # "kNew"

(* The I/O loop of the connection has been destroyed.                      *)
LoopGone(c) == conn[c].loop # Base /\ running[conn[c].loop] = "stopped"

(* The kernel and the poller keep raw Channel pointers: as long as the     *)
(* loop exists, the last pointer to a connection goes only after its       *)
(* channel was removed.                                                    *)
DestroyedAfterRemoved ==
    \A c \in Conns : Destroyed(c) /\ ~LoopGone(c) =>
        LET ch == conn[c].ch IN ~ch.added /\ ~ch.listed /\ ~ch.polled

(* The user is told of a connection once when it comes up and once when it *)
(* goes down, and no connection of a living loop is destroyed untold.      *)
CallbacksPaired ==
    \A c \in Conns : LET k == conn[c] IN
        /\ k.told = 0 <=> k.state_ \in {"unborn", "kConnecting"}
        /\ k.told = 2 => k.state_ \in {"kDisconnected", "kDisconnecting"}
        /\ k.told = 1 => k.state_ = "kConnected"
        /\ Destroyed(c) /\ ~LoopGone(c) => k.told = 2

(* connectDestroyed is queued at most once and finds the channel still in  *)
(* the poller (the assert in removeChannel); once it has run the server's  *)
(* map has forgotten the connection.                                       *)
RemovedOnce ==
    \A c \in Conns :
        /\ LET q == queue[conn[c].loop] IN
               \A i, j \in 1..Len(q) : q[i] = F("destroyed", c) /\ q[j] = q[i] => i = j
        /\ Queued(F("destroyed", c)) => c \notin connections_
        /\ Queued(F("destroyed", c)) => conn[c].ch.index # "kNew" \/ Queued(F("established", c))

(* The assert in Channel::remove: connectDestroyed finds a channel without *)
(* events unless it clears them itself.                                    *)
RemoveFindsNoEvents ==
    \A l \in Loops :
        (left[l] > 0 /\ Idle(l) /\ Head(queue[l]).op = "destroyed") =>
            LET k == conn[Head(queue[l]).conn] IN
                k.state_ = "kConnected" \/ isNoneEvent(k.ch)

(* The same of the programs that keep clear of the late shutdown(). In the *)
(* others a queued send gives the channel its events back before           *)
(* connectDestroyed comes (run tcp_assert).                                *)
OrderlyRemoveFindsNoEvents == Orderly => RemoveFindsNoEvents

(* A connection whose peer has closed is cleaned up: it leaves the map and *)
(* the poller, unless the server's loop is told to quit first.             *)
PeerCloseCleansUp ==
    \A c \in Conns :
        net[c].peer # "open" ~> \/ c \notin connections_ /\ conn[c].ch.index = "kNew"
                                \/ running[Base] # "run"
=============================================================================
