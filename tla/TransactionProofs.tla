-------------------------- MODULE TransactionProofs --------------------------
(***************************************************************************)
(* Theorems about the transactions of CcvmService: a command under way can *)
(* be cancelled, the shutdown timer is set only when nothing is open, the  *)
(* service does not panic, and a client that is told of success can rely   *)
(* on it.                                                                  *)
(***************************************************************************)
EXTENDS CcvmServiceRefinement, CcvmServiceProofs

-----------------------------------------------------------------------------
(***************************************************************************)
(* The inductive invariant: where a transaction is, from its entry in the  *)
(* table to the answer in its channel.                                     *)
(***************************************************************************)

\* A transaction number that has not been handed out is unused, and so is the
\* loop it would found.
FutureInv ==
  /\ \A t \in Tids : t >= counter => result[t] = EmptyCh /\ t \notin transactions
  /\ FutureUnused

\* A command that a loop serves is in the table and not answered yet, and no
\* other loop serves it.  A creation is served by the loop it has founded.
ServesInv ==
  /\ \A l \in Loops, t \in Tids : Serves(l, t) => t \in transactions /\ ~result[t].closed
  /\ \A l, m \in Loops : loop[l].cmd # None /\ loop[l].cmd = loop[m].cmd => l = m
  /\ \A l \in Loops :
       /\ loop[l].cmd # None => op[loop[l].cmd] # "create"
       /\ loop[l].fn # "none" => loop[l].create = l /\ op[loop[l].create] = "create"
       /\ loop[l].fn = "ok" => loop[l].create \in succeeded

\* So is a command that the service is sending, and nobody serves it yet.
SendInv == svcPc = "sending" =>
  /\ cur \in transactions /\ ~result[cur].closed
  /\ \A l \in Loops : ~Serves(l, cur)
  /\ op[cur] = "create" => dest = cur

\* The outcome in a channel is the last value, and true; progress lines come
\* from creations.
Holds(s, v) == \E i \in 1 .. Len(s) : s[i] = v

TrueChannel(ch, t) ==
  /\ Holds(ch.buf, "ok") => t \in succeeded
  /\ Holds(ch.buf, "ok") \/ Holds(ch.buf, "err") => ch.closed
  /\ Holds(ch.buf, "line") => op[t] = "create"

BufferInv == \A t \in Tids : TrueChannel(result[t], t)

TimerInv == timer = "set" => transactions = {}

CoreInv == FutureInv /\ ServesInv /\ SendInv /\ BufferInv /\ TimerInv

\* As long as the service runs, a client with a transaction has one of its own,
\* which is in the table while a handler reads or completes it, and is answered
\* by the time it is completed.
Active(k) == k.pc \in {"getting", "reading", "completing"}

OwnsTransaction(k) ==
  /\ k.tid < counter /\ op[k.tid] = k.req.op
  /\ k.pc \in {"reading", "completing"} => k.tid \in transactions
  /\ k.pc = "completing" => result[k.tid].closed

ClientInv == svcPc # "finished" =>
  /\ \A c \in Clients : Active(cli[c]) => OwnsTransaction(cli[c])
  /\ \A c, d \in Clients : Active(cli[c]) /\ Active(cli[d]) /\ cli[c].tid = cli[d].tid => c = d

\* With one signal at most: if it was not for startServer, or has not come, the
\* service was not told to stop but stopped by itself.
SignalInv == MaxSignals <= 1 =>
  /\ nsig = 0 => sigBuf = 0 /\ (mainPc # "select" => svcPc = "finished") /\ svcPc # "draining"
  /\ sigBuf > 0 => svcPc = "finished"

\* A handler that is sent a signal does not take another client's transaction:
\* while the service runs, the signal reaches no handler that would return the
\* transaction number 0.
NoneMisled ==
  \A c \in Clients :
    StartSignalled(c) /\ cli[c].req.op \notin {"create", "stop", "start"} => svcPc = "finished"

SignalsHarmless == [][NoneMisled]_vars

\* No second signal comes, or every command is one whose handler then fails.
FewSignals == MaxSignals <= 1 \/ \A r \in Requests : r.op \in {"create", "stop", "start"}

TransactionInv == TypeInv /\ CoreInv /\ ClientInv

\* What clients have been told, or will be if they read on.
Reads(k) == k.pc \in {"reading", "completing"}
Truthful(k) ==
  /\ k.pc = "completing" =>
       /\ k.out = "ok" => k.tid \in succeeded
       /\ k.req.op # "create" => k.out # "unfinished"
  /\ k.pc \in {"getting", "reading"} /\ op[k.tid] # "create" /\ result[k.tid].closed
       => result[k.tid].buf # <<>>

\* While the service can complete transactions.
ReadersTruthful == svcPc \in {"select", "sending"} =>
  \A c \in Clients : Active(cli[c]) => Truthful(cli[c])

TruthInv == TruthfulResult /\ ReadersTruthful

\* A handler that is to report success is not sent a signal instead once the
\* service has begun to stop: what it has read may be an empty channel.
NoneDeceived ==
  \A c \in Clients :
    ResultSignalled(c) /\ cli[c].pc = "completing" /\ cli[c].out = "ok"
      => svcPc \in {"select", "sending"}

SuccessBeforeStop == [][NoneDeceived]_vars

\* With one signal at most no handler with a result is left to be told of it, nor
\* by a service that stops by itself.
NoReaders ==
  sigBuf > 0 \/ (nsig = 0 /\ svcPc \in {"waiting", "finished"}) => \A c \in Clients : ~Reads(cli[c])

-----------------------------------------------------------------------------
\* Channels.

LEMMA HoldsAppend ==
  ASSUME NEW V, NEW s \in Seq(V), NEW v \in V, NEW w
  PROVE  Holds(Append(s, v), w) <=> Holds(s, w) \/ w = v
<1>1. /\ Len(Append(s, v)) = Len(s) + 1 /\ Append(s, v)[Len(s) + 1] = v /\ Len(s) \in Nat
      /\ \A i \in 1 .. Len(s) : Append(s, v)[i] = s[i]
  OBVIOUS
<1> QED BY <1>1 DEF Holds

LEMMA HoldsTail ==
  ASSUME NEW V, NEW s \in Seq(V), s # <<>>, NEW w
  PROVE  (Holds(Tail(s), w) => Holds(s, w)) /\ Holds(s, Head(s)) /\ Head(s) \in V
<1>1. /\ Len(s) \in Nat \ {0} /\ Len(Tail(s)) = Len(s) - 1 /\ Head(s) = s[1]
      /\ \A i \in 1 .. Len(s) - 1 : Tail(s)[i] = s[i + 1]
  OBVIOUS
<1>2. ASSUME NEW i \in 1 .. Len(Tail(s)), Tail(s)[i] = w PROVE Holds(s, w)
  <2>1. i + 1 \in 1 .. Len(s) /\ s[i + 1] = w
    BY <1>1, <1>2
  <2> QED BY <2>1 DEF Holds
<1>3. Holds(s, Head(s)) /\ Head(s) \in V
  BY <1>1 DEF Holds
<1> QED BY <1>2, <1>3 DEF Holds

LEMMA EmptyChannel == ASSUME NEW t PROVE TrueChannel(EmptyCh, t) /\ ~EmptyCh.closed /\ EmptyCh \in ChannelType
BY DEF EmptyCh, TrueChannel, Holds, ChannelType

\* An answer to transaction t makes its channel true if it is.
LEMMA ReplyIsTrue ==
  ASSUME NEW ch \in ChannelType, NEW v \in Final, NEW t, TrueChannel(ch, t)
  PROVE  /\ Reply(ch, v).closed /\ Reply(ch, v).buf # <<>>
         /\ Holds(Reply(ch, v).buf, "ok") => t \in succeeded \/ v = "ok"
         /\ Holds(Reply(ch, v).buf, "line") => op[t] = "create"
<1>1. Reply(ch, v).buf = Append(ch.buf, v) /\ Reply(ch, v).closed /\ ch.buf \in Seq(Final \cup {"line"})
  BY DEF Reply, ChannelType
<1>2. \A w : Holds(Append(ch.buf, v), w) <=> Holds(ch.buf, w) \/ w = v
  BY <1>1, HoldsAppend
<1>3. Append(ch.buf, v) # <<>>
  BY <1>1
<1> QED BY <1>1, <1>2, <1>3 DEF TrueChannel, Final

-----------------------------------------------------------------------------
\* Steps that leave the transactions and their channels alone.

LEMMA InitCore == Init => CoreInv /\ ClientInv /\ SignalInv /\ TruthInv /\ NoReaders
<1> SUFFICES ASSUME Init PROVE CoreInv /\ ClientInv /\ SignalInv /\ TruthInv /\ NoReaders
  OBVIOUS
<1>1. FutureUnused /\ TypeInv
  BY InitRegistry, InitType DEF RegistryInv
<1>2. /\ transactions = {} /\ counter = 0 /\ timer = "off" /\ svcPc = "select" /\ mainPc = "select"
      /\ sigBuf = 0 /\ nsig = 0
      /\ result = [t \in Tids |-> EmptyCh] /\ cli = [c \in Clients |-> IdleClient]
  BY DEF Init
<1>3. \A l \in Loops : loop[l].cmd = None /\ loop[l].fn = "none"
  <2>1. \A n, ip : /\ NewLoop(n, ip).cmd = None /\ NewLoop(n, ip).fn = "none"
                   /\ UnusedLoop.cmd = None /\ UnusedLoop.fn = "none"
    BY DEF NewLoop, UnusedLoop, LoopAt
  <2>2. \E S, f, g : loop = [l \in Loops |-> IF l \in S THEN NewLoop(f[l], g[l]) ELSE UnusedLoop]
    <3>1. PICK d \in Disks :
            loop = [l \in Loops |-> IF l \in {-i : i \in Taken(d)}
                                    THEN NewLoop(d[-l].name, d[-l].ip) ELSE UnusedLoop]
      BY DEF Init
    <3> DEFINE f == [l \in Loops |-> d[-l].name]
               g == [l \in Loops |-> d[-l].ip]
               S == {-i : i \in Taken(d)}
    <3>2. loop = [l \in Loops |-> IF l \in S THEN NewLoop(f[l], g[l]) ELSE UnusedLoop]
      BY <3>1
    <3> HIDE DEF f, g, S
    <3> QED BY <3>2
  <2> QED BY <2>1, <2>2
<1>4. \A t \in Tids : t # None
  BY ZeroTid, SpecialAssumption DEF SpecialAssumption
<1>5. FutureInv /\ ServesInv /\ SendInv /\ TimerInv
  BY <1>1, <1>2, <1>3, <1>4 DEF FutureInv, ServesInv, SendInv, TimerInv, Serves
<1>6. BufferInv
  BY <1>2, EmptyChannel DEF BufferInv
<1>7. ClientInv /\ TruthInv /\ NoReaders
  BY <1>2, SpecialAssumption
     DEF ClientInv, TruthInv, ReadersTruthful, NoReaders, Active, Reads, IdleClient, TruthfulResult, SpecialAssumption, Final
<1>8. SignalInv
  BY <1>2 DEF SignalInv
<1> QED BY <1>5, <1>6, <1>7, <1>8 DEF CoreInv

LEMMA CoreFrame ==
  ASSUME TypeInv, CoreInv, UNCHANGED <<transactions, counter, op, result>>,
         succeeded \subseteq succeeded',
         \A l \in Loops :
           /\ loop'[l].cmd = loop[l].cmd /\ loop'[l].create = loop[l].create
           /\ loop'[l].pc = "unused" <=> loop[l].pc = "unused"
           /\ loop'[l].fn # "none" => loop[l].fn # "none"
           /\ loop'[l].fn = "ok" => loop[l].create \in succeeded',
         svcPc' = "sending" => svcPc = "sending" /\ UNCHANGED <<cur, dest>>,
         timer' = "set" => timer = "set" \/ transactions = {}
  PROVE  CoreInv'
<1>1. \A l \in Loops : \A t : Serves(l, t)' => Serves(l, t)
  BY DEF Serves
<1>2. FutureInv' /\ ServesInv'
  BY <1>1 DEF CoreInv, FutureInv, FutureUnused, ServesInv
<1>3. SendInv' /\ TimerInv'
  BY <1>1 DEF CoreInv, SendInv, TimerInv
<1>4. BufferInv'
  BY DEF CoreInv, BufferInv, TrueChannel
<1> QED BY <1>2, <1>3, <1>4 DEF CoreInv

\* A command is served by one loop at most.
LEMMA ServedByOne ==
  ASSUME TypeInv, ServesInv, NEW l \in Loops, NEW m \in Loops, NEW t \in Tids,
         Serves(l, t), Serves(m, t)
  PROVE  l = m
<1>1. t # None /\ (loop[l].cmd = t => op[t] # "create") /\ (loop[m].cmd = t => op[t] # "create")
  BY ZeroTid, SpecialAssumption DEF ServesInv, SpecialAssumption
<1> QED BY <1>1 DEF ServesInv, Serves

\* A value is taken from the channel of t.
LEMMA TailCore ==
  ASSUME TypeInv, CoreInv, NEW t \in Tids, result[t].buf # <<>>,
         result' = [result EXCEPT ![t].buf = Tail(@)],
         UNCHANGED <<transactions, counter, op, succeeded, loop, timer>>,
         svcPc' = "sending" => svcPc = "sending" /\ UNCHANGED <<cur, dest>>
  PROVE  CoreInv'
<1>1. /\ result \in [Tids -> ChannelType] /\ result[t] \in ChannelType
      /\ result[t].buf \in Seq(Final \cup {"line"})
  BY DEF TypeInv, TypeOK, TrafficType, ChannelType
<1>2. /\ result'[t].closed = result[t].closed /\ result'[t].buf = Tail(result[t].buf)
      /\ \A u \in Tids : u # t => result'[u] = result[u]
      /\ \A u \in Tids : result'[u].closed = result[u].closed
  BY <1>1 DEF ChannelType
<1>3. \A l \in Loops : \A u : Serves(l, u)' <=> Serves(l, u)
  BY DEF Serves
<1>4. ~(t >= counter)
  BY DEF CoreInv, FutureInv, EmptyCh
<1>5. FutureInv' /\ ServesInv'
  BY <1>2, <1>3, <1>4 DEF CoreInv, FutureInv, FutureUnused, ServesInv
<1>6. SendInv' /\ TimerInv'
  BY <1>2, <1>3 DEF CoreInv, SendInv, TimerInv, TypeInv, ServiceHeld
<1>7. \A w : Holds(Tail(result[t].buf), w) => Holds(result[t].buf, w)
  BY <1>1, HoldsTail
<1>8. BufferInv'
  BY <1>2, <1>7 DEF CoreInv, BufferInv, TrueChannel
<1> QED BY <1>5, <1>6, <1>8 DEF CoreInv

\* The command of t is answered with v.
LEMMA AnswerCore ==
  ASSUME TypeInv, CoreInv, NEW t \in transactions, NEW v \in Final,
         result' = [result EXCEPT ![t] = Reply(@, v)],
         succeeded \subseteq succeeded', v = "ok" => t \in succeeded',
         UNCHANGED <<transactions, counter, op, timer>>,
         \A l \in Loops :
           /\ loop'[l].cmd \in {loop[l].cmd, None} /\ loop'[l].create = loop[l].create
           /\ loop'[l].pc = "unused" <=> loop[l].pc = "unused"
           /\ loop'[l].fn # "none" => loop'[l].fn = loop[l].fn
           /\ loop'[l].cmd # t /\ (loop'[l].create = t => loop'[l].fn = "none"),
         svcPc' = "sending" => svcPc = "sending" /\ UNCHANGED <<cur, dest>> /\ cur # t
  PROVE  CoreInv'
<1>1. /\ t \in Tids /\ result \in [Tids -> ChannelType] /\ result[t] \in ChannelType
      /\ counter \in Int /\ t \in Int
  BY DEF TypeInv, TypeOK, TrafficType, TableType, Tids
<1>2. /\ result'[t] = Reply(result[t], v)
      /\ \A u \in Tids : u # t => result'[u] = result[u]
  BY <1>1
<1>3. \A l \in Loops : ~Serves(l, t)' /\ \A u \in Tids : Serves(l, u)' => Serves(l, u)
  <2>1. \A u \in Tids : u # None
    BY ZeroTid, SpecialAssumption DEF SpecialAssumption
  <2> QED BY <2>1 DEF Serves
<1>4. FutureInv'
  BY <1>1, <1>2 DEF CoreInv, FutureInv, FutureUnused
<1>5. ServesInv'
  <2>1. \A l \in Loops, u \in Tids : Serves(l, u)' => u \in transactions' /\ ~result'[u].closed
    BY <1>2, <1>3 DEF CoreInv, ServesInv
  <2>2. \A l, m \in Loops : loop'[l].cmd # None /\ loop'[l].cmd = loop'[m].cmd => l = m
    BY DEF CoreInv, ServesInv
  <2>3. \A l \in Loops :
       /\ loop'[l].cmd # None => op'[loop'[l].cmd] # "create"
       /\ loop'[l].fn # "none" => loop'[l].create = l /\ op'[loop'[l].create] = "create"
       /\ loop'[l].fn = "ok" => loop'[l].create \in succeeded'
    BY DEF CoreInv, ServesInv
  <2> QED BY <2>1, <2>2, <2>3 DEF ServesInv
<1>6. SendInv' /\ TimerInv'
  BY <1>2, <1>3 DEF CoreInv, SendInv, TimerInv, TypeInv, ServiceHeld
<1>7. BufferInv'
  <2>1. TrueChannel(result[t], t)
    BY <1>1 DEF CoreInv, BufferInv
  <2>2. /\ Reply(result[t], v).closed
        /\ Holds(Reply(result[t], v).buf, "ok") => t \in succeeded \/ v = "ok"
        /\ Holds(Reply(result[t], v).buf, "line") => op[t] = "create"
    BY <1>1, <2>1, ReplyIsTrue
  <2> QED BY <1>2, <2>2 DEF CoreInv, BufferInv, TrueChannel
<1> QED BY <1>4, <1>5, <1>6, <1>7 DEF CoreInv

LEMMA ClientCore ==
  ASSUME TypeInv, CoreInv, NEW c \in Clients,
         \/ \E r \in Requests : Issue(c, r)
         \/ WantCancel(c) \/ ClientDie(c)
         \/ StartSignalled(c) \/ ResultSignalled(c) \/ CancelSignalled(c)
         \/ SvcGetResult(c) \/ SvcCancel(c)
  PROVE  CoreInv'
<1>1. UNCHANGED <<service, table, op, result, succeeded, loop>>
  BY DEF Issue, WantCancel, ClientDie, StartSignalled, ResultSignalled, CancelSignalled,
         SvcGetResult, SvcCancel, traffic
<1>2. \A l \in Loops : loop[l].fn = "ok" => loop[l].create \in succeeded
  BY DEF CoreInv, ServesInv
<1> QED BY <1>1, <1>2, CoreFrame DEF service, table

LEMMA ShutdownCore ==
  ASSUME TypeInv, CoreInv,
         \/ \E t \in Tids : DrainNext(t)
         \/ SvcDone \/ SvcFinish \/ Signal \/ MainFinished \/ ManagerReturns \/ MainExit
  PROVE  CoreInv'
<1>1. /\ UNCHANGED <<transactions, counter, op, result, succeeded, loop>>
      /\ timer' \in {timer, "off"} /\ (svcPc' = "sending" => svcPc = "sending")
      /\ svcPc = "sending" => UNCHANGED <<cur, dest>>
  BY DEF DrainNext, SvcDone, SvcFinish, Signal, MainFinished,
         ManagerReturns, MainExit, service, table, traffic
<1>2. \A l \in Loops : loop[l].fn = "ok" => loop[l].create \in succeeded
  BY DEF CoreInv, ServesInv
<1> QED BY <1>1, <1>2, CoreFrame

LEMMA CloseLoopsCore == ASSUME TypeInv, CoreInv, CloseLoops PROVE CoreInv'
<1>1. UNCHANGED <<transactions, counter, op, result, succeeded, timer>> /\ svcPc' = "waiting"
  BY DEF CloseLoops, table, traffic
<1>2. ASSUME NEW l \in Loops
      PROVE  /\ loop'[l].cmd = loop[l].cmd /\ loop'[l].create = loop[l].create
             /\ loop'[l].pc = loop[l].pc /\ loop'[l].fn = loop[l].fn
  <2>1. loop[l] \in LoopType
    BY DEF TypeInv, TypeOK
  <2> QED BY <2>1 DEF CloseLoops, LoopType
<1>3. \A l \in Loops : loop[l].fn = "ok" => loop[l].create \in succeeded
  BY DEF CoreInv, ServesInv
<1> QED BY <1>1, <1>2, <1>3, CoreFrame

LEMMA ReapCore == ASSUME TypeInv, CoreInv, NEW l \in Loops, SvcReap(l) PROVE CoreInv'
<1>1. UNCHANGED <<transactions, counter, op, result, succeeded, timer>> /\ svcPc' # "sending"
  BY DEF SvcReap, table, traffic
<1>2. ASSUME NEW m \in Loops
      PROVE  /\ loop'[m].cmd = loop[m].cmd /\ loop'[m].create = loop[m].create
             /\ loop'[m].pc = loop[m].pc /\ loop'[m].fn = loop[m].fn
  <2>1. loop \in [Loops -> LoopType] /\ loop[m] \in LoopType
    BY DEF TypeInv, TypeOK
  <2>2. loop' = loop \/ \E i : loop' = [loop EXCEPT ![i].chClosed = TRUE]
    BY DEF SvcReap
  <2> QED BY <2>1, <2>2 DEF LoopType
<1>3. \A m \in Loops : loop[m].fn = "ok" => loop[m].create \in succeeded
  BY DEF CoreInv, ServesInv
<1> QED BY <1>1, <1>2, <1>3, CoreFrame

LEMMA ReadCore == ASSUME TypeInv, CoreInv, NEW c \in Clients, ReadResult(c) PROVE CoreInv'
<1>1. UNCHANGED <<service, table, op, succeeded, loop>> /\ cli[c].tid \in Tids
  BY DEF ReadResult, TypeInv, TypeOK, ClientType
<1>2. CASE result[cli[c].tid].buf # <<>>
  <2>1. result' = [result EXCEPT ![cli[c].tid].buf = Tail(@)]
    BY <1>2 DEF ReadResult
  <2> QED BY <1>1, <1>2, <2>1, TailCore DEF service, table
<1>3. CASE result[cli[c].tid].buf = <<>>
  <2>1. UNCHANGED result
    BY <1>3 DEF ReadResult
  <2>2. \A l \in Loops : loop[l].fn = "ok" => loop[l].create \in succeeded
    BY DEF CoreInv, ServesInv
  <2> QED BY <1>1, <2>1, <2>2, CoreFrame DEF service, table
<1> QED BY <1>2, <1>3

LEMMA DrainReceiveCore == ASSUME TypeInv, CoreInv, DrainReceive PROVE CoreInv'
<1>1. /\ UNCHANGED <<table, op, succeeded, loop>> /\ cur \in Tids /\ svcPc' # "sending"
  BY DEF DrainReceive, TypeInv, TypeOK, ServiceType
<1>2. CASE result[cur].buf # <<>>
  <2>1. result' = [result EXCEPT ![cur].buf = Tail(@)]
    BY <1>2 DEF DrainReceive
  <2> QED BY <1>1, <1>2, <2>1, TailCore DEF table
<1>3. CASE result[cur].buf = <<>>
  <2>1. UNCHANGED result
    BY <1>3 DEF DrainReceive
  <2>2. \A l \in Loops : loop[l].fn = "ok" => loop[l].create \in succeeded
    BY DEF CoreInv, ServesInv
  <2> QED BY <1>1, <2>1, <2>2, CoreFrame DEF table
<1> QED BY <1>2, <1>3

\* A handler completes only what has been answered, and nobody serves that.
LEMMA CompleteCore ==
  ASSUME TypeInv, CoreInv, ClientInv, NEW c \in Clients, SvcComplete(c)
  PROVE  CoreInv' /\ cli[c].tid \in transactions
<1> DEFINE t == cli[c].tid
<1>1. t \in transactions /\ result[t].closed /\ t \in Tids
  BY DEF SvcComplete, ClientInv, Active, OwnsTransaction, TypeInv, TypeOK, TableType
<1>2. /\ transactions' = transactions \ {t} /\ svcPc' = "select"
      /\ timer' = "set" => timer = "set" \/ transactions' = {}
      /\ UNCHANGED <<counter, traffic, loop>>
  BY <1>1 DEF SvcComplete, ShutdownTimer
<1>3. \A l \in Loops : ~Serves(l, t) /\ \A u : Serves(l, u)' <=> Serves(l, u)
  BY <1>1, <1>2 DEF CoreInv, ServesInv, Serves
<1>4. FutureInv' /\ SendInv' /\ TimerInv' /\ BufferInv'
  BY <1>2 DEF CoreInv, FutureInv, FutureUnused, SendInv, TimerInv, BufferInv, TrueChannel, traffic
<1>5. ServesInv'
  BY <1>2, <1>3 DEF CoreInv, ServesInv, traffic
<1> QED BY <1>1, <1>4, <1>5 DEF CoreInv

-----------------------------------------------------------------------------
\* The steps of the loops.

LEMMA LoopQuietCore ==
  ASSUME TypeInv, CoreInv, NEW l \in Loops,
         \/ LoopCreateResult(l) \/ LoopClosed(l) \/ \E v \in Final : CreateDone(l, v)
  PROVE  CoreInv'
<1>1. /\ UNCHANGED <<service, table, op, result>> /\ succeeded \subseteq succeeded'
  BY DEF LoopCreateResult, LoopClosed, CreateDone, traffic, Success
<1>2. loop \in [Loops -> LoopType] /\ loop[l] \in LoopType
  BY DEF TypeInv, TypeOK
<1>3. \A m \in Loops : m # l => loop'[m] = loop[m]
  BY <1>2 DEF LoopCreateResult, LoopClosed, CreateDone
<1>4. \A m \in Loops : loop[m].fn = "ok" => loop[m].create \in succeeded
  BY DEF CoreInv, ServesInv
<1>5. /\ loop'[l].cmd = loop[l].cmd /\ loop'[l].create = loop[l].create
      /\ loop'[l].pc = "unused" <=> loop[l].pc = "unused"
      /\ loop'[l].fn # "none" => loop[l].fn # "none"
      /\ loop'[l].fn = "ok" => loop[l].create \in succeeded'
  <2>1. CASE LoopCreateResult(l) \/ LoopClosed(l)
    BY <1>1, <1>2, <1>4, <2>1 DEF LoopCreateResult, LoopClosed, LoopType
  <2>2. ASSUME NEW v \in Final, CreateDone(l, v)
        PROVE  /\ loop'[l].cmd = loop[l].cmd /\ loop'[l].create = loop[l].create
               /\ loop'[l].pc = loop[l].pc /\ loop[l].fn = "running"
               /\ loop'[l].fn = "ok" => loop[l].create \in succeeded'
    BY <1>2, <2>2 DEF CreateDone, LoopType, Success
  <2> QED BY <2>1, <2>2
<1> QED BY <1>1, <1>3, <1>4, <1>5, CoreFrame DEF service, table

LEMMA CommandDoneCore ==
  ASSUME TypeInv, CoreInv, NEW l \in Loops, NEW v \in Final, CommandDone(l, v)
  PROVE  CoreInv'
<1> DEFINE t == loop[l].cmd
<1>1. loop \in [Loops -> LoopType] /\ loop[l] \in LoopType /\ t \in Tids /\ Serves(l, t)
  BY DEF CommandDone, TypeInv, TypeOK, LoopsHeld, Serves
<1>2. t \in transactions /\ t # None /\ op[t] # "create"
  BY <1>1, ZeroTid, SpecialAssumption DEF CoreInv, ServesInv, SpecialAssumption
<1>3. /\ result' = [result EXCEPT ![t] = Reply(@, v)]
      /\ succeeded \subseteq succeeded' /\ (v = "ok" => t \in succeeded')
      /\ UNCHANGED <<service, table, op>>
  BY DEF CommandDone, Success
<1>4. /\ loop'[l].cmd = None /\ loop'[l].create = loop[l].create /\ loop'[l].fn = loop[l].fn
      /\ loop'[l].pc = "select" /\ loop[l].pc = "running"
      /\ \A m \in Loops : m # l => loop'[m] = loop[m]
  BY <1>1 DEF CommandDone, LoopType
<1>5. \A m \in Loops : m # l => loop[m].cmd # t
  BY <1>2 DEF CoreInv, ServesInv
<1>6. \A m \in Loops : loop[m].fn # "none" => loop[m].create # t
  BY <1>2 DEF CoreInv, ServesInv
<1>7. svcPc = "sending" => cur # t
  BY <1>1 DEF CoreInv, SendInv
<1>8. \A m \in Loops :
           /\ loop'[m].cmd \in {loop[m].cmd, None} /\ loop'[m].create = loop[m].create
           /\ loop'[m].pc = "unused" <=> loop[m].pc = "unused"
           /\ loop'[m].fn # "none" => loop'[m].fn = loop[m].fn
           /\ loop'[m].cmd # t /\ (loop'[m].create = t => loop'[m].fn = "none")
  BY <1>2, <1>4, <1>5, <1>6
<1> QED BY <1>2, <1>3, <1>7, <1>8, AnswerCore DEF service, table

LEMMA LoopReturnCore == ASSUME TypeInv, CoreInv, NEW l \in Loops, LoopReturn(l) PROVE CoreInv'
<1> DEFINE t == loop[l].create
           v == loop[l].fn
<1>1. loop \in [Loops -> LoopType] /\ loop[l] \in LoopType /\ v \in Final /\ t \in Tids /\ Serves(l, t)
  BY DEF LoopReturn, TypeInv, TypeOK, LoopsHeld, Serves, Final
<1>2. /\ t \in transactions /\ t = l /\ op[t] = "create" /\ t # None
      /\ v = "ok" => t \in succeeded
  BY <1>1, ZeroTid, SpecialAssumption DEF CoreInv, ServesInv, SpecialAssumption, Final
<1>3. /\ result' = [result EXCEPT ![t] = Reply(@, v)] /\ UNCHANGED <<service, table, op, succeeded>>
  BY DEF LoopReturn
<1>4. /\ loop'[l].cmd = loop[l].cmd /\ loop'[l].create = loop[l].create /\ loop'[l].fn = "none"
      /\ loop'[l].pc # "unused" /\ loop[l].pc # "unused"
      /\ \A m \in Loops : m # l => loop'[m] = loop[m]
  BY <1>1 DEF LoopReturn, LoopType
<1>5. \A m \in Loops : /\ loop[m].cmd # t
                       /\ m # l /\ loop[m].fn # "none" => loop[m].create # t
  BY <1>2 DEF CoreInv, ServesInv
<1>6. svcPc = "sending" => cur # t
  BY <1>1 DEF CoreInv, SendInv
<1>8. \A m \in Loops :
           /\ loop'[m].cmd \in {loop[m].cmd, None} /\ loop'[m].create = loop[m].create
           /\ loop'[m].pc = "unused" <=> loop[m].pc = "unused"
           /\ loop'[m].fn # "none" => loop'[m].fn = loop[m].fn
           /\ loop'[m].cmd # t /\ (loop'[m].create = t => loop'[m].fn = "none")
  BY <1>2, <1>4, <1>5
<1> QED BY <1>1, <1>2, <1>3, <1>6, <1>8, AnswerCore DEF service, table

LEMMA CreateLineCore == ASSUME TypeInv, CoreInv, NEW l \in Loops, CreateLine(l) PROVE CoreInv'
<1> DEFINE t == loop[l].create
<1>1. loop \in [Loops -> LoopType] /\ loop[l] \in LoopType /\ t \in Tids /\ Serves(l, t)
  BY DEF CreateLine, TypeInv, TypeOK, LoopsHeld, Serves
<1>2. t \in transactions /\ op[t] = "create" /\ ~result[t].closed /\ t \in Int /\ counter \in Int
  BY <1>1, ZeroTid DEF CoreInv, ServesInv, CreateLine, TypeInv, TypeOK, TableType, Tids
<1>3. /\ result' = [result EXCEPT ![t] = Sent(@, "line")]
      /\ UNCHANGED <<service, table, op, succeeded>>
  BY DEF CreateLine
<1>4. /\ result \in [Tids -> ChannelType] /\ result[t] \in ChannelType
      /\ result[t].buf \in Seq(Final \cup {"line"})
  BY <1>1 DEF TypeInv, TypeOK, TrafficType, ChannelType
<1>5. /\ result'[t].buf = Append(result[t].buf, "line") /\ ~result'[t].closed
      /\ \A u \in Tids : u # t => result'[u] = result[u]
      /\ \A u \in Tids : result'[u].closed = result[u].closed
  <2>1. result'[t] = Sent(result[t], "line") /\ \A u \in Tids : u # t => result'[u] = result[u]
    BY <1>1, <1>3, <1>4
  <2>2. /\ Sent(result[t], "line").buf = Append(result[t].buf, "line")
        /\ Sent(result[t], "line").closed = result[t].closed
    BY <1>4 DEF Sent, ChannelType
  <2> QED BY <1>2, <2>1, <2>2
<1>6. \A m \in Loops : /\ loop'[m].cmd = loop[m].cmd /\ loop'[m].create = loop[m].create
                       /\ loop'[m].fn = loop[m].fn /\ loop'[m].pc = loop[m].pc
  <2>1. \A m \in Loops : m # l => loop'[m] = loop[m]
    BY <1>1 DEF CreateLine
  <2>2. /\ loop'[l].cmd = loop[l].cmd /\ loop'[l].create = loop[l].create
        /\ loop'[l].fn = loop[l].fn /\ loop'[l].pc = loop[l].pc
    BY <1>1 DEF CreateLine, LoopType
  <2> QED BY <2>1, <2>2
<1>7. \A m \in Loops : \A u : Serves(m, u)' <=> Serves(m, u)
  BY <1>6 DEF Serves
<1>8. FutureInv' /\ TimerInv'
  <2>1. ~(t >= counter)
    BY <1>1, <1>2 DEF CoreInv, FutureInv
  <2> QED BY <1>3, <1>5, <1>6, <2>1 DEF CoreInv, FutureInv, FutureUnused, TimerInv, table
<1>9. ServesInv'
  BY <1>3, <1>5, <1>6, <1>7 DEF CoreInv, ServesInv, table
<1>10. SendInv'
  BY <1>3, <1>5, <1>7 DEF CoreInv, SendInv, service, table, TypeInv, ServiceHeld
<1>11. BufferInv'
  <2>1. \A w : Holds(Append(result[t].buf, "line"), w) <=> Holds(result[t].buf, w) \/ w = "line"
    BY <1>4, HoldsAppend
  <2>2. TrueChannel(result[t], t)
    BY <1>1 DEF CoreInv, BufferInv
  <2>3. /\ ~Holds(result'[t].buf, "ok") /\ ~Holds(result'[t].buf, "err")
    BY <1>2, <1>5, <2>1, <2>2 DEF TrueChannel
  <2>4. ASSUME NEW u \in Tids PROVE TrueChannel(result[u], u)'
    <3>1. CASE u = t
      BY <1>2, <1>3, <2>3, <3>1 DEF TrueChannel
    <3>2. CASE u # t
      BY <1>3, <1>5, <3>2 DEF CoreInv, BufferInv, TrueChannel
    <3> QED BY <3>1, <3>2
  <2> QED BY <2>4 DEF BufferInv
<1> QED BY <1>8, <1>9, <1>10, <1>11 DEF CoreInv

\* Loop l begins to serve the command the service is sending.
LEMMA BeginCore ==
  ASSUME TypeInv, CoreInv, svcPc = "sending", NEW l \in Loops,
         svcPc' = "select", UNCHANGED <<transactions, counter, op, result, succeeded, timer>>,
         \A m \in Loops : m # l => loop'[m] = loop[m],
         loop'[l].pc = "unused" <=> loop[l].pc = "unused",
         \/ /\ op[cur] = "create" /\ dest = l /\ loop'[l].cmd = loop[l].cmd
            /\ loop'[l].create = cur /\ loop'[l].fn = "running"
         \/ /\ op[cur] # "create" /\ loop'[l].cmd = cur
            /\ loop'[l].create = loop[l].create /\ loop'[l].fn = loop[l].fn
  PROVE  CoreInv'
<1>1. /\ cur \in transactions /\ ~result[cur].closed /\ cur \in Tids
      /\ \A m \in Loops : ~Serves(m, cur)
      /\ op[cur] = "create" => dest = cur
  BY DEF CoreInv, SendInv, TypeInv, ServiceHeld
<1>2. \A m \in Loops, u \in Tids : Serves(m, u)' => Serves(m, u) \/ u = cur
  BY DEF Serves
<1>3. FutureInv' /\ SendInv' /\ TimerInv' /\ BufferInv'
  BY DEF CoreInv, FutureInv, FutureUnused, SendInv, TimerInv, BufferInv, TrueChannel
<1>4. \A m \in Loops, u \in Tids : Serves(m, u)' => u \in transactions' /\ ~result'[u].closed
  BY <1>1, <1>2 DEF CoreInv, ServesInv
<1>5. \A m, n \in Loops : loop'[m].cmd # None /\ loop'[m].cmd = loop'[n].cmd => m = n
  BY <1>1 DEF CoreInv, ServesInv, Serves
<1>6. \A m \in Loops :
       /\ loop'[m].cmd # None => op'[loop'[m].cmd] # "create"
       /\ loop'[m].fn # "none" => loop'[m].create = m /\ op'[loop'[m].create] = "create"
       /\ loop'[m].fn = "ok" => loop'[m].create \in succeeded'
  BY <1>1 DEF CoreInv, ServesInv
<1> QED BY <1>3, <1>4, <1>5, <1>6 DEF CoreInv, ServesInv

LEMMA LoopReceiveCore == ASSUME TypeInv, CoreInv, NEW l \in Loops, LoopReceive(l) PROVE CoreInv'
<1>1. /\ loop \in [Loops -> LoopType] /\ loop[l] \in LoopType
      /\ svcPc = "sending" /\ dest = l /\ svcPc' = "select"
      /\ UNCHANGED <<table, op, succeeded>>
  BY DEF LoopReceive, TypeInv, TypeOK
<1>2. CASE result' = [result EXCEPT ![cur] = Reply(@, "err")] /\ UNCHANGED loop
  <2>1. /\ cur \in transactions /\ cur \in Tids /\ cur # None
        /\ \A m \in Loops : ~Serves(m, cur)
    BY <1>1, ZeroTid, SpecialAssumption
       DEF CoreInv, SendInv, TypeInv, ServiceHeld, SpecialAssumption
  <2>2. \A m \in Loops : loop[m].cmd # cur /\ (loop[m].create = cur => loop[m].fn = "none")
    BY <2>1 DEF Serves
  <2>3. "err" \in Final /\ svcPc' # "sending"
    BY <1>1 DEF Final
  <2> QED BY <1>1, <1>2, <2>1, <2>2, <2>3, AnswerCore DEF table
<1>3. CASE op[cur] = "create" /\ loop' = [loop EXCEPT ![l].create = cur, ![l].fn = "running"]
           /\ UNCHANGED result
  <2>1. /\ loop'[l].cmd = loop[l].cmd /\ loop'[l].create = cur /\ loop'[l].fn = "running"
        /\ loop'[l].pc = loop[l].pc /\ \A m \in Loops : m # l => loop'[m] = loop[m]
    BY <1>1, <1>3 DEF LoopType
  <2> QED BY <1>1, <1>3, <2>1, BeginCore DEF table
<1>4. CASE op[cur] # "create" /\ loop' = [loop EXCEPT ![l].pc = "running", ![l].cmd = cur]
           /\ UNCHANGED result
  <2>1. /\ loop'[l].cmd = cur /\ loop'[l].create = loop[l].create /\ loop'[l].fn = loop[l].fn
        /\ loop'[l].pc = "running" /\ loop[l].pc = "select"
        /\ \A m \in Loops : m # l => loop'[m] = loop[m]
    BY <1>1, <1>4 DEF LoopType, LoopReceive
  <2> QED BY <1>1, <1>4, <2>1, BeginCore DEF table
<1> QED BY <1>2, <1>3, <1>4 DEF LoopReceive

\* Transaction t is entered, and answered at once with v or sent to a loop,
\* which it may have founded.
LEMMA EnterCore ==
  ASSUME TypeInv, CoreInv, counter \in Tids, NEW o \in Ops,
         counter' = counter + 1, transactions' = transactions \cup {counter}, timer' = "off",
         op' = [op EXCEPT ![counter] = o], succeeded \subseteq succeeded',
         \/ /\ UNCHANGED result
            /\ svcPc' = "sending" /\ cur' = counter /\ (o = "create" => dest' = counter)
         \/ \E v \in Final : /\ result' = [result EXCEPT ![counter] = Reply(@, v)]
                             /\ v = "ok" => counter \in succeeded'
                             /\ svcPc' = "select",
         \A m \in Loops : \/ loop'[m] = loop[m]
                          \/ m = counter /\ loop'[m].cmd = None /\ loop'[m].fn = "none"
  PROVE  CoreInv'
<1> DEFINE t == counter
<1>1. /\ t \in Tids /\ t \in Loops /\ t # None /\ result[t] = EmptyCh /\ t \notin transactions
      /\ result \in [Tids -> ChannelType] /\ op \in [Tids -> Ops \cup {None}] /\ t \in Int
      /\ \A l \in Loops : l \in Int
  BY ZeroTid, Bounds, SpecialAssumption
     DEF CoreInv, FutureInv, TypeInv, TypeOK, TrafficType, SpecialAssumption, Loops, Tids
<1>2. \A l \in Loops : ~Serves(l, t)
  BY <1>1 DEF CoreInv, ServesInv
<1>3. \A u \in Tids : u # t => result'[u] = result[u] /\ op'[u] = op[u]
  BY <1>1
<1>4. \A l \in Loops, u \in Tids : Serves(l, u)' => Serves(l, u) /\ u # t
  <2>1. \A u \in Tids : u # None
    BY ZeroTid, SpecialAssumption DEF SpecialAssumption
  <2> QED BY <1>1, <1>2, <2>1 DEF Serves
<1>5. FutureInv'
  <2>1. \A u \in Tids : u >= t + 1 => u # t /\ u >= t
    BY <1>1 DEF Tids
  <2>2. \A l \in Loops : l >= t + 1 => l # t /\ l >= t
    BY <1>1
  <2> QED BY <1>1, <1>3, <2>1, <2>2 DEF CoreInv, FutureInv, FutureUnused
<1>6. ServesInv'
  <2>1. \A l \in Loops, u \in Tids : Serves(l, u)' => u \in transactions' /\ ~result'[u].closed
    BY <1>3, <1>4 DEF CoreInv, ServesInv
  <2>2. \A l, m \in Loops : loop'[l].cmd # None /\ loop'[l].cmd = loop'[m].cmd => l = m
    BY DEF CoreInv, ServesInv
  <2>3. ASSUME NEW l \in Loops
        PROVE  /\ loop'[l].cmd # None => op'[loop'[l].cmd] # "create"
               /\ loop'[l].fn # "none" => loop'[l].create = l /\ op'[loop'[l].create] = "create"
               /\ loop'[l].fn = "ok" => loop'[l].create \in succeeded'
    <3>1. CASE loop'[l] = loop[l]
      <4>1. /\ loop[l] \in LoopType /\ loop[l].cmd \in Tids \cup {None}
            /\ loop[l].fn # "none" => loop[l].create \in Tids
        BY DEF TypeInv, TypeOK, LoopType, LoopsHeld
      <4>2. loop[l].cmd # t /\ (loop[l].fn # "none" => loop[l].create # t)
        BY <1>2 DEF Serves
      <4> QED BY <1>3, <3>1, <4>1, <4>2 DEF CoreInv, ServesInv
    <3>2. CASE loop'[l].cmd = None /\ loop'[l].fn = "none"
      BY <3>2
    <3> QED BY <3>1, <3>2
  <2> QED BY <2>1, <2>2, <2>3 DEF ServesInv
<1>7. SendInv' /\ TimerInv'
  <2>1. op'[t] = o
    BY <1>1
  <2> QED BY <1>1, <1>4, <2>1 DEF SendInv, TimerInv, EmptyCh
<1>8. BufferInv'
  <2>1. ASSUME NEW u \in Tids PROVE TrueChannel(result[u], u)'
    <3>1. CASE u # t
      BY <1>3, <3>1 DEF CoreInv, BufferInv, TrueChannel
    <3>2. CASE u = t /\ UNCHANGED result
      BY <1>1, <3>2, EmptyChannel DEF TrueChannel, EmptyCh, Holds
    <3>3. ASSUME NEW v \in Final, u = t, result' = [result EXCEPT ![t] = Reply(@, v)],
                 v = "ok" => t \in succeeded'
          PROVE  TrueChannel(result[u], u)'
      <4>1. result'[t].closed /\ \A w : Holds(result'[t].buf, w) => w = v
        <5>1. result'[t] = Reply(EmptyCh, v)
          BY <1>1, <3>3
        <5>2. Reply(EmptyCh, v).buf = Append(<<>>, v) /\ Reply(EmptyCh, v).closed
          BY DEF Reply, EmptyCh
        <5>3. \A w : Holds(Append(<<>>, v), w) <=> Holds(<<>>, w) \/ w = v
          <6>1. <<>> \in Seq(Final)
            OBVIOUS
          <6> QED BY <6>1, HoldsAppend
        <5> QED BY <5>1, <5>2, <5>3 DEF Holds
      <4> QED BY <3>3, <4>1 DEF TrueChannel, Final
    <3> QED BY <3>1, <3>2, <3>3
  <2> QED BY <2>1 DEF BufferInv
<1> QED BY <1>5, <1>6, <1>7, <1>8 DEF CoreInv

LEMMA SvcStartCore == ASSUME TypeInv, CoreInv, NEW c \in Clients, SvcStart(c) PROVE CoreInv'
<1> DEFINE t == counter
           r == cli[c].req
<1>1. /\ t \in Tids /\ t \in Loops /\ svcPc = "select" /\ counter' = t + 1 /\ r.op \in Ops
      /\ transactions' = transactions \cup {t} /\ timer' = "off" /\ op' = [op EXCEPT ![t] = r.op]
  BY ZeroTid, RequestsAssumption DEF SvcStart, TypeInv, ClientsHeld, RequestsAssumption
<1>2. ASSUME NEW v \in Final, AnswerAtOnce(t, v) PROVE CoreInv'
  <2>1. /\ result' = [result EXCEPT ![t] = Reply(@, v)] /\ svcPc' = "select" /\ UNCHANGED loop
        /\ succeeded \subseteq succeeded' /\ (v = "ok" => t \in succeeded')
    BY <1>1, <1>2 DEF AnswerAtOnce, service
  <2> QED BY <1>1, <2>1, EnterCore
<1>3. ASSUME NEW l, Forward(l, t), r.op = "create" => l = t,
             UNCHANGED loop \/ \E n, ip : loop' = [loop EXCEPT ![t] = NewLoop(n, ip)]
      PROVE  CoreInv'
  <2>1. UNCHANGED <<result, succeeded>> /\ svcPc' = "sending" /\ cur' = t /\ dest' = l
    BY <1>3 DEF Forward
  <2>2. \A m \in Loops : \/ loop'[m] = loop[m]
                         \/ m = t /\ loop'[m].cmd = None /\ loop'[m].fn = "none"
    <3>1. \A n, ip : NewLoop(n, ip).cmd = None /\ NewLoop(n, ip).fn = "none"
      BY DEF NewLoop, LoopAt
    <3>2. loop \in [Loops -> LoopType]
      BY DEF TypeInv, TypeOK
    <3> QED BY <1>3, <3>1, <3>2
  <2> QED BY <1>1, <1>3, <2>1, <2>2, EnterCore
<1> HIDE DEF t, r
<1>4. CASE r.op = "create" /\ Create(t, r)
  <2>1. CASE CreateFails(r) /\ AnswerAtOnce(t, "err")
    BY <1>2, <2>1 DEF Final
  <2>2. CASE ~CreateFails(r)
    <3>1. /\ Forward(t, t)
          /\ \E n, ip : loop' = [loop EXCEPT ![t] = NewLoop(n, ip)]
      BY <1>4, <2>2 DEF Create, StartInstanceLoop
    <3> QED BY <1>3, <3>1
  <2> QED BY <1>4, <2>1, <2>2 DEF Create
<1>5. CASE r.op \in InstOps /\ ForwardToInstance(t, r)
  <2>1. r.op # "create"
    BY <1>5 DEF InstOps
  <2>2. CASE AnswerAtOnce(t, "err")
    BY <1>2, <2>2 DEF Final
  <2>3. CASE Forward(instances[Meant(r.name)], t) /\ UNCHANGED loop
    BY <1>3, <2>1, <2>3
  <2> QED BY <1>5, <2>2, <2>3 DEF ForwardToInstance
<1>6. CASE r.op = "list" /\ AnswerAtOnce(t, "ok")
  BY <1>2, <1>6 DEF Final
<1> QED BY <1>4, <1>5, <1>6 DEF SvcStart, t, r

LEMMA NextCore == ASSUME TypeInv, CoreInv, ClientInv, [Next]_vars PROVE CoreInv'
<1>1. ASSUME NEW c \in Clients,
             \/ \E r \in Requests : Issue(c, r)
             \/ WantCancel(c) \/ ClientDie(c) \/ ReadResult(c)
             \/ StartSignalled(c) \/ ResultSignalled(c) \/ CancelSignalled(c)
             \/ SvcStart(c) \/ SvcGetResult(c) \/ SvcComplete(c) \/ SvcCancel(c)
      PROVE  CoreInv'
  BY <1>1, ClientCore, ReadCore, SvcStartCore, CompleteCore
<1>2. ASSUME NEW l \in Loops,
             \/ SvcReap(l) \/ LoopReceive(l) \/ LoopCreateResult(l) \/ LoopReturn(l)
             \/ LoopClosed(l) \/ CreateLine(l)
             \/ \E v \in Final : CommandDone(l, v) \/ CreateDone(l, v)
      PROVE  CoreInv'
  BY <1>2, ReapCore, LoopReceiveCore, LoopReturnCore, CreateLineCore, CommandDoneCore, LoopQuietCore
<1>3. ASSUME \/ \E t \in Tids : DrainNext(t)
             \/ SvcDone \/ DrainReceive \/ CloseLoops \/ SvcFinish
             \/ Signal \/ MainFinished \/ ManagerReturns \/ MainExit
      PROVE  CoreInv'
  BY <1>3, ShutdownCore, DrainReceiveCore, CloseLoopsCore
<1>4. ASSUME UNCHANGED vars PROVE CoreInv'
  <2>1. UNCHANGED <<service, table, op, result, succeeded, loop>>
    BY <1>4 DEF vars, traffic
  <2>2. \A l \in Loops : loop[l].fn = "ok" => loop[l].create \in succeeded
    BY DEF CoreInv, ServesInv
  <2> QED BY <2>1, <2>2, CoreFrame DEF service, table
<1> QED BY <1>1, <1>2, <1>3, <1>4 DEF Next

-----------------------------------------------------------------------------
\* The clients' hold on their transactions.

LEMMA ClientFrame ==
  ASSUME ClientInv, UNCHANGED <<counter, op, transactions>>,
         svcPc = "finished" => svcPc' = "finished",
         \A u \in Tids : result[u].closed => result'[u].closed, TypeInv,
         \A c \in Clients : svcPc # "finished" /\ Active(cli'[c]) =>
           /\ Active(cli[c]) /\ cli'[c].tid = cli[c].tid /\ cli'[c].req = cli[c].req
           /\ cli'[c].pc \in {"reading", "completing"} /\ cli[c].pc = "getting"
                => cli'[c].pc = "reading" /\ cli[c].tid \in transactions
           /\ cli'[c].pc = "completing" /\ cli[c].pc = "reading" => result'[cli[c].tid].closed
  PROVE  ClientInv'
<1> SUFFICES ASSUME svcPc' # "finished" PROVE ClientInv'
  BY DEF ClientInv
<1>1. svcPc # "finished" /\ \A c \in Clients : cli[c].tid \in Tids
  BY DEF TypeInv, TypeOK, ClientType
<1>2. ASSUME NEW c \in Clients, Active(cli[c])'
      PROVE  OwnsTransaction(cli[c])' /\ Active(cli[c]) /\ cli'[c].tid = cli[c].tid
  <2>1. /\ Active(cli[c]) /\ cli'[c].tid = cli[c].tid /\ cli'[c].req = cli[c].req
        /\ OwnsTransaction(cli[c])
    BY <1>1, <1>2 DEF ClientInv, Active
  <2> QED BY <1>1, <1>2, <2>1 DEF OwnsTransaction, Active
<1> QED BY <1>1, <1>2 DEF ClientInv

\* Steps that leave the clients alone do not take an answer back.
LEMMA QuietClient ==
  ASSUME TypeInv, ClientInv, UNCHANGED <<counter, op, transactions, cli>>,
         svcPc = "finished" => svcPc' = "finished",
         \A u \in Tids : result[u].closed => result'[u].closed
  PROVE  ClientInv'
BY ClientFrame DEF Active

LEMMA LoopStepsClient ==
  ASSUME TypeInv, ClientInv, NEW l \in Loops,
         \/ SvcReap(l) \/ LoopReceive(l) \/ LoopCreateResult(l) \/ LoopReturn(l)
         \/ LoopClosed(l) \/ CreateLine(l)
         \/ \E v \in Final : CommandDone(l, v) \/ CreateDone(l, v)
  PROVE  ClientInv'
<1>1. UNCHANGED <<counter, op, transactions, cli>> /\ (svcPc = "finished" => svcPc' = "finished")
  BY DEF SvcReap, LoopReceive, LoopCreateResult, LoopReturn, LoopClosed, CreateLine, CommandDone,
         CreateDone, table, traffic, service
<1>2. \/ result' = result
      \/ \E t, v : \/ result' = [result EXCEPT ![t] = Reply(@, v)]
                   \/ result' = [result EXCEPT ![t] = Sent(@, v)]
  BY DEF SvcReap, LoopReceive, LoopCreateResult, LoopReturn, LoopClosed, CreateLine, CommandDone,
         CreateDone, traffic
<1>3. \A u \in Tids : result[u].closed => result'[u].closed
  <2>1. result \in [Tids -> ChannelType] /\ \A u \in Tids : result[u] \in ChannelType
    BY DEF TypeInv, TypeOK, TrafficType
  <2>2. \A ch \in ChannelType : \A v : Reply(ch, v).closed /\ Sent(ch, v).closed = ch.closed
    BY DEF Reply, Sent, ChannelType
  <2> QED BY <1>2, <2>1, <2>2
<1> QED BY <1>1, <1>3, QuietClient

LEMMA ShutdownClient ==
  ASSUME TypeInv, ClientInv,
         \/ \E t \in Tids : DrainNext(t)
         \/ SvcDone \/ DrainReceive \/ CloseLoops \/ SvcFinish
         \/ Signal \/ MainFinished \/ ManagerReturns \/ MainExit
  PROVE  ClientInv'
<1>1. CASE MainExit
  BY <1>1 DEF MainExit, service, ClientInv
<1>2. CASE ~MainExit
  <2>1. /\ UNCHANGED <<counter, op, transactions, cli>>
        /\ svcPc = "finished" => svcPc' = "finished"
    BY <1>2 DEF DrainNext, SvcDone, DrainReceive, CloseLoops, SvcFinish, Signal, MainFinished,
                ManagerReturns, table, traffic, service
  <2>2. result' = result \/ result' = [result EXCEPT ![cur].buf = Tail(@)]
    BY <1>2 DEF DrainNext, SvcDone, DrainReceive, CloseLoops, SvcFinish, Signal, MainFinished,
                ManagerReturns, traffic
  <2>3. \A u \in Tids : result[u].closed => result'[u].closed
    <3>1. result \in [Tids -> ChannelType] /\ \A u \in Tids : result[u] \in ChannelType
      BY DEF TypeInv, TypeOK, TrafficType
    <3> QED BY <2>2, <3>1 DEF ChannelType
  <2> QED BY <2>1, <2>3, QuietClient
<1> QED BY <1>1, <1>2

\* A handler reads the outcome of its transaction: it has been answered.
LEMMA ReadClient ==
  ASSUME TypeInv, CoreInv, ClientInv, NEW c \in Clients, ReadResult(c)
  PROVE  ClientInv'
<1> DEFINE k == cli[c]
           t == k.tid
<1>1. /\ k \in ClientType /\ t \in Tids /\ k.pc = "reading" /\ cli \in [Clients -> ClientType]
      /\ result \in [Tids -> ChannelType] /\ result[t] \in ChannelType
      /\ UNCHANGED <<service, table, op>>
  BY DEF ReadResult, TypeInv, TypeOK, ClientType, TrafficType
<1>2. \A u \in Tids : result'[u].closed = result[u].closed
  <2>1. result' = result \/ result' = [result EXCEPT ![t].buf = Tail(@)]
    BY DEF ReadResult
  <2> QED BY <1>1, <2>1 DEF ChannelType
<1>3. \A d \in Clients : d # c => cli'[d] = cli[d]
  BY <1>1 DEF ReadResult
<1>4. /\ cli'[c].pc \in {"getting", "completing"} /\ cli'[c].tid = t /\ cli'[c].req = k.req
      /\ cli'[c].pc = "completing" =>
           \/ result[t].buf = <<>> /\ result[t].closed
           \/ result[t].buf # <<>> /\ ~AsksAgain(Head(result[t].buf), k.req.op = "create")
  <2> DEFINE create == k.req.op = "create"
  <2>1. CASE result[t].buf # <<>>
    <3> DEFINE o == IF Head(result[t].buf) = "err" THEN "err" ELSE "ok"
    <3>1. cli'[c] = IF AsksAgain(Head(result[t].buf), create)
                    THEN [k EXCEPT !.pc = "getting"]
                    ELSE [k EXCEPT !.pc = "completing", !.out = o]
      BY <1>1, <2>1 DEF ReadResult
    <3> HIDE DEF o, create
    <3>2. CASE AsksAgain(Head(result[t].buf), create)
      BY <1>1, <3>1, <3>2 DEF ClientType
    <3>3. CASE ~AsksAgain(Head(result[t].buf), create)
      BY <1>1, <2>1, <3>1, <3>3 DEF ClientType, create
    <3> QED BY <3>2, <3>3
  <2>2. CASE result[t].buf = <<>>
    BY <1>1, <2>2 DEF ReadResult, ClientType
  <2> QED BY <2>1, <2>2
<1>5. ASSUME svcPc # "finished", result[t].buf # <<>>,
             ~AsksAgain(Head(result[t].buf), k.req.op = "create")
      PROVE  result[t].closed
  <2>1. op[t] = k.req.op /\ TrueChannel(result[t], t)
    BY <1>1, <1>5 DEF ClientInv, Active, OwnsTransaction, CoreInv, BufferInv
  <2>2. /\ Holds(result[t].buf, Head(result[t].buf))
        /\ Head(result[t].buf) \in Final \cup {"line"}
    <3>1. result[t].buf \in Seq(Final \cup {"line"})
      BY <1>1 DEF ChannelType
    <3> QED BY <1>5, <3>1, HoldsTail
  <2> QED BY <1>5, <2>1, <2>2 DEF TrueChannel, AsksAgain, Final
<1> QED BY <1>1, <1>2, <1>3, <1>4, <1>5, ClientFrame DEF service, table, Active

\* Steps of a client and of the signals that reach its handlers.
LEMMA ClientStepsClient ==
  ASSUME TypeInv, ClientInv, NEW c \in Clients,
         \/ \E r \in Requests : Issue(c, r)
         \/ WantCancel(c) \/ ClientDie(c) \/ ResultSignalled(c) \/ CancelSignalled(c)
         \/ SvcGetResult(c) \/ SvcCancel(c)
  PROVE  ClientInv'
<1>1. /\ UNCHANGED <<counter, op, transactions, result, service>>
      /\ cli[c] \in ClientType /\ cli \in [Clients -> ClientType]
  BY DEF Issue, WantCancel, ClientDie, ResultSignalled, CancelSignalled, SvcGetResult, SvcCancel,
         table, traffic, TypeInv, TypeOK
<1>2. \A d \in Clients : d # c => cli'[d] = cli[d]
  BY <1>1 DEF Issue, WantCancel, ClientDie, ResultSignalled, CancelSignalled, SvcGetResult, SvcCancel
<1>3. Active(cli'[c]) =>
           /\ Active(cli[c]) /\ cli'[c].tid = cli[c].tid /\ cli'[c].req = cli[c].req
           /\ cli'[c].pc \in {"reading", "completing"} /\ cli[c].pc = "getting"
                => cli'[c].pc = "reading" /\ cli[c].tid \in transactions
           /\ ~(cli'[c].pc = "completing" /\ cli[c].pc = "reading")
  <2>1. CASE \E r \in Requests : Issue(c, r)
    BY <1>1, <2>1 DEF Issue, IdleClient, Active
  <2>2. CASE WantCancel(c) \/ CancelSignalled(c) \/ SvcCancel(c)
    BY <1>1, <2>2 DEF WantCancel, CancelSignalled, SvcCancel, Active, ClientType
  <2>3. CASE ClientDie(c)
    BY <1>1, <2>3 DEF ClientDie, Active, ClientType
  <2>4. CASE SvcGetResult(c)
    BY <1>1, <2>4 DEF SvcGetResult, Active, ClientType
  <2>5. CASE ResultSignalled(c)
    BY <1>1, <2>5 DEF ResultSignalled, Answered, Active, ClientType
  <2> QED BY <2>1, <2>2, <2>3, <2>4, <2>5
<1> QED BY <1>1, <1>2, <1>3, ClientFrame DEF service, Active

\* A step in which a handler takes a signal is no stutter.
LEMMA SignalIsTaken ==
  ASSUME TypeInv, [NoneMisled]_vars, NEW c \in Clients, StartSignalled(c) PROVE NoneMisled
<1>1. sigBuf' # sigBuf
  BY DEF StartSignalled, TypeInv, TypeOK, ProcessType
<1> QED BY <1>1 DEF vars, process

LEMMA StartSignalledClient ==
  ASSUME TypeInv, ClientInv, NoneMisled, NEW c \in Clients, StartSignalled(c)
  PROVE  ClientInv'
<1>1. /\ UNCHANGED <<counter, op, transactions, result, service>>
      /\ cli[c] \in ClientType /\ cli \in [Clients -> ClientType]
  BY DEF StartSignalled, table, traffic, TypeInv, TypeOK
<1>2. CASE svcPc = "finished"
  BY <1>1, <1>2 DEF ClientInv, service
<1>3. CASE cli[c].req.op \in {"create", "stop", "start"}
  <2>1. cli' = [cli EXCEPT ![c] = [@ EXCEPT !.pc = "idle", !.out = "err"]]
    BY <1>1, <1>3 DEF StartSignalled
  <2>2. ~Active(cli'[c]) /\ \A d \in Clients : d # c => cli'[d] = cli[d]
    BY <1>1, <2>1 DEF Active, ClientType
  <2> QED BY <1>1, <2>2, ClientFrame DEF service, Active
<1> QED BY <1>2, <1>3 DEF NoneMisled

\* A new transaction belongs to the client whose command it is.
LEMMA SvcStartClient ==
  ASSUME TypeInv, CoreInv, ClientInv, NEW c \in Clients, SvcStart(c)
  PROVE  ClientInv'
<1> DEFINE t == counter
<1>1. /\ t \in Tids /\ t \in Int /\ counter' = t + 1 /\ svcPc = "select"
      /\ cli \in [Clients -> ClientType] /\ cli[c] \in ClientType
      /\ op \in [Tids -> Ops \cup {None}] /\ result \in [Tids -> ChannelType]
      /\ transactions' = transactions \cup {t} /\ op' = [op EXCEPT ![t] = cli[c].req.op]
      /\ cli' = [cli EXCEPT ![c].pc = "getting", ![c].tid = t]
  BY DEF SvcStart, TypeInv, TypeOK, TrafficType, Tids
<1>2. \A u \in Tids : u # t => op'[u] = op[u] /\ result'[u] = result[u]
  <2>1. result' = result \/ \E v : result' = [result EXCEPT ![t] = Reply(@, v)]
    BY DEF SvcStart, Create, ForwardToInstance, AnswerAtOnce, Forward
  <2> QED BY <1>1, <2>1
<1>3. /\ cli'[c].pc = "getting" /\ cli'[c].tid = t /\ cli'[c].req = cli[c].req
      /\ \A d \in Clients : d # c => cli'[d] = cli[d]
  BY <1>1 DEF ClientType
<1>4. ASSUME NEW d \in Clients, d # c, Active(cli[d])'
      PROVE  OwnsTransaction(cli[d])' /\ cli'[d].tid # t /\ Active(cli[d]) /\ cli'[d] = cli[d]
  <2>0. Active(cli[d]) /\ cli'[d] = cli[d]
    BY <1>3, <1>4
  <2>1. cli[d].tid \in Tids /\ cli[d].tid < t /\ cli[d].tid # t /\ OwnsTransaction(cli[d])
    BY <1>1, <2>0 DEF ClientInv, OwnsTransaction, TypeInv, TypeOK, ClientType, Tids
  <2>2. cli[d].tid < t + 1
    BY <1>1, <2>1 DEF Tids
  <2>3. OwnsTransaction(cli[d])'
    BY <1>1, <1>2, <2>0, <2>1, <2>2 DEF OwnsTransaction
  <2> QED BY <2>0, <2>1, <2>3
<1>5. OwnsTransaction(cli[c])'
  BY <1>1, <1>3 DEF OwnsTransaction
<1>6. \A d \in Clients : Active(cli[d])' => OwnsTransaction(cli[d])'
  BY <1>4, <1>5
<1>7. \A d, e \in Clients : Active(cli[d])' /\ Active(cli[e])' /\ cli'[d].tid = cli'[e].tid => d = e
  BY <1>1, <1>3, <1>4 DEF ClientInv
<1> QED BY <1>6, <1>7 DEF ClientInv

\* A transaction that is completed is nobody else's.
LEMMA SvcCompleteClient ==
  ASSUME TypeInv, CoreInv, ClientInv, NEW c \in Clients, SvcComplete(c)
  PROVE  ClientInv'
<1> DEFINE t == cli[c].tid
<1>1. /\ t \in transactions /\ svcPc = "select" /\ cli[c].pc = "completing"
      /\ cli \in [Clients -> ClientType] /\ cli[c] \in ClientType
      /\ UNCHANGED <<counter, op, result>>
  BY CompleteCore DEF SvcComplete, TypeInv, TypeOK, traffic
<1>2. transactions' = transactions \ {t} /\ cli' = [cli EXCEPT ![c] = Answered(@)]
  BY <1>1 DEF SvcComplete
<1>3. \A d \in Clients : d # c => cli'[d] = cli[d]
  BY <1>1, <1>2
<1>4. Active(cli'[c]) => cli'[c].pc = "getting" /\ cli'[c].tid = t /\ cli'[c].req = cli[c].req
  BY <1>1, <1>2 DEF Answered, Active, ClientType
<1>5. ASSUME NEW d \in Clients, d # c, Active(cli[d])'
      PROVE  OwnsTransaction(cli[d])' /\ cli'[d].tid # t /\ Active(cli[d]) /\ cli'[d] = cli[d]
  <2>1. Active(cli[d]) /\ cli'[d] = cli[d]
    BY <1>3, <1>5
  <2>2. OwnsTransaction(cli[d]) /\ cli[d].tid # t
    BY <1>1, <1>5, <2>1 DEF ClientInv, Active
  <2> QED BY <1>1, <1>2, <2>1, <2>2 DEF OwnsTransaction
<1>6. \A d \in Clients : Active(cli[d])' => OwnsTransaction(cli[d])'
  <2>1. Active(cli[c])' => OwnsTransaction(cli[c])'
    BY <1>1, <1>4 DEF ClientInv, Active, OwnsTransaction
  <2> QED BY <1>5, <2>1
<1>7. \A d, e \in Clients : Active(cli[d])' /\ Active(cli[e])' /\ cli'[d].tid = cli'[e].tid => d = e
  <2>1. Active(cli[c])' => cli'[c].tid = t
    BY <1>4
  <2> QED BY <1>1, <1>5, <2>1 DEF ClientInv
<1> QED BY <1>6, <1>7 DEF ClientInv

LEMMA NextClient ==
  ASSUME TypeInv, CoreInv, ClientInv, [NoneMisled]_vars, [Next]_vars
  PROVE  ClientInv'
<1>1. ASSUME NEW c \in Clients,
             \/ \E r \in Requests : Issue(c, r)
             \/ WantCancel(c) \/ ClientDie(c) \/ ReadResult(c)
             \/ StartSignalled(c) \/ ResultSignalled(c) \/ CancelSignalled(c)
             \/ SvcStart(c) \/ SvcGetResult(c) \/ SvcComplete(c) \/ SvcCancel(c)
      PROVE  ClientInv'
  <2>1. StartSignalled(c) => NoneMisled
    BY SignalIsTaken
  <2> QED BY <1>1, <2>1, ClientStepsClient, StartSignalledClient, ReadClient, SvcStartClient, SvcCompleteClient
<1>2. ASSUME NEW l \in Loops,
             \/ SvcReap(l) \/ LoopReceive(l) \/ LoopCreateResult(l) \/ LoopReturn(l)
             \/ LoopClosed(l) \/ CreateLine(l)
             \/ \E v \in Final : CommandDone(l, v) \/ CreateDone(l, v)
      PROVE  ClientInv'
  BY <1>2, LoopStepsClient
<1>3. ASSUME \/ \E t \in Tids : DrainNext(t)
             \/ SvcDone \/ DrainReceive \/ CloseLoops \/ SvcFinish
             \/ Signal \/ MainFinished \/ ManagerReturns \/ MainExit
      PROVE  ClientInv'
  BY <1>3, ShutdownClient
<1>4. ASSUME UNCHANGED vars PROVE ClientInv'
  BY <1>4, QuietClient DEF vars, service, table, traffic
<1> QED BY <1>1, <1>2, <1>3, <1>4 DEF Next

LEMMA NextSignal == ASSUME TypeInv, SignalInv, [Next]_vars PROVE SignalInv'
<1> SUFFICES ASSUME MaxSignals <= 1 PROVE SignalInv'
  BY DEF SignalInv
<1>1. nsig \in 0 .. MaxSignals /\ sigBuf \in 0 .. 2 /\ MaxSignals \in Nat
  BY Bounds DEF TypeInv, TypeOK, ProcessType
<1>2. CASE Signal
  BY <1>1, <1>2 DEF Signal, SignalInv, service
<1>3. ASSUME NEW c \in Clients, StartSignalled(c) \/ ResultSignalled(c) \/ CancelSignalled(c)
      PROVE  SignalInv'
  BY <1>1, <1>3 DEF StartSignalled, ResultSignalled, CancelSignalled, SignalInv, service
<1>4. CASE MainFinished \/ ManagerReturns \/ MainExit
  BY <1>1, <1>4 DEF MainFinished, ManagerReturns, MainExit, SignalInv, service
<1>5. CASE SvcDone \/ SvcFinish \/ CloseLoops
  BY <1>1, <1>5 DEF SvcDone, SvcFinish, CloseLoops, SignalInv, process
<1>6. ASSUME UNCHANGED process, svcPc' = svcPc \/ (svcPc # "finished" /\ svcPc' # "draining")
      PROVE  SignalInv'
  BY <1>1, <1>6 DEF SignalInv, process
<1>7. ASSUME NEW c \in Clients,
             \/ \E r \in Requests : Issue(c, r)
             \/ WantCancel(c) \/ ClientDie(c) \/ ReadResult(c)
             \/ SvcGetResult(c) \/ SvcComplete(c) \/ SvcCancel(c)
      PROVE  SignalInv'
  <2>1. UNCHANGED process
    BY <1>7 DEF Issue, WantCancel, ClientDie, ReadResult, SvcGetResult, SvcComplete, SvcCancel
  <2>2. svcPc' = svcPc \/ (svcPc # "finished" /\ svcPc' # "draining")
    BY <1>7 DEF Issue, WantCancel, ClientDie, ReadResult, SvcGetResult, SvcComplete, SvcCancel, service
  <2> QED BY <1>6, <2>1, <2>2
<1>8. ASSUME NEW c \in Clients, SvcStart(c) PROVE SignalInv'
  <2>1. UNCHANGED process /\ svcPc # "finished" /\ svcPc' # "draining"
    BY <1>8 DEF SvcStart, Create, ForwardToInstance, AnswerAtOnce, Forward, service
  <2> QED BY <1>6, <2>1
<1>9. ASSUME NEW l \in Loops,
             \/ SvcReap(l) \/ LoopReceive(l) \/ LoopCreateResult(l) \/ LoopReturn(l)
             \/ LoopClosed(l) \/ CreateLine(l)
             \/ \E v \in Final : CommandDone(l, v) \/ CreateDone(l, v)
      PROVE  SignalInv'
  <2>1. UNCHANGED process
    BY <1>9 DEF SvcReap, LoopReceive, LoopCreateResult, LoopReturn, LoopClosed, CreateLine,
              CommandDone, CreateDone
  <2>2. svcPc' = svcPc \/ (svcPc # "finished" /\ svcPc' # "draining")
    BY <1>9 DEF SvcReap, LoopReceive, LoopCreateResult, LoopReturn, LoopClosed, CreateLine,
              CommandDone, CreateDone, service
  <2> QED BY <1>6, <2>1, <2>2
<1>10. ASSUME (\E t \in Tids : DrainNext(t)) \/ DrainReceive \/ UNCHANGED vars PROVE SignalInv'
  <2>1. UNCHANGED process
    BY <1>10 DEF DrainNext, DrainReceive, vars
  <2>2. svcPc' = svcPc \/ (svcPc # "finished" /\ svcPc' # "draining")
    BY <1>10 DEF DrainNext, DrainReceive, vars, service
  <2> QED BY <1>6, <2>1, <2>2
<1> QED BY <1>2, <1>3, <1>4, <1>5, <1>7, <1>8, <1>9, <1>10 DEF Next

LEMMA NextTransaction ==
  ASSUME [NoneMisled]_vars, TransactionInv, [Next]_vars PROVE TransactionInv'
<1>1. TypeInv /\ CoreInv /\ ClientInv
  BY DEF TransactionInv
<1> QED BY <1>1, NextType, NextCore, NextClient DEF TransactionInv

\* The transaction table, the loops and the handlers agree, whatever the order
\* in which commands are started, carried out, answered, completed, cancelled
\* and abandoned.
THEOREM TransactionsConsistent == Spec /\ SignalsHarmless => []TransactionInv
<1>1. Init => TransactionInv
  BY InitType, InitCore DEF TransactionInv
<1>2. TransactionInv /\ [Next]_vars /\ [NoneMisled]_vars => TransactionInv'
  BY NextTransaction
<1> QED BY <1>1, <1>2, PTL DEF Spec, SignalsHarmless

\* With one signal at most it reaches startServer, or a handler of a service that
\* has ended.
THEOREM FewAreHarmless == FewSignals => (Spec => SignalsHarmless)
<1> SUFFICES ASSUME FewSignals PROVE Spec => SignalsHarmless
  OBVIOUS
<1>1. Init => TypeInv /\ SignalInv
  BY InitType, InitCore
<1>2. TypeInv /\ SignalInv /\ [Next]_vars => (TypeInv /\ SignalInv)'
  BY NextType, NextSignal
<1>3. TypeInv /\ SignalInv => NoneMisled
  <2> SUFFICES ASSUME TypeInv, SignalInv, NEW c \in Clients, StartSignalled(c),
                      cli[c].req.op \notin {"create", "stop", "start"}
               PROVE  svcPc = "finished"
    BY DEF NoneMisled
  <2>1. sigBuf > 0 /\ cli[c].req \in Requests
    BY DEF StartSignalled, TypeInv, ClientsHeld
  <2> QED BY <2>1 DEF FewSignals, SignalInv
<1> QED BY <1>1, <1>2, <1>3, PTL DEF Spec, SignalsHarmless

LEMMA ExecutesServes ==
  ASSUME CoreInv, NEW l \in Loops, NEW t \in Tids, Executes(l, t)
  PROVE  t \in transactions /\ ~result[t].closed
<1>1. Serves(l, t)
  BY DEF Executes, Serves
<1> QED BY <1>1 DEF CoreInv, ServesInv

\* A command whose backend function is running is in the table and not
\* answered, so that a request to cancel it is not lost.
THEOREM WorkCancellable == Spec /\ SignalsHarmless => []WorkIsCancellable
<1>1. TransactionInv => WorkIsCancellable
  BY ExecutesServes DEF TransactionInv, WorkIsCancellable
<1> QED BY <1>1, TransactionsConsistent, PTL

\* When the shutdown timer expires no transaction is open and no backend
\* function is interrupted.
THEOREM TimerIdle == Spec /\ SignalsHarmless => []TimerMeansIdle
<1>1. TransactionInv => TimerMeansIdle
  BY ExecutesServes DEF TransactionInv, TimerMeansIdle, CoreInv, TimerInv
<1> QED BY <1>1, TransactionsConsistent, PTL

\* The two panics: a completion that finds its transaction, and a reaping that
\* finds its loop registered and its channel open, pass them by.
LEMMA NextNoPanic ==
  ASSUME TransactionInv, RegistryInv, NoPanic, [Next]_vars PROVE NoPanic'
<1>1. TypeInv /\ CoreInv /\ ClientInv /\ svcPc # "panic"
  BY DEF TransactionInv, NoPanic
<1>2. ASSUME NEW c \in Clients, SvcComplete(c) PROVE NoPanic'
  <2>1. cli[c].tid \in transactions
    BY <1>1, <1>2, CompleteCore
  <2> QED BY <1>1, <1>2, <2>1 DEF SvcComplete, NoPanic
<1>3. ASSUME NEW l \in Loops, SvcReap(l) PROVE NoPanic'
  <2>1. l \in watched /\ svcPc = "select" /\ instances[loop[l].name] = l /\ ~loop[l].chClosed
    BY <1>3 DEF SvcReap, RegistryInv, WatchedRegistered, OpenWhileServing, Serving
  <2>2. l # None
    BY SpecialAssumption DEF SpecialAssumption
  <2> QED BY <1>1, <1>3, <2>1, <2>2 DEF SvcReap, NoPanic
<1>4. ASSUME NEW c \in Clients,
             \/ \E r \in Requests : Issue(c, r)
             \/ WantCancel(c) \/ ClientDie(c) \/ ReadResult(c)
             \/ StartSignalled(c) \/ ResultSignalled(c) \/ CancelSignalled(c)
             \/ SvcGetResult(c) \/ SvcCancel(c)
      PROVE  NoPanic'
  BY <1>1, <1>4 DEF Issue, WantCancel, ClientDie, ReadResult, StartSignalled, ResultSignalled,
                    CancelSignalled, SvcGetResult, SvcCancel, service, NoPanic
<1>5. ASSUME NEW c \in Clients, SvcStart(c) PROVE NoPanic'
  BY <1>1, <1>5 DEF SvcStart, Create, ForwardToInstance, AnswerAtOnce, Forward, service, NoPanic
<1>6. ASSUME NEW l \in Loops,
             \/ LoopReceive(l) \/ LoopCreateResult(l) \/ LoopReturn(l)
             \/ LoopClosed(l) \/ CreateLine(l)
             \/ \E v \in Final : CommandDone(l, v) \/ CreateDone(l, v)
      PROVE  NoPanic'
  BY <1>1, <1>6 DEF LoopReceive, LoopCreateResult, LoopReturn, LoopClosed, CreateLine,
                    CommandDone, CreateDone, service, NoPanic
<1>7. ASSUME \/ \E t \in Tids : DrainNext(t)
             \/ SvcDone \/ DrainReceive \/ CloseLoops \/ SvcFinish
             \/ Signal \/ MainFinished \/ ManagerReturns \/ MainExit \/ UNCHANGED vars
      PROVE  NoPanic'
  BY <1>1, <1>7 DEF DrainNext, SvcDone, DrainReceive, CloseLoops, SvcFinish, Signal, MainFinished,
                    ManagerReturns, MainExit, vars, service, NoPanic
<1> QED BY <1>2, <1>3, <1>4, <1>5, <1>6, <1>7 DEF Next

\* The service does not panic, whatever its clients do and however deletions,
\* failed creations and the shutdown meet.
THEOREM NeverPanics == Spec /\ NamesLast /\ SignalsHarmless => []NoPanic
<1>1. Init => NoPanic
  BY DEF Init, NoPanic
<1>2. TransactionInv /\ RegistryInv /\ NoPanic /\ [Next]_vars => NoPanic'
  BY NextNoPanic
<1> QED BY <1>1, <1>2, RegistryConsistent, TransactionsConsistent, PTL DEF Spec

-----------------------------------------------------------------------------
\* What clients are told.

LEMMA NextReaders ==
  ASSUME MaxSignals <= 1, TransactionInv, SignalInv, NoReaders, [Next]_vars PROVE NoReaders'
<1>1. /\ TypeInv /\ CoreInv /\ ClientInv /\ nsig \in 0 .. MaxSignals /\ sigBuf \in 0 .. 2
      /\ nsig = 0 => sigBuf = 0 /\ (mainPc # "select" => svcPc = "finished") /\ svcPc # "draining"
      /\ sigBuf > 0 => svcPc = "finished"
      /\ cli \in [Clients -> ClientType] /\ MaxSignals \in Nat
  BY Bounds DEF TransactionInv, SignalInv, TypeInv, TypeOK, ProcessType
<1>2. CASE Signal
  <2>1. UNCHANGED <<svcPc, cli>>
    BY <1>2 DEF Signal, service
  <2> QED BY <1>1, <1>2, <2>1 DEF Signal, NoReaders, Reads
<1>3. CASE CloseLoops
  <2>1. UNCHANGED <<cli, process>> /\ (nsig = 0 => transactions = {} /\ svcPc = "select")
    BY <1>1, <1>3 DEF CloseLoops, CoreInv, TimerInv
  <2>2. nsig = 0 => \A c \in Clients : ~Reads(cli[c])
    BY <2>1, <1>1 DEF ClientInv, Active, OwnsTransaction, Reads
  <2> QED BY <1>1, <2>1, <2>2 DEF NoReaders, process, Reads
<1>4. ASSUME UNCHANGED process, svcPc' \in {"waiting", "finished"} => svcPc \in {"waiting", "finished"},
             svcPc # "select" => \A c \in Clients : Reads(cli'[c]) => Reads(cli[c])
      PROVE  NoReaders'
  <2>1. UNCHANGED <<sigBuf, nsig>>
    BY <1>4 DEF process
  <2> QED BY <1>1, <1>4, <2>1 DEF NoReaders, Reads
<1>5. ASSUME NEW c \in Clients,
             \/ \E r \in Requests : Issue(c, r)
             \/ WantCancel(c) \/ ClientDie(c) \/ ReadResult(c)
             \/ SvcStart(c) \/ SvcGetResult(c) \/ SvcComplete(c) \/ SvcCancel(c)
      PROVE  NoReaders'
  <2>1. UNCHANGED process
    BY <1>5 DEF Issue, WantCancel, ClientDie, ReadResult, SvcStart, SvcGetResult, SvcComplete, SvcCancel
  <2>2. svcPc' = svcPc \/ svcPc' \notin {"waiting", "finished"}
    BY <1>5 DEF Issue, WantCancel, ClientDie, ReadResult, SvcStart, SvcGetResult, SvcComplete,
              SvcCancel, service, Create, ForwardToInstance, AnswerAtOnce, Forward
  <2>3. ASSUME svcPc # "select", NEW d \in Clients, Reads(cli'[d]) PROVE Reads(cli[d])
    <3>1. (Reads(cli'[c]) => Reads(cli[c])) /\ \A e \in Clients : e # c => cli'[e] = cli[e]
      <4>0. cli[c] \in ClientType
        BY <1>1
      <4>1. CASE \E r \in Requests : Issue(c, r)
        BY <1>1, <4>1 DEF Issue, Reads, IdleClient
      <4>2. CASE WantCancel(c)
        BY <1>1, <4>0, <4>2 DEF WantCancel, Reads, ClientType
      <4>3. CASE ClientDie(c)
        BY <1>1, <4>0, <4>3 DEF ClientDie, Reads, ClientType
      <4>4. CASE ReadResult(c)
        BY <1>1, <4>4 DEF ReadResult, Reads
      <4> QED BY <1>5, <2>3, <4>1, <4>2, <4>3, <4>4 DEF SvcStart, SvcGetResult, SvcComplete, SvcCancel
    <3> QED BY <1>1, <2>3, <3>1
  <2> QED BY <1>4, <2>1, <2>2, <2>3
<1>6. ASSUME NEW c \in Clients, StartSignalled(c) \/ ResultSignalled(c) \/ CancelSignalled(c)
      PROVE  NoReaders'
  <2>1. sigBuf > 0 /\ \A d \in Clients : ~Reads(cli[d])
    BY <1>6 DEF StartSignalled, ResultSignalled, CancelSignalled, NoReaders
  <2>2. cli[c] \in ClientType /\ \A d \in Clients : d # c => cli'[d] = cli[d]
    BY <1>1, <1>6 DEF StartSignalled, ResultSignalled, CancelSignalled
  <2>3. ~Reads(cli'[c])
    <3>1. CASE StartSignalled(c)
      BY <1>1, <2>1, <2>2, <3>1 DEF StartSignalled, Reads, ClientType
    <3>2. CASE ResultSignalled(c)
      BY <1>1, <2>1, <2>2, <3>2 DEF ResultSignalled, Reads, ClientType
    <3>3. CASE CancelSignalled(c)
      BY <1>1, <2>1, <2>2, <3>3 DEF CancelSignalled, Reads, ClientType
    <3> QED BY <1>6, <3>1, <3>2, <3>3
  <2> QED BY <2>1, <2>2, <2>3 DEF NoReaders, Reads
<1>7. CASE MainExit
  <2>1. ASSUME NEW c \in Clients PROVE ~Reads(cli'[c])
    <3>1. cli[c] \in ClientType
      BY <1>1
    <3> QED BY <1>7, <3>1 DEF MainExit, Reads, ClientType
  <2> QED BY <2>1 DEF NoReaders, Reads
<1>8. ASSUME MainFinished \/ ManagerReturns PROVE NoReaders'
  BY <1>8 DEF MainFinished, ManagerReturns, NoReaders, service, Reads
<1>9. ASSUME NEW l \in Loops,
             \/ SvcReap(l) \/ LoopReceive(l) \/ LoopCreateResult(l) \/ LoopReturn(l)
             \/ LoopClosed(l) \/ CreateLine(l)
             \/ \E v \in Final : CommandDone(l, v) \/ CreateDone(l, v)
      PROVE  NoReaders'
  <2>1. UNCHANGED <<process, cli>>
    BY <1>9 DEF SvcReap, LoopReceive, LoopCreateResult, LoopReturn, LoopClosed, CreateLine,
              CommandDone, CreateDone
  <2>2. svcPc' = svcPc \/ svcPc' \notin {"waiting", "finished"}
    BY <1>9 DEF SvcReap, LoopReceive, LoopCreateResult, LoopReturn, LoopClosed, CreateLine,
              CommandDone, CreateDone, service
  <2> QED BY <1>4, <2>1, <2>2
<1>10. ASSUME (\E t \in Tids : DrainNext(t)) \/ DrainReceive \/ SvcDone \/ SvcFinish \/ UNCHANGED vars
       PROVE NoReaders'
  <2>1. UNCHANGED <<process, cli>>
    BY <1>10 DEF DrainNext, DrainReceive, SvcDone, SvcFinish, vars
  <2>2. svcPc' \in {"waiting", "finished"} => svcPc \in {"waiting", "finished"}
    BY <1>10 DEF DrainNext, DrainReceive, SvcDone, SvcFinish, vars, service
  <2> QED BY <1>4, <2>1, <2>2
<1> QED BY <1>2, <1>3, <1>5, <1>6, <1>7, <1>8, <1>9, <1>10 DEF Next

\* A client is only told of success on completing its transaction.
LEMMA NextTold ==
  ASSUME [NoneDeceived]_vars, TransactionInv, TruthInv, [Next]_vars PROVE TruthfulResult'
<1>1. /\ TruthfulResult /\ ReadersTruthful
      /\ cli \in [Clients -> ClientType] /\ \A c \in Clients : cli[c] \in ClientType
  BY DEF TransactionInv, TruthInv, TypeInv, TypeOK
<1>2. succeeded \subseteq succeeded'
  <2>1. ASSUME NEW c \in Clients,
               \/ (\E r \in Requests : Issue(c, r)) \/ WantCancel(c) \/ ClientDie(c)
               \/ ReadResult(c) \/ StartSignalled(c) \/ ResultSignalled(c) \/ CancelSignalled(c)
        PROVE  succeeded' = succeeded
    BY <2>1 DEF Issue, WantCancel, ClientDie, ReadResult, StartSignalled, ResultSignalled,
                CancelSignalled, traffic
  <2>4. ASSUME NEW c \in Clients, SvcStart(c) PROVE succeeded \subseteq succeeded'
    BY <2>4 DEF SvcStart, Create, ForwardToInstance, AnswerAtOnce, Forward
  <2>5. ASSUME NEW c \in Clients, SvcGetResult(c) \/ SvcComplete(c) \/ SvcCancel(c)
        PROVE  succeeded' = succeeded
    BY <2>5 DEF SvcGetResult, SvcComplete, SvcCancel, traffic
  <2>2. ASSUME NEW l \in Loops,
               \/ SvcReap(l) \/ LoopReceive(l) \/ LoopCreateResult(l) \/ LoopReturn(l)
               \/ LoopClosed(l) \/ CreateLine(l)
               \/ \E v \in Final : CommandDone(l, v) \/ CreateDone(l, v)
        PROVE  succeeded \subseteq succeeded'
    BY <2>2 DEF SvcReap, LoopReceive, LoopCreateResult, LoopReturn, LoopClosed, CreateLine,
                CommandDone, CreateDone, Success, traffic
  <2>3. ASSUME \/ \E t \in Tids : DrainNext(t)
               \/ SvcDone \/ DrainReceive \/ CloseLoops \/ SvcFinish
               \/ Signal \/ MainFinished \/ ManagerReturns \/ MainExit
               \/ UNCHANGED vars
        PROVE  succeeded' = succeeded
    BY <2>3 DEF SvcDone, DrainReceive, DrainNext, CloseLoops, SvcFinish, Signal, MainFinished,
                ManagerReturns, MainExit, vars, traffic
  <2> QED BY <2>1, <2>2, <2>3, <2>4, <2>5 DEF Next
<1> DEFINE Told(k) == k.pc = "idle" /\ k.out = "ok"
<1>3. ASSUME \A c \in Clients : Told(cli'[c]) => Told(cli[c]) /\ cli'[c].tid = cli[c].tid
      PROVE  TruthfulResult'
  BY <1>1, <1>2, <1>3 DEF TruthfulResult
<1>4. ASSUME NEW c \in Clients, Told(cli'[c]) => Told(cli[c]) /\ cli'[c].tid = cli[c].tid,
             \A d \in Clients : d # c => cli'[d] = cli[d]
      PROVE  TruthfulResult'
  BY <1>1, <1>2, <1>4 DEF TruthfulResult
<1>5. ASSUME NEW c \in Clients,
             \/ \E r \in Requests : Issue(c, r)
             \/ WantCancel(c) \/ ClientDie(c) \/ ReadResult(c) \/ SvcStart(c)
      PROVE  TruthfulResult'
  <2>1. cli'[c].pc # "idle" /\ \A d \in Clients : d # c => cli'[d] = cli[d]
    <3>1. CASE \E r \in Requests : Issue(c, r)
      BY <1>1, <3>1 DEF Issue, IdleClient
    <3>2. CASE WantCancel(c) \/ ClientDie(c) \/ SvcStart(c)
      BY <1>1, <3>2 DEF WantCancel, ClientDie, SvcStart, ClientType
    <3>3. CASE ReadResult(c)
      <4>1. PICK o : \/ cli' = [cli EXCEPT ![c] = [@ EXCEPT !.pc = "getting"]]
                     \/ cli' = [cli EXCEPT ![c] = [@ EXCEPT !.pc = "completing", !.out = o]]
        BY <3>3 DEF ReadResult
      <4> QED BY <1>1, <4>1 DEF ClientType
    <3> QED BY <1>5, <3>1, <3>2, <3>3
  <2> QED BY <1>4, <2>1
<1>6. ASSUME NEW c \in Clients, StartSignalled(c) \/ CancelSignalled(c) \/ SvcGetResult(c) \/ SvcCancel(c)
      PROVE  TruthfulResult'
  <2>1. \A d \in Clients : d # c => cli'[d] = cli[d]
    BY <1>1, <1>6 DEF StartSignalled, CancelSignalled, SvcGetResult, SvcCancel
  <2>2. Told(cli'[c]) => Told(cli[c]) /\ cli'[c].tid = cli[c].tid
    <3>1. CASE StartSignalled(c)
      BY <1>1, <3>1 DEF StartSignalled, ClientType
    <3>2. CASE SvcGetResult(c)
      BY <1>1, <3>2 DEF SvcGetResult, ClientType
    <3>3. CASE CancelSignalled(c) \/ SvcCancel(c)
      BY <1>1, <3>3 DEF CancelSignalled, SvcCancel, ClientType
    <3> QED BY <1>6, <3>1, <3>2, <3>3
  <2> QED BY <1>4, <2>1, <2>2
<1>7. ASSUME NEW c \in Clients, ResultSignalled(c) PROVE TruthfulResult'
  <2>1. UNCHANGED succeeded /\ \A d \in Clients : d # c => cli'[d] = cli[d]
    BY <1>1, <1>7 DEF ResultSignalled, traffic
  <2>2. Told(cli'[c]) => cli[c].pc = "completing" /\ cli[c].out = "ok" /\ cli'[c].tid = cli[c].tid
    BY <1>1, <1>7 DEF ResultSignalled, Answered, ClientType
  <2>3. ASSUME Told(cli'[c]) PROVE cli'[c].tid \in succeeded
    <3>1. cli'[c] # cli[c]
      BY <2>2, <2>3
    <3>2. svcPc \in {"select", "sending"}
      BY <1>7, <2>2, <2>3, <3>1 DEF NoneDeceived, vars
    <3> QED BY <1>1, <2>2, <2>3, <3>2 DEF ReadersTruthful, Truthful, Active
  <2> QED BY <1>1, <2>1, <2>3 DEF TruthfulResult
<1>8. ASSUME NEW c \in Clients, SvcComplete(c) PROVE TruthfulResult'
  <2>1. /\ cli[c].tid \in transactions /\ svcPc = "select" /\ cli[c].pc = "completing"
        /\ UNCHANGED succeeded
    BY <1>8, CompleteCore DEF SvcComplete, TransactionInv, traffic
  <2>2. cli' = [cli EXCEPT ![c] = Answered(@)]
    BY <1>8, <2>1 DEF SvcComplete
  <2>3. cli[c].out = "ok" => cli[c].tid \in succeeded
    BY <1>1, <2>1 DEF ReadersTruthful, Truthful, Active
  <2>4. Told(cli'[c]) => cli'[c].tid \in succeeded
    BY <1>1, <2>2, <2>3 DEF Answered, ClientType
  <2>5. \A d \in Clients : d # c => cli'[d] = cli[d]
    BY <1>1, <2>2
  <2> QED BY <1>1, <2>1, <2>4, <2>5 DEF TruthfulResult
<1>9. CASE MainExit
  <2>1. ASSUME NEW c \in Clients PROVE Told(cli'[c]) => Told(cli[c]) /\ cli'[c].tid = cli[c].tid
    <3>1. cli[c] \in ClientType
      BY <1>1
    <3> QED BY <1>9, <3>1 DEF MainExit, ClientType
  <2> QED BY <1>3, <2>1
<1>10. ASSUME UNCHANGED cli PROVE TruthfulResult'
  BY <1>3, <1>10
<1> HIDE DEF Told
<1>11. ASSUME NEW l \in Loops,
             \/ SvcReap(l) \/ LoopReceive(l) \/ LoopCreateResult(l) \/ LoopReturn(l)
             \/ LoopClosed(l) \/ CreateLine(l)
             \/ \E v \in Final : CommandDone(l, v) \/ CreateDone(l, v)
      PROVE  TruthfulResult'
  BY <1>10, <1>11 DEF SvcReap, LoopReceive, LoopCreateResult, LoopReturn, LoopClosed, CreateLine,
         CommandDone, CreateDone
<1>12. ASSUME \/ \E t \in Tids : DrainNext(t)
              \/ SvcDone \/ DrainReceive \/ CloseLoops \/ SvcFinish \/ Signal \/ MainFinished
              \/ ManagerReturns
              \/ UNCHANGED vars
       PROVE  TruthfulResult'
  BY <1>10, <1>12 DEF DrainNext, SvcDone, DrainReceive, CloseLoops, SvcFinish, Signal, MainFinished,
                      ManagerReturns, vars
<1> QED BY <1>5, <1>6, <1>7, <1>8, <1>9, <1>11, <1>12 DEF Next

\* Client c gets a new state; no other client's transaction loses its answer.
LEMMA TruthFrame ==
  ASSUME TypeInv, ReadersTruthful, svcPc' \in {"select", "sending"} => svcPc \in {"select", "sending"},
         succeeded \subseteq succeeded',
         \A c \in Clients : svcPc \in {"select", "sending"} /\ Active(cli'[c]) =>
           \/ Truthful(cli[c])'
           \/ /\ Active(cli[c]) /\ cli'[c].pc = cli[c].pc /\ cli'[c].tid = cli[c].tid
              /\ cli'[c].req = cli[c].req /\ cli'[c].out = cli[c].out
              /\ op'[cli[c].tid] = op[cli[c].tid]
              /\ result'[cli[c].tid].closed /\ result'[cli[c].tid].buf = <<>>
                   => result[cli[c].tid].closed /\ result[cli[c].tid].buf = <<>>
  PROVE  ReadersTruthful'
<1> SUFFICES ASSUME svcPc' \in {"select", "sending"}, NEW c \in Clients, Active(cli[c])'
             PROVE  Truthful(cli[c])'
  BY DEF ReadersTruthful
<1>1. CASE /\ Active(cli[c]) /\ cli'[c].pc = cli[c].pc /\ cli'[c].tid = cli[c].tid
           /\ cli'[c].req = cli[c].req /\ cli'[c].out = cli[c].out
           /\ op'[cli[c].tid] = op[cli[c].tid]
           /\ result'[cli[c].tid].closed /\ result'[cli[c].tid].buf = <<>>
                => result[cli[c].tid].closed /\ result[cli[c].tid].buf = <<>>
  <2>1. Truthful(cli[c])
    BY <1>1 DEF ReadersTruthful
  <2> QED BY <1>1, <2>1 DEF Truthful
<1>2. Active(cli'[c])
  BY DEF Active
<1> QED BY <1>1, <1>2

\* An answer is never nothing, a progress line is no answer.
LEMMA AnswerHasValue ==
  ASSUME TypeInv,
         \/ result' = result
         \/ \E t, v : \/ result' = [result EXCEPT ![t] = Reply(@, v)]
                      \/ result' = [result EXCEPT ![t] = Sent(@, v)] /\ ~result[t].closed,
         NEW u \in Tids, result'[u].closed, result'[u].buf = <<>>
  PROVE  result[u].closed /\ result[u].buf = <<>>
<1>1. result \in [Tids -> ChannelType] /\ result[u] \in ChannelType
  BY DEF TypeInv, TypeOK, TrafficType
<1>2. \A v : Reply(result[u], v).buf = Append(result[u].buf, v)
  BY DEF Reply
<1>3. \A v : Append(result[u].buf, v) # <<>>
  <2>1. result[u].buf \in Seq(Final \cup {"line"})
    BY <1>1 DEF ChannelType
  <2>2. ASSUME NEW v PROVE Append(result[u].buf, v) # <<>>
    <3>1. Append(result[u].buf, v) = result[u].buf \o <<v>> /\ Len(result[u].buf) \in Nat
      BY <2>1
    <3>2. Len(Append(result[u].buf, v)) = Len(result[u].buf) + 1
      BY <2>1
    <3> QED BY <3>1, <3>2
  <2> QED BY <2>2
<1>4. \A v : Sent(result[u], v).closed = result[u].closed
  BY <1>1 DEF Sent, ChannelType
<1> QED BY <1>1, <1>2, <1>3, <1>4

LEMMA LoopStepsTruthful ==
  ASSUME TransactionInv, ReadersTruthful, NEW l \in Loops,
         \/ SvcReap(l) \/ LoopReceive(l) \/ LoopCreateResult(l) \/ LoopReturn(l)
         \/ LoopClosed(l) \/ CreateLine(l)
         \/ \E v \in Final : CommandDone(l, v) \/ CreateDone(l, v)
  PROVE  ReadersTruthful'
<1>1. /\ UNCHANGED <<cli, op>> /\ succeeded \subseteq succeeded'
      /\ svcPc' \in {"select", "sending"} => svcPc \in {"select", "sending"}
  BY DEF SvcReap, LoopReceive, LoopCreateResult, LoopReturn, LoopClosed, CreateLine,
         CommandDone, CreateDone, service, traffic, Success
<1>2. \/ result' = result
      \/ \E t, v : \/ result' = [result EXCEPT ![t] = Reply(@, v)]
                   \/ result' = [result EXCEPT ![t] = Sent(@, v)] /\ ~result[t].closed
  <2>1. CASE CreateLine(l)
    <3>1. /\ result' = [result EXCEPT ![loop[l].create] = Sent(@, "line")]
          /\ loop[l].create \in Tids /\ Executes(l, loop[l].create)
      BY <2>1 DEF CreateLine, Executes, TransactionInv, TypeInv, LoopsHeld
    <3> QED BY <3>1, ExecutesServes DEF TransactionInv
  <2>2. CASE ~CreateLine(l)
    BY <2>2 DEF SvcReap, LoopReceive, LoopCreateResult, LoopReturn, LoopClosed,
         CommandDone, CreateDone, traffic
  <2> QED BY <2>1, <2>2
<1>3. \A u \in Tids : result'[u].closed /\ result'[u].buf = <<>>
                        => result[u].closed /\ result[u].buf = <<>>
  BY <1>2, AnswerHasValue DEF TransactionInv
<1>4. \A c \in Clients : cli[c].tid \in Tids
  BY DEF TransactionInv, TypeInv, TypeOK, ClientType
<1> QED BY <1>1, <1>3, <1>4, TruthFrame DEF TransactionInv

\* Reading takes the outcome of the client's own transaction, which no other
\* client reads.
LEMMA ReadTruthful ==
  ASSUME TransactionInv, ReadersTruthful, NEW c \in Clients, ReadResult(c)
  PROVE  ReadersTruthful'
<1> DEFINE k == cli[c]
           t == k.tid
<1>1. /\ TypeInv /\ CoreInv /\ ClientInv
      /\ k \in ClientType /\ t \in Tids /\ k.pc = "reading" /\ cli \in [Clients -> ClientType]
      /\ result \in [Tids -> ChannelType] /\ result[t].buf \in Seq(Final \cup {"line"})
      /\ UNCHANGED <<svcPc, op, succeeded>>
  BY DEF ReadResult, TransactionInv, TypeInv, TypeOK, ClientType, TrafficType, ChannelType, service
<1>2. \A d \in Clients : d # c => cli'[d] = cli[d]
  BY <1>1 DEF ReadResult
<1>3. ASSUME NEW d \in Clients, d # c, Active(cli[d]), svcPc \in {"select", "sending"}
      PROVE  result'[cli[d].tid] = result[cli[d].tid]
  <2>1. cli[d].tid \in Tids /\ cli[d].tid # t
    BY <1>1, <1>3 DEF ClientInv, Active, TypeInv, TypeOK, ClientType
  <2>2. result' = result \/ result' = [result EXCEPT ![t].buf = Tail(@)]
    BY DEF ReadResult
  <2> QED BY <1>1, <2>1, <2>2
<1>4. ASSUME svcPc \in {"select", "sending"} PROVE Truthful(cli[c])'
  <2>1. op[t] = k.req.op /\ TrueChannel(result[t], t) /\ Truthful(k)
    BY <1>1, <1>4 DEF ClientInv, Active, OwnsTransaction, CoreInv, BufferInv, ReadersTruthful
  <2>2. CASE result[t].buf # <<>>
    <3> DEFINE h == Head(result[t].buf)
               o == IF h = "err" THEN "err" ELSE "ok"
               create == k.req.op = "create"
    <3>1. Holds(result[t].buf, h) /\ h \in Final \cup {"line"}
      BY <1>1, <2>2, HoldsTail
    <3>2. cli'[c] = IF AsksAgain(h, create)
                    THEN [k EXCEPT !.pc = "getting"]
                    ELSE [k EXCEPT !.pc = "completing", !.out = o]
      BY <1>1, <2>2 DEF ReadResult
    <3>3. h = "ok" => t \in succeeded
      BY <2>1, <3>1 DEF TrueChannel
    <3>4. h = "line" => op[t] = "create"
      BY <2>1, <3>1 DEF TrueChannel
    <3> HIDE DEF h
    <3>5. CASE AsksAgain(h, create)
      BY <1>1, <2>1, <3>2, <3>5 DEF Truthful, AsksAgain, ClientType
    <3>6. CASE ~AsksAgain(h, create)
      <4>1. h # "line"
        BY <2>1, <3>4, <3>6 DEF AsksAgain
      <4>2. cli'[c].pc = "completing" /\ cli'[c].tid = t /\ cli'[c].out = o
        BY <1>1, <3>2, <3>6 DEF ClientType
      <4> QED BY <1>1, <3>1, <3>3, <4>1, <4>2 DEF Truthful, Final
    <3> QED BY <3>5, <3>6
  <2>3. CASE result[t].buf = <<>>
    <3>1. result[t].closed /\ k.req.op = "create"
      BY <1>1, <2>1, <2>3 DEF ReadResult, Truthful
    <3>2. cli' = [cli EXCEPT ![c].pc = "completing", ![c].out = "unfinished"]
      BY <2>3, <3>1 DEF ReadResult
    <3>3. cli'[c].pc = "completing" /\ cli'[c].req = k.req /\ cli'[c].out = "unfinished"
      BY <1>1, <3>2 DEF ClientType
    <3> QED BY <3>1, <3>3 DEF Truthful
  <2> QED BY <2>2, <2>3
<1> QED BY <1>1, <1>2, <1>3, <1>4, TruthFrame

LEMMA ClientStepsTruthful ==
  ASSUME TransactionInv, ReadersTruthful, NEW c \in Clients,
         \/ \E r \in Requests : Issue(c, r)
         \/ WantCancel(c) \/ ClientDie(c) \/ SvcGetResult(c) \/ SvcComplete(c) \/ SvcCancel(c)
  PROVE  ReadersTruthful'
<1>1. /\ TypeInv /\ CoreInv /\ ClientInv
      /\ cli \in [Clients -> ClientType] /\ cli[c] \in ClientType
      /\ UNCHANGED <<op, result, succeeded>>
      /\ svcPc' \in {"select", "sending"} => svcPc \in {"select", "sending"}
  BY DEF Issue, WantCancel, ClientDie, SvcGetResult, SvcComplete, SvcCancel, TransactionInv,
         TypeInv, TypeOK, service, traffic
<1>2. \A d \in Clients : d # c => cli'[d] = cli[d]
  BY <1>1 DEF Issue, WantCancel, ClientDie, SvcGetResult, SvcComplete, SvcCancel
<1>3. ASSUME svcPc \in {"select", "sending"}, Active(cli'[c]) PROVE Truthful(cli[c])'
  <2>1. CASE \E r \in Requests : Issue(c, r)
    BY <1>1, <1>3, <2>1 DEF Issue, Active, IdleClient
  <2>2. CASE WantCancel(c) \/ SvcCancel(c)
    <3>1. \E v : cli' = [cli EXCEPT ![c].cancel = v]
      BY <2>2 DEF WantCancel, SvcCancel
    <3>2. /\ cli'[c].pc = cli[c].pc /\ cli'[c].tid = cli[c].tid
          /\ cli'[c].req = cli[c].req /\ cli'[c].out = cli[c].out
      BY <1>1, <3>1 DEF ClientType
    <3>3. Truthful(cli[c])
      BY <1>3, <3>2 DEF ReadersTruthful, Active
    <3> QED BY <1>1, <3>2, <3>3 DEF Truthful
  <2>3. CASE ClientDie(c)
    BY <1>1, <1>3, <2>3 DEF ClientDie, Active, ClientType
  <2>4. CASE SvcGetResult(c)
    <3>1. cli'[c].pc = "reading" /\ cli'[c].tid = cli[c].tid /\ cli[c].pc = "getting"
      BY <1>1, <1>3, <2>4 DEF SvcGetResult, Active, ClientType
    <3>2. Truthful(cli[c])
      BY <1>3, <3>1 DEF ReadersTruthful, Active
    <3> QED BY <1>1, <3>1, <3>2 DEF Truthful
  <2>5. CASE SvcComplete(c)
    <3>1. cli[c].tid \in transactions /\ cli[c].pc = "completing"
      BY <1>1, <2>5, CompleteCore DEF SvcComplete
    <3>2. cli' = [cli EXCEPT ![c] = Answered(@)]
      BY <2>5, <3>1 DEF SvcComplete
    <3>3. /\ cli'[c].pc = "getting" /\ cli'[c].tid = cli[c].tid /\ cli[c].out = "unfinished"
      BY <1>1, <1>3, <3>2 DEF Answered, Active, ClientType
    <3>4. Truthful(cli[c]) /\ op[cli[c].tid] = cli[c].req.op
      BY <1>1, <1>3, <3>1 DEF ReadersTruthful, Active, ClientInv, OwnsTransaction
    <3> QED BY <1>1, <3>1, <3>3, <3>4 DEF Truthful
  <2> QED BY <2>1, <2>2, <2>3, <2>4, <2>5
<1> QED BY <1>1, <1>2, <1>3, TruthFrame

\* Steps in which handlers take a signal.
LEMMA SignalsTruthful ==
  ASSUME TransactionInv, ReadersTruthful, NEW c \in Clients,
         (StartSignalled(c) /\ NoneMisled) \/ ResultSignalled(c) \/ CancelSignalled(c)
  PROVE  ReadersTruthful'
<1>1. /\ TypeInv /\ CoreInv /\ ClientInv
      /\ cli \in [Clients -> ClientType] /\ cli[c] \in ClientType
      /\ UNCHANGED <<op, result, succeeded, svcPc>>
  BY DEF StartSignalled, ResultSignalled, CancelSignalled, TransactionInv, TypeInv, TypeOK,
         service, traffic
<1>2. \A d \in Clients : d # c => cli'[d] = cli[d]
  BY <1>1 DEF StartSignalled, ResultSignalled, CancelSignalled
<1>3. ASSUME svcPc \in {"select", "sending"}, Active(cli'[c]) PROVE Truthful(cli[c])'
  <2>1. CASE StartSignalled(c) /\ NoneMisled
    <3>1. cli[c].req.op \in {"create", "stop", "start"}
      BY <1>3, <2>1 DEF NoneMisled
    <3>2. cli' = [cli EXCEPT ![c] = [@ EXCEPT !.pc = "idle", !.out = "err"]]
      BY <2>1, <3>1 DEF StartSignalled
    <3> QED BY <1>1, <1>3, <3>2 DEF Active, ClientType
  <2>2. CASE CancelSignalled(c)
    <3>1. /\ cli'[c].pc = cli[c].pc /\ cli'[c].tid = cli[c].tid
          /\ cli'[c].req = cli[c].req /\ cli'[c].out = cli[c].out
      BY <1>1, <2>2 DEF CancelSignalled, ClientType
    <3>2. Truthful(cli[c])
      BY <1>3, <3>1 DEF ReadersTruthful, Active
    <3> QED BY <1>1, <3>1, <3>2 DEF Truthful
  <2>3. CASE ResultSignalled(c)
    <3>1. /\ cli[c].pc = "completing" /\ cli[c].out = "unfinished"
          /\ cli'[c].pc = "getting" /\ cli'[c].tid = cli[c].tid
      BY <1>1, <1>3, <2>3 DEF ResultSignalled, Answered, Active, ClientType
    <3>2. Truthful(cli[c]) /\ op[cli[c].tid] = cli[c].req.op
      BY <1>1, <1>3, <3>1 DEF ReadersTruthful, Active, ClientInv, OwnsTransaction
    <3> QED BY <1>1, <3>1, <3>2 DEF Truthful
  <2> QED BY <2>1, <2>2, <2>3
<1> QED BY <1>1, <1>2, <1>3, TruthFrame

\* A new transaction has no answer, or a first one.
LEMMA SvcStartTruthful ==
  ASSUME TransactionInv, ReadersTruthful, NEW c \in Clients, SvcStart(c)
  PROVE  ReadersTruthful'
<1> DEFINE t == counter
<1>1. /\ TypeInv /\ CoreInv /\ ClientInv
      /\ t \in Tids /\ t \in Int /\ svcPc = "select"
      /\ cli \in [Clients -> ClientType] /\ cli[c] \in ClientType
      /\ op \in [Tids -> Ops \cup {None}] /\ result \in [Tids -> ChannelType]
      /\ op' = [op EXCEPT ![t] = cli[c].req.op]
      /\ cli' = [cli EXCEPT ![c].pc = "getting", ![c].tid = t]
  BY DEF SvcStart, TransactionInv, TypeInv, TypeOK, TrafficType, Tids
<1>2. result' = result \/ \E v : result' = [result EXCEPT ![t] = Reply(@, v)]
  BY DEF SvcStart, Create, ForwardToInstance, AnswerAtOnce, Forward
<1>3. succeeded \subseteq succeeded'
  BY DEF SvcStart, Create, ForwardToInstance, AnswerAtOnce, Forward
<1>4. /\ cli'[c].pc = "getting" /\ cli'[c].tid = t
      /\ \A d \in Clients : d # c => cli'[d] = cli[d]
  BY <1>1 DEF ClientType
<1>5. \A u \in Tids : result'[u].closed /\ result'[u].buf = <<>>
                        => result[u].closed /\ result[u].buf = <<>>
  BY <1>1, <1>2, AnswerHasValue
<1>6. ~(result'[t].closed /\ result'[t].buf = <<>>)
  BY <1>1, <1>5 DEF CoreInv, FutureInv, EmptyCh
<1>7. Truthful(cli[c])'
  BY <1>1, <1>4, <1>6 DEF Truthful
<1>8. ASSUME NEW d \in Clients, d # c, Active(cli[d])
      PROVE  cli[d].tid \in Tids /\ op'[cli[d].tid] = op[cli[d].tid]
  BY <1>1, <1>8 DEF ClientInv, OwnsTransaction, TypeInv, TypeOK, ClientType, Tids
<1> QED BY <1>1, <1>3, <1>4, <1>5, <1>7, <1>8, TruthFrame

LEMMA NextTruth ==
  ASSUME [NoneMisled]_vars, [NoneDeceived]_vars, TransactionInv, TruthInv, [Next]_vars
  PROVE  TruthInv'
<1>1. ReadersTruthful
  BY DEF TruthInv
<1>2. ASSUME svcPc' \notin {"select", "sending"} PROVE ReadersTruthful'
  BY <1>2 DEF ReadersTruthful
<1>3. ASSUME NEW c \in Clients,
             \/ \E r \in Requests : Issue(c, r)
             \/ WantCancel(c) \/ ClientDie(c) \/ ReadResult(c)
             \/ SvcStart(c) \/ SvcGetResult(c) \/ SvcComplete(c) \/ SvcCancel(c)
      PROVE  ReadersTruthful'
  BY <1>1, <1>3, ClientStepsTruthful, ReadTruthful, SvcStartTruthful
<1>4. ASSUME NEW c \in Clients, StartSignalled(c) \/ ResultSignalled(c) \/ CancelSignalled(c)
      PROVE  ReadersTruthful'
  <2>1. StartSignalled(c) => NoneMisled
    BY SignalIsTaken DEF TransactionInv
  <2> QED BY <1>1, <1>4, <2>1, SignalsTruthful
<1>5. ASSUME NEW l \in Loops,
             \/ SvcReap(l) \/ LoopReceive(l) \/ LoopCreateResult(l) \/ LoopReturn(l)
             \/ LoopClosed(l) \/ CreateLine(l)
             \/ \E v \in Final : CommandDone(l, v) \/ CreateDone(l, v)
      PROVE  ReadersTruthful'
  BY <1>1, <1>5, LoopStepsTruthful
<1>6. ASSUME \/ \E t \in Tids : DrainNext(t)
             \/ SvcDone \/ DrainReceive \/ CloseLoops \/ SvcFinish \/ MainExit
      PROVE  ReadersTruthful'
  <2>1. svcPc' \notin {"select", "sending"}
    BY <1>6 DEF DrainNext, SvcDone, DrainReceive, CloseLoops, SvcFinish, MainExit, service
  <2> QED BY <1>2, <2>1
<1>7. ASSUME Signal \/ MainFinished \/ ManagerReturns \/ UNCHANGED vars PROVE ReadersTruthful'
  <2>1. UNCHANGED <<svcPc, cli, op, result, succeeded>>
    BY <1>7 DEF Signal, MainFinished, ManagerReturns, vars, service, traffic
  <2> QED BY <1>1, <2>1 DEF ReadersTruthful, Active, Truthful
<1>8. ReadersTruthful'
  BY <1>3, <1>4, <1>5, <1>6, <1>7 DEF Next
<1>9. TruthfulResult'
  BY NextTold
<1> QED BY <1>8, <1>9 DEF TruthInv

\* A client that is told of success can rely on it: the command was its own,
\* and its backend function has succeeded.
THEOREM ResultsTruthful == Spec /\ SignalsHarmless /\ SuccessBeforeStop => []TruthfulResult
<1>1. Init => TruthInv
  BY InitCore
<1>2. TransactionInv /\ TruthInv /\ [Next]_vars /\ [NoneMisled]_vars /\ [NoneDeceived]_vars => TruthInv'
  BY NextTruth
<1>3. TruthInv => TruthfulResult
  BY DEF TruthInv
<1> QED BY <1>1, <1>2, <1>3, TransactionsConsistent, PTL DEF Spec, SignalsHarmless, SuccessBeforeStop

\* With one signal at most no handler is sent it that has a result.
THEOREM OneIsTruthful == MaxSignals <= 1 => (Spec => SuccessBeforeStop)
<1> SUFFICES ASSUME MaxSignals <= 1 PROVE Spec => SuccessBeforeStop
  OBVIOUS
<1>1. Init => SignalInv /\ NoReaders
  BY InitCore
<1>2. TransactionInv /\ SignalInv /\ NoReaders /\ [Next]_vars => (SignalInv /\ NoReaders)'
  BY NextSignal, NextReaders DEF TransactionInv
<1>3. SignalInv /\ NoReaders => NoneDeceived
  BY DEF NoReaders, Reads, NoneDeceived, ResultSignalled
<1>4. Spec => SignalsHarmless
  BY FewAreHarmless DEF FewSignals
<1> QED BY <1>1, <1>2, <1>3, <1>4, TransactionsConsistent, PTL DEF Spec, SuccessBeforeStop
=============================================================================
