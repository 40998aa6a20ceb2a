---------------------------- MODULE PromiseProofs ----------------------------
(***************************************************************************)
(* CcvmService implements InstanceCommands: every step of the service is a *)
(* step of the promise under the mapping of CcvmServiceRefinement, or      *)
(* leaves all that the promise speaks of alone.                            *)
(***************************************************************************)
EXTENDS TransactionProofs

-----------------------------------------------------------------------------
(***************************************************************************)
(* What the mapping needs to know beyond TransactionInv.                   *)
(***************************************************************************)

\* A loop k (loop l), given the transactions S that have succeeded, serves a
\* command while it is running one, and a creation until it has returned its
\* result; it is not deleted meanwhile.  A loop whose creation has failed is
\* deleted, or has left.
GoodLoop(k, l, S) ==
  /\ k.cmd # None => k.pc = "running"
  /\ k.create \in {None, l} /\ (k.create # None => k.pc # "unused")
  /\ k.pc = "running" => ~k.deleted /\ k.fn = "none"
  /\ k.fn # "none" => ~k.deleted /\ k.pc \in {"select", "returning", "leaving", "lastReturn"}
  /\ k.create # None /\ k.fn = "none" /\ ~k.deleted /\ k.pc # "exited" => k.create \in S

LoopState == \A l \in Loops : GoodLoop(loop[l], l, succeeded)

\* The loop a creation is being sent to has not served anything yet.
FreshInv ==
  svcPc = "sending" /\ op[cur] = "create" =>
    /\ loop[cur].pc = "select" /\ loop[cur].create = None
    /\ ~loop[cur].deleted /\ ~loop[cur].chClosed

\* A backend function that has succeeded has been answered for, or is the
\* creation whose result its loop is about to return.
SucceededInv ==
  \A t \in succeeded : \/ result[t].closed
                       \/ loop[t].create = t /\ loop[t].fn = "ok"

\* What a loop has been asked to create was asked for by a creation.
CreatorInv == \A l \in Loops : loop[l].create # None => op[l] = "create"

PromiseInv == TransactionInv /\ LoopState /\ FreshInv /\ SucceededInv /\ CreatorInv

LEMMA InitPromiseInv == Init => PromiseInv
<1> SUFFICES ASSUME Init PROVE PromiseInv
  OBVIOUS
<1>1. TransactionInv
  BY InitType, InitCore DEF TransactionInv
<1>2. \A l \in Loops : GoodLoop(loop[l], l, succeeded) /\ loop[l].create = None
  <2>1. /\ \A n, ip, l, S : GoodLoop(NewLoop(n, ip), l, S) /\ NewLoop(n, ip).create = None
        /\ \A l, S : GoodLoop(UnusedLoop, l, S) /\ UnusedLoop.create = None
    BY DEF GoodLoop, NewLoop, UnusedLoop, LoopAt
  <2>2. PICK d \in Disks :
          loop = [l \in Loops |-> IF l \in {-i : i \in Taken(d)}
                                  THEN NewLoop(d[-l].name, d[-l].ip) ELSE UnusedLoop]
    BY DEF Init
  <2> DEFINE f == [l \in Loops |-> d[-l].name]
             g == [l \in Loops |-> d[-l].ip]
             S == {-i : i \in Taken(d)}
  <2>3. loop = [l \in Loops |-> IF l \in S THEN NewLoop(f[l], g[l]) ELSE UnusedLoop]
    BY <2>2
  <2> HIDE DEF f, g, S
  <2> QED BY <2>1, <2>3
<1>3. FreshInv /\ SucceededInv
  BY DEF Init, FreshInv, SucceededInv
<1>4. CreatorInv
  BY <1>2 DEF CreatorInv
<1> QED BY <1>1, <1>2, <1>3, <1>4 DEF PromiseInv, LoopState

-----------------------------------------------------------------------------
\* LoopState.

LEMMA LoopGetsGood ==
  ASSUME TypeInv, LoopState, succeeded \subseteq succeeded', NEW l \in Loops, NEW k,
         loop' = [loop EXCEPT ![l] = k], GoodLoop(k, l, succeeded')
  PROVE  LoopState'
<1>1. \A m \in Loops : GoodLoop(loop[m], m, succeeded')
  BY DEF LoopState, GoodLoop
<1>2. \A m \in Loops : loop'[m] = IF m = l THEN k ELSE loop[m]
  BY DEF TypeInv, TypeOK
<1>3. \A m \in Loops : GoodLoop(loop'[m], m, succeeded')
  BY <1>1, <1>2
<1> QED BY <1>3 DEF LoopState

LEMMA LoopsStayGood ==
  ASSUME LoopState, succeeded \subseteq succeeded',
         \A l \in Loops : /\ loop'[l].cmd = loop[l].cmd /\ loop'[l].create = loop[l].create
                          /\ loop'[l].pc = loop[l].pc /\ loop'[l].fn = loop[l].fn
                          /\ loop'[l].deleted = loop[l].deleted
  PROVE  LoopState'
BY DEF LoopState, GoodLoop

\* The records of a loop that receives a command.
LEMMA ReceivedGood ==
  ASSUME TypeInv, CoreInv, LoopState, NEW l \in Loops, LoopReceive(l)
  PROVE  LoopState'
<1>1. /\ loop \in [Loops -> LoopType] /\ loop[l] \in LoopType /\ loop[l].pc = "select"
      /\ GoodLoop(loop[l], l, succeeded) /\ succeeded' = succeeded /\ cur \in Tids
      /\ op[cur] = "create" => cur = l
      /\ loop[l].cmd = None
  BY DEF LoopReceive, TypeInv, TypeOK, LoopState, GoodLoop, CoreInv, SendInv, ServiceHeld
<1>2. CASE UNCHANGED loop
  BY <1>1, <1>2, LoopsStayGood
<1>3. CASE /\ ~Refuses(l, cur) /\ op[cur] = "create"
           /\ loop' = [loop EXCEPT ![l].create = cur, ![l].fn = "running"]
  <2> DEFINE k == [loop[l] EXCEPT !.create = cur, !.fn = "running"]
  <2>1. /\ k.cmd = None /\ k.create = l /\ k.pc = "select" /\ k.fn = "running" /\ ~k.deleted
    BY <1>1, <1>3 DEF Refuses, LoopType
  <2>2. loop' = [loop EXCEPT ![l] = k]
    BY <1>3
  <2> HIDE DEF k
  <2>3. GoodLoop(k, l, succeeded')
    BY <2>1 DEF GoodLoop
  <2> QED BY <1>1, <2>2, <2>3, LoopGetsGood
<1>4. CASE /\ ~Refuses(l, cur) /\ op[cur] # "create"
           /\ loop' = [loop EXCEPT ![l].pc = "running", ![l].cmd = cur]
  <2> DEFINE k == [loop[l] EXCEPT !.pc = "running", !.cmd = cur]
  <2>1. /\ k.create = loop[l].create /\ k.pc = "running" /\ k.fn = "none" /\ ~k.deleted
        /\ loop[l].fn = "none" /\ ~loop[l].deleted
    BY <1>1, <1>4 DEF Refuses, LoopType
  <2>2. loop' = [loop EXCEPT ![l] = k]
    BY <1>4
  <2> HIDE DEF k
  <2>3. GoodLoop(k, l, succeeded')
    BY <1>1, <2>1 DEF GoodLoop
  <2> QED BY <1>1, <2>2, <2>3, LoopGetsGood
<1> QED BY <1>2, <1>3, <1>4 DEF LoopReceive

LEMMA WorkedGood ==
  ASSUME TypeInv, CoreInv, LoopState, NEW l \in Loops,
         \/ CreateLine(l) \/ \E v \in Final : CommandDone(l, v) \/ CreateDone(l, v)
  PROVE  LoopState'
<1>1. /\ loop \in [Loops -> LoopType] /\ loop[l] \in LoopType /\ GoodLoop(loop[l], l, succeeded)
      /\ succeeded \subseteq succeeded'
  BY DEF CreateLine, CommandDone, CreateDone, Success, TypeInv, TypeOK, LoopState
<1>2. CASE CreateLine(l)
  <2>1. \A m \in Loops : m # l => loop'[m] = loop[m]
    BY <1>1, <1>2 DEF CreateLine
  <2>2. /\ loop'[l].cmd = loop[l].cmd /\ loop'[l].create = loop[l].create
        /\ loop'[l].pc = loop[l].pc /\ loop'[l].fn = loop[l].fn
        /\ loop'[l].deleted = loop[l].deleted
    BY <1>1, <1>2 DEF CreateLine, LoopType
  <2> QED BY <1>1, <2>1, <2>2, LoopsStayGood
<1>3. ASSUME NEW v \in Final, CommandDone(l, v) PROVE LoopState'
  <2> DEFINE gone == op[loop[l].cmd] = "delete" /\ v = "ok"
             k == [loop[l] EXCEPT !.pc = "select", !.cmd = None, !.deleted = gone]
  <2>1. loop' = [loop EXCEPT ![l] = k] /\ loop[l].pc = "running"
    BY <1>3 DEF CommandDone
  <2>2. /\ k.cmd = None /\ k.create = loop[l].create /\ k.fn = loop[l].fn /\ k.pc = "select"
    BY <1>1 DEF LoopType
  <2> HIDE DEF k, gone
  <2>3. GoodLoop(k, l, succeeded')
    BY <1>1, <2>1, <2>2 DEF GoodLoop
  <2> QED BY <1>1, <2>1, <2>3, LoopGetsGood
<1>4. ASSUME NEW v \in Final, CreateDone(l, v) PROVE LoopState'
  <2> DEFINE k == [loop[l] EXCEPT !.fn = v]
  <2>1. loop' = [loop EXCEPT ![l] = k] /\ loop[l].fn = "running"
    BY <1>4 DEF CreateDone
  <2>2. /\ k.cmd = loop[l].cmd /\ k.create = loop[l].create /\ k.fn = v /\ k.pc = loop[l].pc
        /\ k.deleted = loop[l].deleted /\ v # "none"
    BY <1>1 DEF LoopType, Final
  <2> HIDE DEF k
  <2>3. GoodLoop(k, l, succeeded')
    BY <1>1, <2>1, <2>2 DEF GoodLoop
  <2> QED BY <1>1, <2>1, <2>3, LoopGetsGood
<1> QED BY <1>2, <1>3, <1>4

LEMMA LeavingGood ==
  ASSUME TypeInv, CoreInv, LoopState, NEW l \in Loops,
         LoopCreateResult(l) \/ LoopReturn(l) \/ LoopClosed(l)
  PROVE  LoopState'
<1>1. /\ loop \in [Loops -> LoopType] /\ loop[l] \in LoopType /\ GoodLoop(loop[l], l, succeeded)
      /\ succeeded' = succeeded
  BY DEF LoopCreateResult, LoopReturn, LoopClosed, traffic, TypeInv, TypeOK, LoopState
<1>2. CASE LoopCreateResult(l)
  <2> DEFINE p == IF loop[l].pc = "select" THEN "returning" ELSE "lastReturn"
             k == [loop[l] EXCEPT !.pc = p]
  <2>1. loop' = [loop EXCEPT ![l] = k] /\ loop[l].fn \in Final /\ loop[l].pc # "running"
    BY <1>2 DEF LoopCreateResult
  <2>2. /\ k.cmd = loop[l].cmd /\ k.create = loop[l].create /\ k.fn = loop[l].fn /\ k.pc = p
        /\ k.deleted = loop[l].deleted /\ loop[l].fn # "none" /\ p \in {"returning", "lastReturn"}
    BY <1>1, <2>1 DEF LoopType, Final
  <2> HIDE DEF k, p
  <2>3. GoodLoop(k, l, succeeded')
    BY <1>1, <2>1, <2>2 DEF GoodLoop
  <2> QED BY <1>1, <2>1, <2>3, LoopGetsGood
<1>3. CASE LoopReturn(l)
  <2> DEFINE gone == loop[l].deleted \/ loop[l].fn = "err"
             k1 == [loop[l] EXCEPT !.pc = "select", !.fn = "none", !.deleted = gone]
             k2 == [loop[l] EXCEPT !.pc = "exited", !.fn = "none"]
  <2>1. /\ loop[l].pc \in {"returning", "lastReturn"} /\ loop[l].fn \in Final
        /\ loop[l].fn = "ok" => loop[l].create \in succeeded
    BY <1>3 DEF LoopReturn, TypeInv, LoopsHeld, CoreInv, ServesInv
  <2>2. /\ k1.cmd = loop[l].cmd /\ k1.create = loop[l].create /\ k1.fn = "none" /\ k1.pc = "select"
        /\ k1.deleted = gone
        /\ k2.cmd = loop[l].cmd /\ k2.create = loop[l].create /\ k2.fn = "none" /\ k2.pc = "exited"
    BY <1>1 DEF LoopType
  <2>3. loop' = [loop EXCEPT ![l] = k1] \/ loop' = [loop EXCEPT ![l] = k2]
    BY <1>3 DEF LoopReturn
  <2> HIDE DEF k1, k2
  <2>4. GoodLoop(k1, l, succeeded') /\ GoodLoop(k2, l, succeeded')
    BY <1>1, <2>1, <2>2 DEF GoodLoop, Final
  <2> QED BY <1>1, <2>3, <2>4, LoopGetsGood
<1>4. CASE LoopClosed(l)
  <2> DEFINE p == IF loop[l].fn = "none" THEN "exited" ELSE "leaving"
             k == [loop[l] EXCEPT !.pc = p]
  <2>1. loop' = [loop EXCEPT ![l] = k] /\ loop[l].pc = "select"
    BY <1>4 DEF LoopClosed
  <2>2. /\ k.cmd = loop[l].cmd /\ k.create = loop[l].create /\ k.fn = loop[l].fn /\ k.pc = p
        /\ k.deleted = loop[l].deleted
    BY <1>1 DEF LoopType
  <2> HIDE DEF k
  <2>3. GoodLoop(k, l, succeeded')
    BY <1>1, <2>1, <2>2 DEF GoodLoop
  <2> QED BY <1>1, <2>1, <2>3, LoopGetsGood
<1> QED BY <1>2, <1>3, <1>4

\* Steps that leave the loops alone, but for closing their channels.
ClientMoves(c) ==
  \/ \E r \in Requests : Issue(c, r)
  \/ WantCancel(c) \/ ClientDie(c) \/ ReadResult(c)
  \/ StartSignalled(c) \/ ResultSignalled(c) \/ CancelSignalled(c)
  \/ SvcGetResult(c) \/ SvcCancel(c)

ShutdownMoves == \/ \E t \in Tids : DrainNext(t)
                 \/ SvcDone \/ DrainReceive \/ SvcFinish
                 \/ Signal \/ MainFinished \/ ManagerReturns \/ MainExit \/ UNCHANGED vars

Quiet == \/ \E c \in Clients : ClientMoves(c)
         \/ ShutdownMoves \/ CloseLoops \/ \E l \in Loops : SvcReap(l)

LEMMA QuietEffect ==
  ASSUME TypeInv, Quiet
  PROVE  /\ UNCHANGED <<transactions, counter, op, succeeded>>
         /\ svcPc' = "sending" => svcPc = "sending" /\ UNCHANGED <<cur, dest, loop>>
         /\ \A u \in Tids : result'[u].closed = result[u].closed
         /\ \A l \in Loops : /\ loop'[l].cmd = loop[l].cmd /\ loop'[l].create = loop[l].create
                             /\ loop'[l].pc = loop[l].pc /\ loop'[l].fn = loop[l].fn
                             /\ loop'[l].deleted = loop[l].deleted
<1>1. /\ loop \in [Loops -> LoopType] /\ result \in [Tids -> ChannelType]
      /\ \A c \in Clients : cli[c].tid \in Tids
  BY DEF TypeInv, TypeOK, TrafficType, ClientType
<1>2. ASSUME NEW t, NEW u \in Tids
      PROVE  [result EXCEPT ![t].buf = Tail(@)][u].closed = result[u].closed
  BY <1>1 DEF ChannelType
<1>3. ASSUME NEW c \in Clients, ClientMoves(c)
      PROVE  /\ UNCHANGED <<service, table, op, succeeded, loop>>
             /\ UNCHANGED result \/ \E t : result' = [result EXCEPT ![t].buf = Tail(@)]
  BY <1>3 DEF ClientMoves, Issue, WantCancel, ClientDie, ReadResult, StartSignalled, ResultSignalled,
              CancelSignalled, SvcGetResult, SvcCancel, traffic
<1>4. ASSUME ShutdownMoves
      PROVE  /\ UNCHANGED <<transactions, counter, op, succeeded, loop>>
             /\ svcPc' = "sending" => svcPc = "sending" /\ UNCHANGED <<cur, dest>>
             /\ UNCHANGED result \/ \E t : result' = [result EXCEPT ![t].buf = Tail(@)]
  <2>1. CASE UNCHANGED vars
    BY <2>1 DEF vars, service, table, traffic
  <2>2. CASE ~UNCHANGED vars
    BY <1>4, <2>2 DEF ShutdownMoves, DrainNext, SvcDone, DrainReceive, SvcFinish, Signal, MainFinished,
                      ManagerReturns, MainExit, service, table, traffic
  <2> QED BY <2>1, <2>2
<1>5. CASE CloseLoops \/ \E l \in Loops : SvcReap(l)
  <2>1. UNCHANGED <<transactions, counter, traffic>> /\ svcPc' # "sending"
    BY <1>5 DEF CloseLoops, SvcReap, table
  <2>2. ASSUME NEW l \in Loops
        PROVE  /\ loop'[l].cmd = loop[l].cmd /\ loop'[l].create = loop[l].create
               /\ loop'[l].pc = loop[l].pc /\ loop'[l].fn = loop[l].fn
               /\ loop'[l].deleted = loop[l].deleted
    <3>1. loop[l] \in LoopType
      BY <1>1
    <3>2. CASE CloseLoops
      BY <3>1, <3>2 DEF CloseLoops, LoopType
    <3>3. ASSUME NEW n \in Loops, SvcReap(n)
          PROVE  loop' = loop \/ \E m : loop' = [loop EXCEPT ![m].chClosed = TRUE]
      BY <3>3 DEF SvcReap
    <3>4. CASE loop' = loop \/ \E m : loop' = [loop EXCEPT ![m].chClosed = TRUE]
      BY <1>1, <3>1, <3>4 DEF LoopType
    <3> QED BY <1>5, <3>2, <3>3, <3>4
  <2> QED BY <2>1, <2>2 DEF traffic
<1>6. ASSUME (\E c \in Clients : ClientMoves(c)) \/ ShutdownMoves
      PROVE  /\ UNCHANGED <<transactions, counter, op, succeeded, loop>>
             /\ svcPc' = "sending" => svcPc = "sending" /\ UNCHANGED <<cur, dest>>
             /\ \A u \in Tids : result'[u].closed = result[u].closed
  <2>1. ASSUME UNCHANGED result \/ \E t : result' = [result EXCEPT ![t].buf = Tail(@)]
        PROVE  \A u \in Tids : result'[u].closed = result[u].closed
    <3>1. ASSUME NEW t, result' = [result EXCEPT ![t].buf = Tail(@)], NEW u \in Tids
          PROVE  result'[u].closed = result[u].closed
      BY <1>2, <3>1
    <3> QED BY <2>1, <3>1
  <2>2. CASE \E c \in Clients : ClientMoves(c)
    <3>1. PICK c \in Clients : ClientMoves(c)
      BY <2>2
    <3>2. UNCHANGED <<service, table, op, succeeded, loop>>
      BY <1>3, <3>1
    <3>3. UNCHANGED result \/ \E t : result' = [result EXCEPT ![t].buf = Tail(@)]
      BY <1>3, <3>1
    <3> QED BY <2>1, <3>2, <3>3 DEF service, table
  <2>3. CASE ShutdownMoves
    BY <1>4, <2>1, <2>3
  <2> QED BY <1>6, <2>2, <2>3
<1>7. CASE (\E c \in Clients : ClientMoves(c)) \/ ShutdownMoves
  BY <1>6, <1>7
<1> QED BY <1>5, <1>7 DEF Quiet

\* What a start does to the loops, and to the transaction it enters.
LEMMA StartEffect ==
  ASSUME TypeInv, NEW c \in Clients, SvcStart(c)
  PROVE  /\ counter \in Tids /\ counter' = counter + 1 /\ transactions' = transactions \cup {counter}
         /\ op' = [op EXCEPT ![counter] = cli[c].req.op] /\ cli[c].req.op \in Ops
         /\ \/ \E v \in Final :
                 /\ result' = [result EXCEPT ![counter] = Reply(@, v)]
                 /\ succeeded' = Success(counter, v) /\ UNCHANGED <<service, loop>>
                 /\ v = "ok" => cli[c].req.op = "list"
            \/ /\ svcPc' = "sending" /\ cur' = counter /\ UNCHANGED <<result, succeeded>>
               /\ \/ cli[c].req.op = "create" /\ \E n, ip : loop' = [loop EXCEPT ![counter] = NewLoop(n, ip)]
                  \/ cli[c].req.op \in InstOps /\ UNCHANGED loop
<1> DEFINE t == counter
           r == cli[c].req
<1>1. /\ t \in Tids /\ svcPc = "select" /\ counter' = t + 1 /\ r.op \in Ops
      /\ transactions' = transactions \cup {t} /\ op' = [op EXCEPT ![t] = r.op]
  BY RequestsAssumption DEF SvcStart, TypeInv, ClientsHeld, RequestsAssumption
<1> DEFINE At(v) == /\ result' = [result EXCEPT ![t] = Reply(@, v)]
                    /\ succeeded' = Success(t, v) /\ UNCHANGED <<service, loop>>
           Sends == svcPc' = "sending" /\ cur' = t /\ UNCHANGED <<result, succeeded>>
           Enters == \/ \E v \in Final : At(v) /\ (v = "ok" => r.op = "list")
                     \/ /\ Sends
                        /\ \/ r.op = "create" /\ \E n, ip : loop' = [loop EXCEPT ![t] = NewLoop(n, ip)]
                           \/ r.op \in InstOps /\ UNCHANGED loop
<1>2. /\ \A v : AnswerAtOnce(t, v) => At(v)
      /\ \A l : Forward(l, t) => Sends
      /\ "err" \in Final /\ "ok" \in Final /\ "err" # "ok"
  BY DEF AnswerAtOnce, Forward, Success, Final
<1>3. ASSUME r.op = "create", Create(t, r) PROVE Enters
  <2>1. \/ AnswerAtOnce(t, "err")
        \/ Forward(t, t) /\ \E n, ip : loop' = [loop EXCEPT ![t] = NewLoop(n, ip)]
    BY <1>3 DEF Create, StartInstanceLoop
  <2> HIDE DEF At, Sends
  <2> QED BY <1>2, <1>3, <2>1
<1>4. ASSUME r.op \in InstOps, ForwardToInstance(t, r) PROVE Enters
  <2>1. \/ AnswerAtOnce(t, "err")
        \/ (\E l : Forward(l, t)) /\ UNCHANGED loop
    BY <1>4 DEF ForwardToInstance
  <2> HIDE DEF At, Sends
  <2> QED BY <1>2, <1>4, <2>1
<1>5. ASSUME r.op = "list", AnswerAtOnce(t, "ok") PROVE Enters
  BY <1>2, <1>5
<1>6. Enters
  BY <1>3, <1>4, <1>5 DEF SvcStart
<1> QED BY <1>1, <1>6

LEMMA NextLoopState == ASSUME TypeInv, CoreInv, LoopState, [Next]_vars PROVE LoopState'
<1>1. CASE Quiet
  <2>1. /\ succeeded' = succeeded
        /\ \A l \in Loops : /\ loop'[l].cmd = loop[l].cmd /\ loop'[l].create = loop[l].create
                            /\ loop'[l].pc = loop[l].pc /\ loop'[l].fn = loop[l].fn
                            /\ loop'[l].deleted = loop[l].deleted
    BY <1>1, QuietEffect
  <2> QED BY <2>1, LoopsStayGood
<1>2. ASSUME NEW c \in Clients, SvcStart(c) PROVE LoopState'
  <2>1. /\ counter \in Loops /\ succeeded \subseteq succeeded'
        /\ UNCHANGED loop \/ \E n, ip : loop' = [loop EXCEPT ![counter] = NewLoop(n, ip)]
    BY <1>2, StartEffect, ZeroTid DEF Success
  <2>2. \A n, ip, l, S : GoodLoop(NewLoop(n, ip), l, S)
    BY DEF GoodLoop, NewLoop, LoopAt
  <2> QED BY <2>1, <2>2, LoopGetsGood, LoopsStayGood
<1>3. ASSUME NEW c \in Clients, SvcComplete(c) PROVE LoopState'
  BY <1>3, LoopsStayGood DEF SvcComplete, traffic
<1> QED BY <1>1, <1>2, <1>3, ReceivedGood, WorkedGood, LeavingGood DEF Next, Quiet, ClientMoves, ShutdownMoves

-----------------------------------------------------------------------------
\* SucceededInv and FreshInv.

LEMMA ReplyCloses ==
  ASSUME TypeInv, NEW t \in Tids, NEW v, result' = [result EXCEPT ![t] = Reply(@, v)]
  PROVE  \A u \in Tids : result'[u].closed <=> u = t \/ result[u].closed
<1>1. result \in [Tids -> ChannelType]
  BY DEF TypeInv, TypeOK, TrafficType
<1>2. Reply(result[t], v).closed
  BY DEF Reply
<1> QED BY <1>1, <1>2

LEMMA SucceededFrame ==
  ASSUME SucceededInv, TypeInv,
         \A t \in succeeded' : \/ t \in succeeded \/ result'[t].closed
                               \/ loop'[t].create = t /\ loop'[t].fn = "ok",
         \A t \in Tids : result[t].closed => result'[t].closed,
         \A t \in Tids : loop[t].create = t /\ loop[t].fn = "ok" =>
           \/ result'[t].closed
           \/ loop'[t].create = t /\ loop'[t].fn = "ok"
  PROVE  SucceededInv'
<1>1. succeeded \subseteq Tids
  BY DEF TypeInv, TypeOK, TrafficType
<1> QED BY <1>1 DEF SucceededInv

LEMMA StartSucceeded ==
  ASSUME TypeInv, CoreInv, LoopState, SucceededInv, NEW c \in Clients, SvcStart(c)
  PROVE  SucceededInv'
<1>1. /\ counter \in Tids /\ counter \in Loops /\ loop[counter].fn = "none"
      /\ loop \in [Loops -> LoopType]
  <2>1. counter \in Tids /\ counter \in Loops
    BY StartEffect, ZeroTid
  <2>2. counter >= counter
    BY <2>1 DEF Tids
  <2> QED BY <2>1, <2>2 DEF LoopState, GoodLoop, CoreInv, FutureInv, FutureUnused, TypeInv, TypeOK
<1>2. ASSUME NEW v, result' = [result EXCEPT ![counter] = Reply(@, v)],
             succeeded' = Success(counter, v), UNCHANGED loop
      PROVE  SucceededInv'
  <2>1. \A u \in Tids : result'[u].closed <=> u = counter \/ result[u].closed
    BY <1>1, <1>2, ReplyCloses
  <2> QED BY <1>1, <1>2, <2>1, SucceededFrame DEF Success
<1>3. ASSUME UNCHANGED <<result, succeeded>>,
             UNCHANGED loop \/ \E n, ip : loop' = [loop EXCEPT ![counter] = NewLoop(n, ip)]
      PROVE  SucceededInv'
  <2>1. \A t \in Tids : t # counter => loop'[t] = loop[t]
    BY <1>1, <1>3, ZeroTid
  <2> QED BY <1>1, <1>3, <2>1, SucceededFrame
<1> QED BY <1>2, <1>3, StartEffect DEF service

LEMMA LoopSucceeded ==
  ASSUME TypeInv, CoreInv, LoopState, FreshInv, SucceededInv, NEW l \in Loops,
         \/ LoopReceive(l) \/ CreateLine(l) \/ LoopCreateResult(l) \/ LoopReturn(l) \/ LoopClosed(l)
         \/ \E v \in Final : CommandDone(l, v) \/ CreateDone(l, v)
  PROVE  SucceededInv'
<1>1. /\ loop \in [Loops -> LoopType] /\ loop[l] \in LoopType /\ Tids \subseteq Loops
      /\ loop[l].fn # "none" => loop[l].create = l /\ l \in Tids
      /\ loop[l].pc = "running" => loop[l].cmd \in Tids
      /\ svcPc = "sending" => cur \in Tids
      /\ result \in [Tids -> ChannelType]
      /\ None \notin Tids
  BY ZeroTid, SpecialAssumption
     DEF TypeInv, TypeOK, LoopsHeld, CoreInv, ServesInv, ServiceHeld, TrafficType, SpecialAssumption
<1>2. CASE LoopReceive(l)
  <2>1. /\ svcPc = "sending" /\ dest = l /\ succeeded' = succeeded
        /\ op[cur] = "create" => cur = l /\ loop[l].create = None
    BY <1>2 DEF LoopReceive, CoreInv, SendInv, FreshInv
  <2>2. CASE result' = [result EXCEPT ![cur] = Reply(@, "err")] /\ UNCHANGED loop
    <3>1. \A u \in Tids : result'[u].closed <=> u = cur \/ result[u].closed
      BY <1>1, <2>1, <2>2, ReplyCloses
    <3> QED BY <2>1, <2>2, <3>1, SucceededFrame
  <2>3. CASE /\ op[cur] = "create" /\ UNCHANGED result
             /\ loop' = [loop EXCEPT ![l].create = cur, ![l].fn = "running"]
    <3>1. \A t \in Tids : loop[t].create = t => loop'[t] = loop[t]
      BY <1>1, <2>1, <2>3
    <3> QED BY <2>1, <2>3, <3>1, SucceededFrame
  <2>4. CASE /\ op[cur] # "create" /\ UNCHANGED result
             /\ loop' = [loop EXCEPT ![l].pc = "running", ![l].cmd = cur]
    <3>1. \A t \in Tids : loop'[t].create = loop[t].create /\ loop'[t].fn = loop[t].fn
      BY <1>1, <2>4 DEF LoopType
    <3> QED BY <2>1, <2>4, <3>1, SucceededFrame
  <2> QED BY <1>2, <2>2, <2>3, <2>4 DEF LoopReceive
<1>3. ASSUME NEW v \in Final, CommandDone(l, v) PROVE SucceededInv'
  <2> DEFINE t == loop[l].cmd
  <2>1. /\ t \in Tids /\ result' = [result EXCEPT ![t] = Reply(@, v)] /\ succeeded' = Success(t, v)
    BY <1>1, <1>3 DEF CommandDone
  <2>2. \A u \in Tids : result'[u].closed <=> u = t \/ result[u].closed
    <3> HIDE DEF t
    <3> QED BY <2>1, ReplyCloses
  <2>3. \A m \in Tids : loop'[m].create = loop[m].create /\ loop'[m].fn = loop[m].fn
    BY <1>1, <1>3 DEF CommandDone, LoopType
  <2> QED BY <2>1, <2>2, <2>3, SucceededFrame DEF Success
<1>4. CASE CreateLine(l)
  <2>1. succeeded' = succeeded /\ \A m \in Loops : m # l => loop'[m] = loop[m]
    BY <1>1, <1>4 DEF CreateLine
  <2>2. loop'[l].create = loop[l].create /\ loop'[l].fn = loop[l].fn
    BY <1>1, <1>4 DEF CreateLine, LoopType
  <2>3. loop[l].create = l /\ l \in Tids /\ result' = [result EXCEPT ![l] = Sent(@, "line")]
    BY <1>1, <1>4 DEF CreateLine
  <2>4. Sent(result[l], "line").closed = result[l].closed
    BY <1>1, <2>3 DEF Sent, ChannelType
  <2>5. \A u \in Tids : result'[u].closed = result[u].closed
    BY <1>1, <2>3, <2>4
  <2> QED BY <1>1, <2>1, <2>2, <2>5, SucceededFrame
<1>7. CASE LoopCreateResult(l) \/ LoopClosed(l)
  <2>1. UNCHANGED <<succeeded, result>> /\ \A m \in Loops : m # l => loop'[m] = loop[m]
    BY <1>1, <1>7 DEF LoopCreateResult, LoopClosed, traffic
  <2>2. loop'[l].create = loop[l].create /\ loop'[l].fn = loop[l].fn
    BY <1>1, <1>7 DEF LoopCreateResult, LoopClosed, LoopType
  <2> QED BY <1>1, <2>1, <2>2, SucceededFrame
<1>5. ASSUME NEW v \in Final, CreateDone(l, v) PROVE SucceededInv'
  <2>1. /\ loop[l].fn = "running" /\ loop[l].create = l /\ succeeded' = Success(l, v)
        /\ result' = result /\ \A m \in Tids : m # l => loop'[m] = loop[m]
    BY <1>1, <1>5 DEF CreateDone
  <2>2. loop'[l].fn = v /\ loop'[l].create = l
    BY <1>1, <1>5, <2>1 DEF CreateDone, LoopType
  <2> QED BY <2>1, <2>2, SucceededFrame DEF Success
<1>6. CASE LoopReturn(l)
  <2>1. loop[l].create = l /\ l \in Tids /\ succeeded' = succeeded
        /\ result' = [result EXCEPT ![l] = Reply(@, loop[l].fn)]
        /\ \A m \in Tids : m # l => loop'[m] = loop[m]
    BY <1>1, <1>6 DEF LoopReturn, TypeInv, LoopsHeld, Final
  <2>2. \A u \in Tids : result'[u].closed <=> u = l \/ result[u].closed
    BY <2>1, ReplyCloses
  <2> QED BY <2>1, <2>2, SucceededFrame
<1> QED BY <1>2, <1>3, <1>4, <1>5, <1>6, <1>7

LEMMA NextSucceeded == ASSUME PromiseInv, [Next]_vars PROVE SucceededInv'
<1>1. TypeInv /\ CoreInv /\ LoopState /\ FreshInv /\ SucceededInv
  BY DEF PromiseInv, TransactionInv
<1>2. CASE Quiet
  <2>1. /\ succeeded' = succeeded /\ \A u \in Tids : result'[u].closed = result[u].closed
        /\ \A l \in Tids : loop'[l].create = loop[l].create /\ loop'[l].fn = loop[l].fn
    BY <1>1, <1>2, QuietEffect, ZeroTid
  <2> QED BY <1>1, <2>1, SucceededFrame
<1>3. ASSUME NEW c \in Clients, SvcComplete(c) PROVE SucceededInv'
  BY <1>1, <1>3 DEF SvcComplete, traffic, SucceededInv
<1> QED BY <1>1, <1>2, <1>3, StartSucceeded, LoopSucceeded DEF Next, Quiet, ClientMoves, ShutdownMoves

\* Nothing happens to the loop a creation is being sent to.
LEMMA NextFresh == ASSUME PromiseInv, [Next]_vars PROVE FreshInv'
<1>1. TypeInv /\ CoreInv /\ LoopState /\ FreshInv
  BY DEF PromiseInv, TransactionInv
<1>2. CASE Quiet
  BY <1>1, <1>2, QuietEffect DEF FreshInv
<1>3. ASSUME NEW c \in Clients, SvcComplete(c) PROVE FreshInv'
  BY <1>3 DEF SvcComplete, FreshInv
<1>4. ASSUME NEW c \in Clients, SvcStart(c) PROVE FreshInv'
  <2>1. svcPc = "select" /\ loop \in [Loops -> LoopType] /\ op \in [Tids -> Ops \cup {None}]
    BY <1>1, <1>4 DEF SvcStart, TypeInv, TypeOK, TrafficType
  <2>2. counter \in Tids /\ counter \in Loops /\ op'[counter] = cli[c].req.op
    BY <1>1, <1>4, <2>1, StartEffect, ZeroTid
  <2>3. CASE svcPc' # "sending"
    BY <2>3 DEF FreshInv
  <2>4. CASE svcPc' = "sending"
    <3>1. /\ cur' = counter
          /\ \/ \E n, ip : loop' = [loop EXCEPT ![counter] = NewLoop(n, ip)]
             \/ cli[c].req.op \in InstOps
      BY <1>1, <1>4, <2>1, <2>4, StartEffect DEF service
    <3>2. \A n, ip : LET k == NewLoop(n, ip) IN
            k.pc = "select" /\ k.create = None /\ ~k.deleted /\ ~k.chClosed
      BY DEF NewLoop, LoopAt
    <3> QED BY <2>1, <2>2, <3>1, <3>2 DEF FreshInv, InstOps
  <2> QED BY <2>3, <2>4
<1>5. ASSUME NEW l \in Loops, LoopReceive(l) PROVE FreshInv'
  BY <1>5 DEF LoopReceive, FreshInv
<1>6. ASSUME NEW l \in Loops,
             \/ CreateLine(l) \/ LoopCreateResult(l) \/ LoopReturn(l) \/ LoopClosed(l)
             \/ \E v \in Final : CommandDone(l, v) \/ CreateDone(l, v)
      PROVE  FreshInv'
  <2>1. /\ UNCHANGED <<service, op>> /\ loop \in [Loops -> LoopType] /\ None \notin Tids
        /\ svcPc = "sending" => cur \in Loops
        /\ \A m \in Loops : m # l => loop'[m] = loop[m]
    BY <1>1, <1>6, ZeroTid, SpecialAssumption
       DEF TypeInv, TypeOK, ServiceHeld, SpecialAssumption, CreateLine, LoopCreateResult, LoopReturn,
           LoopClosed, CommandDone, CreateDone, traffic
  <2>2. ~(loop[l].pc = "select" /\ loop[l].create = None /\ ~loop[l].chClosed)
    <3>1. loop[l].fn # "none" => loop[l].create \in Tids
      BY <1>1 DEF TypeInv, LoopsHeld
    <3> QED BY <1>6, <2>1, <3>1
        DEF CreateLine, LoopCreateResult, LoopReturn, LoopClosed, CommandDone, CreateDone, Final
  <2> QED BY <1>1, <2>1, <2>2 DEF FreshInv, service
<1> QED BY <1>2, <1>3, <1>4, <1>5, <1>6 DEF Next, Quiet, ClientMoves, ShutdownMoves

LEMMA NextCreator == ASSUME PromiseInv, [Next]_vars PROVE CreatorInv'
<1>1. /\ TypeInv /\ CoreInv /\ CreatorInv /\ loop \in [Loops -> LoopType]
      /\ \A l \in Loops : GoodLoop(loop[l], l, succeeded)
  BY DEF PromiseInv, TransactionInv, TypeInv, TypeOK, LoopState
<1>2. ASSUME UNCHANGED op, \A l \in Loops : loop'[l].create = loop[l].create PROVE CreatorInv'
  BY <1>1, <1>2 DEF CreatorInv
<1>3. CASE Quiet
  BY <1>1, <1>2, <1>3, QuietEffect
<1>4. ASSUME NEW c \in Clients, SvcComplete(c) PROVE CreatorInv'
  BY <1>2, <1>4 DEF SvcComplete, traffic
<1>5. ASSUME NEW c \in Clients, SvcStart(c) PROVE CreatorInv'
  <2>1. /\ counter \in Tids /\ counter \in Loops /\ counter >= counter
        /\ op' = [op EXCEPT ![counter] = cli[c].req.op]
        /\ UNCHANGED loop \/ \E n, ip : loop' = [loop EXCEPT ![counter] = NewLoop(n, ip)]
    <3>1. counter \in Tids
      BY <1>1, <1>5, StartEffect
    <3> QED BY <1>1, <1>5, <3>1, StartEffect, ZeroTid DEF Tids
  <2>2. loop[counter].create = None
    BY <1>1, <2>1 DEF CoreInv, FutureInv, FutureUnused, GoodLoop
  <2>3. loop'[counter].create = None /\ \A l \in Loops : l # counter => loop'[l] = loop[l]
    <3>1. \A n, ip : NewLoop(n, ip).create = None
      BY DEF NewLoop, LoopAt
    <3> QED BY <1>1, <2>1, <2>2, <3>1
  <2>4. \A l \in Loops : l # counter => op'[l] = op[l]
    BY <2>1
  <2> QED BY <1>1, <2>3, <2>4 DEF CreatorInv
<1>6. ASSUME NEW l \in Loops, LoopReceive(l) PROVE CreatorInv'
  <2>1. UNCHANGED op /\ svcPc = "sending" /\ dest = l /\ (op[cur] = "create" => cur = l)
    BY <1>1, <1>6 DEF LoopReceive, CoreInv, SendInv
  <2>2. CASE op[cur] = "create"
    <3>1. \A m \in Loops : m # l => loop'[m] = loop[m]
      BY <1>1, <1>6 DEF LoopReceive
    <3> QED BY <1>1, <2>1, <2>2, <3>1 DEF CreatorInv
  <2>3. CASE op[cur] # "create"
    <3>1. UNCHANGED loop \/ loop' = [loop EXCEPT ![l].pc = "running", ![l].cmd = cur]
      BY <1>6, <2>3 DEF LoopReceive
    <3>2. \A m \in Loops : loop'[m].create = loop[m].create
      BY <1>1, <3>1 DEF LoopType
    <3> QED BY <1>2, <2>1, <3>2
  <2> QED BY <2>2, <2>3
<1>7. ASSUME NEW l \in Loops,
             \/ CreateLine(l) \/ LoopCreateResult(l) \/ LoopReturn(l) \/ LoopClosed(l)
             \/ \E v \in Final : CommandDone(l, v) \/ CreateDone(l, v)
      PROVE  CreatorInv'
  <2>1. UNCHANGED op /\ \A m \in Loops : m # l => loop'[m] = loop[m]
    BY <1>1, <1>7
       DEF CreateLine, LoopCreateResult, LoopReturn, LoopClosed, CommandDone, CreateDone, traffic
  <2>2. CASE CreateLine(l) \/ LoopCreateResult(l) \/ LoopClosed(l)
    <3>1. loop'[l].create = loop[l].create
      BY <1>1, <2>2 DEF CreateLine, LoopCreateResult, LoopClosed, LoopType
    <3> QED BY <1>2, <2>1, <3>1
  <2>3. CASE LoopReturn(l)
    <3>1. loop'[l].create = loop[l].create
      BY <1>1, <2>3 DEF LoopReturn, LoopType
    <3> QED BY <1>2, <2>1, <3>1
  <2>4. ASSUME NEW v \in Final, CommandDone(l, v) \/ CreateDone(l, v) PROVE CreatorInv'
    <3>1. loop'[l].create = loop[l].create
      BY <1>1, <2>4 DEF CommandDone, CreateDone, LoopType
    <3> QED BY <1>2, <2>1, <3>1
  <2> QED BY <1>7, <2>2, <2>3, <2>4
<1> QED BY <1>3, <1>4, <1>5, <1>6, <1>7 DEF Next, Quiet, ClientMoves, ShutdownMoves

LEMMA NextPromiseInv ==
  ASSUME [NoneMisled]_vars, PromiseInv, [Next]_vars PROVE PromiseInv'
<1>1. TransactionInv /\ TypeInv /\ CoreInv /\ LoopState
  BY DEF PromiseInv, TransactionInv
<1> QED BY <1>1, NextTransaction, NextLoopState, NextFresh, NextSucceeded, NextCreator DEF PromiseInv

-----------------------------------------------------------------------------
(***************************************************************************)
(* The mapping.  What the promise sees of a transaction u:                 *)
(***************************************************************************)

SameView(u) == /\ PhaseOf(u)' = PhaseOf(u) /\ KindOf(u)' = KindOf(u)
               /\ TargetOf(u)' = TargetOf(u) /\ AnswerOf(u)' = AnswerOf(u)

SameFacts(u) ==
  /\ u >= counter' <=> u >= counter
  /\ u \in transactions' <=> u \in transactions
  /\ result'[u].closed <=> result[u].closed
  /\ op'[u] = op[u]
  /\ result[u].closed => (u \in succeeded' <=> u \in succeeded)
  /\ \A l \in Loops : Serves(l, u)' <=> Serves(l, u)

SameInstance(l) == ExistsOf(l)' <=> ExistsOf(l)

Promised == Promise!ANext \/ UNCHANGED Promise!avars

LEMMA TargetIs ==
  ASSUME TypeInv, ServesInv, NEW t \in Tids
  PROVE  /\ \A l \in Loops : Serves(l, t) => TargetOf(t) = l
         /\ (\A l \in Loops : ~Serves(l, t)) => TargetOf(t) = None
<1>1. ASSUME NEW l \in Loops, Serves(l, t) PROVE TargetOf(t) = l
  <2> DEFINE m == CHOOSE m \in Loops : Serves(m, t)
  <2>1. m \in Loops /\ Serves(m, t)
    BY <1>1
  <2>2. TargetOf(t) = m
    BY <1>1 DEF TargetOf
  <2> HIDE DEF m
  <2> QED BY <1>1, <2>1, <2>2, ServedByOne
<1> QED BY <1>1 DEF TargetOf

LEMMA TargetWillBe ==
  ASSUME TypeInv', ServesInv', NEW t \in Tids
  PROVE  /\ \A l \in Loops : Serves(l, t)' => TargetOf(t)' = l
         /\ (\A l \in Loops : ~Serves(l, t)') => TargetOf(t)' = None
<1>1. ASSUME NEW l \in Loops, NEW m \in Loops, Serves(l, t)', Serves(m, t)' PROVE l = m
  <2>1. /\ t # None
        /\ loop'[l].cmd = t => op'[t] # "create"
        /\ loop'[m].cmd = t => op'[t] # "create"
    BY ZeroTid, SpecialAssumption DEF ServesInv, SpecialAssumption
  <2> QED BY <1>1, <2>1 DEF ServesInv, Serves
<1>2. ASSUME NEW l \in Loops, Serves(l, t)' PROVE TargetOf(t)' = l
  <2>1. \E m \in Loops : TargetOf(t)' = m /\ Serves(m, t)'
    BY <1>2 DEF TargetOf, Serves
  <2> QED BY <1>1, <1>2, <2>1
<1> QED BY <1>2 DEF TargetOf

LEMMA ViewStays ==
  ASSUME PromiseInv, PromiseInv', NEW u \in Tids, SameFacts(u)
  PROVE  SameView(u)
<1>1. TypeInv /\ ServesInv /\ TypeInv' /\ ServesInv'
  BY DEF PromiseInv, TransactionInv, CoreInv
<1>2. TargetOf(u)' = TargetOf(u)
  <2>1. CASE \A l \in Loops : ~Serves(l, u)
    BY <1>1, <2>1, TargetIs, TargetWillBe DEF SameFacts
  <2>2. ASSUME NEW l \in Loops, Serves(l, u) PROVE TargetOf(u)' = TargetOf(u)
    BY <1>1, <2>2, TargetIs, TargetWillBe DEF SameFacts
  <2> QED BY <2>1, <2>2
<1>3. PhaseOf(u)' = PhaseOf(u)
  BY DEF SameFacts, PhaseOf
<1>4. KindOf(u)' = KindOf(u) /\ AnswerOf(u)' = AnswerOf(u)
  BY DEF SameFacts, KindOf, AnswerOf
<1> QED BY <1>2, <1>3, <1>4 DEF SameView

LEMMA OneChanges ==
  ASSUME NEW t \in Tids, \A u \in Tids : u # t => SameView(u),
         NEW p, NEW k, NEW g, NEW a,
         PhaseOf(t)' = p, KindOf(t)' = k, TargetOf(t)' = g, AnswerOf(t)' = a
  PROVE  /\ PhaseNow' = [PhaseNow EXCEPT ![t] = p] /\ KindNow' = [KindNow EXCEPT ![t] = k]
         /\ TargetNow' = [TargetNow EXCEPT ![t] = g] /\ AnswerNow' = [AnswerNow EXCEPT ![t] = a]
<1>1. \A u \in Tids : PhaseOf(u)' = IF u = t THEN p ELSE PhaseOf(u)
  BY DEF SameView
<1>2. \A u \in Tids : KindOf(u)' = IF u = t THEN k ELSE KindOf(u)
  BY DEF SameView
<1>3. \A u \in Tids : TargetOf(u)' = IF u = t THEN g ELSE TargetOf(u)
  BY DEF SameView
<1>4. \A u \in Tids : AnswerOf(u)' = IF u = t THEN a ELSE AnswerOf(u)
  BY DEF SameView
<1>5. PhaseNow' = [PhaseNow EXCEPT ![t] = p]
  BY <1>1 DEF PhaseNow
<1>6. KindNow' = [KindNow EXCEPT ![t] = k]
  BY <1>2 DEF KindNow
<1>7. TargetNow' = [TargetNow EXCEPT ![t] = g]
  BY <1>3 DEF TargetNow
<1>8. AnswerNow' = [AnswerNow EXCEPT ![t] = a]
  BY <1>4 DEF AnswerNow
<1> QED BY <1>5, <1>6, <1>7, <1>8

LEMMA NoneChanges ==
  ASSUME \A u \in Tids : SameView(u), \A l \in Loops : SameInstance(l)
  PROVE  Promised
<1>1. PhaseNow' = PhaseNow /\ KindNow' = KindNow /\ TargetNow' = TargetNow /\ AnswerNow' = AnswerNow
  BY DEF SameView, PhaseNow, KindNow, TargetNow, AnswerNow
<1>2. Existing' = Existing
  BY DEF SameInstance, Existing
<1> QED BY <1>1, <1>2 DEF Promised, Promise!avars

\* A transaction in the table.
LEMMA InTable ==
  ASSUME PromiseInv, NEW t \in transactions
  PROVE  /\ t \in Tids /\ t < counter /\ ~(t >= counter)
         /\ PhaseOf(t) = IF result[t].closed THEN "answered"
                         ELSE IF \E l \in Loops : Serves(l, t) THEN "running" ELSE "accepted"
         /\ ~result[t].closed /\ (\A l \in Loops : ~Serves(l, t)) => t \notin succeeded
         /\ ~result[t].closed => AnswerOf(t) = None
<1>1. TypeInv /\ CoreInv /\ SucceededInv
  BY DEF PromiseInv, TransactionInv
<1>2. t \in Tids /\ t \in Loops /\ t \in Int /\ counter \in Int /\ ~(t >= counter)
  BY <1>1, ZeroTid DEF TypeInv, TypeOK, TableType, CoreInv, FutureInv, Tids
<1>3. ~result[t].closed /\ t \in succeeded => Serves(t, t)
  BY <1>1 DEF SucceededInv, Serves
<1> QED BY <1>2, <1>3 DEF PhaseOf, AnswerOf

-----------------------------------------------------------------------------
\* Steps the promise does not see.

LEMMA QuietPromised == ASSUME PromiseInv, PromiseInv', Quiet PROVE Promised
<1>1. /\ UNCHANGED <<transactions, counter, op, succeeded>>
      /\ \A u \in Tids : result'[u].closed = result[u].closed
      /\ \A l \in Loops : /\ loop'[l].cmd = loop[l].cmd /\ loop'[l].create = loop[l].create
                          /\ loop'[l].pc = loop[l].pc /\ loop'[l].fn = loop[l].fn
                          /\ loop'[l].deleted = loop[l].deleted
  BY QuietEffect DEF PromiseInv, TransactionInv
<1>2. \A u \in Tids : SameFacts(u)
  BY <1>1 DEF SameFacts, Serves
<1>3. \A l \in Loops : SameInstance(l)
  BY <1>1 DEF SameInstance, ExistsOf, Live
<1> QED BY <1>2, <1>3, ViewStays, NoneChanges

\* What a loop does before and after it serves a command, and while it does.
LEMMA LoopQuietPromised ==
  ASSUME PromiseInv, PromiseInv', NEW l \in Loops,
         \/ CreateLine(l) \/ LoopCreateResult(l) \/ LoopClosed(l)
         \/ \E v \in Final : CreateDone(l, v)
  PROVE  Promised
<1>1. /\ loop \in [Loops -> LoopType] /\ loop[l] \in LoopType /\ result \in [Tids -> ChannelType]
      /\ loop[l].fn # "none" => loop[l].create = l /\ l \in Tids /\ ~result[l].closed
      /\ None \notin Tids
      /\ \A m \in Loops : GoodLoop(loop[m], m, succeeded)
  <2>1. loop[l].fn # "none" => loop[l].create = l /\ l \in Tids
    BY DEF PromiseInv, TransactionInv, TypeInv, LoopsHeld, CoreInv, ServesInv
  <2>2. loop[l].fn # "none" => ~result[l].closed
    BY <2>1 DEF PromiseInv, TransactionInv, CoreInv, ServesInv, Serves
  <2> QED BY <2>1, <2>2, ZeroTid, SpecialAssumption
          DEF PromiseInv, TransactionInv, TypeInv, TypeOK, TrafficType, LoopState, SpecialAssumption
<1>2. /\ UNCHANGED <<transactions, counter, op>>
      /\ \A m \in Loops : m # l => loop'[m] = loop[m]
  BY <1>1 DEF CreateLine, LoopCreateResult, LoopClosed, CreateDone, table, traffic
<1>3. /\ loop'[l].cmd = loop[l].cmd /\ loop'[l].create = loop[l].create
      /\ loop'[l].deleted = loop[l].deleted
      /\ loop'[l].fn # "none" <=> loop[l].fn # "none"
      /\ loop[l].pc # "unused" /\ loop'[l].pc # "unused" /\ loop[l].pc # "exited"
      /\ loop'[l].pc = "exited" => loop[l].fn = "none" /\ UNCHANGED succeeded
  <2>1. CASE CreateLine(l)
    BY <1>1, <2>1 DEF CreateLine, LoopType, GoodLoop
  <2>2. CASE LoopCreateResult(l)
    BY <1>1, <2>2 DEF LoopCreateResult, LoopType, Final
  <2>3. CASE LoopClosed(l)
    BY <1>1, <2>3 DEF LoopClosed, LoopType, traffic
  <2>4. ASSUME NEW v \in Final, CreateDone(l, v)
        PROVE  /\ loop'[l].cmd = loop[l].cmd /\ loop'[l].create = loop[l].create
               /\ loop'[l].deleted = loop[l].deleted /\ loop'[l].pc = loop[l].pc
               /\ loop'[l].fn # "none" /\ loop[l].fn # "none"
    BY <1>1, <2>4 DEF CreateDone, LoopType, Final
  <2>5. ASSUME \E v \in Final : CreateDone(l, v)
        PROVE  /\ loop'[l].cmd = loop[l].cmd /\ loop'[l].create = loop[l].create
               /\ loop'[l].deleted = loop[l].deleted /\ loop'[l].pc = loop[l].pc
               /\ loop'[l].fn # "none" /\ loop[l].fn # "none"
               /\ loop[l].pc \notin {"unused", "exited"}
    <3>1. /\ loop'[l].cmd = loop[l].cmd /\ loop'[l].create = loop[l].create
          /\ loop'[l].deleted = loop[l].deleted /\ loop'[l].pc = loop[l].pc
          /\ loop'[l].fn # "none" /\ loop[l].fn # "none"
      BY <2>4, <2>5
    <3> QED BY <1>1, <3>1 DEF GoodLoop
  <2> QED BY <2>1, <2>2, <2>3, <2>5
<1>4. \A u \in Tids : result'[u].closed <=> result[u].closed
  <2>1. CASE CreateLine(l)
    <3>1. loop[l].create = l /\ l \in Tids /\ result' = [result EXCEPT ![l] = Sent(@, "line")]
      BY <1>1, <2>1 DEF CreateLine
    <3>2. Sent(result[l], "line").closed = result[l].closed
      BY <1>1, <3>1 DEF Sent, ChannelType
    <3> QED BY <1>1, <3>1, <3>2
  <2>2. CASE ~CreateLine(l)
    BY <2>2 DEF LoopCreateResult, LoopClosed, CreateDone, traffic
  <2> QED BY <2>1, <2>2
<1>5. \/ UNCHANGED succeeded
      \/ succeeded' = succeeded \cup {l} /\ loop[l].fn # "none"
  BY <1>1 DEF CreateLine, LoopCreateResult, LoopClosed, CreateDone, traffic, Success
<1>6. \A u \in Tids : SameFacts(u)
  <2>1. \A u \in Tids, m \in Loops : Serves(m, u)' <=> Serves(m, u)
    BY <1>2, <1>3 DEF Serves
  <2>2. \A u \in Tids : result[u].closed => (u \in succeeded' <=> u \in succeeded)
    BY <1>1, <1>5
  <2> QED BY <1>2, <1>4, <2>1, <2>2 DEF SameFacts
<1>7. SameInstance(l)
  <2>1. CASE loop'[l].pc = "exited"
    <3>1. loop[l].create # None /\ ~loop[l].deleted => loop[l].create \in succeeded
      BY <1>1, <1>3, <2>1 DEF GoodLoop
    <3> QED BY <1>3, <2>1, <3>1 DEF SameInstance, ExistsOf, Live
  <2>2. CASE loop'[l].pc # "exited"
    BY <1>3, <2>2 DEF SameInstance, ExistsOf, Live
  <2> QED BY <2>1, <2>2
<1>8. ASSUME NEW m \in Loops, m # l PROVE SameInstance(m)
  <2>1. loop'[m] = loop[m] /\ loop[m].create \in {None, m}
    BY <1>1, <1>2, <1>8 DEF GoodLoop
  <2>2. loop[m].create # None => (loop[m].create \in succeeded' <=> loop[m].create \in succeeded)
    BY <1>5, <1>8, <2>1
  <2> QED BY <2>1, <2>2 DEF SameInstance, ExistsOf, Live
<1> QED BY <1>6, <1>7, <1>8, ViewStays, NoneChanges

-----------------------------------------------------------------------------
\* Steps of the promise.

\* A handler completes a transaction.
LEMMA CompletePromised ==
  ASSUME PromiseInv, PromiseInv', NEW c \in Clients, SvcComplete(c)
  PROVE  Promised
<1> DEFINE t == cli[c].tid
<1>1. t \in transactions /\ result[t].closed /\ t \in Tids
  <2>1. TypeInv /\ CoreInv /\ ClientInv
    BY DEF PromiseInv, TransactionInv
  <2> QED BY <2>1, CompleteCore DEF SvcComplete, ClientInv, Active, OwnsTransaction, TypeInv, TypeOK, TableType
<1>2. /\ transactions' = transactions \ {t} /\ UNCHANGED <<counter, traffic, loop>>
  BY <1>1 DEF SvcComplete
<1> HIDE DEF t
<1>3. PICK u \in Tids : u = t
  BY <1>1
<1>4. \A w \in Tids : w # u => SameView(w)
  <2>1. \A w \in Tids : w # u => SameFacts(w)
    BY <1>2, <1>3 DEF SameFacts, Serves, traffic
  <2> QED BY <2>1, ViewStays
<1>5. PhaseOf(u) = "answered" /\ PhaseOf(u)' = "retired"
  BY <1>1, <1>2, <1>3, InTable DEF PhaseOf
<1>6. KindOf(u)' = KindOf(u) /\ AnswerOf(u)' = AnswerOf(u)
  BY <1>2 DEF KindOf, AnswerOf, traffic
<1>7. TargetOf(u)' = TargetOf(u)
  BY <1>2 DEF TargetOf, Serves
<1>8. /\ PhaseNow' = [PhaseNow EXCEPT ![u] = "retired"]
      /\ KindNow' = [KindNow EXCEPT ![u] = KindOf(u)]
      /\ TargetNow' = [TargetNow EXCEPT ![u] = TargetOf(u)]
      /\ AnswerNow' = [AnswerNow EXCEPT ![u] = AnswerOf(u)]
  BY <1>4, <1>5, <1>6, <1>7, OneChanges
<1>9. Existing' = Existing
  BY <1>2 DEF Existing, ExistsOf, Live, traffic
<1>10. /\ PhaseNow' = [PhaseNow EXCEPT ![u] = "retired"] /\ PhaseNow[u] = "answered"
       /\ UNCHANGED <<KindNow, TargetNow, AnswerNow>>
  BY <1>5, <1>8 DEF PhaseNow, KindNow, TargetNow, AnswerNow
<1> QED BY <1>9, <1>10 DEF Promised, Promise!ANext, Promise!Retire

\* The command of t, which loop l serves, is answered with v.
LEMMA EndPromised ==
  ASSUME PromiseInv, PromiseInv', NEW l \in Loops, NEW t \in Tids, NEW v \in Final, Serves(l, t),
         result' = [result EXCEPT ![t] = Reply(@, v)], UNCHANGED <<transactions, counter, op>>,
         \A m \in Loops : m # l => loop'[m] = loop[m],
         \A u \in Tids : u # t => /\ Serves(l, u)' <=> Serves(l, u)
                                  /\ u \in succeeded' <=> u \in succeeded,
         t \in succeeded' <=> v = "ok",
         ExistsOf(l),
         ExistsOf(l)' <=> <<op[t], v>> \notin {<<"create", "err">>, <<"delete", "ok">>}
  PROVE  Promised
<1>1. /\ TypeInv /\ ServesInv /\ TypeInv' /\ ServesInv'
      /\ \A m \in Loops : GoodLoop(loop[m], m, succeeded)
      /\ CreatorInv
  BY DEF PromiseInv, TransactionInv, CoreInv, LoopState
<1>2. t \in transactions /\ ~result[t].closed
  BY <1>1 DEF ServesInv
<1>3. \A u \in Tids : result'[u].closed <=> u = t \/ result[u].closed
  BY <1>1, ReplyCloses
<1>4. \A u \in Tids : u # t => SameView(u)
  <2>1. \A m \in Loops, u \in Tids : u # t => (Serves(m, u)' <=> Serves(m, u))
    BY DEF Serves
  <2>2. \A u \in Tids : u # t => SameFacts(u)
    BY <1>3, <2>1 DEF SameFacts
  <2> QED BY <2>2, ViewStays
<1>5. PhaseOf(t) = "running" /\ TargetOf(t) = l
  BY <1>1, <1>2, InTable, TargetIs
<1>6. PhaseOf(t)' = "answered" /\ AnswerOf(t)' = v /\ KindOf(t)' = KindOf(t)
  <2>1. ~(t >= counter')
    BY <1>2, InTable
  <2>2. PhaseOf(t)' = "answered"
    BY <1>2, <1>3, <2>1 DEF PhaseOf
  <2> QED BY <1>3, <2>2 DEF AnswerOf, KindOf, Final
<1>7. TargetOf(t)' = None
  <2>1. \A m \in Loops : ~Serves(m, t)'
    BY <1>1, <1>3 DEF ServesInv
  <2> QED BY <1>1, <2>1, TargetWillBe
<1>8. /\ PhaseNow' = [PhaseNow EXCEPT ![t] = "answered"]
      /\ KindNow' = [KindNow EXCEPT ![t] = KindOf(t)]
      /\ TargetNow' = [TargetNow EXCEPT ![t] = None]
      /\ AnswerNow' = [AnswerNow EXCEPT ![t] = v]
  BY <1>4, <1>6, <1>7, OneChanges
<1>9. ASSUME NEW m \in Loops, m # l PROVE SameInstance(m)
  <2>1. CASE loop[m].create = t /\ loop[m].pc = "exited" /\ loop[m].create # None
    \* No loop has been asked to create what l serves, but l.
    <3>1. m = t /\ op[t] = "create"
      BY <1>1, <2>1 DEF GoodLoop, CreatorInv
    <3>2. t # None
      BY ZeroTid, SpecialAssumption DEF SpecialAssumption
    <3>3. l = t
      BY <1>1, <3>1, <3>2 DEF ServesInv, Serves
    <3> QED BY <1>9, <3>1, <3>3
  <2>2. CASE ~(loop[m].create = t /\ loop[m].pc = "exited" /\ loop[m].create # None)
    <3>1. loop[m].create # None => loop[m].create \in Tids
      BY <1>1 DEF TypeInv, TypeOK, LoopType
    <3> QED BY <1>9, <2>2, <3>1 DEF SameInstance, ExistsOf, Live
  <2> QED BY <2>1, <2>2
<1>10. Existing' = IF <<KindOf(t), v>> \in {<<"create", "err">>, <<"delete", "ok">>}
                   THEN Existing \ {l} ELSE Existing
  <2>1. /\ KindOf(t) = "create" <=> op[t] = "create"
        /\ KindOf(t) = "delete" <=> op[t] = "delete"
    BY DEF KindOf
  <2>2. <<KindOf(t), v>> \in {<<"create", "err">>, <<"delete", "ok">>} <=> ~ExistsOf(l)'
    BY <2>1
  <2>3. \A m \in Loops : ExistsOf(m)' <=> ExistsOf(m) /\ (m = l => ExistsOf(l)')
    BY <1>9 DEF SameInstance
  <2>4. CASE ExistsOf(l)'
    BY <2>2, <2>3, <2>4 DEF Existing
  <2>5. CASE ~ExistsOf(l)'
    BY <2>2, <2>3, <2>5 DEF Existing
  <2> QED BY <2>4, <2>5
<1>11. /\ PhaseNow[t] = "running" /\ KindNow[t] = KindOf(t) /\ TargetNow[t] = l /\ KindNow' = KindNow
  BY <1>5, <1>8 DEF PhaseNow, KindNow, TargetNow
<1>12. Promise!End(t, v)
  BY <1>8, <1>10, <1>11 DEF Promise!End
<1> QED BY <1>12 DEF Promised, Promise!ANext, Final

LEMMA CommandDonePromised ==
  ASSUME PromiseInv, PromiseInv', NEW l \in Loops, NEW v \in Final, CommandDone(l, v)
  PROVE  Promised
<1> DEFINE t == loop[l].cmd
           gone == op[t] = "delete" /\ v = "ok"
<1>1. /\ loop \in [Loops -> LoopType] /\ loop[l] \in LoopType /\ loop[l].pc = "running" /\ t \in Tids
      /\ t # None /\ op[t] # "create" /\ ~loop[l].deleted /\ loop[l].fn = "none"
      /\ SucceededInv /\ CoreInv
  <2>1. t \in Tids /\ loop[l].pc = "running"
    BY DEF CommandDone, PromiseInv, TransactionInv, TypeInv, LoopsHeld
  <2>2. t # None
    BY <2>1, ZeroTid, SpecialAssumption DEF SpecialAssumption
  <2> QED BY <2>1, <2>2
          DEF PromiseInv, TransactionInv, CoreInv, ServesInv, LoopState, GoodLoop, TypeInv, TypeOK
<1>2. /\ result' = [result EXCEPT ![t] = Reply(@, v)] /\ succeeded' = Success(t, v)
      /\ UNCHANGED <<transactions, counter, op>>
      /\ loop' = [loop EXCEPT ![l].pc = "select", ![l].cmd = None, ![l].deleted = gone]
      /\ \A m \in Loops : m # l => loop'[m] = loop[m]
  BY <1>1 DEF CommandDone, table
<1>3. /\ loop'[l].cmd = None /\ loop'[l].create = loop[l].create /\ loop'[l].fn = loop[l].fn
      /\ loop'[l].pc = "select" /\ loop'[l].deleted = gone
  BY <1>1, <1>2 DEF LoopType
<1> HIDE DEF gone
<1>4. Serves(l, t)
  BY DEF Serves
<1>5. t \notin succeeded
  <2>1. ~result[t].closed
    BY <1>1, <1>4 DEF CoreInv, ServesInv
  <2>2. ~(loop[t].create = t /\ loop[t].fn = "ok")
    BY <1>1, ZeroTid DEF CoreInv, ServesInv
  <2> QED BY <1>1, <2>1, <2>2 DEF SucceededInv
<1>6. \A u \in Tids : u # t => /\ Serves(l, u)' <=> Serves(l, u)
                               /\ u \in succeeded' <=> u \in succeeded
  <2>1. \A u \in Tids : u # None
    BY ZeroTid, SpecialAssumption DEF SpecialAssumption
  <2> QED BY <1>2, <1>3, <2>1 DEF Serves, Success
<1>7. t \in succeeded' <=> v = "ok"
  BY <1>2, <1>5 DEF Success
<1>8. ExistsOf(l) /\ (ExistsOf(l)' <=> ~gone)
  BY <1>1, <1>3 DEF ExistsOf, Live
<1>9. ExistsOf(l)' <=> <<op[t], v>> \notin {<<"create", "err">>, <<"delete", "ok">>}
  BY <1>1, <1>8 DEF gone
<1> HIDE DEF t
<1> QED BY <1>1, <1>2, <1>4, <1>6, <1>7, <1>8, <1>9, EndPromised

LEMMA LoopReturnPromised ==
  ASSUME PromiseInv, PromiseInv', NEW l \in Loops, LoopReturn(l)
  PROVE  Promised
<1> DEFINE v == loop[l].fn
<1>1. /\ loop \in [Loops -> LoopType] /\ loop[l] \in LoopType /\ v \in Final /\ v # "none"
      /\ loop[l].pc \in {"returning", "lastReturn"}
      /\ loop[l].create = l /\ l \in Tids /\ op[l] = "create" /\ ~loop[l].deleted /\ l # None
      /\ SucceededInv /\ CoreInv
  <2>1. v \in Final /\ v # "none" /\ loop[l].pc \in {"returning", "lastReturn"}
    BY DEF LoopReturn, PromiseInv, TransactionInv, TypeInv, LoopsHeld, Final
  <2>2. loop[l].create = l /\ l \in Tids /\ op[l] = "create" /\ ~loop[l].deleted
    BY <2>1 DEF PromiseInv, TransactionInv, CoreInv, ServesInv, TypeInv, LoopsHeld, LoopState, GoodLoop
  <2> QED BY <2>1, <2>2, ZeroTid, SpecialAssumption
          DEF PromiseInv, TransactionInv, TypeInv, TypeOK, SpecialAssumption
<1>2. /\ result' = [result EXCEPT ![l] = Reply(@, v)]
      /\ UNCHANGED <<transactions, counter, op, succeeded>>
      /\ \A m \in Loops : m # l => loop'[m] = loop[m]
  BY <1>1 DEF LoopReturn, table
<1>3. /\ loop'[l].cmd = loop[l].cmd /\ loop'[l].create = l /\ loop'[l].fn = "none"
      /\ \/ loop'[l].pc = "select" /\ loop'[l].deleted = (v = "err")
         \/ loop'[l].pc = "exited" /\ ~loop'[l].deleted
  BY <1>1 DEF LoopReturn, LoopType
<1>4. Serves(l, l) /\ ~result[l].closed
  BY <1>1 DEF Serves, CoreInv, ServesInv
<1>5. l \in succeeded <=> v = "ok"
  BY <1>1, <1>4 DEF SucceededInv, CoreInv, ServesInv
<1>6. \A u \in Tids : u # l => (Serves(l, u)' <=> Serves(l, u))
  BY <1>1, <1>3 DEF Serves
<1>7. ExistsOf(l)
  BY <1>1 DEF ExistsOf, Live
<1>8. ExistsOf(l)' <=> v = "ok"
  BY <1>1, <1>2, <1>3, <1>5 DEF ExistsOf, Live, Final
<1>9. ExistsOf(l)' <=> <<op[l], v>> \notin {<<"create", "err">>, <<"delete", "ok">>}
  BY <1>1, <1>8 DEF Final
<1> HIDE DEF v
<1> QED BY <1>1, <1>2, <1>4, <1>5, <1>6, <1>7, <1>9, EndPromised

LEMMA ReceivePromised ==
  ASSUME PromiseInv, PromiseInv', NEW l \in Loops, LoopReceive(l)
  PROVE  Promised
<1>1. /\ TypeInv /\ CoreInv /\ ServesInv /\ TypeInv' /\ ServesInv'
      /\ loop \in [Loops -> LoopType] /\ loop[l] \in LoopType /\ GoodLoop(loop[l], l, succeeded)
      /\ None \notin Loops /\ \A t \in Tids : t # None
  BY ZeroTid, SpecialAssumption
     DEF PromiseInv, TransactionInv, CoreInv, TypeInv, TypeOK, LoopState, SpecialAssumption
<1>2. /\ svcPc = "sending" /\ dest = l /\ loop[l].pc = "select"
      /\ UNCHANGED <<transactions, counter, op, succeeded>>
  BY DEF LoopReceive, table
<1>3. /\ cur \in Tids /\ cur \in transactions /\ ~result[cur].closed
      /\ \A m \in Loops : ~Serves(m, cur)
      /\ op[cur] = "create" => l = cur /\ loop[l].create = None /\ ~loop[l].deleted
  BY <1>1, <1>2 DEF CoreInv, SendInv, TypeInv, ServiceHeld, PromiseInv, FreshInv
<1>4. PICK t \in Tids : t = cur
  BY <1>3
<1>5. /\ PhaseOf(t) = "accepted" /\ AnswerOf(t) = None /\ TargetOf(t) = None /\ t \notin succeeded
      /\ ~(t >= counter)
  BY <1>1, <1>3, <1>4, InTable, TargetIs
<1>6. CASE result' = [result EXCEPT ![t] = Reply(@, "err")] /\ Refuses(l, t) /\ UNCHANGED loop
  <2>1. \A u \in Tids : result'[u].closed <=> u = t \/ result[u].closed
    BY <1>1, <1>6, ReplyCloses
  <2>2. \A u \in Tids, m \in Loops : Serves(m, u)' <=> Serves(m, u)
    BY <1>6 DEF Serves
  <2>3. \A u \in Tids : u # t => SameView(u)
    <3>1. \A u \in Tids : u # t => SameFacts(u)
      BY <1>2, <2>1, <2>2 DEF SameFacts
    <3> QED BY <3>1, ViewStays
  <2>4. /\ PhaseOf(t)' = "answered" /\ AnswerOf(t)' = "err" /\ KindOf(t)' = KindOf(t)
    BY <1>2, <1>3, <1>4, <1>5, <2>1 DEF PhaseOf, AnswerOf, KindOf
  <2>5. TargetOf(t)' = None
    BY <1>1, <1>3, <1>4, <2>2, TargetWillBe
  <2>6. /\ PhaseNow' = [PhaseNow EXCEPT ![t] = "answered"]
        /\ KindNow' = [KindNow EXCEPT ![t] = KindOf(t)]
        /\ TargetNow' = [TargetNow EXCEPT ![t] = None]
        /\ AnswerNow' = [AnswerNow EXCEPT ![t] = "err"]
    BY <2>3, <2>4, <2>5, OneChanges
  <2>7. op[t] # "create"
    BY <1>3, <1>4, <1>6 DEF Refuses
  <2>8. KindNow[t] # "create" /\ PhaseNow[t] = "accepted" /\ KindNow' = KindNow /\ TargetNow' = TargetNow
    BY <1>5, <2>6, <2>7 DEF KindNow, TargetNow, PhaseNow, KindOf
  <2>9. Existing' = Existing
    BY <1>2, <1>6 DEF Existing, ExistsOf, Live
  <2> QED BY <2>6, <2>8, <2>9 DEF Promised, Promise!ANext, Promise!Refuse
<1>7. ASSUME ~Refuses(l, t), UNCHANGED result,
             \A m \in Loops : m # l => loop'[m] = loop[m],
             loop'[l].pc \in {"select", "running"}, loop'[l].deleted = loop[l].deleted,
             Serves(l, t)', \A u \in Tids : u # t => ~Serves(l, u)'
      PROVE  Promised
  <2>1. ~loop[l].deleted /\ loop[l].cmd = None /\ (loop[l].fn # "none" => loop[l].create \notin Tids)
    BY <1>1, <1>2, <1>3, <1>4, <1>7 DEF Refuses, GoodLoop
  <2>2. \A u \in Tids : ~Serves(l, u)
    BY <1>1, <2>1 DEF Serves
  <2>3. \A u \in Tids : u # t => SameView(u)
    <3>1. \A u \in Tids, m \in Loops : u # t => (Serves(m, u)' <=> Serves(m, u))
      BY <1>7, <2>2 DEF Serves
    <3>2. \A u \in Tids : u # t => SameFacts(u)
      BY <1>2, <1>7, <3>1 DEF SameFacts
    <3> QED BY <3>2, ViewStays
  <2>4. /\ PhaseOf(t)' = "running" /\ AnswerOf(t)' = None /\ KindOf(t)' = KindOf(t)
    BY <1>2, <1>3, <1>4, <1>5, <1>7 DEF PhaseOf, AnswerOf, KindOf
  <2>5. TargetOf(t)' = l
    BY <1>1, <1>7, TargetWillBe
  <2>6. /\ PhaseNow' = [PhaseNow EXCEPT ![t] = "running"]
        /\ KindNow' = [KindNow EXCEPT ![t] = KindOf(t)]
        /\ TargetNow' = [TargetNow EXCEPT ![t] = l]
        /\ AnswerNow' = [AnswerNow EXCEPT ![t] = None]
    BY <2>3, <2>4, <2>5, OneChanges
  <2>7. /\ PhaseNow[t] = "accepted" /\ KindNow' = KindNow /\ AnswerNow' = AnswerNow
        /\ KindNow[t] = "create" => l = t
    BY <1>3, <1>4, <1>5, <2>6 DEF KindNow, AnswerNow, PhaseNow, KindOf
  <2>8. \A u \in Tids : TargetNow[u] # l
    <3>1. ASSUME NEW u \in Tids PROVE TargetOf(u) # l
      <4>1. CASE \A m \in Loops : ~Serves(m, u)
        BY <1>1, <4>1, TargetIs
      <4>2. ASSUME NEW m \in Loops, Serves(m, u) PROVE TargetOf(u) # l
        BY <1>1, <2>2, <4>2, TargetIs
      <4> QED BY <4>1, <4>2
    <3> QED BY <3>1 DEF TargetNow
  <2>9. l \in Existing /\ Existing' = Existing
    <3>1. ExistsOf(l) /\ ExistsOf(l)'
      BY <1>2, <1>7, <2>1 DEF ExistsOf, Live
    <3>2. \A m \in Loops : ExistsOf(m)' <=> ExistsOf(m)
      <4>1. \A m \in Loops : m # l => (ExistsOf(m)' <=> ExistsOf(m))
        BY <1>2, <1>7 DEF ExistsOf, Live
      <4> QED BY <3>1, <4>1
    <3> QED BY <3>1, <3>2 DEF Existing
  <2>10. Promise!Begin(t, l)
    BY <2>6, <2>7, <2>8, <2>9 DEF Promise!Begin
  <2> QED BY <2>10 DEF Promised, Promise!ANext
<1>8. CASE ~Refuses(l, t) /\ op[t] = "create"
  <2>1. loop' = [loop EXCEPT ![l].create = t, ![l].fn = "running"] /\ UNCHANGED result
    BY <1>4, <1>8 DEF LoopReceive
  <2>2. /\ loop'[l].cmd = loop[l].cmd /\ loop'[l].create = t /\ loop'[l].fn = "running"
        /\ loop'[l].pc = "select" /\ loop'[l].deleted = loop[l].deleted
        /\ \A m \in Loops : m # l => loop'[m] = loop[m]
    BY <1>1, <1>2, <2>1 DEF LoopType
  <2>3. Serves(l, t)' /\ \A u \in Tids : u # t => ~Serves(l, u)'
    BY <1>1, <1>2, <2>2 DEF Serves, GoodLoop
  <2> QED BY <1>7, <1>8, <2>1, <2>2, <2>3
<1>9. CASE ~Refuses(l, t) /\ op[t] # "create"
  <2>1. loop' = [loop EXCEPT ![l].pc = "running", ![l].cmd = t] /\ UNCHANGED result
    BY <1>4, <1>9 DEF LoopReceive
  <2>2. /\ loop'[l].cmd = t /\ loop'[l].create = loop[l].create /\ loop'[l].fn = loop[l].fn
        /\ loop'[l].pc = "running" /\ loop'[l].deleted = loop[l].deleted
        /\ \A m \in Loops : m # l => loop'[m] = loop[m]
    BY <1>1, <1>2, <2>1 DEF LoopType
  <2>3. Serves(l, t)' /\ \A u \in Tids : u # t => ~Serves(l, u)'
    BY <1>9, <2>2 DEF Serves, Refuses
  <2> QED BY <1>7, <1>9, <2>1, <2>2, <2>3
<1>10. CASE Refuses(l, t)
  <2>1. result' = [result EXCEPT ![t] = Reply(@, "err")] /\ UNCHANGED loop
    BY <1>4, <1>10 DEF LoopReceive
  <2> QED BY <1>6, <1>10, <2>1
<1> QED BY <1>8, <1>9, <1>10

\* A transaction is entered, and scheduled or answered at once.
LEMMA StartPromised ==
  ASSUME PromiseInv, PromiseInv', NEW c \in Clients, SvcStart(c)
  PROVE  Promised
<1>1. /\ TypeInv /\ CoreInv /\ ServesInv /\ CoreInv' /\ TypeInv' /\ ServesInv'
      /\ loop \in [Loops -> LoopType] /\ op \in [Tids -> Ops \cup {None}]
      /\ \A m \in Loops : GoodLoop(loop[m], m, succeeded)
      /\ None \notin Loops /\ None \notin Ops /\ \A t \in Tids : t # None
  BY ZeroTid, SpecialAssumption
     DEF PromiseInv, TransactionInv, CoreInv, TypeInv, TypeOK, TrafficType, LoopState, SpecialAssumption
<1>2. /\ counter \in Tids /\ counter' = counter + 1 /\ transactions' = transactions \cup {counter}
      /\ op' = [op EXCEPT ![counter] = cli[c].req.op] /\ cli[c].req.op \in Ops
      /\ \/ \E v \in Final :
              /\ result' = [result EXCEPT ![counter] = Reply(@, v)]
              /\ succeeded' = Success(counter, v) /\ UNCHANGED <<service, loop>>
              /\ v = "ok" => cli[c].req.op = "list"
         \/ /\ svcPc' = "sending" /\ cur' = counter /\ UNCHANGED <<result, succeeded>>
            /\ \/ cli[c].req.op = "create" /\ \E n, ip : loop' = [loop EXCEPT ![counter] = NewLoop(n, ip)]
               \/ cli[c].req.op \in InstOps /\ UNCHANGED loop
  BY <1>1, StartEffect
<1>3. PICK t \in Tids, o \in Ops : t = counter /\ o = cli[c].req.op
  BY <1>2
<1>4. /\ result[t] = EmptyCh /\ ~result[t].closed /\ t \notin transactions /\ t \in Loops
      /\ loop[t].pc = "unused" /\ loop[t].cmd = None /\ loop[t].fn = "none" /\ t \in Int
  <2>1. t \in Loops /\ t >= counter /\ t \in Int
    BY <1>3, ZeroTid DEF Tids
  <2> QED BY <1>1, <2>1 DEF CoreInv, FutureInv, FutureUnused, EmptyCh, GoodLoop
<1>5. \A m \in Loops : ~Serves(m, t)
  BY <1>1, <1>4 DEF ServesInv
<1>6. PhaseOf(t) = "none" /\ TargetOf(t) = None /\ AnswerOf(t) = None /\ t \notin succeeded
  <2>1. PhaseOf(t) = "none"
    BY <1>3, <1>4 DEF PhaseOf
  <2>2. t \notin succeeded
    BY <1>4 DEF PromiseInv, SucceededInv
  <2> QED BY <1>1, <1>4, <1>5, <2>1, <2>2, TargetIs DEF AnswerOf
<1>7. \A u \in Tids : u # t => /\ u >= counter' <=> u >= counter
                               /\ u \in transactions' <=> u \in transactions
                               /\ op'[u] = op[u]
  BY <1>1, <1>2, <1>3, <1>4 DEF Tids
<1>8. /\ ~(t >= counter') /\ t \in transactions' /\ op'[t] = o
  BY <1>1, <1>2, <1>3, <1>4
<1>9. KindOf(t)' \in Promise!Kinds /\ (KindOf(t)' = "create" <=> o = "create")
      /\ (o = "list" => KindOf(t)' = "other")
  BY <1>1, <1>8 DEF KindOf, Promise!Kinds
<1>10. PICK k \in Promise!Kinds : k = KindOf(t)'
  BY <1>9
<1>11. ASSUME NEW v \in Final, result' = [result EXCEPT ![t] = Reply(@, v)],
              succeeded' = Success(t, v), UNCHANGED loop, v = "ok" => o = "list"
       PROVE  Promised
  <2>1. \A u \in Tids : result'[u].closed <=> u = t \/ result[u].closed
    BY <1>1, <1>11, ReplyCloses
  <2>2. \A u \in Tids, m \in Loops : Serves(m, u)' <=> Serves(m, u)
    BY <1>11 DEF Serves
  <2>3. \A u \in Tids : u # t => SameView(u)
    <3>1. \A u \in Tids : u # t => SameFacts(u)
      BY <1>7, <1>11, <2>1, <2>2 DEF SameFacts, Success
    <3> QED BY <3>1, ViewStays
  <2>4. PhaseOf(t)' = "answered" /\ AnswerOf(t)' = v
    <3>1. t \in succeeded' <=> v = "ok"
      BY <1>6, <1>11 DEF Success
    <3> QED BY <1>8, <2>1, <3>1 DEF PhaseOf, AnswerOf, Final
  <2>5. TargetOf(t)' = None
    BY <1>1, <1>5, <2>2, TargetWillBe
  <2>6. /\ PhaseNow' = [PhaseNow EXCEPT ![t] = "answered"]
        /\ KindNow' = [KindNow EXCEPT ![t] = k]
        /\ TargetNow' = [TargetNow EXCEPT ![t] = None]
        /\ AnswerNow' = [AnswerNow EXCEPT ![t] = v]
    BY <1>10, <2>3, <2>4, <2>5, OneChanges
  <2>7. PhaseNow[t] = "none" /\ TargetNow' = TargetNow /\ (v = "ok" => k = "other")
    BY <1>6, <1>9, <1>10, <1>11, <2>6 DEF PhaseNow, TargetNow
  <2>8. Existing' = Existing
    <3>1. \A m \in Loops : loop[m].create # None =>
            (loop[m].create \in succeeded' <=> loop[m].create \in succeeded)
      <4>1. \A m \in Loops : loop[m].create # None => m # t
        BY <1>1, <1>4 DEF GoodLoop
      <4> QED BY <1>1, <1>11, <4>1 DEF GoodLoop, Success
    <3> QED BY <1>11, <3>1 DEF Existing, ExistsOf, Live
  <2>9. Promise!AnswerOnArrival(t, k, v)
    BY <2>6, <2>7, <2>8 DEF Promise!AnswerOnArrival
  <2> QED BY <2>9 DEF Promised, Promise!ANext, Final
<1>12. ASSUME svcPc' = "sending", cur' = t, UNCHANGED <<result, succeeded>>,
              \/ o = "create" /\ \E n, ip : loop' = [loop EXCEPT ![t] = NewLoop(n, ip)]
              \/ o \in InstOps /\ UNCHANGED loop
       PROVE  Promised
  <2>1. \A m \in Loops : m # t => loop'[m] = loop[m]
    BY <1>1, <1>12
  <2>2. \/ /\ o = "create" /\ loop'[t].pc = "select" /\ ~loop'[t].deleted
           /\ loop'[t].cmd = None /\ loop'[t].fn = "none"
        \/ o # "create" /\ loop'[t] = loop[t]
    <3>1. \A n, ip : /\ NewLoop(n, ip).pc = "select" /\ ~NewLoop(n, ip).deleted
                     /\ NewLoop(n, ip).cmd = None /\ NewLoop(n, ip).fn = "none"
      BY DEF NewLoop, LoopAt
    <3> QED BY <1>1, <1>4, <1>12, <3>1 DEF InstOps
  <2>3. \A u \in Tids, m \in Loops : Serves(m, u)' <=> Serves(m, u)
    BY <1>1, <1>4, <2>1, <2>2 DEF Serves
  <2>4. \A u \in Tids : u # t => SameView(u)
    <3>1. \A u \in Tids : u # t => SameFacts(u)
      BY <1>7, <1>12, <2>3 DEF SameFacts
    <3> QED BY <3>1, ViewStays
  <2>5. PhaseOf(t)' = "accepted" /\ AnswerOf(t)' = None
    BY <1>4, <1>5, <1>8, <1>12, <2>3 DEF PhaseOf, AnswerOf
  <2>6. TargetOf(t)' = None
    BY <1>1, <1>5, <2>3, TargetWillBe
  <2>7. /\ PhaseNow' = [PhaseNow EXCEPT ![t] = "accepted"]
        /\ KindNow' = [KindNow EXCEPT ![t] = k]
        /\ TargetNow' = [TargetNow EXCEPT ![t] = None]
        /\ AnswerNow' = [AnswerNow EXCEPT ![t] = None]
    BY <1>10, <2>4, <2>5, <2>6, OneChanges
  <2>8. PhaseNow[t] = "none" /\ TargetNow' = TargetNow /\ AnswerNow' = AnswerNow
    BY <1>6, <2>7 DEF PhaseNow, TargetNow, AnswerNow
  <2>9. Existing' = IF k = "create" THEN Existing \cup {t} ELSE Existing
    <3>1. \A m \in Loops : m # t => (ExistsOf(m)' <=> ExistsOf(m))
      BY <1>12, <2>1 DEF ExistsOf, Live
    <3>2. ~ExistsOf(t) /\ (ExistsOf(t)' <=> o = "create")
      BY <1>4, <2>2 DEF ExistsOf, Live
    <3>3. k = "create" <=> o = "create"
      BY <1>9, <1>10
    <3> QED BY <1>4, <3>1, <3>2, <3>3 DEF Existing
  <2>10. Promise!Accept(t, k)
    BY <2>7, <2>8, <2>9 DEF Promise!Accept
  <2> QED BY <2>10 DEF Promised, Promise!ANext
<1> QED BY <1>2, <1>3, <1>11, <1>12

LEMMA NextPromised ==
  ASSUME PromiseInv, PromiseInv', [Next]_vars
  PROVE  [Promise!ANext]_(Promise!avars)
<1>1. Promised
  BY QuietPromised, LoopQuietPromised, CompletePromised, CommandDonePromised, LoopReturnPromised,
     ReceivePromised, StartPromised DEF Next, Quiet, ClientMoves, ShutdownMoves
<1> QED BY <1>1 DEF Promised

LEMMA InitPromised == Init => Promise!AInit
<1> SUFFICES ASSUME Init PROVE Promise!AInit
  OBVIOUS
<1>1. /\ TypeInv /\ CoreInv /\ ServesInv /\ LoopState /\ \A t \in Tids : t # None
  BY InitPromiseInv, ZeroTid, SpecialAssumption
     DEF PromiseInv, TransactionInv, CoreInv, SpecialAssumption
<1>2. /\ counter = 0 /\ transactions = {} /\ \A t \in Tids : result[t] = EmptyCh /\ op[t] = None
  BY DEF Init
<1>3. ASSUME NEW t \in Tids
      PROVE  /\ PhaseOf(t) = "none" /\ KindOf(t) = None /\ TargetOf(t) = None /\ AnswerOf(t) = None
             /\ ~ExistsOf(t)
  <2>1. t >= counter /\ t \in Loops
    BY <1>2, ZeroTid DEF Tids
  <2>2. ~ExistsOf(t)
    BY <1>1, <2>1 DEF CoreInv, FutureInv, FutureUnused, ExistsOf, Live
  <2>3. TargetOf(t) = None
    BY <1>1, <1>2, TargetIs DEF ServesInv
  <2>4. PhaseOf(t) = "none" /\ KindOf(t) = None /\ AnswerOf(t) = None
    BY <1>2, <2>1 DEF PhaseOf, KindOf, AnswerOf, EmptyCh
  <2> QED BY <2>2, <2>3, <2>4
<1>4. Existing \subseteq Loops \ Tids
  BY <1>3 DEF Existing
<1> QED BY <1>3, <1>4 DEF Promise!AInit, PhaseNow, KindNow, TargetNow, AnswerNow

\* Every behaviour of the service is one that InstanceCommands allows, with any
\* number of clients, instances and transactions: each command is answered
\* once, by the one instance that executes it at the time and nothing else, and
\* an instance comes and goes only by the answers its clients are given
\* (processAction, instanceLoop, returnCreateResult).
THEOREM ImplementsPromise == Spec /\ SignalsHarmless => KeepsPromise
<1>1. Init => PromiseInv
  BY InitPromiseInv
<1>2. PromiseInv /\ [Next]_vars /\ [NoneMisled]_vars => PromiseInv'
  BY NextPromiseInv
<1>3. PromiseInv /\ PromiseInv' /\ [Next]_vars => [Promise!ANext]_(Promise!avars)
  BY NextPromised
<1> QED BY <1>1, <1>2, <1>3, InitPromised, PTL DEF Spec, SignalsHarmless, KeepsPromise, Promise!ASpec

\* What follows from the promise alone.  A command runs on an instance that
\* exists, alone; what a failed creation was to found does not exist.
CommandsApart ==
  \A t \in Tids : TargetNow[t] # None =>
    /\ PhaseNow[t] = "running" /\ TargetNow[t] \in Existing
    /\ \A u \in Tids : TargetNow[u] = TargetNow[t] => u = t
    /\ KindNow[t] = "create" => TargetNow[t] = t

FailuresLeaveNothing ==
  \A t \in Tids :
    /\ PhaseNow[t] = "none" => t \notin Existing
    /\ PhaseNow[t] = "running" => TargetNow[t] # None
    /\ AnswerNow[t] # None => PhaseNow[t] \in {"answered", "retired"}
    /\ KindNow[t] = "create" /\ AnswerNow[t] = "err" => t \notin Existing

PromiseMeans == CommandsApart /\ FailuresLeaveNothing

LEMMA InitMeans == Promise!AInit => PromiseMeans
BY DEF Promise!AInit, PromiseMeans, CommandsApart, FailuresLeaveNothing

LEMMA NextMeans ==
  ASSUME PromiseMeans, [Promise!ANext]_(Promise!avars)
  PROVE  PromiseMeans'
<1>1. /\ DOMAIN PhaseNow = Tids /\ DOMAIN KindNow = Tids /\ DOMAIN TargetNow = Tids
      /\ DOMAIN AnswerNow = Tids /\ None \notin Loops /\ Tids \subseteq Loops /\ None # "err"
  BY SpecialAssumption, ZeroTid
     DEF PhaseNow, KindNow, TargetNow, AnswerNow, SpecialAssumption, Final
<1>2. ASSUME UNCHANGED Promise!avars PROVE PromiseMeans'
  BY <1>2 DEF PromiseMeans, CommandsApart, FailuresLeaveNothing, Promise!avars
<1>3. ASSUME NEW t \in Tids, NEW k \in Promise!Kinds, Promise!Accept(t, k) PROVE PromiseMeans'
  BY <1>1, <1>3 DEF PromiseMeans, CommandsApart, FailuresLeaveNothing, Promise!Accept
<1>4. ASSUME NEW t \in Tids, NEW k \in Promise!Kinds, NEW v \in {"ok", "err"},
             Promise!AnswerOnArrival(t, k, v)
      PROVE  PromiseMeans'
  BY <1>1, <1>4 DEF PromiseMeans, CommandsApart, FailuresLeaveNothing, Promise!AnswerOnArrival
<1>5. ASSUME NEW t \in Tids, NEW i \in Loops, Promise!Begin(t, i) PROVE PromiseMeans'
  BY <1>1, <1>5 DEF PromiseMeans, CommandsApart, FailuresLeaveNothing, Promise!Begin
<1>6. ASSUME NEW t \in Tids, NEW v \in {"ok", "err"}, Promise!End(t, v) PROVE PromiseMeans'
  BY <1>1, <1>6 DEF PromiseMeans, CommandsApart, FailuresLeaveNothing, Promise!End
<1>7. ASSUME NEW t \in Tids, Promise!Refuse(t) \/ Promise!Retire(t) PROVE PromiseMeans'
  BY <1>1, <1>7 DEF PromiseMeans, CommandsApart, FailuresLeaveNothing, Promise!Refuse, Promise!Retire
<1> QED BY <1>2, <1>3, <1>4, <1>5, <1>6, <1>7 DEF Promise!ANext

\* A command that is executed works on an instance that exists, which nothing
\* else works on; and no instance is left of a creation whose client is told
\* that it has failed (instanceLoop, returnCreateResult).
THEOREM FailedCreationsLeaveNothing ==
  Spec /\ SignalsHarmless => [](CommandsApart /\ FailuresLeaveNothing)
<1>1. Promise!AInit => PromiseMeans
  BY InitMeans
<1>2. PromiseMeans /\ [Promise!ANext]_(Promise!avars) => PromiseMeans'
  BY NextMeans
<1>3. Spec /\ SignalsHarmless => Promise!ASpec
  BY ImplementsPromise DEF KeepsPromise
<1>4. PromiseMeans => CommandsApart /\ FailuresLeaveNothing
  BY DEF PromiseMeans
<1> QED BY <1>1, <1>2, <1>3, <1>4, PTL DEF Promise!ASpec
=============================================================================
