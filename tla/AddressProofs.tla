---------------------------- MODULE AddressProofs ----------------------------
(***************************************************************************)
(* Theorems about the host IP addresses of CcvmService: findFreeIP gives   *)
(* an address to one instance only, keeps that of every instance that      *)
(* exists, and uses none up that it did not give.  They hold as long as no *)
(* client asks for an address of its own, which create records as 0.       *)
(***************************************************************************)
EXTENDS CcvmServiceProofs

\* No creation asks for an address.
NoCustomIP == \A r \in Requests : r.op = "create" => r.ip \notin IPs

\* hostIPs are the addresses of the loops there have been, one for each.  That
\* the next loop is unused is needed for its address to replace none.
Used(l) == loop[l].pc # "unused"

AddressInv ==
  /\ hostIPs = {loop[l].ip : l \in {m \in Loops : Used(m)}}
  /\ \A l, m \in Loops : Used(l) /\ Used(m) /\ loop[l].ip = loop[m].ip => l = m
  /\ FutureUnused

LEMMA InitAddress == Init => AddressInv
<1> SUFFICES ASSUME Init PROVE AddressInv
  OBVIOUS
<1>1. PICK d \in Disks :
         LET known == {-i : i \in Taken(d)} IN
         /\ hostIPs = {d[-l].ip : l \in known}
         /\ loop = [l \in Loops |-> IF l \in known THEN NewLoop(d[-l].name, d[-l].ip)
                                                   ELSE UnusedLoop]
  BY DEF Init
<1> DEFINE known == {-i : i \in Taken(d)}
           name == [l \in known |-> d[-l].name]
           ip   == [l \in known |-> d[-l].ip]
<1>2. /\ known \subseteq Loops
      /\ \A l \in known : l < 0
      /\ \A l, m \in known : ip[l] = ip[m] => l = m
  <2>1. \A i \in Taken(d) : -i \in Loops /\ i \in Int /\ i > 0 /\ -(-i) = i
    <3>1. \A i \in Taken(d) : i \in 1 .. Len(d)
      BY DEF Taken
    <3>2. Len(d) \in Nat
      BY DisksAssumption DEF DisksAssumption
    <3> QED BY <3>1, <3>2, TakenType
  <2>2. \A i, j \in Taken(d) : d[i].ip = d[j].ip => i = j
    <3>1. \A i \in Taken(d) : i \in 1 .. Len(d) /\ \A j \in 1 .. i - 1 : d[j].ip # d[i].ip
      BY DEF Taken
    <3>2. Len(d) \in Nat
      BY DisksAssumption DEF DisksAssumption
    <3>3. ASSUME NEW i \in Taken(d), NEW j \in Taken(d), i < j PROVE d[i].ip # d[j].ip
      BY <3>1, <3>2, <3>3
    <3> QED BY <2>1, <3>3
  <2> QED BY <2>1, <2>2
<1>3. /\ hostIPs = {ip[l] : l \in known}
      /\ loop = [l \in Loops |-> IF l \in known THEN NewLoop(name[l], ip[l]) ELSE UnusedLoop]
  <2>1. \A l \in known : ip[l] = d[-l].ip /\ name[l] = d[-l].name
    OBVIOUS
  <2> HIDE DEF name, ip
  <2> QED BY <1>1, <2>1
<1> HIDE DEF known, name, ip
<1>4. \A l \in Loops : /\ Used(l) <=> l \in known
                       /\ l \in known => loop[l].ip = ip[l]
  <2>1. UnusedLoop.pc = "unused" /\ \A n, a : NewLoop(n, a).pc = "select" /\ NewLoop(n, a).ip = a
    BY DEF UnusedLoop, NewLoop, LoopAt
  <2> QED BY <1>3, <2>1 DEF Used
<1>5. {m \in Loops : Used(m)} = known
  BY <1>2, <1>4
<1>6. hostIPs = {loop[l].ip : l \in known}
  BY <1>2, <1>3, <1>4
<1>7. FutureUnused
  BY InitRegistry DEF RegistryInv
<1> QED BY <1>2, <1>4, <1>5, <1>6, <1>7 DEF AddressInv

LEMMA AddressFrame ==
  ASSUME AddressInv, UNCHANGED <<hostIPs, counter>>,
         \A l \in Loops : /\ loop'[l].ip = loop[l].ip
                          /\ loop'[l].pc = "unused" <=> loop[l].pc = "unused"
  PROVE  AddressInv'
BY DEF AddressInv, FutureUnused, Used

\* Loop l gets a new record k; that it has its address and is used stay.
LEMMA LoopAddress ==
  ASSUME TypeInv, AddressInv, UNCHANGED <<hostIPs, counter>>, NEW l \in Loops, NEW k,
         loop' = [loop EXCEPT ![l] = k], k.ip = loop[l].ip,
         k.pc = "unused" <=> loop[l].pc = "unused"
  PROVE  AddressInv'
<1>1. loop \in [Loops -> LoopType]
  BY DEF TypeInv, TypeOK
<1>2. \A m \in Loops : /\ loop'[m].ip = loop[m].ip
                       /\ loop'[m].pc = "unused" <=> loop[m].pc = "unused"
  BY <1>1
<1> QED BY <1>2, AddressFrame

LEMMA LoopStepsAddress ==
  ASSUME TypeInv, AddressInv, NEW l \in Loops,
         \/ SvcReap(l) \/ LoopReceive(l) \/ LoopCreateResult(l) \/ LoopReturn(l)
         \/ LoopClosed(l) \/ CreateLine(l)
         \/ \E v \in Final : CommandDone(l, v) \/ CreateDone(l, v)
  PROVE  AddressInv'
<1>1. UNCHANGED <<hostIPs, counter>>
  BY DEF SvcReap, LoopReceive, LoopCreateResult, LoopReturn, LoopClosed, CreateLine, CommandDone,
         CreateDone, table, registry
<1>2. \A m \in Loops : loop[m] \in LoopType
  BY DEF TypeInv, TypeOK
<1>3. loop \in [Loops -> LoopType]
  BY DEF TypeInv, TypeOK
<1>4. \A m \in Loops : /\ loop'[m].ip = loop[m].ip
                       /\ loop'[m].pc = "unused" <=> loop[m].pc = "unused"
  <2>1. CASE SvcReap(l)
    <3>1. loop' = loop \/ \E m : loop' = [loop EXCEPT ![m].chClosed = TRUE]
      BY <2>1 DEF SvcReap
    <3> QED BY <1>2, <1>3, <3>1 DEF LoopType
  <2>2. CASE LoopReceive(l)
    <3>1. loop[l].pc = "select" /\ \/ loop' = loop
                                   \/ loop' = [loop EXCEPT ![l].create = cur, ![l].fn = "running"]
                                   \/ loop' = [loop EXCEPT ![l].pc = "running", ![l].cmd = cur]
      BY <2>2 DEF LoopReceive
    <3> QED BY <1>2, <1>3, <3>1 DEF LoopType
  <2>3. CASE LoopCreateResult(l)
    BY <1>2, <1>3, <2>3 DEF LoopCreateResult, LoopType
  <2>4. CASE LoopReturn(l)
    BY <1>2, <1>3, <2>4 DEF LoopReturn, LoopType
  <2>5. CASE LoopClosed(l)
    BY <1>2, <1>3, <2>5 DEF LoopClosed, LoopType
  <2>6. CASE CreateLine(l)
    BY <1>2, <1>3, <2>6 DEF CreateLine, LoopType
  <2>7. ASSUME NEW v \in Final, CommandDone(l, v)
        PROVE  \A m \in Loops : /\ loop'[m].ip = loop[m].ip
                                /\ loop'[m].pc = "unused" <=> loop[m].pc = "unused"
    <3>1. \E b : loop' = [loop EXCEPT ![l].pc = "select", ![l].cmd = None, ![l].deleted = b]
      BY <2>7 DEF CommandDone
    <3>2. loop[l].pc = "running"
      BY <2>7 DEF CommandDone
    <3> QED BY <1>2, <1>3, <3>1, <3>2 DEF LoopType
  <2>8. ASSUME NEW v \in Final, CreateDone(l, v)
        PROVE  \A m \in Loops : /\ loop'[m].ip = loop[m].ip
                                /\ loop'[m].pc = "unused" <=> loop[m].pc = "unused"
    BY <1>2, <1>3, <2>8 DEF CreateDone, LoopType
  <2> QED BY <2>1, <2>2, <2>3, <2>4, <2>5, <2>6, <2>7, <2>8
<1> QED BY <1>1, <1>4, AddressFrame

LEMMA OtherStepsAddress ==
  ASSUME TypeInv, AddressInv,
         \/ \E c \in Clients :
              \/ \E r \in Requests : Issue(c, r)
              \/ WantCancel(c) \/ ClientDie(c) \/ ReadResult(c)
              \/ StartSignalled(c) \/ ResultSignalled(c) \/ CancelSignalled(c)
              \/ SvcGetResult(c) \/ SvcComplete(c) \/ SvcCancel(c)
         \/ \E t \in Tids : DrainNext(t)
         \/ SvcDone \/ DrainReceive \/ CloseLoops \/ SvcFinish
         \/ Signal \/ MainFinished \/ ManagerReturns \/ MainExit \/ UNCHANGED vars
  PROVE  AddressInv'
<1>1. CASE CloseLoops
  <2>1. UNCHANGED <<hostIPs, counter>>
    BY <1>1 DEF CloseLoops, table, registry
  <2>2. ASSUME NEW l \in Loops PROVE loop'[l].ip = loop[l].ip /\ loop'[l].pc = loop[l].pc
    <3>1. loop[l] \in LoopType
      BY DEF TypeInv, TypeOK
    <3> QED BY <1>1, <3>1 DEF CloseLoops, LoopType
  <2> QED BY <2>1, <2>2, AddressFrame
<1>2. CASE ~CloseLoops
  <2>1. UNCHANGED <<hostIPs, counter, loop>>
    BY <1>2 DEF Issue, WantCancel, ClientDie, ReadResult, StartSignalled, ResultSignalled,
         CancelSignalled, SvcGetResult, SvcComplete, SvcCancel, DrainNext, SvcDone, DrainReceive,
         SvcFinish, Signal, MainFinished, ManagerReturns, MainExit, vars, table, registry
  <2> QED BY <2>1, AddressFrame
<1> QED BY <1>1, <1>2

\* findFreeIP finds an address that is not in hostIPs, and a creation that is
\* not refused gets it.
LEMMA FindFreeIP ==
  ASSUME NoCustomIP, NEW r \in Requests, r.op = "create", ~CreateFails(r)
  PROVE  FlatIP(r) = GuestIP(r) /\ GuestIP(r) \notin hostIPs
<1>1. r.ip = NoIP
  BY RequestsAssumption DEF NoCustomIP, RequestsAssumption, CreateFails
<1>2. FreeIPs # {} /\ FreeIPs \subseteq Nat
  BY <1>1, Bounds DEF CreateFails, FreeIPs, Pool
<1>3. LowestIP \in FreeIPs
  BY <1>2, LeastNat DEF LowestIP
<1> QED BY <1>1, <1>3 DEF FlatIP, GuestIP, FreeIPs

LEMMA SvcStartAddress ==
  ASSUME NoCustomIP, TypeInv, AddressInv, NEW c \in Clients, SvcStart(c)
  PROVE  AddressInv'
<1> DEFINE t == counter
           r == cli[c].req
<1>1. /\ t \in Tids /\ t \in Loops /\ t \in Int /\ counter' = t + 1 /\ r \in Requests
      /\ loop \in [Loops -> LoopType] /\ \A l \in Loops : l \in Int
  BY ZeroTid, Bounds DEF SvcStart, TypeInv, TypeOK, ClientsHeld, Tids, Loops
<1>2. FutureUnused' <=> \A l \in Loops : l >= t + 1 => loop'[l].pc = "unused"
  BY <1>1 DEF FutureUnused
<1>3. \A l \in Loops : l >= t + 1 => l # t /\ l >= t
  BY <1>1
<1>4. ASSUME UNCHANGED <<hostIPs, loop>> PROVE AddressInv'
  <2>1. FutureUnused'
    BY <1>2, <1>3, <1>4 DEF AddressInv, FutureUnused
  <2> QED BY <1>4, <2>1 DEF AddressInv, Used
<1>5. ASSUME NEW n, NEW ip, ip \notin hostIPs, StartInstanceLoop(t, n, ip, ip) PROVE AddressInv'
  <2>1. /\ hostIPs' = hostIPs \cup {ip}
        /\ loop'[t].ip = ip /\ loop'[t].pc = "select"
        /\ \A l \in Loops : l # t => loop'[l] = loop[l]
    <3>1. NewLoop(n, ip).ip = ip /\ NewLoop(n, ip).pc = "select"
      BY DEF NewLoop, LoopAt
    <3> QED BY <1>1, <1>5, <3>1 DEF StartInstanceLoop
  <2>2. ~Used(t)
    BY <1>1 DEF AddressInv, FutureUnused, Used
  <2>3. FutureUnused'
    BY <1>2, <1>3, <2>1 DEF AddressInv, FutureUnused
  <2>4. \A l \in Loops : Used(l)' <=> Used(l) \/ l = t
    BY <2>1 DEF Used
  <2>5. hostIPs' = {loop'[l].ip : l \in {m \in Loops : Used(m)'}}
    BY <1>1, <2>1, <2>2, <2>4 DEF AddressInv
  <2>6. \A l \in Loops : Used(l) => loop[l].ip \in hostIPs
    BY DEF AddressInv
  <2>7. \A l, m \in Loops : Used(l)' /\ Used(m)' /\ loop'[l].ip = loop'[m].ip => l = m
    BY <1>5, <2>1, <2>2, <2>4, <2>6 DEF AddressInv
  <2> QED BY <2>3, <2>5, <2>7 DEF AddressInv
<1> HIDE DEF t, r
<1>6. CASE r.op = "create" /\ Create(t, r)
  <2>1. CASE CreateFails(r) /\ AnswerAtOnce(t, "err")
    BY <1>4, <2>1 DEF AnswerAtOnce
  <2>2. CASE ~CreateFails(r)
    <3>1. \E n : StartInstanceLoop(t, n, FlatIP(r), GuestIP(r))
      BY <1>6, <2>2 DEF Create
    <3>2. FlatIP(r) = GuestIP(r) /\ GuestIP(r) \notin hostIPs
      BY <1>1, <1>6, <2>2, FindFreeIP
    <3> QED BY <1>5, <3>1, <3>2
  <2> QED BY <1>6, <2>1, <2>2 DEF Create
<1>7. CASE r.op \in InstOps /\ ForwardToInstance(t, r)
  BY <1>4, <1>7 DEF ForwardToInstance, AnswerAtOnce
<1>8. CASE r.op = "list" /\ AnswerAtOnce(t, "ok")
  BY <1>4, <1>8 DEF AnswerAtOnce
<1> QED BY <1>6, <1>7, <1>8 DEF SvcStart, t, r

\* hostIPs are exactly the addresses of the instances there have been, all of
\* them different, whatever is created, deleted and refused.
THEOREM AddressesInductive == NoCustomIP => (Spec => [](TypeInv /\ AddressInv))
<1> SUFFICES ASSUME NoCustomIP PROVE Spec => [](TypeInv /\ AddressInv)
  OBVIOUS
<1>1. Init => TypeInv /\ AddressInv
  BY InitType, InitAddress
<1>2. TypeInv /\ AddressInv /\ [Next]_vars => (TypeInv /\ AddressInv)'
  <2> SUFFICES ASSUME TypeInv, AddressInv, [Next]_vars PROVE TypeInv' /\ AddressInv'
    OBVIOUS
  <2>1. AddressInv'
    BY LoopStepsAddress, OtherStepsAddress, SvcStartAddress DEF Next
  <2> QED BY <2>1, NextType
<1> QED BY <1>1, <1>2, PTL DEF Spec

\* README: "Only one instance can be associated with one host IP address at
\* any one time."
THEOREM HostIPsUnique == NoCustomIP => (Spec => []HostIPUnique)
<1> SUFFICES ASSUME NoCustomIP PROVE Spec => []HostIPUnique
  OBVIOUS
<1>1. AddressInv => HostIPUnique
  BY DEF AddressInv, HostIPUnique, Live, Used
<1> QED BY <1>1, AddressesInductive, PTL

\* findFreeIP cannot give the address of an existing instance again.
THEOREM AddressesReserved == NoCustomIP => (Spec => []AddressReserved)
<1> SUFFICES ASSUME NoCustomIP PROVE Spec => []AddressReserved
  OBVIOUS
<1>1. AddressInv => AddressReserved
  BY DEF AddressInv, AddressReserved, Live, Used
<1> QED BY <1>1, AddressesInductive, PTL

\* A creation that is refused, and a directory that is skipped, use up no
\* address.
THEOREM AddressesGiven == NoCustomIP => (Spec => []AddressesWereGiven)
<1> SUFFICES ASSUME NoCustomIP PROVE Spec => []AddressesWereGiven
  OBVIOUS
<1>1. AddressInv => AddressesWereGiven
  BY DEF AddressInv, AddressesWereGiven, Used
<1> QED BY <1>1, AddressesInductive, PTL
=============================================================================
