------------------------- MODULE CcvmServiceProofs -------------------------
(***************************************************************************)
(* Theorems about CcvmService: every variable has its type, and the        *)
(* registry of instances is consistent with the loops whatever the order   *)
(* in which handlers, loops, creations, deletions and the shutdown act.    *)
(***************************************************************************)
EXTENDS CcvmService, FiniteSetTheorems, WellFoundedInduction,
        SequenceTheorems, TLAPS

\* A set of naturals that is not empty has a least element: what findFreeIP
\* and newInstanceName return exists.
LEMMA LeastNat ==
  ASSUME NEW S, S \subseteq Nat, S # {}
  PROVE  \E m \in S : \A k \in S : m <= k
<1>1. IsWellFoundedOn(OpToRel(<, Nat), Nat)
  BY NatLessThanWellFounded
<1>2. PICK m \in S : \A k \in S : ~ (<<k, m>> \in OpToRel(<, Nat))
  BY <1>1, WFMin
<1>3. \A k \in S : ~ (k < m)
  BY <1>2 DEF OpToRel
<1> QED BY <1>3

-----------------------------------------------------------------------------
\* What each process holds is there while its program counter needs it: the
\* service a command and a loop to send it to, a loop the transaction it
\* serves, a client the request it made.
ServiceHeld == svcPc = "sending" => cur \in Tids /\ dest \in Loops

LoopsHeld ==
  \A l \in Loops :
    /\ loop[l].pc = "running" => loop[l].cmd \in Tids
    /\ loop[l].fn # "none" => loop[l].create \in Tids
    /\ loop[l].pc \in {"returning", "lastReturn"} => loop[l].fn \in Final
    /\ loop[l].pc # "unused" => loop[l].name \in Names

ClientsHeld == \A c \in Clients : cli[c].pc # "idle" => cli[c].req \in Requests

TypeInv == TypeOK /\ ServiceHeld /\ LoopsHeld /\ ClientsHeld

USE DEF IPs

LEMMA Bounds ==
  /\ MaxTrans \in Nat \ {0} /\ MaxDisk \in Nat /\ MaxLines \in Nat
  /\ ResultCap \in Nat \ {0} /\ MaxSignals \in Nat /\ PoolSize \in Nat
  /\ NameCount \in Nat \ {0} /\ NameOrder \in [0 .. NameCount - 1 -> Names]
BY BoundsAssumption DEF BoundsAssumption

LEMMA ZeroTid == 0 \in Tids /\ Tids \subseteq Loops
BY Bounds DEF Tids, Loops

\* The directories findExistingInstances takes.
LEMMA TakenType ==
  ASSUME NEW d \in Disks, NEW i \in Taken(d)
  PROVE  -i \in Loops /\ d[i].name \in Names /\ d[i].ip \in IPs
<1>1. d \in Seq([name : Names, ip : IPs \cup {NoIP}])
  BY DisksAssumption DEF DisksAssumption
<1>2. Len(d) \in Nat /\ Len(d) <= MaxDisk
  BY <1>1, DisksAssumption DEF DisksAssumption
<1>3. i \in 1 .. Len(d) /\ d[i].ip \in IPs
  BY DEF Taken
<1>4. d[i] \in [name : Names, ip : IPs \cup {NoIP}]
  BY <1>1, <1>3, ElementOfSeq
<1> QED BY <1>2, <1>3, <1>4, Bounds DEF Loops

LEMMA InitType == Init => TypeInv
<1> SUFFICES ASSUME Init PROVE TypeInv
  OBVIOUS
<1>1. PICK d \in Disks :
         LET known == {-i : i \in Taken(d)} IN
         /\ instances = [n \in Names |->
                           IF \E l \in known : d[-l].name = n
                           THEN CHOOSE l \in known : d[-l].name = n
                           ELSE None]
         /\ watched = known
         /\ hostIPs = {d[-l].ip : l \in known}
         /\ loop = [l \in Loops |-> IF l \in known THEN NewLoop(d[-l].name, d[-l].ip)
                                                   ELSE UnusedLoop]
  BY DEF Init
<1> DEFINE known == {-i : i \in Taken(d)}
<1>2. \A l \in known : l \in Loops /\ d[-l].name \in Names /\ d[-l].ip \in IPs
  <2>1. \A i \in Taken(d) : -(-i) = i
    BY DEF Taken
  <2> QED BY <2>1, TakenType
<1>4. instances \in [Names -> Loops \cup {None}]
  <2>1. instances = [n \in Names |-> IF \E l \in known : d[-l].name = n
                                    THEN CHOOSE l \in known : d[-l].name = n
                                    ELSE None]
    BY <1>1
  <2>2. \A n \in Names : (\E l \in known : d[-l].name = n)
            => (CHOOSE l \in known : d[-l].name = n) \in known
    OBVIOUS
  <2> HIDE DEF known
  <2> QED BY <1>2, <2>1, <2>2
<1>5. watched \subseteq Loops /\ hostIPs \subseteq IPs
  BY <1>1, <1>2
<1>6. /\ loop \in [Loops -> LoopType]
      /\ \A l \in Loops : /\ loop[l].pc \in {"unused", "select"} /\ loop[l].fn = "none"
                          /\ loop[l].pc # "unused" => loop[l].name \in Names
  <2>1. UnusedLoop \in LoopType /\ UnusedLoop.pc = "unused" /\ UnusedLoop.fn = "none"
    BY Bounds DEF UnusedLoop, LoopAt, LoopType
  <2>2. \A n \in Names, ip \in IPs :
           /\ NewLoop(n, ip) \in LoopType /\ NewLoop(n, ip).name = n
           /\ NewLoop(n, ip).pc = "select" /\ NewLoop(n, ip).fn = "none"
    BY Bounds DEF NewLoop, LoopAt, LoopType
  <2>3. loop = [l \in Loops |-> IF l \in known THEN NewLoop(d[-l].name, d[-l].ip)
                                               ELSE UnusedLoop]
    BY <1>1
  <2> HIDE DEF known
  <2> QED BY <1>2, <2>1, <2>2, <2>3
<1>7. cli \in [Clients -> ClientType] /\ \A c \in Clients : cli[c].pc = "idle"
  <2>1. IdleClient \in ClientType /\ IdleClient.pc = "idle"
    BY ZeroTid DEF IdleClient, ClientType
  <2> QED BY <2>1 DEF Init
<1>8. TrafficType
  <2>1. EmptyCh \in ChannelType
    BY DEF EmptyCh, ChannelType
  <2> QED BY <2>1 DEF Init, TrafficType
<1>9. ServiceHeld /\ LoopsHeld /\ ClientsHeld
  BY <1>6, <1>7 DEF ServiceHeld, LoopsHeld, ClientsHeld, Init
<1>10. ServiceType /\ TableType /\ ProcessType
  <2>1. /\ svcPc = "select" /\ cur = None /\ dest = None /\ draining = {}
        /\ transactions = {} /\ counter = 0 /\ timer = "off"
        /\ mainPc = "select" /\ dlPc = "serving" /\ sigBuf = 0 /\ nsig = 0
    BY DEF Init
  <2> QED BY <2>1, Bounds DEF ServiceType, TableType, ProcessType
<1>11. RegistryType
  BY <1>4, <1>5, Bounds DEF Init, RegistryType
<1> QED BY <1>6, <1>7, <1>8, <1>9, <1>10, <1>11 DEF TypeInv, TypeOK

-----------------------------------------------------------------------------
\* The steps of clients and handlers.

LEMMA IssueType ==
  ASSUME TypeInv, NEW c \in Clients, NEW r \in Requests, Issue(c, r)
  PROVE  TypeInv'
<1> DEFINE k == [IdleClient EXCEPT !.pc = "starting", !.req = r]
<1>1. k \in ClientType /\ k.req \in Requests
  BY ZeroTid DEF IdleClient, ClientType
<1>2. cli' = [cli EXCEPT ![c] = k] /\ cli \in [Clients -> ClientType]
  BY DEF Issue, TypeInv, TypeOK
<1> HIDE DEF k
<1>3. cli' \in [Clients -> ClientType]
  BY <1>1, <1>2
<1>4. ClientsHeld'
  BY <1>1, <1>2 DEF ClientsHeld, TypeInv
<1> QED BY <1>3, <1>4 DEF Issue, TypeInv, TypeOK, ServiceHeld, LoopsHeld, ServiceType,
          TableType, RegistryType, TrafficType, ProcessType, service, table, registry,
          traffic, process

\* Steps that change nothing but the record of one client, which keeps its
\* request, and perhaps the signals waiting.
LEMMA ClientChangeType ==
  ASSUME TypeInv, NEW c \in Clients, NEW k \in ClientType,
         cli' = [cli EXCEPT ![c] = k], k.req = cli[c].req, cli[c].pc # "idle" \/ k.pc = "idle",
         UNCHANGED <<service, table, registry, traffic, loop>>, ProcessType'
  PROVE  TypeInv'
<1>1. cli' \in [Clients -> ClientType]
  BY DEF TypeInv, TypeOK
<1>2. ClientsHeld'
  BY DEF ClientsHeld, TypeInv, TypeOK
<1> QED BY <1>1, <1>2 DEF TypeInv, TypeOK, ServiceHeld, LoopsHeld, ServiceType,
          TableType, RegistryType, TrafficType, service, table, registry, traffic

LEMMA ClientStepsType ==
  ASSUME TypeInv, NEW c \in Clients,
         \/ WantCancel(c) \/ ClientDie(c) \/ SvcGetResult(c)
         \/ StartSignalled(c) \/ ResultSignalled(c) \/ CancelSignalled(c)
  PROVE  TypeInv'
<1> DEFINE k == cli[c]
<1>1. k \in ClientType /\ cli \in [Clients -> ClientType] /\ ProcessType
  BY DEF TypeInv, TypeOK
<1>2. /\ [k EXCEPT !.pc = "dead"] \in ClientType
      /\ [k EXCEPT !.pc = "reading"] \in ClientType
      /\ [k EXCEPT !.pc = "idle"] \in ClientType
      /\ [k EXCEPT !.cancel = "wanted"] \in ClientType
      /\ [k EXCEPT !.cancel = "sent"] \in ClientType
  BY <1>1 DEF ClientType
<1>3. /\ [k EXCEPT !.pc = "idle", !.out = "err"] \in ClientType
      /\ [k EXCEPT !.pc = "getting", !.tid = 0] \in ClientType
      /\ [k EXCEPT !.pc = "getting", !.out = None] \in ClientType
  BY <1>1, ZeroTid DEF ClientType, Final
<1>4. CASE WantCancel(c)
  BY <1>1, <1>2, <1>4, ClientChangeType DEF WantCancel, ProcessType, process, ClientType
<1>5. CASE ClientDie(c)
  BY <1>1, <1>2, <1>5, ClientChangeType DEF ClientDie, ProcessType, process, ClientType
<1>6. CASE SvcGetResult(c)
  <2> DEFINE m == IF k.tid \in transactions
                 THEN [k EXCEPT !.pc = "reading"]
                 ELSE [k EXCEPT !.pc = "idle", !.out = "err"]
  <2>1. m \in ClientType /\ m.req = k.req /\ (k.pc # "idle" \/ m.pc = "idle")
    BY <1>1, <1>2, <1>3, <1>6 DEF SvcGetResult, ClientType
  <2>2. cli' = [cli EXCEPT ![c] = m] /\ ProcessType'
    BY <1>1, <1>6 DEF SvcGetResult, ProcessType, process
  <2>3. UNCHANGED <<service, table, registry, traffic, loop>>
    BY <1>6 DEF SvcGetResult
  <2> HIDE DEF m
  <2> QED BY <2>1, <2>2, <2>3, ClientChangeType
<1>7. CASE StartSignalled(c)
  <2> DEFINE m == IF k.req.op \in {"create", "stop", "start"}
                 THEN [k EXCEPT !.pc = "idle", !.out = "err"]
                 ELSE [k EXCEPT !.pc = "getting", !.tid = 0]
  <2>1. m \in ClientType /\ m.req = k.req /\ (k.pc # "idle" \/ m.pc = "idle")
    BY <1>1, <1>2, <1>3, <1>7 DEF StartSignalled, ClientType
  <2>2. cli' = [cli EXCEPT ![c] = m] /\ ProcessType'
    BY <1>1, <1>7 DEF StartSignalled, ProcessType
  <2>3. UNCHANGED <<service, table, registry, traffic, loop>>
    BY <1>7 DEF StartSignalled
  <2> HIDE DEF m
  <2> QED BY <2>1, <2>2, <2>3, ClientChangeType
<1>8. CASE ResultSignalled(c)
  <2> DEFINE m == IF k.pc = "getting" THEN [k EXCEPT !.pc = "idle", !.out = "err"]
                                    ELSE Answered(k)
  <2>1. m \in ClientType /\ m.req = k.req /\ (k.pc # "idle" \/ m.pc = "idle")
    BY <1>1, <1>2, <1>3, <1>8 DEF ResultSignalled, ClientType, Answered
  <2>2. cli' = [cli EXCEPT ![c] = m] /\ ProcessType'
    BY <1>1, <1>8 DEF ResultSignalled, ProcessType, Answered
  <2>3. UNCHANGED <<service, table, registry, traffic, loop>>
    BY <1>8 DEF ResultSignalled
  <2> HIDE DEF m
  <2> QED BY <2>1, <2>2, <2>3, ClientChangeType
<1>9. CASE CancelSignalled(c)
  <2> DEFINE m == [k EXCEPT !.cancel = "sent"]
  <2>1. m \in ClientType /\ m.req = k.req /\ (k.pc # "idle" \/ m.pc = "idle")
    BY <1>1, <1>2, <1>3, <1>9 DEF CancelSignalled, ClientType
  <2>2. cli' = [cli EXCEPT ![c] = m] /\ ProcessType'
    BY <1>1, <1>9 DEF CancelSignalled, ProcessType
  <2>3. UNCHANGED <<service, table, registry, traffic, loop>>
    BY <1>9 DEF CancelSignalled
  <2> HIDE DEF m
  <2> QED BY <2>1, <2>2, <2>3, ClientChangeType
<1> QED BY <1>4, <1>5, <1>6, <1>7, <1>8, <1>9

-----------------------------------------------------------------------------
\* Channels, names and addresses.

LEMMA ChannelSteps ==
  ASSUME NEW ch \in ChannelType, NEW v \in Final \cup {"line"}
  PROVE  /\ Sent(ch, v) \in ChannelType /\ Reply(ch, v) \in ChannelType
         /\ ch.buf # <<>> => [ch EXCEPT !.buf = Tail(@)] \in ChannelType
<1>1. ch.buf \in Seq(Final \cup {"line"}) /\ ch.closed \in BOOLEAN
  BY DEF ChannelType
<1>2. Append(ch.buf, v) \in Seq(Final \cup {"line"})
  BY <1>1
<1>3. ch.buf # <<>> => Tail(ch.buf) \in Seq(Final \cup {"line"})
  BY <1>1
<1> QED BY <1>1, <1>2, <1>3 DEF ChannelType, Sent, Reply

LEMMA WrapType == \A i \in 0 .. 2 * NameCount - 1 : Wrap(i) \in 0 .. NameCount - 1
BY Bounds DEF Wrap

\* newInstanceName returns a valid name, and one that is not registered unless
\* all are.
LEMMA NewInstanceName ==
  ASSUME RegistryType
  PROVE  /\ Tries \in 0 .. NameCount - 1 /\ NameAt(Tries) \in Names
         /\ Wrap(gen + Tries + 1) \in 0 .. NameCount - 1
         /\ FreeNames # {} => instances[NameAt(Tries)] = None
<1>1. gen \in 0 .. NameCount - 1 /\ NameCount \in Nat \ {0}
  BY Bounds DEF RegistryType
<1>2. FreeNames # {} => Tries \in FreeNames
  <2>1. FreeNames \subseteq Nat
    BY <1>1 DEF FreeNames
  <2> SUFFICES ASSUME FreeNames # {} PROVE Tries \in FreeNames
    OBVIOUS
  <2>2. \E k \in FreeNames : \A j \in FreeNames : k <= j
    BY <2>1, LeastNat
  <2> QED BY <2>2 DEF Tries
<1>3. Tries \in 0 .. NameCount - 1
  BY <1>1, <1>2 DEF Tries, FreeNames
<1>4. Wrap(gen + Tries) \in 0 .. NameCount - 1 /\ Wrap(gen + Tries + 1) \in 0 .. NameCount - 1
  BY <1>1, <1>3, WrapType
<1>5. NameAt(Tries) \in Names
  BY <1>4, Bounds DEF NameAt
<1> QED BY <1>2, <1>3, <1>4, <1>5 DEF FreeNames

\* What create takes from a request that does not fail.
LEMMA CreateArguments ==
  ASSUME RegistryType, NEW r \in Requests, ~CreateFails(r)
  PROVE  /\ FlatIP(r) \in IPs /\ GuestIP(r) \in IPs
         /\ r.name # NoName => r.name \in Names /\ instances[r.name] = None
<1>1. r.name \in Names \cup {NoName, BadName} /\ r.ip \in IPs \cup {NoIP, BadIP}
  BY RequestsAssumption DEF RequestsAssumption
<1>2. r.ip = NoIP => LowestIP \in IPs
  <2> SUFFICES ASSUME r.ip = NoIP PROVE LowestIP \in IPs
    OBVIOUS
  <2>1. FreeIPs # {}
    BY DEF CreateFails
  <2>2. FreeIPs \subseteq Nat
    BY Bounds DEF FreeIPs, Pool
  <2>3. \E i \in FreeIPs : \A j \in FreeIPs : i <= j
    BY <2>1, <2>2, LeastNat
  <2> QED BY <2>2, <2>3 DEF LowestIP
<1> QED BY <1>1, <1>2 DEF CreateFails, FlatIP, GuestIP

LEMMA RegisteredLoop ==
  ASSUME RegistryType, NEW n, Meant(n) \in Registered
  PROVE  instances[Meant(n)] \in Loops
BY DEF RegistryType, Registered

-----------------------------------------------------------------------------
\* The steps of the service.

\* Loop l gets a new record k that holds what its program counter needs.
LEMMA LoopChange ==
  ASSUME TypeInv, NEW l \in Loops, NEW k \in LoopType, loop' = [loop EXCEPT ![l] = k],
         k.pc = "running" => k.cmd \in Tids,
         k.fn # "none" => k.create \in Tids,
         k.pc \in {"returning", "lastReturn"} => k.fn \in Final,
         k.pc # "unused" => k.name \in Names
  PROVE  loop' \in [Loops -> LoopType] /\ LoopsHeld'
BY DEF TypeInv, TypeOK, LoopsHeld

LEMMA NewLoopType ==
  ASSUME NEW n \in Names, NEW ip \in IPs
  PROVE  /\ NewLoop(n, ip) \in LoopType /\ NewLoop(n, ip).pc = "select"
         /\ NewLoop(n, ip).fn = "none" /\ NewLoop(n, ip).name = n
BY Bounds DEF NewLoop, LoopAt, LoopType

LEMMA StartLoopType ==
  ASSUME TypeInv, NEW t \in Tids, NEW n \in Names, NEW flatIP \in IPs, NEW ip \in IPs,
         StartInstanceLoop(t, n, flatIP, ip), gen' \in 0 .. NameCount - 1
  PROVE  RegistryType' /\ loop' \in [Loops -> LoopType] /\ LoopsHeld'
<1>1. loop' \in [Loops -> LoopType] /\ LoopsHeld'
  <2> DEFINE k == NewLoop(n, ip)
  <2>1. k \in LoopType /\ k.pc = "select" /\ k.fn = "none" /\ k.name = n
    BY NewLoopType
  <2>2. loop' = [loop EXCEPT ![t] = k] /\ t \in Loops
    BY ZeroTid DEF StartInstanceLoop
  <2> HIDE DEF k
  <2> QED BY <2>1, <2>2, LoopChange
<1>2. RegistryType'
  BY ZeroTid DEF TypeInv, TypeOK, RegistryType, StartInstanceLoop
<1> QED BY <1>1, <1>2

LEMMA AnswerAtOnceType ==
  ASSUME TypeInv, NEW t \in Tids, NEW v \in Final, AnswerAtOnce(t, v),
         op' \in [Tids -> Ops \cup {None}], cancelled' = cancelled, gen' \in 0 .. NameCount - 1
  PROVE  /\ TrafficType' /\ ServiceType' /\ ServiceHeld' /\ RegistryType'
         /\ loop' \in [Loops -> LoopType] /\ LoopsHeld'
<1>1. result' \in [Tids -> ChannelType]
  BY ChannelSteps DEF TypeInv, TypeOK, TrafficType, AnswerAtOnce
<1>2. TrafficType'
  BY <1>1 DEF TypeInv, TypeOK, TrafficType, AnswerAtOnce
<1> QED BY <1>2 DEF TypeInv, TypeOK, AnswerAtOnce, service, ServiceType, ServiceHeld,
          RegistryType, LoopsHeld

LEMMA ForwardType ==
  ASSUME TypeInv, NEW l \in Loops, NEW t \in Tids, Forward(l, t),
         op' \in [Tids -> Ops \cup {None}], cancelled' = cancelled
  PROVE  ServiceType' /\ ServiceHeld' /\ TrafficType'
BY DEF TypeInv, TypeOK, ServiceType, ServiceHeld, TrafficType, Forward

LEMMA SvcStartType ==
  ASSUME TypeInv, NEW c \in Clients, SvcStart(c)
  PROVE  TypeInv'
<1> DEFINE t == counter
           r == cli[c].req
<1>1. t \in Tids /\ cli[c].pc = "starting" /\ svcPc = "select"
  BY DEF SvcStart
<1>2. r \in Requests /\ r.op \in Ops
  BY <1>1, RequestsAssumption DEF TypeInv, ClientsHeld, RequestsAssumption
<1>3. RegistryType /\ gen \in 0 .. NameCount - 1
  BY DEF TypeInv, TypeOK, RegistryType
<1>4. op' \in [Tids -> Ops \cup {None}] /\ cancelled' = cancelled
  BY <1>1, <1>2 DEF SvcStart, TypeInv, TypeOK, TrafficType
<1>5. TableType'
  BY <1>1, Bounds DEF SvcStart, TypeInv, TypeOK, TableType, Tids
<1>6. cli' \in [Clients -> ClientType] /\ ClientsHeld'
  <2> DEFINE k == [cli[c] EXCEPT !.pc = "getting", !.tid = t]
  <2>1. cli[c] \in ClientType /\ cli \in [Clients -> ClientType] /\ ClientsHeld
    BY DEF TypeInv, TypeOK
  <2>2. k \in ClientType /\ k.req \in Requests
    BY <1>1, <1>2, <2>1 DEF ClientType
  <2>3. cli' = [cli EXCEPT ![c] = k]
    BY DEF SvcStart
  <2> HIDE DEF k
  <2> QED BY <2>1, <2>2, <2>3 DEF ClientsHeld
<1>7. ProcessType'
  BY DEF SvcStart, TypeInv, TypeOK, ProcessType, process
<1>8. /\ ServiceType' /\ ServiceHeld' /\ TrafficType' /\ RegistryType'
      /\ loop' \in [Loops -> LoopType] /\ LoopsHeld'
  <2> HIDE DEF t, r
  <2>1. CASE r.op = "create" /\ Create(t, r)
    <3>1. gen' \in 0 .. NameCount - 1
      BY <1>3, <2>1, NewInstanceName DEF Create
    <3>2. CASE CreateFails(r) /\ AnswerAtOnce(t, "err")
      BY <1>1, <1>4, <3>1, <3>2, AnswerAtOnceType DEF Final
    <3>3. CASE ~CreateFails(r)
      <4> DEFINE n == IF r.name = NoName THEN NameAt(Tries) ELSE r.name
      <4>1. n \in Names /\ FlatIP(r) \in IPs /\ GuestIP(r) \in IPs
        BY <1>2, <1>3, <3>3, NewInstanceName, CreateArguments
      <4>2. StartInstanceLoop(t, n, FlatIP(r), GuestIP(r)) /\ Forward(t, t)
        BY <2>1, <3>3 DEF Create
      <4> HIDE DEF n
      <4> QED BY <1>1, <1>4, <3>1, <4>1, <4>2, ZeroTid, StartLoopType, ForwardType
    <3> QED BY <2>1, <3>2, <3>3 DEF Create
  <2>2. CASE r.op \in InstOps /\ ForwardToInstance(t, r)
    <3>1. gen' = gen
      BY <2>2 DEF ForwardToInstance
    <3>2. CASE AnswerAtOnce(t, "err")
      BY <1>1, <1>3, <1>4, <3>1, <3>2, AnswerAtOnceType DEF Final
    <3>3. CASE /\ Meant(r.name) \in Registered
               /\ Forward(instances[Meant(r.name)], t)
               /\ UNCHANGED <<instances, watched, hostIPs, loop>>
      <4>1. instances[Meant(r.name)] \in Loops
        BY <1>3, <3>3, RegisteredLoop
      <4>2. ServiceType' /\ ServiceHeld' /\ TrafficType'
        BY <1>1, <1>4, <3>3, <4>1, ForwardType
      <4> QED BY <1>3, <3>1, <3>3, <4>2 DEF RegistryType, TypeInv, TypeOK, LoopsHeld
    <3> QED BY <2>2, <3>2, <3>3 DEF ForwardToInstance
  <2>3. CASE r.op = "list" /\ AnswerAtOnce(t, "ok") /\ UNCHANGED gen
    BY <1>1, <1>3, <1>4, <2>3, AnswerAtOnceType DEF Final
  <2> QED BY <2>1, <2>2, <2>3 DEF SvcStart, t, r
<1> QED BY <1>5, <1>6, <1>7, <1>8 DEF TypeInv, TypeOK

LEMMA ReadResultType ==
  ASSUME TypeInv, NEW c \in Clients, ReadResult(c)
  PROVE  TypeInv'
<1> DEFINE k == cli[c]
<1>1. k \in ClientType /\ k.tid \in Tids /\ k.req \in Requests /\ result[k.tid] \in ChannelType
  BY DEF ReadResult, TypeInv, TypeOK, ClientsHeld, ClientType, TrafficType
<1>2. \A o \in Final \cup {"unfinished"} :
        /\ [k EXCEPT !.pc = "completing", !.out = o] \in ClientType
        /\ [k EXCEPT !.pc = "completing", !.out = o].req = k.req
  BY <1>1 DEF ClientType
<1>3. [k EXCEPT !.pc = "getting"] \in ClientType /\ [k EXCEPT !.pc = "getting"].req = k.req
  BY <1>1 DEF ClientType
<1>4. PICK m \in ClientType : cli' = [cli EXCEPT ![c] = m] /\ m.req = k.req
  <2>1. CASE result[k.tid].buf # <<>>
    BY <1>2, <1>3, <2>1 DEF ReadResult, Final
  <2>2. CASE result[k.tid].buf = <<>>
    <3> DEFINE o == IF k.req.op = "create" THEN "unfinished" ELSE "ok"
               m == [k EXCEPT !.pc = "completing", !.out = o]
    <3>1. cli' = [cli EXCEPT ![c] = m]
      BY <2>2 DEF ReadResult
    <3>2. o \in Final \cup {"unfinished"}
      BY DEF Final
    <3> HIDE DEF o
    <3>3. m \in ClientType /\ m.req = k.req
      BY <1>2, <3>2
    <3> QED BY <3>1, <3>3
  <2> QED BY <2>1, <2>2
<1>5. cli' \in [Clients -> ClientType] /\ ClientsHeld'
  BY <1>1, <1>4 DEF TypeInv, TypeOK, ClientsHeld
<1>6. result' \in [Tids -> ChannelType]
  <2>1. result' = result \/ (/\ result[k.tid].buf # <<>>
                             /\ result' = [result EXCEPT ![k.tid].buf = Tail(@)])
    BY DEF ReadResult
  <2>2. result \in [Tids -> ChannelType]
    BY DEF TypeInv, TypeOK, TrafficType
  <2>3. CASE result[k.tid].buf # <<>> /\ result' = [result EXCEPT ![k.tid].buf = Tail(@)]
    <3>1. [result[k.tid] EXCEPT !.buf = Tail(@)] \in ChannelType
      BY <1>1, <2>3, ChannelSteps DEF Final
    <3>2. result' = [result EXCEPT ![k.tid] = [result[k.tid] EXCEPT !.buf = Tail(@)]]
      BY <2>3
    <3> QED BY <1>1, <2>2, <3>1, <3>2
  <2> QED BY <2>1, <2>2, <2>3
<1> QED BY <1>5, <1>6 DEF ReadResult, TypeInv, TypeOK, ServiceHeld, LoopsHeld, ServiceType,
          TableType, RegistryType, TrafficType, ProcessType, service, table, registry, process

LEMMA SvcCompleteType ==
  ASSUME TypeInv, NEW c \in Clients, SvcComplete(c)
  PROVE  TypeInv'
<1> DEFINE k == cli[c]
           m == Answered(k)
<1>1. k \in ClientType /\ k.tid \in Tids /\ k.req \in Requests
  BY DEF SvcComplete, ShutdownTimer, TypeInv, TypeOK, ClientsHeld, ClientType
<1>2. m \in ClientType /\ m.req = k.req
  <2>1. [k EXCEPT !.pc = "idle"] \in ClientType /\ [k EXCEPT !.pc = "idle"].req = k.req
    BY <1>1 DEF ClientType
  <2>2. /\ [k EXCEPT !.pc = "getting", !.out = None] \in ClientType
        /\ [k EXCEPT !.pc = "getting", !.out = None].req = k.req
    BY <1>1 DEF ClientType
  <2> QED BY <2>1, <2>2 DEF Answered
<1>3. cli' = [cli EXCEPT ![c] = m] \/ cli' = cli
  BY DEF SvcComplete
<1> HIDE DEF m
<1>4. cli' \in [Clients -> ClientType] /\ ClientsHeld'
  BY <1>1, <1>2, <1>3 DEF TypeInv, TypeOK, ClientsHeld
<1>5. TableType' /\ ServiceType' /\ ServiceHeld'
  BY DEF SvcComplete, ShutdownTimer, TypeInv, TypeOK, TableType, ServiceType, ServiceHeld
<1> QED BY <1>4, <1>5 DEF SvcComplete, TypeInv, TypeOK, LoopsHeld, RegistryType, TrafficType,
          ProcessType, registry, traffic, process

LEMMA SvcCancelType ==
  ASSUME TypeInv, NEW c \in Clients, SvcCancel(c)
  PROVE  TypeInv'
<1>1. [cli[c] EXCEPT !.cancel = "sent"] \in ClientType
  BY DEF TypeInv, TypeOK, ClientType
<1>2. cli' \in [Clients -> ClientType] /\ ClientsHeld'
  BY <1>1 DEF SvcCancel, TypeInv, TypeOK, ClientsHeld
<1>3. TrafficType'
  BY DEF SvcCancel, TypeInv, TypeOK, TrafficType, TableType
<1> QED BY <1>2, <1>3 DEF SvcCancel, TypeInv, TypeOK, ServiceHeld, LoopsHeld, ServiceType,
          TableType, RegistryType, ProcessType, service, table, registry, process

LEMMA SvcReapType ==
  ASSUME TypeInv, NEW l \in Loops, SvcReap(l)
  PROVE  TypeInv'
<1> DEFINE n == loop[l].name
           i == instances[n]
<1>1. loop[l].name \in Names \cup {NoName} /\ loop \in [Loops -> LoopType] /\ RegistryType
  BY DEF TypeInv, TypeOK, LoopType
<1>2. CASE i # None /\ ~loop[i].chClosed
  <2>1. loop' = [loop EXCEPT ![i].chClosed = TRUE]
    BY <1>2 DEF SvcReap, ForgetInstance
  <2>2. loop' \in [Loops -> LoopType] /\ LoopsHeld'
    <3>1. CASE i \in Loops
      <4> DEFINE k == [loop[i] EXCEPT !.chClosed = TRUE]
      <4>1. loop[i] \in LoopType
        BY <1>1, <3>1
      <4>2. /\ k \in LoopType /\ k.pc = loop[i].pc /\ k.cmd = loop[i].cmd
            /\ k.fn = loop[i].fn /\ k.create = loop[i].create /\ k.name = loop[i].name
        BY <4>1 DEF LoopType
      <4>3. loop' = [loop EXCEPT ![i] = k]
        BY <2>1
      <4> HIDE DEF k, i
      <4> QED BY <3>1, <4>2, <4>3, LoopChange DEF TypeInv, LoopsHeld
    <3>2. CASE i \notin Loops
      <4>1. loop' = loop
        BY <1>1, <2>1, <3>2
      <4> QED BY <4>1 DEF TypeInv, TypeOK, LoopsHeld
    <3> QED BY <3>1, <3>2
  <2>3. RegistryType'
    BY <1>1, <1>2 DEF SvcReap, ForgetInstance, RegistryType
  <2> QED BY <1>2, <2>2, <2>3 DEF SvcReap, ForgetInstance, TypeInv, TypeOK, ServiceHeld, ClientsHeld,
            ServiceType, TableType, TrafficType, ProcessType, table, traffic, process
<1>3. CASE ~(i # None /\ ~loop[i].chClosed)
  BY <1>3 DEF SvcReap, ForgetInstance, TypeInv, TypeOK, ServiceHeld, LoopsHeld, ClientsHeld, ServiceType,
     TableType, RegistryType, TrafficType, ProcessType, table, traffic, process
<1> QED BY <1>2, <1>3

-----------------------------------------------------------------------------
\* The steps of the loops.

\* A step of loop l that touches nothing but the loops, the result channels,
\* the history of successes and the command in the service's hands.
LEMMA LoopStepType ==
  ASSUME TypeInv, NEW l \in Loops, NEW k \in LoopType,
         loop' = [loop EXCEPT ![l] = k],
         k.pc = "running" => k.cmd \in Tids,
         k.fn # "none" => k.create \in Tids,
         k.pc \in {"returning", "lastReturn"} => k.fn \in Final,
         k.pc # "unused" => k.name \in Names,
         result' \in [Tids -> ChannelType], succeeded' \subseteq Tids,
         ServiceType', ServiceHeld',
         UNCHANGED <<table, registry, op, cancelled, cli, process>>
  PROVE  TypeInv'
<1>1. loop' \in [Loops -> LoopType] /\ LoopsHeld'
  BY LoopChange
<1> QED BY <1>1 DEF TypeInv, TypeOK, ClientsHeld, TableType, RegistryType, TrafficType,
          ProcessType, table, registry, process

LEMMA SuccessType ==
  ASSUME TypeInv, NEW t \in Tids, NEW v PROVE Success(t, v) \subseteq Tids
BY DEF TypeInv, TypeOK, TrafficType, Success

LEMMA ReplyType ==
  ASSUME TypeInv, NEW t \in Tids, NEW v \in Final \cup {"line"}
  PROVE  /\ [result EXCEPT ![t] = Reply(@, v)] \in [Tids -> ChannelType]
         /\ [result EXCEPT ![t] = Sent(@, v)] \in [Tids -> ChannelType]
BY ChannelSteps DEF TypeInv, TypeOK, TrafficType

LEMMA LoopReceiveType ==
  ASSUME TypeInv, NEW l \in Loops, LoopReceive(l)
  PROVE  TypeInv'
<1> DEFINE t == cur
           k == loop[l]
<1>1. t \in Tids /\ k \in LoopType /\ k.pc = "select" /\ loop \in [Loops -> LoopType]
  BY DEF LoopReceive, Refuses, TypeInv, TypeOK, ServiceHeld
<1>2. k.name \in Names /\ (k.fn # "none" => k.create \in Tids)
  BY <1>1 DEF TypeInv, LoopsHeld
<1>3. ServiceType' /\ ServiceHeld'
  BY DEF LoopReceive, Refuses, TypeInv, TypeOK, ServiceType, ServiceHeld
<1>4. result \in [Tids -> ChannelType] /\ succeeded \subseteq Tids
  BY DEF TypeInv, TypeOK, TrafficType
<1>5. UNCHANGED <<table, registry, op, cancelled, cli, process>> /\ succeeded' = succeeded
  BY DEF LoopReceive, Refuses
<1>6. CASE result' = [result EXCEPT ![t] = Reply(@, "err")] /\ loop' = loop
  <2>1. result' \in [Tids -> ChannelType] /\ loop' = [loop EXCEPT ![l] = k]
    BY <1>1, <1>6, ReplyType DEF Final
  <2> QED BY <1>1, <1>2, <1>3, <1>4, <1>5, <2>1, LoopStepType
<1>7. CASE loop' = [loop EXCEPT ![l].create = t, ![l].fn = "running"] /\ result' = result
  <2> DEFINE m == [k EXCEPT !.create = t, !.fn = "running"]
  <2>1. m \in LoopType /\ m.pc = "select" /\ m.create = t /\ m.name = k.name
    BY <1>1 DEF LoopType
  <2>2. loop' = [loop EXCEPT ![l] = m]
    BY <1>7
  <2> HIDE DEF m
  <2> QED BY <1>1, <1>2, <1>3, <1>4, <1>5, <1>7, <2>1, <2>2, LoopStepType
<1>8. CASE /\ loop' = [loop EXCEPT ![l].pc = "running", ![l].cmd = t]
           /\ result' = result /\ k.fn = "none"
  <2> DEFINE m == [k EXCEPT !.pc = "running", !.cmd = t]
  <2>1. m \in LoopType /\ m.pc = "running" /\ m.cmd = t /\ m.name = k.name /\ m.fn = "none"
    BY <1>1, <1>8 DEF LoopType
  <2>2. loop' = [loop EXCEPT ![l] = m]
    BY <1>8
  <2>3. result' \in [Tids -> ChannelType] /\ succeeded' \subseteq Tids
    BY <1>4, <1>5, <1>8
  <2> HIDE DEF m
  <2> QED BY <1>1, <1>2, <1>3, <1>5, <2>1, <2>2, <2>3, LoopStepType
<1> QED BY <1>6, <1>7, <1>8 DEF LoopReceive, Refuses

LEMMA CommandDoneType ==
  ASSUME TypeInv, NEW l \in Loops, NEW v \in Final, CommandDone(l, v)
  PROVE  TypeInv'
<1> DEFINE k == loop[l]
<1>1. k \in LoopType /\ loop \in [Loops -> LoopType] /\ ServiceType /\ ServiceHeld
  BY DEF TypeInv, TypeOK
<1>2. result \in [Tids -> ChannelType] /\ succeeded \subseteq Tids
  BY DEF TypeInv, TypeOK, TrafficType
<1>3. ServiceType' /\ ServiceHeld'
  BY <1>1 DEF CommandDone, service, ServiceType, ServiceHeld
<1> DEFINE gone == op[k.cmd] = "delete" /\ v = "ok"
           m == [k EXCEPT !.pc = "select", !.cmd = None, !.deleted = gone]
<1>4. k.pc = "running" /\ k.cmd \in Tids /\ k.name \in Names /\ (k.fn # "none" => k.create \in Tids)
  BY DEF CommandDone, TypeInv, LoopsHeld
<1>5. gone \in BOOLEAN
  OBVIOUS
<1>6. loop' = [loop EXCEPT ![l] = m]
  BY DEF CommandDone
<1> HIDE DEF gone
<1>7. /\ m \in LoopType /\ m.pc = "select" /\ m.name = k.name
      /\ m.fn = k.fn /\ m.create = k.create
  BY <1>1, <1>5 DEF LoopType
<1>8. result' \in [Tids -> ChannelType] /\ succeeded' \subseteq Tids
  BY <1>4, ReplyType, SuccessType DEF CommandDone
<1>9. UNCHANGED <<table, registry, op, cancelled, cli, process>>
  BY DEF CommandDone
<1> HIDE DEF m
<1> QED BY <1>3, <1>4, <1>6, <1>7, <1>8, <1>9, LoopStepType

LEMMA CreateLineType ==
  ASSUME TypeInv, NEW l \in Loops, CreateLine(l)
  PROVE  TypeInv'
<1> DEFINE k == loop[l]
<1>1. k \in LoopType /\ loop \in [Loops -> LoopType] /\ ServiceType /\ ServiceHeld
  BY DEF TypeInv, TypeOK
<1>2. result \in [Tids -> ChannelType] /\ succeeded \subseteq Tids
  BY DEF TypeInv, TypeOK, TrafficType
<1>3. ServiceType' /\ ServiceHeld'
  BY <1>1 DEF CreateLine, service, ServiceType, ServiceHeld
<1> DEFINE m == [k EXCEPT !.lines = k.lines + 1]
<1>4. /\ k.pc = "running" => k.cmd \in Tids
      /\ k.create \in Tids
      /\ k.pc \in {"returning", "lastReturn"} => k.fn \in Final
      /\ k.pc # "unused" => k.name \in Names
  BY DEF CreateLine, TypeInv, LoopsHeld
<1>5. k.lines + 1 \in 0 .. MaxLines
  BY <1>1, Bounds DEF CreateLine, LoopType
<1>6. loop' = [loop EXCEPT ![l] = m]
  BY DEF CreateLine
<1>7. /\ m \in LoopType /\ m.pc = k.pc /\ m.name = k.name
      /\ m.fn = k.fn /\ m.create = k.create /\ m.cmd = k.cmd
  BY <1>1, <1>5 DEF LoopType
<1>8. result' \in [Tids -> ChannelType] /\ succeeded' \subseteq Tids
  BY <1>2, <1>4, ReplyType DEF CreateLine
<1>9. UNCHANGED <<table, registry, op, cancelled, cli, process>>
  BY DEF CreateLine
<1> HIDE DEF m
<1> QED BY <1>3, <1>4, <1>6, <1>7, <1>8, <1>9, LoopStepType

LEMMA CreateDoneType ==
  ASSUME TypeInv, NEW l \in Loops, NEW v \in Final, CreateDone(l, v)
  PROVE  TypeInv'
<1> DEFINE k == loop[l]
<1>1. k \in LoopType /\ loop \in [Loops -> LoopType] /\ ServiceType /\ ServiceHeld
  BY DEF TypeInv, TypeOK
<1>2. result \in [Tids -> ChannelType] /\ succeeded \subseteq Tids
  BY DEF TypeInv, TypeOK, TrafficType
<1>3. ServiceType' /\ ServiceHeld'
  BY <1>1 DEF CreateDone, service, ServiceType, ServiceHeld
<1> DEFINE m == [k EXCEPT !.fn = v]
<1>4. /\ k.pc = "running" => k.cmd \in Tids
      /\ k.create \in Tids
      /\ k.pc # "unused" => k.name \in Names
  BY DEF CreateDone, TypeInv, LoopsHeld
<1>5. loop' = [loop EXCEPT ![l] = m]
  BY DEF CreateDone
<1>6. /\ m \in LoopType /\ m.pc = k.pc /\ m.name = k.name
      /\ m.fn = v /\ m.create = k.create /\ m.cmd = k.cmd
  BY <1>1 DEF LoopType
<1>7. result' \in [Tids -> ChannelType] /\ succeeded' \subseteq Tids
  BY <1>2, <1>4, SuccessType DEF CreateDone
<1>8. UNCHANGED <<table, registry, op, cancelled, cli, process>>
  BY DEF CreateDone
<1> HIDE DEF m
<1> QED BY <1>3, <1>4, <1>5, <1>6, <1>7, <1>8, LoopStepType

LEMMA LoopCreateResultType ==
  ASSUME TypeInv, NEW l \in Loops, LoopCreateResult(l)
  PROVE  TypeInv'
<1> DEFINE k == loop[l]
<1>1. k \in LoopType /\ loop \in [Loops -> LoopType] /\ ServiceType /\ ServiceHeld
  BY DEF TypeInv, TypeOK
<1>2. result \in [Tids -> ChannelType] /\ succeeded \subseteq Tids
  BY DEF TypeInv, TypeOK, TrafficType
<1>3. ServiceType' /\ ServiceHeld'
  BY <1>1 DEF LoopCreateResult, service, ServiceType, ServiceHeld
<1> DEFINE p == IF k.pc = "select" THEN "returning" ELSE "lastReturn"
           m == [k EXCEPT !.pc = p]
<1>4. k.fn \in Final /\ k.create \in Tids /\ k.name \in Names
  BY DEF LoopCreateResult, TypeInv, LoopsHeld, Final
<1>5. loop' = [loop EXCEPT ![l] = m]
  BY DEF LoopCreateResult
<1>6. p \in {"returning", "lastReturn"}
  OBVIOUS
<1> HIDE DEF p
<1>7. m \in LoopType /\ m.pc = p /\ m.name = k.name /\ m.fn = k.fn /\ m.create = k.create
  BY <1>1, <1>6 DEF LoopType
<1>8. UNCHANGED <<table, registry, op, cancelled, cli, process, result, succeeded>>
  BY DEF LoopCreateResult, traffic
<1> HIDE DEF m
<1> QED BY <1>2, <1>3, <1>4, <1>5, <1>6, <1>7, <1>8, LoopStepType

LEMMA LoopReturnType ==
  ASSUME TypeInv, NEW l \in Loops, LoopReturn(l)
  PROVE  TypeInv'
<1> DEFINE k == loop[l]
<1>1. k \in LoopType /\ loop \in [Loops -> LoopType] /\ ServiceType /\ ServiceHeld
  BY DEF TypeInv, TypeOK
<1>2. result \in [Tids -> ChannelType] /\ succeeded \subseteq Tids
  BY DEF TypeInv, TypeOK, TrafficType
<1>3. ServiceType' /\ ServiceHeld'
  BY <1>1 DEF LoopReturn, service, ServiceType, ServiceHeld
<1> DEFINE gone == k.deleted \/ k.fn = "err"
           m1 == [k EXCEPT !.pc = "select", !.fn = "none", !.deleted = gone]
           m2 == [k EXCEPT !.pc = "exited", !.fn = "none"]
<1>4. k.fn \in Final /\ k.create \in Tids /\ k.name \in Names
  BY DEF LoopReturn, TypeInv, LoopsHeld, Final
<1>5. gone \in BOOLEAN
  OBVIOUS
<1>6. \/ loop' = [loop EXCEPT ![l] = m1]
      \/ loop' = [loop EXCEPT ![l] = m2]
  BY DEF LoopReturn
<1> HIDE DEF gone
<1>7. /\ m1 \in LoopType /\ m1.pc = "select" /\ m1.name = k.name /\ m1.fn = "none"
      /\ m2 \in LoopType /\ m2.pc = "exited" /\ m2.name = k.name /\ m2.fn = "none"
  BY <1>1, <1>5 DEF LoopType
<1>8. result' \in [Tids -> ChannelType]
  BY <1>4, ReplyType DEF LoopReturn
<1>9. UNCHANGED <<table, registry, op, cancelled, cli, process, succeeded>>
  BY DEF LoopReturn
<1> HIDE DEF m1, m2
<1> QED BY <1>2, <1>3, <1>4, <1>6, <1>7, <1>8, <1>9, LoopStepType

LEMMA LoopClosedType ==
  ASSUME TypeInv, NEW l \in Loops, LoopClosed(l)
  PROVE  TypeInv'
<1> DEFINE k == loop[l]
<1>1. k \in LoopType /\ loop \in [Loops -> LoopType] /\ ServiceType /\ ServiceHeld
  BY DEF TypeInv, TypeOK
<1>2. result \in [Tids -> ChannelType] /\ succeeded \subseteq Tids
  BY DEF TypeInv, TypeOK, TrafficType
<1>3. ServiceType' /\ ServiceHeld'
  BY <1>1 DEF LoopClosed, service, ServiceType, ServiceHeld
<1> DEFINE p == IF k.fn = "none" THEN "exited" ELSE "leaving"
           m == [k EXCEPT !.pc = p]
<1>4. (k.fn # "none" => k.create \in Tids) /\ k.name \in Names
  BY DEF LoopClosed, TypeInv, LoopsHeld
<1>5. loop' = [loop EXCEPT ![l] = m]
  BY DEF LoopClosed
<1>6. p \in {"exited", "leaving"}
  OBVIOUS
<1> HIDE DEF p
<1>7. m \in LoopType /\ m.pc = p /\ m.name = k.name /\ m.fn = k.fn /\ m.create = k.create
  BY <1>1, <1>6 DEF LoopType
<1>8. UNCHANGED <<table, registry, op, cancelled, cli, process, result, succeeded>>
  BY DEF LoopClosed, traffic
<1> HIDE DEF m
<1> QED BY <1>2, <1>3, <1>4, <1>5, <1>6, <1>7, <1>8, LoopStepType

-----------------------------------------------------------------------------
\* The steps of the shutdown.

LEMMA DrainType ==
  ASSUME TypeInv, SvcDone \/ (\E t \in Tids : DrainNext(t)) \/ SvcFinish
  PROVE  TypeInv'
<1>1. ServiceType' /\ ServiceHeld' /\ TableType'
  BY DEF SvcDone, DrainNext, SvcFinish, TypeInv, TypeOK, ServiceType, ServiceHeld, TableType,
         table
<1>2. TrafficType'
  BY DEF SvcDone, DrainNext, SvcFinish, TypeInv, TypeOK, TrafficType, traffic
<1> QED BY <1>1, <1>2 DEF SvcDone, DrainNext, SvcFinish, TypeInv, TypeOK, LoopsHeld, ClientsHeld,
          RegistryType, ProcessType, registry, process

LEMMA DrainReceiveType ==
  ASSUME TypeInv, DrainReceive
  PROVE  TypeInv'
<1>1. cur \in Tids /\ result \in [Tids -> ChannelType] /\ TrafficType
  BY DEF DrainReceive, TypeInv, TypeOK, ServiceType, TrafficType
<1>2. result' \in [Tids -> ChannelType]
  <2>1. CASE result[cur].buf # <<>> /\ result' = [result EXCEPT ![cur].buf = Tail(@)]
    <3>1. [result[cur] EXCEPT !.buf = Tail(@)] \in ChannelType
      BY <1>1, <2>1, ChannelSteps DEF Final
    <3>2. result' = [result EXCEPT ![cur] = [result[cur] EXCEPT !.buf = Tail(@)]]
      BY <2>1
    <3> QED BY <1>1, <3>1, <3>2
  <2> QED BY <1>1, <2>1 DEF DrainReceive
<1>3. ServiceType' /\ ServiceHeld'
  BY DEF DrainReceive, TypeInv, TypeOK, ServiceType, ServiceHeld
<1>4. TrafficType'
  BY <1>1, <1>2 DEF DrainReceive, TrafficType
<1> QED BY <1>3, <1>4 DEF DrainReceive, TypeInv, TypeOK, LoopsHeld, ClientsHeld, TableType,
          RegistryType, ProcessType, table, registry, process

LEMMA CloseLoopsType ==
  ASSUME TypeInv, CloseLoops
  PROVE  TypeInv'
<1>1. \A l \in Loops : [loop[l] EXCEPT !.chClosed = TRUE] \in LoopType
  BY DEF TypeInv, TypeOK, LoopType
<1>2. \A l \in Loops : /\ loop'[l] \in LoopType /\ loop'[l].pc = loop[l].pc
                       /\ loop'[l].cmd = loop[l].cmd /\ loop'[l].fn = loop[l].fn
                       /\ loop'[l].create = loop[l].create /\ loop'[l].name = loop[l].name
  BY <1>1 DEF CloseLoops, TypeInv, TypeOK, LoopType
<1>3. loop' \in [Loops -> LoopType]
  BY <1>2 DEF CloseLoops
<1>4. LoopsHeld'
  BY <1>2 DEF TypeInv, LoopsHeld
<1>5. ServiceType' /\ ServiceHeld'
  BY DEF CloseLoops, TypeInv, TypeOK, ServiceType, ServiceHeld
<1> QED BY <1>3, <1>4, <1>5 DEF CloseLoops, TypeInv, TypeOK, ClientsHeld, TableType,
          RegistryType, TrafficType, ProcessType, table, registry, traffic, process

LEMMA MainType ==
  ASSUME TypeInv, Signal \/ MainFinished \/ ManagerReturns
  PROVE  TypeInv'
<1>1. ProcessType'
  BY Bounds DEF Signal, MainFinished, ManagerReturns, TypeInv, TypeOK, ProcessType
<1> QED BY <1>1 DEF Signal, MainFinished, ManagerReturns, TypeInv, TypeOK, ServiceHeld, LoopsHeld,
          ClientsHeld, ServiceType, TableType, RegistryType, TrafficType, service, table, registry, traffic

LEMMA MainExitType ==
  ASSUME TypeInv, MainExit
  PROVE  TypeInv'
<1>1. ASSUME NEW c \in Clients
      PROVE  cli'[c] \in ClientType /\ (cli'[c].pc # "idle" => cli'[c].req \in Requests)
  <2> DEFINE k == cli[c]
             p == IF k.pc = "dead" THEN "dead" ELSE "idle"
             o == IF k.pc \in {"idle", "dead"} THEN k.out ELSE "err"
             q == IF k.cancel = "wanted" THEN "sent" ELSE k.cancel
             m == [k EXCEPT !.pc = p, !.out = o, !.cancel = q]
  <2>1. cli'[c] = m
    BY DEF MainExit
  <2>2. k \in ClientType /\ (k.pc # "idle" => k.req \in Requests)
    BY DEF TypeInv, TypeOK, ClientsHeld
  <2>3. /\ p \in {"idle", "dead"} /\ o \in Final \cup {None, "unfinished"}
        /\ q \in {"no", "wanted", "sent"} /\ (p # "idle" => k.pc # "idle")
    BY <2>2 DEF ClientType, Final
  <2> HIDE DEF p, o, q
  <2>4. m \in ClientType /\ m.pc = p /\ m.req = k.req
    BY <2>2, <2>3 DEF ClientType
  <2> HIDE DEF m
  <2> QED BY <2>1, <2>2, <2>3, <2>4
<1>2. cli' \in [Clients -> ClientType] /\ ClientsHeld'
  BY <1>1 DEF MainExit, ClientsHeld
<1>3. ProcessType'
  BY DEF MainExit, TypeInv, TypeOK, ProcessType
<1> QED BY <1>2, <1>3 DEF MainExit, TypeInv, TypeOK, ServiceHeld, LoopsHeld, ServiceType,
          TableType, RegistryType, TrafficType, service, table, registry, traffic

LEMMA StutterType == ASSUME TypeInv, UNCHANGED vars PROVE TypeInv'
BY DEF vars, service, table, registry, traffic, process, TypeInv, TypeOK, ServiceHeld, LoopsHeld,
       ClientsHeld, ServiceType, TableType, RegistryType, TrafficType, ProcessType

LEMMA NextType == TypeInv /\ [Next]_vars => TypeInv'
<1> SUFFICES ASSUME TypeInv, [Next]_vars PROVE TypeInv'
  OBVIOUS
<1>1. ASSUME NEW c \in Clients,
             \/ \E r \in Requests : Issue(c, r)
             \/ WantCancel(c) \/ ClientDie(c) \/ ReadResult(c)
             \/ StartSignalled(c) \/ ResultSignalled(c) \/ CancelSignalled(c)
             \/ SvcStart(c) \/ SvcGetResult(c) \/ SvcComplete(c) \/ SvcCancel(c)
      PROVE  TypeInv'
  BY <1>1, IssueType, ClientStepsType, ReadResultType, SvcStartType, SvcCompleteType, SvcCancelType
<1>2. ASSUME NEW l \in Loops,
             \/ SvcReap(l) \/ LoopReceive(l) \/ LoopCreateResult(l) \/ LoopReturn(l)
             \/ LoopClosed(l) \/ CreateLine(l)
             \/ \E v \in Final : CommandDone(l, v) \/ CreateDone(l, v)
      PROVE  TypeInv'
  BY <1>2, SvcReapType, LoopReceiveType, LoopCreateResultType, LoopReturnType, LoopClosedType,
     CreateLineType, CommandDoneType, CreateDoneType
<1>3. CASE \/ \E t \in Tids : DrainNext(t)
           \/ SvcDone \/ DrainReceive \/ CloseLoops \/ SvcFinish
           \/ Signal \/ MainFinished \/ ManagerReturns \/ MainExit
  BY <1>3, DrainType, DrainReceiveType, CloseLoopsType, MainType, MainExitType
<1> QED BY <1>1, <1>2, <1>3, StutterType DEF Next

\* Every variable has its type, for every number of clients, transactions,
\* directories and signals.
THEOREM TypeCorrect == Spec => []TypeOK
<1>1. TypeInv => TypeOK
  BY DEF TypeInv
<1> QED BY InitType, NextType, <1>1, PTL DEF Spec

-----------------------------------------------------------------------------
(***************************************************************************)
(* The registry.  LiveRegistered is not inductive: the reaping of a loop   *)
(* must be known to remove that loop and no other, so the maps instances   *)
(* and watched must be inverses of each other; a new loop must be known to *)
(* be unused; and a deleted loop must be known to be idle.                 *)
(***************************************************************************)

\* The phases in which the service has not yet closed the loops' channels.
Serving == svcPc \in {"select", "sending", "draining"}

WatchedRegistered ==
  \A l \in watched : loop[l].pc # "unused" /\ instances[loop[l].name] = l

RegisteredWatched ==
  \A n \in Names : instances[n] # None =>
    instances[n] \in watched /\ loop[instances[n]].name = n

LiveWatched == \A l \in Loops : Live(l) => l \in watched

OpenWhileServing == Serving => \A l \in watched : ~loop[l].chClosed

FutureUnused == \A l \in Loops : l >= counter => loop[l].pc = "unused"

BusyLive ==
  \A l \in Loops :
    /\ loop[l].pc \in {"running", "returning"} => ~loop[l].deleted
    /\ loop[l].fn # "none" => ~loop[l].deleted /\ loop[l].pc \notin {"unused", "running"}

RegistryInv == /\ WatchedRegistered /\ RegisteredWatched /\ LiveWatched
               /\ OpenWhileServing /\ FutureUnused /\ BusyLive

\* A creation that is to find its name finds one that is not in use: the only
\* step that can spoil the registry is the one that does not.
NameLeft ==
  \A c \in Clients :
    SvcStart(c) /\ cli[c].req.op = "create" /\ cli[c].req.name = NoName
    /\ ~CreateFails(cli[c].req) => FreeNames # {}

NamesLast == [][NameLeft]_vars

\* The generator knows more distinct names than there are ever loops: 756
\* names in the code.
EnoughNames ==
  /\ NameCount > MaxDisk + MaxTrans
  /\ \A i, j \in 0 .. NameCount - 1 : NameOrder[i] = NameOrder[j] => i = j

LEMMA FreeNameExists ==
  ASSUME EnoughNames, TypeInv, RegisteredWatched
  PROVE  FreeNames # {}
<1> SUFFICES ASSUME FreeNames = {} PROVE FALSE
  OBVIOUS
<1>1. gen \in 0 .. NameCount - 1 /\ instances \in [Names -> Loops \cup {None}]
  BY DEF TypeInv, TypeOK, RegistryType
<1> DEFINE S == 0 .. NameCount - 1
           f == [k \in S |-> instances[NameAt(k)]]
<1>2. \A k \in S : Wrap(gen + k) \in S /\ NameAt(k) \in Names /\ NameAt(k) = NameOrder[Wrap(gen + k)]
  BY <1>1, WrapType, Bounds DEF NameAt
<1>3. f \in [S -> Loops]
  BY <1>1, <1>2 DEF FreeNames
<1>4. Cardinality(Loops) < Cardinality(S) /\ IsFiniteSet(Loops) /\ IsFiniteSet(S)
  <2>1. Cardinality(S) = NameCount /\ IsFiniteSet(S)
    BY Bounds, FS_Interval
  <2>2. Cardinality(Loops) = MaxDisk + MaxTrans /\ IsFiniteSet(Loops)
    BY Bounds, FS_Interval DEF Loops
  <2> QED BY <2>1, <2>2 DEF EnoughNames
<1>5. PICK i, j \in S : i # j /\ f[i] = f[j]
  <2> HIDE DEF S, f
  <2> QED BY <1>3, <1>4, FS_PigeonHole
<1>6. instances[NameAt(i)] = instances[NameAt(j)] /\ instances[NameAt(i)] # None
  BY <1>2, <1>5 DEF FreeNames
<1>7. NameAt(i) = NameAt(j)
  BY <1>2, <1>6 DEF RegisteredWatched
<1>8. Wrap(gen + i) = Wrap(gen + j)
  BY <1>2, <1>7 DEF EnoughNames
<1> QED BY <1>1, <1>5, <1>8, Bounds DEF Wrap

\* A step that keeps the registry, and of every loop its name, whether it is
\* in use, its deletion, and its channel open while the service is serving.
LEMMA RegistryFrame ==
  ASSUME TypeInv, RegistryInv, UNCHANGED <<instances, watched>>,
         counter' \in Int, counter' >= counter, Serving' => Serving,
         \A l \in Loops :
           /\ loop'[l].name = loop[l].name
           /\ loop'[l].pc = "unused" <=> loop[l].pc = "unused"
           /\ loop[l].deleted => loop'[l].deleted
           /\ loop'[l].chClosed => loop[l].chClosed \/ ~Serving'
  PROVE  /\ WatchedRegistered' /\ RegisteredWatched' /\ LiveWatched'
         /\ OpenWhileServing' /\ FutureUnused'
<1>1. watched \subseteq Loops /\ instances \in [Names -> Loops \cup {None}] /\ counter \in Int
  BY Bounds DEF TypeInv, TypeOK, RegistryType, TableType
<1>2. WatchedRegistered' /\ OpenWhileServing'
  BY <1>1 DEF RegistryInv, WatchedRegistered, OpenWhileServing
<1>3. RegisteredWatched'
  BY <1>1 DEF RegistryInv, RegisteredWatched
<1>4. LiveWatched'
  BY <1>1 DEF RegistryInv, LiveWatched, Live
<1>5. FutureUnused'
  BY <1>1 DEF RegistryInv, FutureUnused, Loops
<1> QED BY <1>2, <1>3, <1>4, <1>5

LEMMA InitRegistry == Init => RegistryInv
<1> SUFFICES ASSUME Init PROVE RegistryInv
  OBVIOUS
<1>1. PICK d \in Disks :
         LET known == {-i : i \in Taken(d)} IN
         /\ instances = [n \in Names |->
                           IF \E l \in known : d[-l].name = n
                           THEN CHOOSE l \in known : d[-l].name = n
                           ELSE None]
         /\ watched = known
         /\ hostIPs = {d[-l].ip : l \in known}
         /\ loop = [l \in Loops |-> IF l \in known THEN NewLoop(d[-l].name, d[-l].ip)
                                                   ELSE UnusedLoop]
  BY DEF Init
<1> DEFINE known == {-i : i \in Taken(d)}
<1>2. \A l \in known : l \in Loops /\ d[-l].name \in Names /\ l < 0
  <2>1. \A i \in Taken(d) : -(-i) = i /\ -i < 0
    BY DEF Taken
  <2> QED BY <2>1, TakenType
<1>3. \A l, m \in known : d[-l].name = d[-m].name => l = m
  <2> SUFFICES ASSUME NEW i \in Taken(d), NEW j \in Taken(d), d[i].name = d[j].name
               PROVE  i = j
    BY DEF Taken
  <2>1. i \in 1 .. Len(d) /\ j \in 1 .. Len(d)
    BY DEF Taken
  <2> QED BY <2>1, DisksAssumption DEF DisksAssumption
<1>4. /\ watched = known /\ counter = 0 /\ None \notin Loops
      /\ \A n \in Names : instances[n] = IF \E l \in known : d[-l].name = n
                                         THEN CHOOSE l \in known : d[-l].name = n
                                         ELSE None
      /\ \A l \in Loops : loop[l] = IF l \in known THEN NewLoop(d[-l].name, d[-l].ip)
                                                   ELSE UnusedLoop
  BY <1>1, SpecialAssumption DEF Init, SpecialAssumption
<1> HIDE DEF known
<1>5. \A l \in known : /\ loop[l].name = d[-l].name /\ loop[l].pc = "select"
                       /\ ~loop[l].chClosed /\ instances[loop[l].name] = l
  <2> SUFFICES ASSUME NEW l \in known
               PROVE  /\ loop[l].name = d[-l].name /\ loop[l].pc = "select"
                      /\ ~loop[l].chClosed /\ instances[loop[l].name] = l
    OBVIOUS
  <2>1. loop[l] = NewLoop(d[-l].name, d[-l].ip)
    BY <1>2, <1>4
  <2>2. loop[l].name = d[-l].name /\ loop[l].pc = "select" /\ ~loop[l].chClosed
    BY <2>1 DEF NewLoop, LoopAt
  <2> DEFINE n == d[-l].name
  <2>3. PICK m : m \in known /\ d[-m].name = n /\ instances[n] = m
    BY <1>2, <1>4
  <2> QED BY <1>3, <2>2, <2>3
<1>6. \A l \in Loops : /\ l \notin known => loop[l].pc = "unused"
                       /\ ~loop[l].deleted /\ loop[l].fn = "none"
                       /\ loop[l].pc \in {"unused", "select"}
  <2>1. UnusedLoop.pc = "unused" /\ ~UnusedLoop.deleted /\ UnusedLoop.fn = "none"
    BY DEF UnusedLoop, LoopAt
  <2>2. \A n, ip : /\ NewLoop(n, ip).pc = "select" /\ ~NewLoop(n, ip).deleted
                   /\ NewLoop(n, ip).fn = "none"
    BY DEF NewLoop, LoopAt
  <2> QED BY <1>4, <2>1, <2>2
<1>7. WatchedRegistered /\ OpenWhileServing
  BY <1>4, <1>5 DEF WatchedRegistered, OpenWhileServing
<1>8. RegisteredWatched
  <2> SUFFICES ASSUME NEW n \in Names, instances[n] # None
               PROVE  instances[n] \in watched /\ loop[instances[n]].name = n
    BY DEF RegisteredWatched
  <2>1. instances[n] \in known /\ d[-instances[n]].name = n
    BY <1>4
  <2> QED BY <1>4, <1>5, <2>1
<1>9. LiveWatched /\ BusyLive
  BY <1>4, <1>6 DEF LiveWatched, Live, BusyLive
<1>10. FutureUnused
  BY <1>2, <1>4, <1>6 DEF FutureUnused, Loops
<1> QED BY <1>7, <1>8, <1>9, <1>10 DEF RegistryInv

\* Steps of clients, handlers and the shutdown that touch neither a loop nor
\* the registry.
LEMMA QuietRegistry ==
  ASSUME TypeInv, RegistryInv, UNCHANGED <<instances, watched, loop, counter>>,
         Serving' => Serving
  PROVE  RegistryInv'
<1>1. counter \in Int
  BY Bounds DEF TypeInv, TypeOK, TableType
<1>2. BusyLive'
  BY DEF RegistryInv, BusyLive
<1> QED BY <1>1, <1>2, RegistryFrame DEF RegistryInv

\* Loop l gets a new record k that keeps it registered.
LEMMA LoopRegistry ==
  ASSUME TypeInv, RegistryInv, UNCHANGED <<instances, watched, counter>>,
         Serving' => Serving, NEW l \in Loops, NEW k, loop' = [loop EXCEPT ![l] = k],
         k.name = loop[l].name, k.chClosed = loop[l].chClosed,
         k.pc = "unused" <=> loop[l].pc = "unused",
         loop[l].deleted => k.deleted,
         k.pc \in {"running", "returning"} => ~k.deleted,
         k.fn # "none" => ~k.deleted /\ k.pc \notin {"unused", "running"}
  PROVE  RegistryInv'
<1>1. counter \in Int /\ loop \in [Loops -> LoopType]
  BY Bounds DEF TypeInv, TypeOK, TableType
<1>2. \A m \in Loops : loop'[m] = IF m = l THEN k ELSE loop[m]
  BY <1>1
<1>3. \A m \in Loops :
        /\ loop'[m].name = loop[m].name
        /\ loop'[m].pc = "unused" <=> loop[m].pc = "unused"
        /\ loop[m].deleted => loop'[m].deleted
        /\ loop'[m].chClosed => loop[m].chClosed \/ ~Serving'
  BY <1>2
<1>4. BusyLive'
  BY <1>2 DEF RegistryInv, BusyLive
<1> QED BY <1>1, <1>3, <1>4, RegistryFrame DEF RegistryInv

LEMMA ClientStepsRegistry ==
  ASSUME TypeInv, RegistryInv, NEW c \in Clients,
         \/ \E r \in Requests : Issue(c, r)
         \/ WantCancel(c) \/ ClientDie(c) \/ ReadResult(c)
         \/ StartSignalled(c) \/ ResultSignalled(c) \/ CancelSignalled(c)
         \/ SvcGetResult(c) \/ SvcComplete(c) \/ SvcCancel(c)
  PROVE  RegistryInv' /\ UNCHANGED instances
<1>1. CASE SvcComplete(c)
  BY <1>1, QuietRegistry DEF SvcComplete, registry, Serving
<1>2. CASE \/ \E r \in Requests : Issue(c, r)
           \/ WantCancel(c) \/ ClientDie(c) \/ ReadResult(c)
           \/ StartSignalled(c) \/ ResultSignalled(c) \/ CancelSignalled(c)
           \/ SvcGetResult(c) \/ SvcCancel(c)
  <2>1. UNCHANGED <<service, table, registry, loop>>
    BY <1>2 DEF Issue, WantCancel, ClientDie, ReadResult, StartSignalled, ResultSignalled,
                CancelSignalled, SvcGetResult, SvcCancel
  <2> QED BY <2>1, QuietRegistry DEF service, table, registry, Serving
<1> QED BY <1>1, <1>2

LEMMA ShutdownRegistry ==
  ASSUME TypeInv, RegistryInv,
         \/ \E t \in Tids : DrainNext(t)
         \/ SvcDone \/ DrainReceive \/ SvcFinish
         \/ Signal \/ MainFinished \/ ManagerReturns \/ MainExit
  PROVE  RegistryInv' /\ UNCHANGED instances
<1>1. UNCHANGED <<instances, watched, loop, counter>>
  BY DEF DrainNext, SvcDone, DrainReceive, SvcFinish, Signal, MainFinished, ManagerReturns,
         MainExit, table, registry
<1>2. Serving' => Serving
  BY DEF DrainNext, SvcDone, DrainReceive, SvcFinish, Signal, MainFinished, ManagerReturns,
         MainExit, service, Serving
<1> QED BY <1>1, <1>2, QuietRegistry

LEMMA CloseLoopsRegistry ==
  ASSUME TypeInv, RegistryInv, CloseLoops
  PROVE  RegistryInv' /\ UNCHANGED instances
<1>1. UNCHANGED <<instances, watched, counter>> /\ ~Serving' /\ counter \in Int
  BY Bounds DEF CloseLoops, table, registry, Serving, TypeInv, TypeOK, TableType
<1>2. ASSUME NEW l \in Loops
      PROVE  /\ loop'[l].name = loop[l].name /\ loop'[l].pc = loop[l].pc
             /\ loop'[l].deleted = loop[l].deleted /\ loop'[l].fn = loop[l].fn
  <2>1. loop'[l] \in {loop[l], [loop[l] EXCEPT !.chClosed = TRUE]} /\ loop[l] \in LoopType
    BY DEF CloseLoops, TypeInv, TypeOK
  <2> QED BY <2>1 DEF LoopType
<1>3. BusyLive'
  BY <1>2 DEF RegistryInv, BusyLive
<1> QED BY <1>1, <1>2, <1>3, RegistryFrame DEF RegistryInv

LEMMA LoopStepsRegistry ==
  ASSUME TypeInv, RegistryInv, NEW l \in Loops,
         \/ LoopReceive(l) \/ LoopCreateResult(l) \/ LoopReturn(l)
         \/ LoopClosed(l) \/ CreateLine(l)
         \/ \E v \in Final : CommandDone(l, v) \/ CreateDone(l, v)
  PROVE  RegistryInv' /\ UNCHANGED instances
<1> DEFINE k == loop[l]
<1>1. k \in LoopType /\ loop \in [Loops -> LoopType]
  BY DEF TypeInv, TypeOK
<1>2. /\ k.pc \in {"running", "returning"} => ~k.deleted
      /\ k.fn # "none" => ~k.deleted /\ k.pc \notin {"unused", "running"}
  BY DEF RegistryInv, BusyLive
<1>3. CASE LoopReceive(l)
  <2>1. UNCHANGED <<instances, watched, counter>> /\ (Serving' => Serving) /\ k.pc = "select"
    BY <1>3 DEF LoopReceive, Refuses, table, registry, Serving
  <2>2. CASE loop' = loop
    BY <2>1, <2>2, QuietRegistry
  <2>3. CASE ~k.deleted /\ loop' = [loop EXCEPT ![l].create = cur, ![l].fn = "running"]
    <3> DEFINE m == [k EXCEPT !.create = cur, !.fn = "running"]
    <3>1. /\ m.pc = "select" /\ m.name = k.name /\ m.deleted = k.deleted
          /\ m.chClosed = k.chClosed
      BY <1>1, <2>1 DEF LoopType
    <3>2. loop' = [loop EXCEPT ![l] = m]
      BY <2>3
    <3> HIDE DEF m
    <3> QED BY <2>1, <2>3, <3>1, <3>2, LoopRegistry
  <2>4. CASE /\ ~k.deleted /\ k.fn = "none"
             /\ loop' = [loop EXCEPT ![l].pc = "running", ![l].cmd = cur]
    <3> DEFINE m == [k EXCEPT !.pc = "running", !.cmd = cur]
    <3>1. /\ m.pc = "running" /\ m.name = k.name /\ ~m.deleted
          /\ m.chClosed = k.chClosed /\ m.fn = "none"
      BY <1>1, <2>4 DEF LoopType
    <3>2. loop' = [loop EXCEPT ![l] = m]
      BY <2>4
    <3> HIDE DEF m
    <3> QED BY <2>1, <2>4, <3>1, <3>2, LoopRegistry
  <2> QED BY <1>3, <2>1, <2>2, <2>3, <2>4 DEF LoopReceive, Refuses
<1>4. ASSUME LoopCreateResult(l) \/ LoopReturn(l) \/ LoopClosed(l) \/ CreateLine(l)
             \/ \E v \in Final : CommandDone(l, v) \/ CreateDone(l, v)
      PROVE  UNCHANGED <<instances, watched, counter>> /\ (Serving' => Serving)
  BY <1>4 DEF LoopCreateResult, LoopReturn, LoopClosed, CreateLine, CommandDone, CreateDone,
              service, table, registry, Serving
<1>5. CASE LoopCreateResult(l)
  <2> DEFINE p == IF k.pc = "select" THEN "returning" ELSE "lastReturn"
             m == [k EXCEPT !.pc = p]
  <2>1. loop' = [loop EXCEPT ![l] = m] /\ k.fn # "none"
    BY <1>5 DEF LoopCreateResult, Final
  <2>2. p \in {"returning", "lastReturn"}
    OBVIOUS
  <2> HIDE DEF p
  <2>3. /\ m.pc = p /\ m.name = k.name /\ m.deleted = k.deleted
        /\ m.chClosed = k.chClosed /\ m.fn = k.fn
    BY <1>1 DEF LoopType
  <2> HIDE DEF m
  <2> QED BY <1>2, <1>4, <1>5, <2>1, <2>2, <2>3, LoopRegistry
<1>6. CASE LoopReturn(l)
  <2> DEFINE gone == k.deleted \/ k.fn = "err"
             m1 == [k EXCEPT !.pc = "select", !.fn = "none", !.deleted = gone]
             m2 == [k EXCEPT !.pc = "exited", !.fn = "none"]
  <2>1. loop' = [loop EXCEPT ![l] = m1] \/ loop' = [loop EXCEPT ![l] = m2]
    BY <1>6 DEF LoopReturn
  <2>2. k.deleted => gone
    OBVIOUS
  <2>3. k.pc # "unused"
    BY <1>6 DEF LoopReturn
  <2> HIDE DEF gone
  <2>4. /\ m1.pc = "select" /\ m1.name = k.name /\ m1.deleted = gone
        /\ m1.chClosed = k.chClosed /\ m1.fn = "none"
        /\ m2.pc = "exited" /\ m2.name = k.name /\ m2.deleted = k.deleted
        /\ m2.chClosed = k.chClosed /\ m2.fn = "none"
    BY <1>1 DEF LoopType
  <2> HIDE DEF m1, m2
  <2>5. CASE loop' = [loop EXCEPT ![l] = m1]
    BY <1>4, <1>6, <2>2, <2>3, <2>4, <2>5, LoopRegistry
  <2>6. CASE loop' = [loop EXCEPT ![l] = m2]
    BY <1>4, <1>6, <2>3, <2>4, <2>6, LoopRegistry
  <2> QED BY <2>1, <2>5, <2>6
<1>7. CASE LoopClosed(l)
  <2> DEFINE p == IF k.fn = "none" THEN "exited" ELSE "leaving"
             m == [k EXCEPT !.pc = p]
  <2>1. loop' = [loop EXCEPT ![l] = m] /\ k.pc = "select"
    BY <1>7 DEF LoopClosed
  <2>2. p \in {"exited", "leaving"}
    OBVIOUS
  <2> HIDE DEF p
  <2>3. /\ m.pc = p /\ m.name = k.name /\ m.deleted = k.deleted
        /\ m.chClosed = k.chClosed /\ m.fn = k.fn
    BY <1>1 DEF LoopType
  <2> HIDE DEF m
  <2> QED BY <1>2, <1>4, <1>7, <2>1, <2>2, <2>3, LoopRegistry
<1>8. CASE CreateLine(l)
  <2> DEFINE m == [k EXCEPT !.lines = k.lines + 1]
  <2>1. loop' = [loop EXCEPT ![l] = m]
    BY <1>8 DEF CreateLine
  <2>2. /\ m.pc = k.pc /\ m.name = k.name /\ m.deleted = k.deleted
        /\ m.chClosed = k.chClosed /\ m.fn = k.fn
    BY <1>1 DEF LoopType
  <2> HIDE DEF m
  <2> QED BY <1>2, <1>4, <1>8, <2>1, <2>2, LoopRegistry
<1>9. ASSUME NEW v \in Final, CreateDone(l, v)
      PROVE  RegistryInv'
  <2> DEFINE m == [k EXCEPT !.fn = v]
  <2>1. loop' = [loop EXCEPT ![l] = m] /\ k.fn = "running"
    BY <1>9 DEF CreateDone
  <2>2. /\ m.pc = k.pc /\ m.name = k.name /\ m.deleted = k.deleted
        /\ m.chClosed = k.chClosed /\ m.fn = v
    BY <1>1 DEF LoopType
  <2> HIDE DEF m
  <2> QED BY <1>2, <1>4, <1>9, <2>1, <2>2, LoopRegistry
<1>10. ASSUME NEW v \in Final, CommandDone(l, v)
       PROVE  RegistryInv'
  <2> DEFINE gone == op[k.cmd] = "delete" /\ v = "ok"
             m == [k EXCEPT !.pc = "select", !.cmd = None, !.deleted = gone]
  <2>1. loop' = [loop EXCEPT ![l] = m] /\ k.pc = "running"
    BY <1>10 DEF CommandDone
  <2> HIDE DEF gone
  <2>2. /\ m.pc = "select" /\ m.name = k.name /\ m.deleted = gone
        /\ m.chClosed = k.chClosed /\ m.fn = k.fn
    BY <1>1 DEF LoopType
  <2> HIDE DEF m
  <2>3. ~k.deleted /\ k.fn = "none"
    BY <1>2, <2>1
  <2> QED BY <1>4, <1>10, <2>1, <2>2, <2>3, LoopRegistry
<1> QED BY <1>3, <1>4, <1>5, <1>6, <1>7, <1>8, <1>9, <1>10 DEF LoopReceive, Refuses, registry

\* The reaping of a deleted loop finds that loop under its name, and takes it
\* from both maps.
LEMMA ReapRegistry ==
  ASSUME TypeInv, RegistryInv, NEW l \in Loops, SvcReap(l)
  PROVE  /\ RegistryInv'
         /\ instances' = [instances EXCEPT ![loop[l].name] = None]
         /\ instances[loop[l].name] = l
<1> DEFINE n == loop[l].name
<1>1. /\ l \in watched /\ loop[l].deleted /\ Serving
      /\ loop \in [Loops -> LoopType] /\ instances \in [Names -> Loops \cup {None}]
      /\ watched \subseteq Loops /\ counter \in Int
  BY Bounds DEF SvcReap, ForgetInstance, Serving, TypeInv, TypeOK, RegistryType, TableType
<1>2. instances[n] = l /\ loop[l].pc # "unused" /\ n \in Names /\ ~loop[l].chClosed
  BY <1>1 DEF RegistryInv, WatchedRegistered, OpenWhileServing, TypeInv, LoopsHeld
<1>3. l # None
  BY SpecialAssumption DEF SpecialAssumption
<1>4. /\ loop' = [loop EXCEPT ![l].chClosed = TRUE]
      /\ instances' = [instances EXCEPT ![n] = None]
      /\ watched' = watched \ {l}
      /\ UNCHANGED <<svcPc, counter>>
  BY <1>2, <1>3 DEF SvcReap, ForgetInstance, table
<1>5. ASSUME NEW m \in Loops
      PROVE  /\ loop'[m].name = loop[m].name /\ loop'[m].pc = loop[m].pc
             /\ loop'[m].deleted = loop[m].deleted /\ loop'[m].fn = loop[m].fn
             /\ m # l => loop'[m].chClosed = loop[m].chClosed
  BY <1>1, <1>4 DEF LoopType
<1>6. \A m \in watched' : /\ m \in watched /\ m # l /\ m \in Loops
                          /\ instances[loop[m].name] = m /\ loop[m].name \in Names
                          /\ loop[m].name # n
  BY <1>1, <1>2, <1>4 DEF RegistryInv, WatchedRegistered, TypeInv, LoopsHeld
<1>7. WatchedRegistered' /\ OpenWhileServing'
  BY <1>1, <1>4, <1>5, <1>6 DEF RegistryInv, WatchedRegistered, OpenWhileServing
<1>8. RegisteredWatched'
  <2> SUFFICES ASSUME NEW p \in Names, instances'[p] # None
               PROVE  instances'[p] \in watched' /\ loop'[instances'[p]].name = p
    BY DEF RegisteredWatched
  <2>1. p # n /\ instances'[p] = instances[p]
    BY <1>1, <1>4
  <2>2. instances[p] \in watched /\ loop[instances[p]].name = p
    BY <2>1 DEF RegistryInv, RegisteredWatched
  <2> QED BY <1>1, <1>4, <1>5, <2>1, <2>2
<1>9. LiveWatched'
  BY <1>1, <1>4, <1>5 DEF RegistryInv, LiveWatched, Live
<1>10. FutureUnused' /\ BusyLive'
  BY <1>4, <1>5 DEF RegistryInv, FutureUnused, BusyLive
<1> QED BY <1>2, <1>4, <1>7, <1>8, <1>9, <1>10 DEF RegistryInv

\* A creation that does not fail founds loop t, unused until now, under a name
\* that was free.
LEMMA FoundRegistry ==
  ASSUME TypeInv, RegistryInv, counter' = counter + 1, counter \in Tids,
         NEW n \in Names, instances[n] = None, NEW flatIP, NEW ip,
         StartInstanceLoop(counter, n, flatIP, ip), svcPc = "select"
  PROVE  RegistryInv'
<1> DEFINE t == counter
           k == NewLoop(n, ip)
<1>1. /\ t \in Loops /\ counter \in Int /\ instances \in [Names -> Loops \cup {None}]
      /\ watched \subseteq Loops /\ loop \in [Loops -> LoopType] /\ t # None
  BY ZeroTid, Bounds, SpecialAssumption
     DEF TypeInv, TypeOK, RegistryType, TableType, SpecialAssumption
<1>2. loop[t].pc = "unused" /\ t \notin watched
  BY <1>1 DEF RegistryInv, FutureUnused, WatchedRegistered
<1>3. /\ k.pc = "select" /\ k.name = n /\ ~k.deleted /\ ~k.chClosed /\ k.fn = "none"
  BY DEF NewLoop, LoopAt
<1>4. /\ instances' = [instances EXCEPT ![n] = t] /\ watched' = watched \cup {t}
      /\ loop' = [loop EXCEPT ![t] = k]
  BY DEF StartInstanceLoop
<1> HIDE DEF k
<1>5. \A l \in Loops : loop'[l] = IF l = t THEN k ELSE loop[l]
  BY <1>1, <1>4
<1>6. \A l \in watched : /\ l \in Loops /\ l # t /\ loop[l].pc # "unused"
                         /\ instances[loop[l].name] = l /\ loop[l].name # n
  BY <1>1, <1>2, SpecialAssumption DEF RegistryInv, WatchedRegistered, SpecialAssumption
<1>7. WatchedRegistered'
  <2> SUFFICES ASSUME NEW l \in watched'
               PROVE  loop'[l].pc # "unused" /\ instances'[loop'[l].name] = l
    BY DEF WatchedRegistered
  <2>1. CASE l = t
    BY <1>1, <1>3, <1>4, <1>5, <2>1
  <2>2. CASE l # t
    <3>1. l \in watched /\ loop[l].name \in Names
      BY <1>4, <1>6, <2>2 DEF TypeInv, LoopsHeld
    <3> QED BY <1>1, <1>4, <1>5, <1>6, <2>2, <3>1
  <2> QED BY <2>1, <2>2
<1>8. OpenWhileServing'
  <2>1. \A l \in watched : ~loop[l].chClosed
    BY DEF RegistryInv, OpenWhileServing, Serving
  <2>2. \A l \in watched' : ~loop'[l].chClosed
    BY <1>1, <1>3, <1>4, <1>5, <1>6, <2>1
  <2> QED BY <2>2 DEF OpenWhileServing
<1>9. RegisteredWatched'
  <2> SUFFICES ASSUME NEW p \in Names, instances'[p] # None
               PROVE  instances'[p] \in watched' /\ loop'[instances'[p]].name = p
    BY DEF RegisteredWatched
  <2>1. CASE p = n
    BY <1>1, <1>3, <1>4, <1>5, <2>1
  <2>2. CASE p # n
    <3>1. instances'[p] = instances[p]
      BY <1>1, <1>4, <2>2
    <3>2. instances[p] \in watched /\ loop[instances[p]].name = p
      BY <3>1 DEF RegistryInv, RegisteredWatched
    <3> QED BY <1>4, <1>5, <1>6, <3>1, <3>2
  <2> QED BY <2>1, <2>2
<1>10. LiveWatched'
  BY <1>4, <1>5 DEF RegistryInv, LiveWatched, Live
<1>11. FutureUnused'
  BY <1>1, <1>5 DEF RegistryInv, FutureUnused, Loops
<1>12. BusyLive'
  BY <1>3, <1>5 DEF RegistryInv, BusyLive
<1> QED BY <1>7, <1>8, <1>9, <1>10, <1>11, <1>12 DEF RegistryInv

LEMMA SvcStartRegistry ==
  ASSUME NameLeft, TypeInv, RegistryInv, NEW c \in Clients, SvcStart(c)
  PROVE  /\ RegistryInv'
         /\ \A n \in Names : instances[n] # None => instances'[n] = instances[n]
<1> DEFINE t == counter
           r == cli[c].req
<1>1. /\ t \in Tids /\ svcPc = "select" /\ counter' = counter + 1
      /\ r \in Requests /\ RegistryType /\ counter \in Int
  BY Bounds DEF SvcStart, TypeInv, TypeOK, ClientsHeld, TableType
<1>2. ASSUME UNCHANGED <<instances, watched, loop>>
      PROVE  /\ RegistryInv'
             /\ \A n \in Names : instances[n] # None => instances'[n] = instances[n]
  <2>1. BusyLive'
    BY <1>2 DEF RegistryInv, BusyLive
  <2>2. Serving
    BY <1>1 DEF Serving
  <2> QED BY <1>1, <1>2, <2>1, <2>2, RegistryFrame DEF RegistryInv
<1>3. CASE r.op = "create" /\ Create(t, r)
  <2>1. CASE CreateFails(r) /\ AnswerAtOnce(t, "err")
    BY <1>2, <2>1 DEF AnswerAtOnce
  <2>2. CASE ~CreateFails(r)
    <3> DEFINE n == IF r.name = NoName THEN NameAt(Tries) ELSE r.name
    <3>1. n \in Names /\ instances[n] = None
      <4>1. r.name = NoName => FreeNames # {}
        BY <1>3, <2>2 DEF NameLeft
      <4> QED BY <1>1, <2>2, <4>1, NewInstanceName, CreateArguments
    <3>2. StartInstanceLoop(t, n, FlatIP(r), GuestIP(r))
      BY <1>3, <2>2 DEF Create
    <3> HIDE DEF n
    <3>3. RegistryInv'
      BY <1>1, <3>1, <3>2, FoundRegistry
    <3>4. \A p \in Names : instances[p] # None => instances'[p] = instances[p]
      BY <1>1, <3>1, <3>2 DEF StartInstanceLoop, RegistryType
    <3> QED BY <3>3, <3>4
  <2> QED BY <1>3, <2>1, <2>2 DEF Create
<1>4. CASE r.op \in InstOps /\ ForwardToInstance(t, r)
  BY <1>2, <1>4 DEF ForwardToInstance, AnswerAtOnce
<1>5. CASE r.op = "list" /\ AnswerAtOnce(t, "ok") /\ UNCHANGED gen
  BY <1>2, <1>5 DEF AnswerAtOnce
<1> QED BY <1>3, <1>4, <1>5 DEF SvcStart

LEMMA NextRegistry ==
  ASSUME [NameLeft]_vars, TypeInv, RegistryInv, [Next]_vars
  PROVE  /\ RegistryInv'
         /\ \A n \in Names : instances[n] # None /\ instances'[n] # instances[n]
               => instances'[n] = None /\ loop[instances[n]].deleted
<1>1. ASSUME NEW c \in Clients,
             \/ \E r \in Requests : Issue(c, r)
             \/ WantCancel(c) \/ ClientDie(c) \/ ReadResult(c)
             \/ StartSignalled(c) \/ ResultSignalled(c) \/ CancelSignalled(c)
             \/ SvcGetResult(c) \/ SvcComplete(c) \/ SvcCancel(c)
      PROVE  RegistryInv' /\ UNCHANGED instances
  BY <1>1, ClientStepsRegistry
<1>2. ASSUME NEW l \in Loops,
             \/ LoopReceive(l) \/ LoopCreateResult(l) \/ LoopReturn(l)
             \/ LoopClosed(l) \/ CreateLine(l)
             \/ \E v \in Final : CommandDone(l, v) \/ CreateDone(l, v)
      PROVE  RegistryInv' /\ UNCHANGED instances
  BY <1>2, LoopStepsRegistry
<1>3. ASSUME NEW l \in Loops, SvcReap(l)
      PROVE  /\ RegistryInv'
             /\ \A n \in Names : instances[n] # None /\ instances'[n] # instances[n]
                   => instances'[n] = None /\ loop[instances[n]].deleted
  <2>1. RegistryInv' /\ instances' = [instances EXCEPT ![loop[l].name] = None]
        /\ instances[loop[l].name] = l
    BY <1>3, ReapRegistry
  <2>2. loop[l].deleted /\ instances \in [Names -> Loops \cup {None}]
    BY <1>3 DEF SvcReap, ForgetInstance, TypeInv, TypeOK, RegistryType
  <2> QED BY <2>1, <2>2
<1>4. CASE \/ \E t \in Tids : DrainNext(t)
           \/ SvcDone \/ DrainReceive \/ SvcFinish
           \/ Signal \/ MainFinished \/ ManagerReturns \/ MainExit
  BY <1>4, ShutdownRegistry
<1>5. CASE CloseLoops
  BY <1>5, CloseLoopsRegistry
<1>6. CASE UNCHANGED vars
  BY <1>6, QuietRegistry DEF vars, service, table, registry, Serving
<1>7. ASSUME NEW c \in Clients, SvcStart(c), NameLeft
      PROVE  /\ RegistryInv'
             /\ \A n \in Names : instances[n] # None /\ instances'[n] # instances[n]
                   => instances'[n] = None /\ loop[instances[n]].deleted
  BY <1>7, SvcStartRegistry
<1> QED BY <1>1, <1>2, <1>3, <1>4, <1>5, <1>6, <1>7 DEF Next

\* The registry is consistent with the loops in every state that a service can
\* reach whose generator has not run out of names, however many instances it
\* has founded and forgotten.
THEOREM RegistryConsistent == Spec /\ NamesLast => [](TypeInv /\ RegistryInv)
<1>1. Init => TypeInv /\ RegistryInv
  BY InitType, InitRegistry
<1>2. TypeInv /\ RegistryInv /\ [Next]_vars /\ [NameLeft]_vars => (TypeInv /\ RegistryInv)'
  BY NextType, NextRegistry
<1> QED BY <1>1, <1>2, PTL DEF Spec, NamesLast

\* It does not run out if it knows more names than there can be instances.
THEOREM NamesSuffice == EnoughNames => (Spec => NamesLast)
<1> SUFFICES ASSUME EnoughNames PROVE Spec => NamesLast
  OBVIOUS
<1>1. Init => TypeInv /\ RegistryInv
  BY InitType, InitRegistry
<1>2. TypeInv /\ RegistryInv => NameLeft
  BY FreeNameExists DEF RegistryInv, NameLeft
<1>3. TypeInv /\ RegistryInv /\ [Next]_vars => (TypeInv /\ RegistryInv)'
  BY <1>2, NextType, NextRegistry
<1> QED BY <1>1, <1>2, <1>3, PTL DEF Spec, NamesLast

\* Whatever the order of creations, deletions, reaping and shutdown, every
\* instance that exists can be reached under its name.
THEOREM LiveAlwaysRegistered == Spec /\ NamesLast => []LiveRegistered
<1>1. RegistryInv => LiveRegistered
  BY DEF RegistryInv, LiveWatched, WatchedRegistered, LiveRegistered
<1> QED BY <1>1, RegistryConsistent, PTL

\* No two backend functions ever run for instances of one name.
THEOREM NameExclusive == Spec /\ NamesLast => []BackendExclusive
<1>1. RegistryInv => BackendExclusive
  <2> SUFFICES ASSUME RegistryInv,
                      NEW l \in Loops, NEW m \in Loops, NEW t \in Tids, NEW u \in Tids,
                      Executes(l, t), Executes(m, u), loop[l].name = loop[m].name
               PROVE  t = u
    BY DEF BackendExclusive
  <2>1. Live(l) /\ Live(m)
    BY DEF RegistryInv, BusyLive, Executes, Live
  <2>2. l = m
    BY <2>1 DEF RegistryInv, LiveWatched, WatchedRegistered
  <2> QED BY <2>2 DEF RegistryInv, BusyLive, Executes
<1> QED BY <1>1, RegistryConsistent, PTL

\* A name is given up only when the instance it stands for has been deleted,
\* and is never taken over from an instance.
THEOREM NamesChangeHandsByDeletion == Spec /\ NamesLast => RegistryStep
<1> DEFINE A == \A n \in Names : instances[n] # None /\ instances'[n] # instances[n]
                  => instances'[n] = None /\ loop[instances[n]].deleted
<1>1. TypeInv /\ RegistryInv /\ [Next]_vars /\ [NameLeft]_vars => [A]_vars
  BY NextRegistry
<1>2. RegistryStep <=> [][A]_vars
  BY DEF RegistryStep
<1> HIDE DEF A
<1> QED BY <1>1, <1>2, RegistryConsistent, PTL DEF Spec, NamesLast
=============================================================================
