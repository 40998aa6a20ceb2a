---------------------------- MODULE CcvmService ----------------------------
(***************************************************************************)
(* The ccvm service: the goroutine that owns the registry of instances and *)
(* the table of transactions (ccvmService.run), the loop it starts for     *)
(* every instance (instanceLoop), the RPC handlers that feed it            *)
(* (ServerAPI), the clients that call them (issueCommand), the main        *)
(* goroutine that waits for a signal or for the service (startServer), and *)
(* of the download manager the moment it returns (see Downloader).         *)
(*                                                                         *)
(* Go channels.  A send on an unbuffered channel is one joint step of the  *)
(* sender and the receiver, enabled when both are there; a goroutine       *)
(* blocked on such a send keeps its program counter.  The result channel   *)
(* of a transaction is buffered: a sequence and a closed flag.             *)
(***************************************************************************)
EXTENDS Integers, Sequences, FiniteSets

CONSTANTS
  Clients,      \* the client processes (ccloudvm commands)
  Mortal,       \* the clients that may be killed between two RPC calls
  Impatient,    \* the clients whose command may be interrupted
  Names,        \* valid instance names
  NameCount,    \* maxNames(): how many names the generator knows
  NameOrder,    \* 0 .. NameCount-1 -> Names, the order it yields them in
  PoolSize,     \* addresses findFreeIP may choose from (254 in the code)
  Requests,     \* the commands clients issue: records [op, name, ip]
  Disks,        \* possible contents of the instances directory at start-up
  MaxDisk,      \* bound: instances on disk at start-up
  MaxTrans,     \* bound: transactions of one run of the service
  MaxLines,     \* bound: progress lines of one create command
  ResultCap,    \* capacity of a result channel (256 in the code)
  MaxSignals,   \* bound: signals sent to the process
  Systemd,      \* the -systemd flag
  Hung,         \* commands whose backend may need to be cancelled to end
  None,         \* no transaction, loop or outcome
  NoName,       \* the empty instance name
  BadName,      \* a name that is not a valid host name
  NoIP,         \* no host IP requested, or none readable on disk
  BadIP         \* a host IP that is not an IPv4 address

Tids    == 0 .. MaxTrans - 1
\* The loop a create transaction t starts is loop t; the loop of the i-th
\* directory found on disk is loop -i.
Loops   == -MaxDisk .. MaxTrans - 1
Pool    == 1 .. PoolSize
\* Addresses as numbers: the pool, the custom ones beyond it, and 0, the
\* zero value of a uint32.
IPs     == Nat
InstOps == {"delete", "stop", "start", "quit", "status"}
Ops     == InstOps \cup {"create", "list"}
Final   == {"ok", "err"}

ASSUME BoundsAssumption ==
  /\ MaxTrans \in Nat \ {0} /\ MaxDisk \in Nat /\ MaxLines \in Nat
  /\ ResultCap \in Nat \ {0} /\ MaxSignals \in Nat /\ PoolSize \in Nat
  /\ NameCount \in Nat \ {0} /\ NameOrder \in [0 .. NameCount - 1 -> Names]
  /\ Mortal \subseteq Clients /\ Impatient \subseteq Clients
  /\ Systemd \in BOOLEAN /\ Hung \subseteq Ops

ASSUME RequestsAssumption ==
  Requests \subseteq [op   : Ops,
                      name : Names \cup {NoName, BadName},
                      ip   : IPs \cup {NoIP, BadIP}]

ASSUME DisksAssumption ==
  \A d \in Disks :
    /\ d \in Seq([name : Names, ip : IPs \cup {NoIP}])
    /\ Len(d) <= MaxDisk
    /\ \A i, j \in 1 .. Len(d) : d[i].name = d[j].name => i = j

\* The special values differ from the values they stand beside.
ASSUME SpecialAssumption ==
  /\ NoName \notin Names /\ BadName \notin Names /\ NoName # BadName
  /\ NoIP \notin IPs /\ BadIP \notin IPs /\ NoIP # BadIP
  /\ None \notin Loops /\ None \notin Final \cup Ops \cup {"unfinished"}

VARIABLES
  svcPc,        \* the service goroutine
  cur,          \* the transaction it is forwarding, or draining
  dest,         \* the loop it is forwarding cur to
  draining,     \* transactions still to be cancelled by the shutdown
  transactions, \* the keys of ccvmService.transactions
  counter,      \* ccvmService.counter
  timer,        \* whether ccvmService.shutdownTimer is set
  instances,    \* ccvmService.instances: the loop whose channel is stored
  watched,      \* ccvmService.instanceChMap and the cases made from it
  hostIPs,      \* ccvmService.hostIPs
  gen,          \* nameGenerator.counter
  op,           \* the command of each transaction
  cancelled,    \* transactions whose context is cancelled
  result,       \* their result channels
  succeeded,    \* history: transactions whose backend function succeeded
  loop,         \* the instance loops and their create goroutines
  cli,          \* the clients, each with its handler in flight
  mainPc,       \* startServer: in its select, shutting down, returned
  dlPc,         \* the download manager's goroutine: serving, returned
  sigBuf,       \* signals waiting in signalCh
  nsig          \* signals sent so far

registry == <<instances, watched, hostIPs, gen>>
service  == <<svcPc, cur, dest, draining>>
table    == <<transactions, counter, timer>>
traffic  == <<op, cancelled, result, succeeded>>
process  == <<mainPc, dlPc, sigBuf, nsig>>
vars     == <<service, table, registry, traffic, loop, cli, process>>

-----------------------------------------------------------------------------
\* Channels and loops as data.

EmptyCh == [buf |-> <<>>, closed |-> FALSE]

Sent(ch, v)      == [ch EXCEPT !.buf = Append(@, v)]
\* Mutant: the channel is closed without the error being sent.
ReplyLost(ch, v) == [buf |-> ch.buf, closed |-> TRUE]
Reply(ch, v)     == [buf |-> Append(ch.buf, v), closed |-> TRUE]

LoopAt(pc, n, ip) ==
  [pc |-> pc, name |-> n, ip |-> ip, cmd |-> None, create |-> None,
   fn |-> "none", lines |-> 0, deleted |-> FALSE, chClosed |-> FALSE]

UnusedLoop     == LoopAt("unused", NoName, 0)
NewLoop(n, ip) == LoopAt("select", n, ip)

IdleClient ==
  [pc |-> "idle", req |-> None, tid |-> 0, out |-> None, cancel |-> "no"]

\* A backend function of transaction t is being executed by loop l or by the
\* create goroutine it started.
Executes(l, t) == \/ loop[l].pc = "running" /\ loop[l].cmd = t
                  \/ loop[l].fn = "running" /\ loop[l].create = t

Live(l) == loop[l].pc # "unused" /\ ~loop[l].deleted

-----------------------------------------------------------------------------
\* Mutant: an address read twice is accepted twice.
TakenTwice(d) == {i \in 1 .. Len(d) : d[i].ip \in IPs}

\* findExistingInstances: the directories d in walk order.  One is taken
\* unless it cannot be read or its address was taken before it, that is,
\* unless an earlier readable one has its address.
Taken(d) == {i \in 1 .. Len(d) : /\ d[i].ip \in IPs
                                 /\ \A j \in 1 .. i - 1 : d[j].ip # d[i].ip}

Init ==
  /\ \E d \in Disks :
       LET known == {-i : i \in Taken(d)} IN
       /\ instances = [n \in Names |->
                         IF \E l \in known : d[-l].name = n
                         THEN CHOOSE l \in known : d[-l].name = n
                         ELSE None]
       /\ watched = known
       /\ hostIPs = {d[-l].ip : l \in known}
       /\ loop = [l \in Loops |-> IF l \in known THEN NewLoop(d[-l].name, d[-l].ip)
                                                 ELSE UnusedLoop]
  /\ gen = 0
  /\ svcPc = "select" /\ cur = None /\ dest = None /\ draining = {}
  /\ transactions = {} /\ counter = 0 /\ timer = "off"
  /\ op = [t \in Tids |-> None] /\ cancelled = {} /\ succeeded = {}
  /\ result = [t \in Tids |-> EmptyCh]
  /\ cli = [c \in Clients |-> IdleClient]
  /\ mainPc = "select" /\ dlPc = "serving" /\ sigBuf = 0 /\ nsig = 0

-----------------------------------------------------------------------------
(***************************************************************************)
(* Clients and RPC handlers.  A handler runs on after its client is gone.  *)
(***************************************************************************)

\* A client runs a command: its start call reaches the handler, which offers
\* a startAction to the service.  The guard on the bound leaves a transaction
\* number to every handler waiting to start.
Issue(c, r) ==
  /\ cli[c].pc = "idle" /\ cli[c].cancel # "wanted" /\ mainPc # "exited"
  /\ counter + Cardinality({d \in Clients : cli[d].pc = "starting"}) < MaxTrans
  /\ cli' = [cli EXCEPT ![c] = [IdleClient EXCEPT !.pc = "starting", !.req = r]]
  /\ UNCHANGED <<service, table, registry, traffic, loop, process>>

\* The context of the command is cancelled: issueCommand calls Cancel while
\* its result call is outstanding.
WantCancel(c) ==
  /\ c \in Impatient /\ cli[c].cancel = "no"
  /\ cli[c].pc \in {"getting", "reading", "completing"}
  /\ cli' = [cli EXCEPT ![c].cancel = "wanted"]
  /\ UNCHANGED <<service, table, registry, traffic, loop, process>>

\* The client is killed after its start call; no result call follows.
ClientDie(c) ==
  /\ c \in Mortal /\ cli[c].pc = "getting" /\ cli[c].cancel = "no"
  /\ cli' = [cli EXCEPT ![c].pc = "dead"]
  /\ UNCHANGED <<service, table, registry, traffic, loop, process>>

\* Mutant: CreateResult takes every value for the last one.
AsksAgainNever(v, create) == FALSE

\* A progress line of a creation: CreateResult is to be called again.
AsksAgain(v, create) == v = "line" /\ create

\* A result handler receives from the transaction's result channel.  Only a
\* CreateResult that is not finished makes the client ask again; a value that
\* is no error, or the nil of a closed channel, counts as success, except
\* that CreateResult then reports an unfinished creation.
ReadResult(c) ==
  /\ cli[c].pc = "reading"
  /\ LET t  == cli[c].tid
         ch == result[t]
         create == cli[c].req.op = "create"
     IN \/ /\ ch.buf # <<>>
           /\ result' = [result EXCEPT ![t].buf = Tail(@)]
           /\ cli' = [cli EXCEPT ![c] =
                IF AsksAgain(Head(ch.buf), create)
                THEN [@ EXCEPT !.pc = "getting"]
                ELSE [@ EXCEPT !.pc = "completing",
                               !.out = IF Head(ch.buf) = "err" THEN "err" ELSE "ok"]]
        \/ /\ ch.buf = <<>> /\ ch.closed
           /\ cli' = [cli EXCEPT ![c].pc = "completing",
                                 ![c].out = IF create THEN "unfinished" ELSE "ok"]
           /\ UNCHANGED result
  /\ UNCHANGED <<service, table, registry, op, cancelled, succeeded, loop, process>>

\* The result call returns to the client, which makes another one as long as
\* a creation is not finished.
Answered(k) == IF k.out = "unfinished" THEN [k EXCEPT !.pc = "getting", !.out = None]
                                       ELSE [k EXCEPT !.pc = "idle"]

\* Mutant: Create, Stop and Start also return no error.
StartSignalledSilently(c) ==
  /\ sigBuf > 0 /\ cli[c].pc = "starting"
  /\ sigBuf' = sigBuf - 1
  /\ cli' = [cli EXCEPT ![c].pc = "getting", ![c].tid = 0]
  /\ UNCHANGED <<service, table, registry, traffic, loop, mainPc, dlPc, nsig>>

\* A handler may receive a signal while it offers its action to the service.
\* A start handler gives up, but Quit, Delete, GetInstanceDetails and
\* GetInstances return the zero transaction number and no error.
StartSignalled(c) ==
  /\ sigBuf > 0 /\ cli[c].pc = "starting"
  /\ sigBuf' = sigBuf - 1
  /\ cli' = [cli EXCEPT ![c] =
               IF @.req.op \in {"create", "stop", "start"}
               THEN [@ EXCEPT !.pc = "idle", !.out = "err"]
               ELSE [@ EXCEPT !.pc = "getting", !.tid = 0]]
  /\ UNCHANGED <<service, table, registry, traffic, loop, mainPc, dlPc, nsig>>

\* A result handler gives up before it has the result channel, or, after it
\* has read the result, returns it without completing the transaction.
ResultSignalled(c) ==
  /\ sigBuf > 0 /\ cli[c].pc \in {"getting", "completing"}
  /\ sigBuf' = sigBuf - 1
  /\ cli' = [cli EXCEPT ![c] = IF @.pc = "getting"
                               THEN [@ EXCEPT !.pc = "idle", !.out = "err"]
                               ELSE Answered(@)]
  /\ UNCHANGED <<service, table, registry, traffic, loop, mainPc, dlPc, nsig>>

CancelSignalled(c) ==
  /\ sigBuf > 0 /\ cli[c].cancel = "wanted"
  /\ sigBuf' = sigBuf - 1
  /\ cli' = [cli EXCEPT ![c].cancel = "sent"]
  /\ UNCHANGED <<service, table, registry, traffic, loop, mainPc, dlPc, nsig>>

-----------------------------------------------------------------------------
(***************************************************************************)
(* The service goroutine: processAction.                                   *)
(***************************************************************************)

\* newInstanceName: the generator's names from gen on, the first that is not
\* registered.  When all are, the last one tried is returned all the same:
\* the loop's variable shadows the one its exhaustion is tested with.
Wrap(i)     == IF i < NameCount THEN i ELSE i - NameCount
NameAt(k)   == NameOrder[Wrap(gen + k)]
FreeNames   == {k \in 0 .. NameCount - 1 : instances[NameAt(k)] = None}
\* Mutant: the generator's next name is taken whether it is in use or not.
FirstTry    == 0
Tries       == IF FreeNames = {} THEN NameCount - 1
               ELSE CHOOSE k \in FreeNames : \A j \in FreeNames : k <= j

\* findFreeIP
FreeIPs     == Pool \ hostIPs
LowestIP    == CHOOSE i \in FreeIPs : \A j \in FreeIPs : i <= j

\* Mutant: the check for an instance of the same name is missing.
CreateFailsNameUnchecked(r) ==
  \/ r.name = BadName
  \/ r.ip = NoIP /\ FreeIPs = {}
  \/ r.ip = BadIP
  \/ r.ip \in hostIPs

\* The errors create reports itself: an invalid or a known name, no address
\* left, an address that is invalid or in use.
CreateFails(r) ==
  \/ r.name = BadName
  \/ r.name \in Names /\ instances[r.name] # None
  \/ r.ip = NoIP /\ FreeIPs = {}
  \/ r.ip = BadIP
  \/ r.ip \in hostIPs

\* Mutants: an address found is not recorded, or not given to the guest.
FlatIPZero(r)  == 0
GuestIPUnset(r) == r.ip

\* The address create records in hostIPs.  For a requested address it is the
\* zero value: the branch that flattens it assigns a variable of its own.
FlatIP(r)  == IF r.ip = NoIP THEN LowestIP ELSE 0
GuestIP(r) == IF r.ip = NoIP THEN LowestIP ELSE r.ip

\* Mutant: the loop's channel is not stored under the instance's name.
StartInstanceLoopUnnamed(l, n, flatIP, ip) ==
  /\ watched' = watched \cup {l} /\ UNCHANGED instances
  /\ hostIPs' = hostIPs \cup {flatIP}
  /\ loop' = [loop EXCEPT ![l] = NewLoop(n, ip)]

\* startInstanceLoop
StartInstanceLoop(l, n, flatIP, ip) ==
  /\ instances' = [instances EXCEPT ![n] = l]
  /\ watched' = watched \cup {l}
  /\ hostIPs' = hostIPs \cup {flatIP}
  /\ loop' = [loop EXCEPT ![l] = NewLoop(n, ip)]

\* The service is about to send the command of transaction t to loop l.
Forward(l, t) ==
  /\ svcPc' = "sending" /\ cur' = t /\ dest' = l
  /\ UNCHANGED <<draining, result, succeeded>>

\* Mutant: the service returns without sending the error.
AnswerNever(t, v) == UNCHANGED <<service, instances, watched, hostIPs, loop, result, succeeded>>

\* Mutant: the address that was found is taken though the command is refused.
RefusalTakesAddress(t, v) ==
  /\ result' = [result EXCEPT ![t] = Reply(@, v)]
  /\ hostIPs' = IF v = "err" /\ FreeIPs # {} THEN hostIPs \cup {LowestIP} ELSE hostIPs
  /\ UNCHANGED <<service, instances, watched, loop, succeeded>>

AnswerAtOnce(t, v) ==
  /\ result' = [result EXCEPT ![t] = Reply(@, v)]
  /\ succeeded' = IF v = "ok" THEN succeeded \cup {t} ELSE succeeded
  /\ UNCHANGED <<service, instances, watched, hostIPs, loop>>

Create(t, r) ==
  LET n == IF r.name = NoName THEN NameAt(Tries) ELSE r.name IN
  /\ gen' = IF r.name = NoName THEN Wrap(gen + Tries + 1) ELSE gen
  /\ \/ CreateFails(r) /\ AnswerAtOnce(t, "err")
     \/ /\ ~CreateFails(r)
        /\ StartInstanceLoop(t, n, FlatIP(r), GuestIP(r))
        /\ Forward(t, t)

\* getInstance: the empty name stands for the only instance there is.
Registered    == {n \in Names : instances[n] # None}
Meant(n)      == IF n = NoName /\ Cardinality(Registered) = 1
                 THEN CHOOSE m \in Names : instances[m] # None
                 ELSE n

\* stop, start, quit, delete and status
ForwardToInstance(t, r) ==
  /\ UNCHANGED gen
  /\ \/ Meant(r.name) \notin Registered /\ AnswerAtOnce(t, "err")
     \/ /\ Meant(r.name) \in Registered
        /\ Forward(instances[Meant(r.name)], t)
        /\ UNCHANGED <<instances, watched, hostIPs, loop>>

\* A startAction: the transaction is entered, the shutdown timer stopped, the
\* number handed to the handler, the command carried out or forwarded.
SvcStart(c) ==
  /\ svcPc = "select" /\ cli[c].pc = "starting" /\ counter \in Tids
  /\ LET t == counter
         r == cli[c].req
     IN /\ counter' = counter + 1
        /\ transactions' = transactions \cup {t}
        /\ timer' = "off"
        /\ op' = [op EXCEPT ![t] = r.op]
        /\ cli' = [cli EXCEPT ![c].pc = "getting", ![c].tid = t]
        /\ \/ r.op = "create" /\ Create(t, r)
           \/ r.op \in InstOps /\ ForwardToInstance(t, r)
           \/ r.op = "list" /\ AnswerAtOnce(t, "ok") /\ UNCHANGED gen
  /\ UNCHANGED <<cancelled, process>>

\* A getResult
SvcGetResult(c) ==
  /\ svcPc = "select" /\ cli[c].pc = "getting"
  /\ cli' = [cli EXCEPT ![c] = IF @.tid \in transactions
                               THEN [@ EXCEPT !.pc = "reading"]
                               ELSE [@ EXCEPT !.pc = "idle", !.out = "err"]]
  /\ UNCHANGED <<service, table, registry, traffic, loop, process>>

\* Mutant: the timer is set while other transactions are open.
TimerAlways(ts) == IF Systemd THEN "set" ELSE timer

\* Mutant: the timer is looked at before the transaction is removed.
TimerTooEarly(ts) == IF Systemd /\ transactions = {} THEN "set" ELSE timer

\* The shutdown timer when ts are the transactions left.
ShutdownTimer(ts) == IF Systemd /\ ts = {} THEN "set" ELSE timer

\* A completeAction.  The service panics when the transaction is unknown, and
\* sets the shutdown timer when it was the last one.
SvcComplete(c) ==
  /\ svcPc = "select" /\ cli[c].pc = "completing"
  /\ LET t == cli[c].tid IN
     IF t \in transactions
     THEN /\ transactions' = transactions \ {t}
          /\ timer' = ShutdownTimer(transactions')
          /\ cli' = [cli EXCEPT ![c] = Answered(@)]
          /\ UNCHANGED svcPc
     ELSE svcPc' = "panic" /\ UNCHANGED <<transactions, timer, cli>>
  /\ UNCHANGED <<cur, dest, draining, counter, registry, traffic, loop, process>>

\* A cancelAction
SvcCancel(c) ==
  /\ svcPc = "select" /\ cli[c].cancel = "wanted"
  /\ cancelled' = cancelled \cup ({cli[c].tid} \cap transactions)
  /\ cli' = [cli EXCEPT ![c].cancel = "sent"]
  /\ UNCHANGED <<service, table, registry, op, result, succeeded, loop, process>>

\* Mutant: the deleted instance's closeCh stays among the cases.
ForgetName(l, n) == instances' = [instances EXCEPT ![n] = None] /\ UNCHANGED watched

ForgetInstance(l, n) ==
  instances' = [instances EXCEPT ![n] = None] /\ watched' = watched \ {l}

\* The loop of an instance has closed its closeCh.  The service closes the
\* channel registered under the instance's name and forgets both; closing a
\* channel that is nil or closed panics.
SvcReap(l) ==
  /\ svcPc = "select" /\ l \in watched /\ loop[l].deleted
  /\ LET n == loop[l].name
         m == instances[n]
     IN IF m # None /\ ~loop[m].chClosed
        THEN /\ loop' = [loop EXCEPT ![m].chClosed = TRUE]
             /\ ForgetInstance(l, n)
             /\ UNCHANGED svcPc
        ELSE svcPc' = "panic" /\ UNCHANGED <<loop, instances, watched>>
  /\ UNCHANGED <<cur, dest, draining, table, hostIPs, gen, traffic, cli, process>>

-----------------------------------------------------------------------------
(***************************************************************************)
(* The instance loops and their create goroutines.                         *)
(***************************************************************************)

\* Mutants: only a deleted instance refuses, or only one being created.
RefusesWhenDeleted(l, t)  == loop[l].deleted
RefusesWhenCreating(l, t) == op[t] # "create" /\ loop[l].fn # "none"

\* A deleted instance refuses every command, one being created all but the
\* create command that started it.
Refuses(l, t) == loop[l].deleted \/ (op[t] # "create" /\ loop[l].fn # "none")

\* The loop receives the command the service is sending.  A create command goes to a goroutine, any other is executed by
\* the loop itself.
LoopReceive(l) ==
  /\ svcPc = "sending" /\ dest = l
  /\ loop[l].pc = "select" /\ ~loop[l].chClosed
  /\ svcPc' = "select" /\ cur' = None /\ dest' = None
  /\ LET t == cur IN
     \/ /\ Refuses(l, t)
        /\ result' = [result EXCEPT ![t] = Reply(@, "err")]
        /\ UNCHANGED loop
     \/ /\ ~Refuses(l, t) /\ op[t] = "create"
        /\ loop' = [loop EXCEPT ![l].create = t, ![l].fn = "running"]
        /\ UNCHANGED result
     \/ /\ ~Refuses(l, t) /\ op[t] # "create"
        /\ loop' = [loop EXCEPT ![l].pc = "running", ![l].cmd = t]
        /\ UNCHANGED result
  /\ UNCHANGED <<draining, table, registry, op, cancelled, succeeded, cli, process>>

Success(t, v) == IF v = "ok" THEN succeeded \cup {t} ELSE succeeded

\* The backend function of a command that is no creation ends with v: the
\* loop replies; a successful delete makes it close closeCh.
CommandDone(l, v) ==
  /\ loop[l].pc = "running"
  /\ LET t == loop[l].cmd IN
     /\ result' = [result EXCEPT ![t] = Reply(@, v)]
     /\ succeeded' = Success(t, v)
     /\ loop' = [loop EXCEPT ![l].pc = "select", ![l].cmd = None,
                             ![l].deleted = (op[t] = "delete" /\ v = "ok")]
  /\ UNCHANGED <<service, table, registry, op, cancelled, cli, process>>

\* createInstance reports progress; it blocks while the channel is full.
CreateLine(l) ==
  /\ loop[l].fn = "running" /\ loop[l].lines < MaxLines
  /\ LET t == loop[l].create IN
     /\ Len(result[t].buf) < ResultCap
     /\ result' = [result EXCEPT ![t] = Sent(@, "line")]
  /\ loop' = [loop EXCEPT ![l].lines = @ + 1]
  /\ UNCHANGED <<service, table, registry, op, cancelled, succeeded, cli, process>>

\* createInstance returns and its goroutine offers the outcome on createCh.
CreateDone(l, v) ==
  /\ loop[l].fn = "running"
  /\ loop' = [loop EXCEPT ![l].fn = v]
  /\ succeeded' = Success(loop[l].create, v)
  /\ UNCHANGED <<service, table, registry, op, cancelled, result, cli, process>>

\* The loop receives from createCh, in its select or, once its command
\* channel is closed, on its way out.
LoopCreateResult(l) ==
  /\ loop[l].fn \in Final /\ loop[l].pc \in {"select", "leaving"}
  /\ loop' = [loop EXCEPT ![l].pc = IF @ = "select" THEN "returning" ELSE "lastReturn"]
  /\ UNCHANGED <<service, table, registry, traffic, cli, process>>

\* returnCreateResult: it blocks while the result channel is full.  A failed
\* creation makes a loop that is not leaving close closeCh.
LoopReturn(l) ==
  /\ loop[l].pc \in {"returning", "lastReturn"}
  /\ LET t == loop[l].create IN
     /\ Len(result[t].buf) < ResultCap
     /\ result' = [result EXCEPT ![t] = Reply(@, loop[l].fn)]
  /\ loop' = [loop EXCEPT ![l] =
                IF loop[l].pc = "returning"
                THEN [loop[l] EXCEPT !.pc = "select", !.fn = "none",
                                     !.deleted = (loop[l].deleted \/ loop[l].fn = "err")]
                ELSE [loop[l] EXCEPT !.pc = "exited", !.fn = "none"]]
  /\ UNCHANGED <<service, table, registry, op, cancelled, succeeded, cli, process>>

\* The command channel is closed: the loop ends, after a creation it awaits.
LoopClosed(l) ==
  /\ loop[l].pc = "select" /\ loop[l].chClosed
  /\ loop' = [loop EXCEPT ![l].pc = IF loop[l].fn = "none" THEN "exited" ELSE "leaving"]
  /\ UNCHANGED <<service, table, registry, traffic, cli, process>>

-----------------------------------------------------------------------------
(***************************************************************************)
(* Shutdown.                                                               *)
(***************************************************************************)

\* A signal is delivered: the first to startServer, which has waited longest
\* and closes doneCh; a later one stays in signalCh, dropped when that is full.
Signal ==
  /\ nsig < MaxSignals /\ mainPc # "exited"
  /\ nsig' = nsig + 1
  /\ IF mainPc = "select" THEN mainPc' = "stopping" /\ UNCHANGED sigBuf
     ELSE sigBuf' = (IF sigBuf < 2 THEN sigBuf + 1 ELSE 2) /\ UNCHANGED mainPc
  /\ UNCHANGED <<service, table, registry, traffic, loop, cli, dlPc>>

\* Mutant: the service stops only when no transaction is open.
SvcDoneWhenIdle ==
  /\ svcPc = "select" /\ mainPc = "stopping" /\ transactions = {}
  /\ svcPc' = "draining" /\ draining' = transactions /\ timer' = "off"
  /\ UNCHANGED <<cur, dest, transactions, counter, registry, traffic, loop, cli, process>>

\* run receives from doneCh: it stops the timer and starts to cancel what is
\* in the table.
SvcDone ==
  /\ svcPc = "select" /\ mainPc = "stopping"
  /\ svcPc' = "draining" /\ draining' = transactions /\ timer' = "off"
  /\ UNCHANGED <<cur, dest, transactions, counter, registry, traffic, loop, cli, process>>

DrainNext(t) ==
  /\ svcPc = "draining" /\ cur = None /\ t \in draining
  /\ cur' = t /\ draining' = draining \ {t}
  /\ cancelled' = cancelled \cup {t}
  /\ UNCHANGED <<svcPc, dest, table, registry, op, result, succeeded, loop, cli, process>>

\* for range t.resultCh {}
DrainReceive ==
  /\ svcPc = "draining" /\ cur # None
  /\ \/ /\ result[cur].buf # <<>>
        /\ result' = [result EXCEPT ![cur].buf = Tail(@)]
        /\ UNCHANGED cur
     \/ /\ result[cur].buf = <<>> /\ result[cur].closed
        /\ cur' = None
        /\ UNCHANGED result
  /\ UNCHANGED <<svcPc, dest, draining, table, registry, op, cancelled, succeeded, loop, cli, process>>

\* run leaves its loop, after the drain or when the timer expires, and closes
\* the command channel of every registered instance.
CloseLoops ==
  /\ \/ svcPc = "draining" /\ cur = None /\ draining = {}
     \/ svcPc = "select" /\ timer = "set"
  /\ svcPc' = "waiting"
  /\ loop' = [l \in Loops |-> IF \E n \in Names : instances[n] = l
                              THEN [loop[l] EXCEPT !.chClosed = TRUE]
                              ELSE loop[l]]
  /\ UNCHANGED <<cur, dest, draining, table, registry, traffic, cli, process>>

\* instanceWg.Wait, after which run returns and finishedCh is closed.
SvcFinish ==
  /\ svcPc = "waiting" /\ \A l \in Loops : loop[l].pc \in {"unused", "exited"}
  /\ svcPc' = "finished"
  /\ UNCHANGED <<cur, dest, draining, table, registry, traffic, loop, cli, process>>

\* startServer learns from finishedCh that the service has ended.
MainFinished ==
  /\ mainPc = "select" /\ svcPc = "finished"
  /\ mainPc' = "stopping"
  /\ UNCHANGED <<service, table, registry, traffic, loop, cli, dlPc, sigBuf, nsig>>

\* The download manager returns: doneCh is closed and its transfers have ended.
ManagerReturns ==
  /\ mainPc = "stopping" /\ dlPc = "serving"
  /\ dlPc' = "returned"
  /\ UNCHANGED <<service, table, registry, traffic, loop, cli, mainPc, sigBuf, nsig>>

\* startServer returns once the service and the download manager have (wg.Wait),
\* and the process exits.  The connections of clients with a call outstanding
\* are lost.
MainExit ==
  /\ mainPc = "stopping" /\ svcPc = "finished" /\ dlPc = "returned"
  /\ mainPc' = "exited"
  /\ cli' = [c \in Clients |->
               [cli[c] EXCEPT !.pc     = IF @ = "dead" THEN "dead" ELSE "idle",
                              !.out    = IF cli[c].pc \in {"idle", "dead"} THEN @ ELSE "err",
                              !.cancel = IF @ = "wanted" THEN "sent" ELSE @]]
  /\ UNCHANGED <<service, table, registry, traffic, loop, dlPc, sigBuf, nsig>>

-----------------------------------------------------------------------------
Next ==
  \/ \E c \in Clients :
       \/ \E r \in Requests : Issue(c, r)
       \/ WantCancel(c) \/ ClientDie(c) \/ ReadResult(c)
       \/ StartSignalled(c) \/ ResultSignalled(c) \/ CancelSignalled(c)
       \/ SvcStart(c) \/ SvcGetResult(c) \/ SvcComplete(c) \/ SvcCancel(c)
  \/ \E l \in Loops :
       \/ SvcReap(l) \/ LoopReceive(l) \/ LoopCreateResult(l) \/ LoopReturn(l)
       \/ LoopClosed(l) \/ CreateLine(l)
       \/ \E v \in Final : CommandDone(l, v) \/ CreateDone(l, v)
  \/ \E t \in Tids : DrainNext(t)
  \/ SvcDone \/ DrainReceive \/ CloseLoops \/ SvcFinish
  \/ Signal \/ MainFinished \/ ManagerReturns \/ MainExit

Spec == Init /\ [][Next]_vars

\* The backend function a loop or its create goroutine is executing ends.  The
\* backend decides when: as long as the process is not told to stop, a command
\* in Hung when it is cancelled and any other by itself, but a creation not
\* while its result channel is full.  Nothing is promised after that: a creation
\* may wait for a download manager that has left, whatever its context says.
MayEnd(t) == /\ mainPc = "select" /\ (op[t] \in Hung => t \in cancelled)
             /\ op[t] = "create" => Len(result[t].buf) < ResultCap
BackendEnds(l) ==
  \/ loop[l].pc = "running" /\ MayEnd(loop[l].cmd) /\ \E v \in Final : CommandDone(l, v)
  \/ loop[l].fn = "running" /\ MayEnd(loop[l].create) /\ \E v \in Final : CreateDone(l, v)

(***************************************************************************)
(* Fairness.  Go runs every goroutine that can run.  A handler blocked on  *)
(* actionCh is served first come first served, and reflect.Select chooses  *)
(* at random among the ready cases: if the service keeps returning to its  *)
(* select, every blocked handler is served, though the service is not      *)
(* ready for it all the time.  Nothing is assumed of clients (that they    *)
(* issue, cancel or die) nor of signals.  The download manager returns if  *)
(* no creation was cancelled (Downloader's UncancelledReturns); otherwise  *)
(* it may wait for ever for a transfer that nobody listens to.             *)
(***************************************************************************)
CreateCancelled == \E t \in cancelled : op[t] = "create"

Fairness ==
  /\ \A c \in Clients :
       /\ SF_vars(SvcStart(c) \/ SvcGetResult(c) \/ SvcComplete(c))
       /\ SF_vars(SvcCancel(c))
       /\ WF_vars(ReadResult(c))
  /\ \A l \in Loops :
       /\ WF_vars(LoopReceive(l) \/ LoopCreateResult(l) \/ LoopReturn(l) \/ LoopClosed(l))
       /\ WF_vars(BackendEnds(l))
       /\ WF_vars(SvcReap(l))
  /\ WF_vars(SvcDone) /\ WF_vars(DrainReceive) /\ WF_vars(CloseLoops)
  /\ WF_vars(\E t \in Tids : DrainNext(t))
  /\ WF_vars(SvcFinish) /\ WF_vars(MainFinished) /\ WF_vars(MainExit)
  /\ WF_vars(ManagerReturns /\ ~CreateCancelled)

FairSpec == Spec /\ Fairness

-----------------------------------------------------------------------------
(***************************************************************************)
(* Properties.                                                             *)
(***************************************************************************)

LoopType ==
  [pc : {"unused", "select", "running", "returning", "leaving", "lastReturn", "exited"},
   name : Names \cup {NoName}, ip : IPs,
   cmd : Tids \cup {None}, create : Tids \cup {None},
   fn : {"none", "running"} \cup Final, lines : 0 .. MaxLines,
   deleted : BOOLEAN, chClosed : BOOLEAN]

ClientType ==
  [pc : {"idle", "starting", "getting", "reading", "completing", "dead"},
   req : Requests \cup {None}, tid : Tids,
   out : Final \cup {None, "unfinished"}, cancel : {"no", "wanted", "sent"}]

ServiceType ==
  /\ svcPc \in {"select", "sending", "draining", "waiting", "finished", "panic"}
  /\ cur \in Tids \cup {None} /\ dest \in Loops \cup {None} /\ draining \subseteq Tids

TableType == transactions \subseteq Tids /\ counter \in 0 .. MaxTrans /\ timer \in {"off", "set"}

RegistryType ==
  /\ instances \in [Names -> Loops \cup {None}] /\ watched \subseteq Loops
  /\ hostIPs \subseteq IPs /\ gen \in 0 .. NameCount - 1

ChannelType == [buf : Seq(Final \cup {"line"}), closed : BOOLEAN]

TrafficType ==
  /\ op \in [Tids -> Ops \cup {None}] /\ result \in [Tids -> ChannelType]
  /\ cancelled \subseteq Tids /\ succeeded \subseteq Tids

ProcessType ==
  /\ mainPc \in {"select", "stopping", "exited"} /\ dlPc \in {"serving", "returned"}
  /\ sigBuf \in 0 .. 2 /\ nsig \in 0 .. MaxSignals

\* Every variable has its type.
TypeOK == /\ ServiceType /\ TableType /\ RegistryType /\ TrafficType /\ ProcessType
          /\ loop \in [Loops -> LoopType] /\ cli \in [Clients -> ClientType]

\* The service never panics: it completes no transaction it does not know and
\* closes no channel that is nil or already closed.
NoPanic == svcPc # "panic"

\* Every instance that exists is the one its name leads to, so that commands
\* and the shutdown reach it (startInstanceLoop, getInstance, run).
LiveRegistered == \A l \in Loops : Live(l) => instances[loop[l].name] = l

\* At most one backend function runs on behalf of an instance name, whichever
\* loops and goroutines have been started for it.
BackendExclusive ==
  \A l, m \in Loops : \A t, u \in Tids :
    Executes(l, t) /\ Executes(m, u) /\ loop[l].name = loop[m].name => t = u

\* README: "Only one instance can be associated with one host IP address at
\* any one time."
HostIPUnique ==
  \A l, m \in Loops : Live(l) /\ Live(m) /\ loop[l].ip = loop[m].ip => l = m

\* The address of an existing instance is never one findFreeIP may hand out.
AddressReserved == \A l \in Loops : Live(l) => loop[l].ip \in hostIPs

\* Addresses are not given back (nothing removes one from hostIPs), so none may
\* be used up by a creation that is refused or a directory that is skipped: the
\* pool shrinks by the instances there have been, and by one address for each.
AddressesWereGiven ==
  \A ip \in hostIPs : \E l \in Loops : loop[l].pc # "unused" /\ loop[l].ip = ip

\* While the shutdown timer is set the service owes nobody anything: no client
\* has an open transaction and no backend function is interrupted by its exit.
TimerMeansIdle ==
  timer = "set" => /\ transactions = {}
                   /\ \A l \in Loops, t \in Tids : ~Executes(l, t)

\* A client told that its command succeeded can rely on it: the result is the
\* one of its own transaction and was not lost to the shutdown.
TruthfulResult ==
  \A c \in Clients :
    cli[c].pc = "idle" /\ cli[c].out = "ok" => cli[c].tid \in succeeded

\* A transaction stays in the table while its command is under way, so that it
\* can be cancelled (processAction, instanceLoop).
WorkIsCancellable ==
  \A l \in Loops, t \in Tids :
    Executes(l, t) => t \in transactions /\ ~result[t].closed

\* A name changes hands only by way of a deletion that has gone through.
RegistryStep ==
  [][\A n \in Names :
       instances[n] # None /\ instances'[n] # instances[n]
         => instances'[n] = None /\ loop[instances[n]].deleted]_vars

\* What may keep the process from exiting: a backend function executed in loop l
\* that is cancelled, or that keeps the loop from receiving what the service is
\* sending; and, after a creation was cancelled, the download manager.
Stuck(l) == \E t \in Tids :
  Executes(l, t) /\ (t \in cancelled \/ (svcPc = "sending" /\ dest = l))
LeftBehind == svcPc = "finished" /\ CreateCancelled
ProcessHangs == [](mainPc = "stopping" /\ (LeftBehind \/ \E l \in Loops : Stuck(l)))

\* Every command a client issues comes to an end, be it because the process
\* exits, unless that hangs.
CommandEnds ==
  \A c \in Clients : (cli[c].pc = "starting") ~> (cli[c].pc \in {"idle", "dead"} \/ ProcessHangs)

\* README.md:751, "If it has no work to do it quits.", for a service that has
\* had work: once every transaction is completed the process exits, unless more
\* arrives or it hangs, whatever instances were created, deleted and reaped.
QuitsWhenIdle == (Systemd /\ counter > 0 /\ transactions = {})
                   ~> (transactions # {} \/ mainPc = "exited" \/ ProcessHangs)

\* Once told to stop, the process exits or hangs in one of the ways known,
\* whatever was open, queued or abandoned then (run, startServer).
ShutdownCompletes == (mainPc = "stopping") ~> (mainPc = "exited" \/ ProcessHangs)

\* A client asks for a new instance that is valid in every other respect.
AsksToCreate(c) == /\ cli[c].req.op = "create" /\ cli[c].req.name # BadName
                   /\ cli[c].req.name \in Names => instances[cli[c].req.name] = None

\* newInstanceName: errors.New("All names are used up").
ExhaustionReported ==
  [][\A c \in Clients :
       (/\ SvcStart(c) /\ AsksToCreate(c)
        /\ cli[c].req.name = NoName /\ FreeNames = {})
         => result'[counter] = Reply(EmptyCh, "err")]_vars
=============================================================================
