---------------------------- MODULE BackendProofs ----------------------------
(***************************************************************************)
(* Theorems about Backend: whatever fails, is cancelled or crashes, a      *)
(* directory belongs to an instance, an instance has what it needs, and a  *)
(* QEMU is left behind only by a function that was cancelled.              *)
(***************************************************************************)
EXTENDS Backend, TLAPS

LEMMA Special ==
  /\ Bios \subseteq Names /\ None \notin Names \cup Nat
  /\ Rank \in [Names -> Nat] /\ \A m, n \in Names : m # n => Rank[m] # Rank[n]
  /\ PoolSize \in Nat /\ Requested \subseteq Nat \ {0}
  /\ MaxCommands \in Nat /\ MaxStarts \in Nat
BY BackendAssumption DEF BackendAssumption

-----------------------------------------------------------------------------
(***************************************************************************)
(* The inductive invariant.  It says of every name what the step its       *)
(* function is at has already done to the directory, the keys and QEMU,    *)
(* and what the function must still undo.                                  *)
(***************************************************************************)

\* createInstance before QEMU is launched, and from where on it has the key,
\* the state file and the disk image.
Unlaunched == {"keys", "keygen", "keypub", "config", "saving", "bios", "image", "images", "boot"}
WithKey    == {"config", "saving", "bios", "image", "images", "boot", "connect", "install"}
WithState  == {"bios", "image", "images", "boot", "connect", "install"}
WithImage  == {"boot", "connect", "install"}

CreateSteps == {"start", "connect", "install", "quitting", "hung", "cleanup"} \cup Unlaunched

\* Each backend function is at one of its own steps.
AtOwnStep(n) ==
  \/ job[n].kind = "none"   /\ job[n].pc = "none"
  \/ job[n].kind = "create" /\ job[n].pc \in CreateSteps
  \/ job[n].kind = "start"  /\ job[n].pc \in {"start", "saving", "boot", "hung"}
  \/ job[n].kind = "stop"   /\ job[n].pc \in {"start", "powerdown", "hung"}
  \/ job[n].kind = "quit"   /\ job[n].pc \in {"start", "hung"}
  \/ job[n].kind = "delete" /\ job[n].pc \in {"start", "remove", "hung"}

\* The instance can be reached with the key pair there is.
HasKey(n) == dir[n].key # None /\ dir[n].key = keys.priv /\ keys.pub = keys.priv

\* A service has met the address of n in another directory.
Skipped(n) == starts > 0 /\ ~Distinct(n)

\* A creation that has made its directory made it for a name that no instance
\* has, and knows what it finds there.
CreateHolds(n) == job[n].kind = "create" =>
  /\ n \in made \ lost => Skipped(n)
  /\ job[n].pc = "start" /\ dir[n].there => n \in lost \/ dir[n].state = "whole"
  /\ job[n].pc = "start" /\ dir[n].state = "whole" => ~Distinct(n)
  /\ job[n].pc # "start" => dir[n].there /\ n \notin made
  /\ job[n].pc \in Unlaunched => n \notin vm
  /\ job[n].pc = "keypub" => keys.priv = n
  /\ job[n].pc \in WithKey => HasKey(n)
  /\ job[n].pc \in WithState => dir[n].state = "whole"
  /\ job[n].pc \in WithImage => dir[n].image

\* A function that is about to remove a directory has made QEMU quit, unless
\* it was cancelled.
RemovesStopped(n) ==
  job[n].pc \in {"cleanup", "remove"} /\ n \in vm => n \in cancelled

\* What the next service does not register is being written or removed by a
\* function that a crash would record, or a fault has come in the way.
Accounted(n) ==
  dir[n].there => dir[n].state = "whole" \/ n \in lost \/ (up /\ CutBy(n))

\* An instance that exists: InstancesLast for name n.
Lasts(n) == n \in made \ lost =>
  /\ up /\ svc = "serving" => n \in registered \/ Skipped(n)
  /\ dir[n].image /\ HasKey(n)
  /\ dir[n].state = "whole" \/ (up /\ job[n].pc = "saving")

Owned(n) ==
  up /\ svc = "serving" /\ dir[n].there /\ Distinct(n) => n \in registered \cup lost

\* The address that a creation is to use, and the one in a state file that can
\* be read or is being written, is recorded for the name, unless it is one
\* that may be given twice.
Known(n, ip) == ip \in Nat \ {0} /\ (ip \in shared \/ ip = loopIP[n])
Recorded(n) ==
  /\ job[n].kind = "create" => Known(n, job[n].ip)
  /\ dir[n].state = "whole" \/ job[n].pc = "saving" => Known(n, dir[n].ip)

NameInv(n) ==
  /\ AtOwnStep(n) /\ CreateHolds(n) /\ RemovesStopped(n) /\ Accounted(n)
  /\ Lasts(n) /\ Owned(n) /\ Recorded(n)
  /\ ~dir[n].there => dir[n] = NoDir
  /\ job[n].pc = "saving" \/ n \in made => dir[n].there
  /\ n \in vm => dir[n].there
  /\ n \in cancelled => Busy(n)
  /\ Busy(n) => n \in registered
  /\ svc = "ended" => ~Busy(n)

\* id_rsa.pub, if there is one, is the public half of id_rsa.
KeysMatch == keys.pub # None => keys.pub = keys.priv

Pcs == {"none", "start", "keys", "keygen", "keypub", "config", "saving", "bios", "image",
        "images", "boot", "connect", "install", "quitting", "hung", "cleanup", "powerdown",
        "remove"}
IPs == Nat \cup {None}
JobType == [kind : Kinds \cup {"none"}, pc : Pcs, ip : IPs]
DirType == [there : BOOLEAN, state : {"none", "torn", "whole"}, ip : IPs,
            image : BOOLEAN, key : Names \cup {None}]
KeyType == [priv : Names \cup {None}, pub : Names \cup {None}]

\* Two loops record different addresses, 0 apart.
Apart == \A m, n \in Names : m # n /\ loopIP[m] = loopIP[n] => loopIP[m] \in {None, 0}

FunctionTypes ==
  /\ job \in [Names -> JobType] /\ cancelled \subseteq Names /\ made \subseteq Names
  /\ loopIP \in [Names -> IPs] /\ Apart
StoreTypes ==
  /\ dir \in [Names -> DirType] /\ keys \in KeyType
  /\ vm \subseteq Names /\ stray \subseteq Names /\ lost \subseteq Names
ProcessTypes ==
  /\ up \in BOOLEAN /\ done \in BOOLEAN /\ svc \in {"serving", "draining", "ended"}
  /\ dest \in Names \cup {None} /\ commands \in 0 .. MaxCommands /\ starts \in 0 .. MaxStarts
  /\ shared \subseteq Nat

Types == FunctionTypes /\ StoreTypes /\ ProcessTypes /\ D!DTypeOK

BackendInv == Types /\ KeysMatch /\ \A n \in Names : NameInv(n)

-----------------------------------------------------------------------------
\* What a step of n's function leaves alone: everything about other names.
\* The keys change only as long as no instance has them.

KeyStep(n) ==
  \/ keys' = keys
  \/ keys.priv = None /\ keys' = [keys EXCEPT !.priv = n]
  \/ keys.priv = n /\ keys' = [keys EXCEPT !.pub = n]

SameFunction(m) ==
  /\ job'[m] = job[m] /\ (m \in cancelled' <=> m \in cancelled)
  /\ loopIP'[m] = loopIP[m] /\ (m \in made' <=> m \in made)

SameStore(m) ==
  dir'[m] = dir[m] /\ (m \in vm' <=> m \in vm) /\ (m \in lost' <=> m \in lost)

LEMMA OtherName ==
  ASSUME BackendInv, NEW n \in Names, NEW m \in Names, m # n,
         SameFunction(m), SameStore(m), KeyStep(n), up' = up, svc' = svc,
         starts' = starts, shared \subseteq shared'
  PROVE  NameInv(m)'
<1>1. NameInv(m) /\ KeysMatch /\ keys \in KeyType
  BY DEF BackendInv, Types, StoreTypes
<1>2. /\ (HasKey(m) => HasKey(m)')
      /\ (keys.priv = m => keys'.priv = m)
  BY <1>1, Special DEF HasKey, KeyStep, KeysMatch, KeyType, SameStore
<1>3. CreateHolds(m)'
  BY <1>1, <1>2 DEF CreateHolds, NameInv, SameFunction, SameStore, Skipped, Distinct
<1>4. Lasts(m)' /\ Owned(m)' /\ Recorded(m)'
  BY <1>1, <1>2 DEF Lasts, Owned, NameInv, SameFunction, SameStore, Skipped, Distinct,
                    registered, Recorded, Known
<1>5. AtOwnStep(m)' /\ RemovesStopped(m)' /\ Accounted(m)'
  BY <1>1 DEF AtOwnStep, RemovesStopped, Accounted, CutBy, NameInv, SameFunction, SameStore
<1> QED BY <1>1, <1>3, <1>4, <1>5 DEF NameInv, Busy, SameFunction, SameStore, registered

LEMMA GotoEffect ==
  ASSUME FunctionTypes, NEW n \in Names, NEW pc \in Pcs, Goto(n, pc)
  PROVE  /\ FunctionTypes'
         /\ job'[n].kind = job[n].kind /\ job'[n].pc = pc /\ job'[n].ip = job[n].ip
         /\ \A m \in Names : m # n => SameFunction(m)
BY DEF Goto, FunctionTypes, JobType, SameFunction, Apart

LEMMA EndEffect ==
  ASSUME FunctionTypes, NEW n \in Names, NEW ok \in BOOLEAN, End(n, ok)
  PROVE  /\ FunctionTypes'
         /\ job'[n].kind = "none" /\ job'[n].pc = "none" /\ n \notin cancelled'
         /\ loopIP'[n] = IF Forgets(n, ok) THEN None ELSE loopIP[n]
         /\ n \in made' <=> \/ job[n].kind = "create" /\ ok
                            \/ n \in made /\ ~(job[n].kind = "delete" /\ ok)
         /\ \A m \in Names : m # n => SameFunction(m)
BY Special DEF End, Idle, Kinds, Pcs, FunctionTypes, JobType, SameFunction, Apart, IPs, registered

\* Putting a step of n's function together.
LEMMA SharingStep ==
  ASSUME BackendInv, NEW n \in Names, FunctionTypes', StoreTypes', D!DTypeOK',
         UNCHANGED <<process, commands, starts>>, shared \subseteq shared', shared' \subseteq Nat,
         KeyStep(n), NameInv(n)',
         \A m \in Names : m # n => SameFunction(m) /\ SameStore(m)
  PROVE  BackendInv'
<1>1. \A m \in Names : NameInv(m)'
  BY OtherName DEF process
<1>2. KeysMatch'
  BY Special DEF BackendInv, Types, StoreTypes, KeysMatch, KeyStep, KeyType
<1>3. ProcessTypes'
  BY DEF BackendInv, Types, ProcessTypes, process
<1> QED BY <1>1, <1>2, <1>3 DEF BackendInv, Types

LEMMA FunctionStep ==
  ASSUME BackendInv, NEW n \in Names, FunctionTypes', StoreTypes', D!DTypeOK',
         UNCHANGED <<process, intake>>, KeyStep(n), NameInv(n)',
         \A m \in Names : m # n => SameFunction(m) /\ SameStore(m)
  PROVE  BackendInv'
BY SharingStep DEF intake, BackendInv, Types, ProcessTypes

\* What is known of n before a step.
LEMMA Before ==
  ASSUME BackendInv, NEW n \in Names
  PROVE  /\ NameInv(n) /\ KeysMatch /\ Types /\ FunctionTypes /\ StoreTypes
         /\ job[n] \in JobType /\ dir[n] \in DirType /\ keys \in KeyType
BY DEF BackendInv, Types, FunctionTypes, StoreTypes

\* The lemmas on steps speak about the parts of the invariant, expanded from
\* here on, and about what the groups of variables stand for.
USE DEF AtOwnStep, CreateSteps, CreateHolds, RemovesStopped, Accounted, Lasts, Owned,
        Unlaunched, WithKey, WithState, WithImage, HasKey, CutBy, Busy, At,
        process, machines, store, downloads, intake, registered, Skipped, Distinct, Recorded, Known

\* Steps that do no more than go on to another step or fail.
LEMMA QuietGoto ==
  ASSUME BackendInv, NEW n \in Names, NEW pc \in Pcs, Goto(n, pc), Busy(n),
         UNCHANGED <<store, machines, process, downloads, lost, intake>>,
         (AtOwnStep(n) /\ CreateHolds(n) /\ RemovesStopped(n))',
         CutBy(n) => CutBy(n)', job[n].pc # "saving", pc \notin {"none", "saving"}
  PROVE  BackendInv'
<1>1. NameInv(n) /\ Types /\ FunctionTypes /\ StoreTypes /\ job[n] \in JobType
  BY Before
<1>2. /\ FunctionTypes' /\ job'[n].kind = job[n].kind /\ job'[n].pc = pc
      /\ \A m \in Names : m # n => SameFunction(m)
  BY <1>1, GotoEffect
<1>3. StoreTypes' /\ D!DTypeOK' /\ KeyStep(n) /\ \A m \in Names : SameStore(m)
  BY <1>1 DEF Types, StoreTypes, D!DTypeOK, KeyStep, SameStore
<1>4. NameInv(n)'
  BY <1>1, <1>2 DEF NameInv, Goto
<1> QED BY <1>2, <1>3, <1>4, FunctionStep

-----------------------------------------------------------------------------
\* createInstance.

LEMMA CreateDirStep ==
  ASSUME BackendInv, NEW n \in Names, up, CreateDir(n)
  PROVE  BackendInv'
<1>1. NameInv(n) /\ Types /\ FunctionTypes /\ StoreTypes /\ job[n] \in JobType /\ dir[n] \in DirType
  BY Before
<1>2. /\ job[n].kind = "create" /\ job[n].pc = "start" /\ keys' = keys
      /\ UNCHANGED <<keys, machines, process, downloads, lost, intake>>
  BY DEF CreateDir
<1>3. CASE End(n, FALSE) /\ UNCHANGED dir
  <2>1. /\ FunctionTypes' /\ job'[n].kind = "none" /\ job'[n].pc = "none" /\ n \notin cancelled'
        /\ loopIP'[n] = None /\ (n \in made' <=> n \in made)
        /\ \A m \in Names : m # n => SameFunction(m)
    BY <1>1, <1>2, <1>3, EndEffect DEF Forgets
  <2>2. NameInv(n)'
    <3>1. Recorded(n)'
      BY <1>1, <1>2, <1>3, <2>1 DEF NameInv
    <3>2. Lasts(n)' /\ Owned(n)'
      BY <1>1, <1>2, <1>3, <2>1 DEF NameInv
    <3>3. CreateHolds(n)' /\ AtOwnStep(n)' /\ RemovesStopped(n)' /\ Accounted(n)'
      BY <1>1, <1>2, <1>3, <2>1 DEF NameInv
    <3> QED BY <1>1, <1>2, <1>3, <2>1, <3>1, <3>2, <3>3 DEF NameInv
  <2>3. StoreTypes' /\ D!DTypeOK' /\ KeyStep(n) /\ \A m \in Names : SameStore(m)
    BY <1>1, <1>2, <1>3 DEF Types, StoreTypes, D!DTypeOK, KeyStep, SameStore
  <2> QED BY <1>2, <2>1, <2>2, <2>3, FunctionStep
<1>4. CASE /\ ~dir[n].there /\ dir' = [dir EXCEPT ![n].there = TRUE]
           /\ Goto(n, "keys")
  <2>1. /\ FunctionTypes' /\ job'[n].kind = "create" /\ job'[n].pc = "keys"
        /\ \A m \in Names : m # n => SameFunction(m)
    BY <1>1, <1>2, <1>4, GotoEffect DEF Pcs
  <2>2. StoreTypes' /\ D!DTypeOK' /\ KeyStep(n) /\ \A m \in Names : m # n => SameStore(m)
    BY <1>1, <1>2, <1>4 DEF Types, StoreTypes, DirType, D!DTypeOK, KeyStep, SameStore
  <2>3. dir'[n].there /\ dir'[n].state = "none" /\ n \notin made /\ n \notin vm
    BY <1>1, <1>4 DEF NameInv, NoDir, StoreTypes, DirType
  <2>4. NameInv(n)'
    BY <1>1, <1>2, <1>4, <2>1, <2>3 DEF NameInv, Goto
  <2> QED BY <1>2, <2>1, <2>2, <2>4, FunctionStep
<1> QED BY <1>3, <1>4 DEF CreateDir

\* A creation that goes to its deferred function.
LEMMA FailStep ==
  ASSUME BackendInv, NEW n \in Names, job[n].kind = "create", job[n].pc \notin {"start", "saving"},
         n \in vm => n \in cancelled, Fail(n),
         UNCHANGED <<store, machines, process, downloads, lost, intake>>
  PROVE  BackendInv'
<1>1. NameInv(n) /\ FunctionTypes /\ job[n] \in JobType
  BY Before
<1>2. Goto(n, "cleanup") /\ Busy(n) /\ "cleanup" \in Pcs
  BY DEF Fail, Pcs
<1>3. job'[n].kind = "create" /\ job'[n].pc = "cleanup"
  BY <1>1, <1>2, GotoEffect
<1>4. (AtOwnStep(n) /\ CreateHolds(n) /\ RemovesStopped(n))' /\ CutBy(n)'
  BY <1>1, <1>2, <1>3 DEF NameInv, Goto
<1> QED BY <1>2, <1>4, QuietGoto

LEMMA CreateFailsStep ==
  ASSUME BackendInv, NEW n \in Names, CreateFails(n)
  PROVE  BackendInv'
<1>1. NameInv(n)
  BY Before
<1>2. n \notin vm /\ job[n].pc \notin {"start", "saving"}
  BY <1>1 DEF CreateFails, Fallible, NameInv
<1> QED BY <1>2, FailStep DEF CreateFails

\* prepareSSHKeys.
LEMMA KeySteps ==
  ASSUME BackendInv, NEW n \in Names, FindKeys(n) \/ MakePrivate(n) \/ MakePublic(n)
  PROVE  BackendInv'
<1>1. /\ NameInv(n) /\ KeysMatch /\ Types /\ FunctionTypes /\ StoreTypes
      /\ job[n] \in JobType /\ dir[n] \in DirType /\ keys \in KeyType
  BY Before
<1>2. /\ job[n].kind = "create" /\ job[n].pc \in {"keys", "keygen", "keypub"}
      /\ UNCHANGED <<machines, process, downloads, lost, intake>>
  BY DEF FindKeys, MakePrivate, MakePublic
<1>3. CASE /\ job[n].pc \in {"keygen", "keypub"} /\ Fail(n) /\ UNCHANGED <<dir, keys>>
  BY <1>1, <1>2, <1>3, FailStep DEF NameInv
<1>4. CASE /\ keys.priv # None /\ keys.pub # None
           /\ Goto(n, "config") /\ dir' = [dir EXCEPT ![n].key = keys.pub] /\ keys' = keys
  <2>1. /\ FunctionTypes' /\ job'[n].kind = "create" /\ job'[n].pc = "config"
        /\ \A m \in Names : m # n => SameFunction(m)
    BY <1>1, <1>2, <1>4, GotoEffect DEF Pcs
  <2>2. /\ StoreTypes' /\ D!DTypeOK' /\ KeyStep(n) /\ \A m \in Names : m # n => SameStore(m)
        /\ dir'[n] = [dir[n] EXCEPT !.key = keys.pub]
    BY <1>1, <1>2, <1>4 DEF Types, StoreTypes, DirType, KeyType, D!DTypeOK, KeyStep, SameStore
  <2>3. NameInv(n)'
    BY <1>1, <1>2, <1>4, <2>1, <2>2 DEF NameInv, Goto, KeysMatch, DirType
  <2> QED BY <1>2, <2>1, <2>2, <2>3, FunctionStep
<1>5. CASE job[n].pc = "keys" /\ Goto(n, "keygen") /\ UNCHANGED <<dir, keys>>
  <2>1. job'[n].kind = "create" /\ job'[n].pc = "keygen" /\ "keygen" \in Pcs
    BY <1>1, <1>2, <1>5, GotoEffect DEF Pcs
  <2>2. (AtOwnStep(n) /\ CreateHolds(n) /\ RemovesStopped(n))' /\ CutBy(n)'
    BY <1>1, <1>2, <1>5, <2>1 DEF NameInv, Goto
  <2> QED BY <1>2, <1>5, <2>1, <2>2, QuietGoto
<1>6. CASE /\ job[n].pc = "keygen" /\ Goto(n, "keypub") /\ keys.priv = None
           /\ keys' = [keys EXCEPT !.priv = n] /\ dir' = dir
  <2>1. /\ FunctionTypes' /\ job'[n].kind = "create" /\ job'[n].pc = "keypub"
        /\ \A m \in Names : m # n => SameFunction(m)
    BY <1>1, <1>2, <1>6, GotoEffect DEF Pcs
  <2>2. /\ StoreTypes' /\ D!DTypeOK' /\ KeyStep(n) /\ \A m \in Names : m # n => SameStore(m)
    BY <1>1, <1>2, <1>6 DEF Types, StoreTypes, KeyType, D!DTypeOK, KeyStep, SameStore
  <2>3. NameInv(n)'
    BY <1>1, <1>2, <1>6, <2>1, <2>2 DEF NameInv, Goto, KeyType
  <2> QED BY <1>2, <2>1, <2>2, <2>3, FunctionStep
<1>7. CASE /\ job[n].pc = "keypub" /\ Goto(n, "config")
           /\ keys' = [keys EXCEPT !.pub = n] /\ dir' = [dir EXCEPT ![n].key = n]
  <2>1. /\ FunctionTypes' /\ job'[n].kind = "create" /\ job'[n].pc = "config"
        /\ \A m \in Names : m # n => SameFunction(m)
    BY <1>1, <1>2, <1>7, GotoEffect DEF Pcs
  <2>2. keys.priv = n
    BY <1>1, <1>2, <1>7 DEF NameInv
  <2>3. /\ StoreTypes' /\ D!DTypeOK' /\ KeyStep(n) /\ \A m \in Names : m # n => SameStore(m)
        /\ dir'[n] = [dir[n] EXCEPT !.key = n]
    BY <1>1, <1>2, <1>7, <2>2 DEF Types, StoreTypes, DirType, KeyType, D!DTypeOK, KeyStep, SameStore
  <2>4. NameInv(n)'
    BY <1>1, <1>2, <1>7, <2>1, <2>2, <2>3, Special DEF NameInv, Goto, KeyType, DirType
  <2> QED BY <1>2, <2>1, <2>3, <2>4, FunctionStep
<1> QED BY <1>2, <1>3, <1>4, <1>5, <1>6, <1>7 DEF FindKeys, MakePrivate, MakePublic, MayMakeKey

\* The state file: Configure opens it, Save writes it.
LEMMA SaveSteps ==
  ASSUME BackendInv, NEW n \in Names, up, Configure(n) \/ Save(n)
  PROVE  BackendInv'
<1>1. /\ NameInv(n) /\ KeysMatch /\ Types /\ FunctionTypes /\ StoreTypes
      /\ job[n] \in JobType /\ dir[n] \in DirType /\ keys \in KeyType
  BY Before
<1>2. UNCHANGED <<keys, machines, process, downloads, intake>>
  BY DEF Configure, Save
<1>3. CASE Configure(n)
  <2>1. /\ job[n].kind = "create" /\ job[n].pc = "config" /\ Goto(n, "saving") /\ UNCHANGED lost
        /\ dir' = [dir EXCEPT ![n].state = "torn", ![n].ip = job[n].ip]
    BY <1>3 DEF Configure
  <2>2. /\ FunctionTypes' /\ job'[n].kind = "create" /\ job'[n].pc = "saving"
        /\ job'[n].ip = job[n].ip
        /\ \A m \in Names : m # n => SameFunction(m)
    BY <1>1, <2>1, GotoEffect DEF Pcs
  <2>3. /\ StoreTypes' /\ D!DTypeOK' /\ KeyStep(n) /\ \A m \in Names : m # n => SameStore(m)
        /\ dir'[n] = [dir[n] EXCEPT !.state = "torn", !.ip = job[n].ip]
    BY <1>1, <1>2, <2>1 DEF Types, StoreTypes, DirType, JobType, D!DTypeOK, KeyStep, SameStore
  <2>4. NameInv(n)'
    <3>1. /\ dir'[n].there = dir[n].there /\ dir'[n].image = dir[n].image
          /\ dir'[n].key = dir[n].key /\ dir'[n].state = "torn" /\ dir'[n].ip = job[n].ip
      BY <1>1, <2>3 DEF DirType
    <3>2. UNCHANGED <<cancelled, loopIP, made, lost, shared, starts, keys, vm>>
      BY <1>2, <2>1 DEF Goto
    <3>3. Recorded(n)'
      BY <1>1, <2>1, <2>2, <3>1, <3>2 DEF NameInv
    <3>4. CreateHolds(n)'
      BY <1>1, <2>1, <2>2, <3>1, <3>2 DEF NameInv
    <3>5. Lasts(n)' /\ Owned(n)'
      BY <1>1, <1>2, <2>1, <2>2, <3>1, <3>2 DEF NameInv
    <3> QED BY <1>1, <1>2, <2>1, <2>2, <3>1, <3>2, <3>3, <3>4, <3>5 DEF NameInv
  <2> QED BY <1>2, <2>2, <2>3, <2>4, FunctionStep
<1>4. CASE /\ job[n].pc = "saving" /\ dir' = [dir EXCEPT ![n].state = "whole"]
           /\ Goto(n, AfterSave(n)) /\ UNCHANGED lost
  <2>1. AfterSave(n) \in {"boot", "bios", "image"} /\ (job[n].kind = "start" => AfterSave(n) = "boot")
        /\ (job[n].kind = "create" => AfterSave(n) # "boot")
    BY DEF AfterSave
  <2>2. /\ FunctionTypes' /\ job'[n].kind = job[n].kind /\ job'[n].pc = AfterSave(n)
        /\ job'[n].ip = job[n].ip
        /\ \A m \in Names : m # n => SameFunction(m)
    BY <1>1, <1>4, <2>1, GotoEffect DEF Pcs
  <2>3. /\ StoreTypes' /\ D!DTypeOK' /\ KeyStep(n) /\ \A m \in Names : m # n => SameStore(m)
        /\ dir'[n] = [dir[n] EXCEPT !.state = "whole"]
    BY <1>1, <1>2, <1>4 DEF Types, StoreTypes, DirType, D!DTypeOK, KeyStep, SameStore
  <2>4. \/ job[n].kind = "start" /\ job'[n].pc = "boot"
        \/ job[n].kind = "create" /\ job'[n].pc \in {"bios", "image"}
    BY <1>1, <1>4, <2>1, <2>2 DEF NameInv
  <2>5. UNCHANGED <<cancelled, loopIP, made, lost>>
    BY <1>4 DEF Goto
  <2>6. NameInv(n)'
    BY <1>1, <1>2, <1>4, <2>2, <2>3, <2>4, <2>5 DEF NameInv, DirType
  <2> QED BY <1>2, <2>2, <2>3, <2>6, FunctionStep
<1>5. CASE /\ job[n].pc = "saving" /\ job[n].kind = "create" /\ Fail(n) /\ UNCHANGED <<dir, lost>>
  <2>1. /\ FunctionTypes' /\ job'[n].kind = "create" /\ job'[n].pc = "cleanup"
        /\ \A m \in Names : m # n => SameFunction(m)
    BY <1>1, <1>5, GotoEffect DEF Pcs, Fail
  <2>2. /\ StoreTypes' /\ D!DTypeOK' /\ KeyStep(n) /\ \A m \in Names : SameStore(m)
    BY <1>1, <1>2, <1>5 DEF Types, StoreTypes, D!DTypeOK, KeyStep, SameStore
  <2>3. NameInv(n)'
    BY <1>1, <1>2, <1>5, <2>1 DEF NameInv, Fail, Goto
  <2> QED BY <1>2, <2>1, <2>2, <2>3, FunctionStep
<1>6. CASE /\ job[n].pc = "saving" /\ job[n].kind # "create" /\ Goto(n, "boot")
           /\ dir' = dir /\ lost' = lost \cup {n}
  <2>1. /\ FunctionTypes' /\ job'[n].kind = job[n].kind /\ job'[n].pc = "boot"
        /\ \A m \in Names : m # n => SameFunction(m)
    BY <1>1, <1>6, GotoEffect DEF Pcs
  <2>2. /\ StoreTypes' /\ D!DTypeOK' /\ KeyStep(n) /\ \A m \in Names : m # n => SameStore(m)
    BY <1>1, <1>2, <1>6 DEF Types, StoreTypes, D!DTypeOK, KeyStep, SameStore
  <2>3. NameInv(n)'
    BY <1>1, <1>2, <1>6, <2>1 DEF NameInv, Goto
  <2> QED BY <1>2, <2>1, <2>2, <2>3, FunctionStep
<1> QED BY <1>3, <1>4, <1>5, <1>6 DEF Save

\* What the download manager and those who ask it do to a request.
LEMMA DownloadsType ==
  ASSUME D!DTypeOK, NEW n \in Names,
         D!Offer(n) \/ D!Take(n) \/ D!Answer(n) \/ D!Collect(n)
  PROVE  D!DTypeOK'
BY DEF D!DTypeOK, D!Offer, D!Take, D!Answer, D!Collect, D!MayLeave, D!Receiving

\* A step that is one of the download manager only.
LEMMA DownloadsStep ==
  ASSUME BackendInv, D!DTypeOK',
         UNCHANGED <<process, loopIP, job, cancelled, store, machines, history, intake>>
  PROVE  BackendInv'
<1>1. Types'
  BY DEF BackendInv, Types, FunctionTypes, Apart, StoreTypes, ProcessTypes, history
<1>2. ASSUME NEW n \in Names PROVE NameInv(n)'
  BY DEF BackendInv, NameInv, history
<1> QED BY <1>1, <1>2 DEF BackendInv, KeysMatch

\* downloadImages.
LEMMA DownloadSteps ==
  ASSUME BackendInv, NEW n \in Names, Ask(n) \/ Downloaded(n)
  PROVE  BackendInv'
<1>1. /\ NameInv(n) /\ Types /\ FunctionTypes /\ StoreTypes /\ job[n] \in JobType
  BY Before
<1>2. D!DTypeOK'
  BY <1>1, DownloadsType DEF Types, Ask, Downloaded
<1>3. CASE Ask(n)
  BY <1>2, <1>3, DownloadsStep DEF Ask
<1>4. CASE Downloaded(n)
  <2> DEFINE pc == IF ask[n] = "failed" THEN "cleanup"
                   ELSE IF job[n].pc = "bios" THEN "image" ELSE "images"
  <2>1. /\ job[n].kind = "create" /\ job[n].pc \in {"bios", "image"} /\ Goto(n, pc)
        /\ UNCHANGED <<store, machines, process, lost, intake>>
    BY <1>1, <1>4 DEF Downloaded, Fail, NameInv
  <2>2. pc \in {"cleanup", "image", "images"}
    OBVIOUS
  <2> HIDE DEF pc
  <2>3. /\ FunctionTypes' /\ job'[n].kind = "create" /\ job'[n].pc = pc
        /\ \A m \in Names : m # n => SameFunction(m)
    BY <1>1, <2>1, <2>2, GotoEffect DEF Pcs
  <2>4. StoreTypes' /\ KeyStep(n) /\ \A m \in Names : SameStore(m)
    BY <1>1, <2>1 DEF StoreTypes, KeyStep, SameStore
  <2>5. NameInv(n)'
    BY <1>1, <2>1, <2>2, <2>3 DEF NameInv, Goto
  <2> QED BY <1>2, <2>1, <2>3, <2>4, <2>5, FunctionStep
<1> QED BY <1>3, <1>4

LEMMA CreateImagesStep ==
  ASSUME BackendInv, NEW n \in Names, CreateImages(n)
  PROVE  BackendInv'
<1>1. /\ NameInv(n) /\ Types /\ FunctionTypes /\ StoreTypes
      /\ job[n] \in JobType /\ dir[n] \in DirType
  BY Before
<1>2. /\ job[n].kind = "create" /\ job[n].pc = "images"
      /\ UNCHANGED <<keys, machines, process, downloads, lost, intake>>
  BY DEF CreateImages
<1>3. CASE Fail(n) /\ UNCHANGED dir
  BY <1>1, <1>2, <1>3, FailStep DEF NameInv
<1>4. CASE Goto(n, "boot") /\ dir' = [dir EXCEPT ![n].image = TRUE]
  <2>1. /\ FunctionTypes' /\ job'[n].kind = "create" /\ job'[n].pc = "boot"
        /\ \A m \in Names : m # n => SameFunction(m)
    BY <1>1, <1>2, <1>4, GotoEffect DEF Pcs
  <2>2. /\ StoreTypes' /\ D!DTypeOK' /\ KeyStep(n) /\ \A m \in Names : m # n => SameStore(m)
        /\ dir'[n] = [dir[n] EXCEPT !.image = TRUE]
    BY <1>1, <1>2, <1>4 DEF Types, StoreTypes, DirType, D!DTypeOK, KeyStep, SameStore
  <2>3. NameInv(n)'
    BY <1>1, <1>2, <1>4, <2>1, <2>2 DEF NameInv, Goto, DirType
  <2> QED BY <1>2, <2>1, <2>2, <2>3, FunctionStep
<1> QED BY <1>3, <1>4 DEF CreateImages

\* QEMU is launched, reached, watched and made to quit.
LEMMA InstallSteps ==
  ASSUME BackendInv, NEW n \in Names,
         CreateBoot(n) \/ Connect(n) \/ Finished(n) \/ InstallEnds(n) \/ Quitting(n)
  PROVE  BackendInv'
<1>1. /\ NameInv(n) /\ Types /\ FunctionTypes /\ StoreTypes /\ job[n] \in JobType
  BY Before
<1>2. /\ job[n].kind = "create" /\ job[n].pc \in {"boot", "connect", "install", "quitting"}
      /\ UNCHANGED <<store, stray, process, downloads, lost, intake>>
  <2>1. \E pc \in {"boot", "connect", "install", "quitting"} : At(n, "create", pc)
    BY Zenon DEF CreateBoot, Connect, Finished, InstallEnds, Quitting
  <2>2. UNCHANGED <<store, stray, process, downloads, lost, intake>>
    BY DEF CreateBoot, Connect, Finished, InstallEnds, Quitting
  <2> QED BY <2>1, <2>2
<1>3. ASSUME NEW pc \in {"connect", "install", "quitting", "cleanup"}, Goto(n, pc),
             vm' \in {vm, vm \cup {n}, vm \ {n}},
             pc \in {"connect", "install"} => job[n].pc \in {"boot", "connect"},
             pc = "cleanup" /\ n \in vm' => n \in cancelled
      PROVE  BackendInv'
  <2>1. /\ FunctionTypes' /\ job'[n].kind = "create" /\ job'[n].pc = pc
        /\ \A m \in Names : m # n => SameFunction(m)
    BY <1>1, <1>2, <1>3, GotoEffect DEF Pcs
  <2>2. StoreTypes' /\ D!DTypeOK' /\ KeyStep(n) /\ \A m \in Names : m # n => SameStore(m)
    BY <1>1, <1>2, <1>3 DEF Types, StoreTypes, D!DTypeOK, KeyStep, SameStore
  <2>3. NameInv(n)'
    BY <1>1, <1>2, <1>3, <2>1 DEF NameInv, Goto
  <2> QED BY <1>2, <2>1, <2>2, <2>3, FunctionStep
<1>4. CASE CreateBoot(n)
  BY <1>3, <1>4 DEF CreateBoot
<1>5. CASE Connect(n)
  BY <1>2, <1>3, <1>5 DEF Connect, Fail
<1>6. CASE InstallEnds(n)
  BY <1>3, <1>6 DEF InstallEnds, Fail
<1>7. CASE Quitting(n)
  BY <1>3, <1>7 DEF Quitting, QemuQuits, Fail
<1>8. CASE Finished(n)
  <2>0. End(n, TRUE) /\ UNCHANGED machines /\ At(n, "create", "install")
    BY <1>8, Zenon DEF Finished
  <2>1. job[n].pc = "install" /\ vm' = vm
    BY <2>0
  <2>2. /\ FunctionTypes' /\ job'[n].kind = "none" /\ job'[n].pc = "none" /\ n \notin cancelled'
        /\ loopIP'[n] = loopIP[n] /\ n \in made'
        /\ \A m \in Names : m # n => SameFunction(m)
    BY <1>1, <1>2, <2>0, EndEffect DEF Forgets
  <2>3. StoreTypes' /\ D!DTypeOK' /\ KeyStep(n) /\ \A m \in Names : SameStore(m)
    BY <1>1, <1>2, <2>1 DEF Types, StoreTypes, D!DTypeOK, KeyStep, SameStore
  <2>4. NameInv(n)'
    BY <1>1, <1>2, <2>1, <2>2 DEF NameInv
  <2> QED BY <1>2, <2>2, <2>3, <2>4, FunctionStep
<1> QED BY <1>4, <1>5, <1>6, <1>7, <1>8

\* What RemoveAll leaves: no directory and no QEMU that can be reached, or a
\* name that is recorded as lost.
LEMMA RemoveAllEffect ==
  ASSUME BackendInv, NEW n \in Names, NEW left \in Leftovers(n), RemoveAll(n, left)
  PROVE  /\ StoreTypes' /\ D!DTypeOK' /\ KeyStep(n) /\ \A m \in Names : m # n => SameStore(m)
         /\ UNCHANGED <<keys, process, commands, starts>>
         /\ dir'[n].state = left.state /\ dir'[n].ip = left.ip
         /\ left.state = "whole" => dir[n].state = "whole" /\ left.ip = dir[n].ip
         /\ dir'[n].there = left.there /\ (~left.there <=> left = NoDir)
         /\ left = NoDir => n \notin vm' /\ n \notin lost' /\ dir'[n] = NoDir
         /\ left # NoDir => n \in lost' /\ (n \in vm' <=> n \in vm) /\ dir[n].there
         /\ stray' \ stray \subseteq {n} \cap vm
<1>1. /\ NameInv(n) /\ Types /\ StoreTypes /\ dir[n] \in DirType
  BY Before
<1>2. /\ left \in DirType /\ (left.there <=> left # NoDir) /\ (left # NoDir => dir[n].there)
      /\ left.state = "whole" => left = dir[n]
  <2>1. NoDir \in DirType /\ ~NoDir.there /\ NoDir.state = "none" /\ NoDir.ip = None
    BY DEF DirType, NoDir, IPs
  <2>2. CASE ~dir[n].there
    <3>1. dir[n] = NoDir
      BY <1>1, <2>2 DEF NameInv
    <3>2. \A d \in DirType :
            d.state = "none" /\ d.ip = None => [d EXCEPT !.state = "none", !.ip = None] = d
      BY DEF DirType
    <3> QED BY <2>1, <3>1, <3>2 DEF Leftovers
  <2>3. CASE dir[n].there
    BY <1>1, <2>1, <2>3 DEF Leftovers, DirType, IPs
  <2> QED BY <2>2, <2>3
<1>3. /\ dir' = [dir EXCEPT ![n] = left] /\ UNCHANGED <<keys, process, downloads, commands, starts>>
      /\ lost' = IF left = NoDir THEN lost \ {n} ELSE lost \cup {n}
  BY DEF RemoveAll
<1>4. /\ vm' = IF left = NoDir THEN vm \ {n} ELSE vm
      /\ stray' = IF left = NoDir /\ n \in vm THEN stray \cup {n} ELSE stray
  BY DEF RemoveAll
<1> HIDE DEF NoDir
<1>5. StoreTypes' /\ \A m \in Names : m # n => SameStore(m)
  BY <1>1, <1>2, <1>3, <1>4 DEF StoreTypes, SameStore
<1>6. D!DTypeOK' /\ KeyStep(n)
  BY <1>1, <1>3 DEF Types, D!DTypeOK, KeyStep
<1> QED BY <1>1, <1>2, <1>3, <1>4, <1>5, <1>6 DEF StoreTypes

\* Only a function that was cancelled leaves a QEMU behind.
LEMMA RemoveSteps ==
  ASSUME BackendInv, NEW n \in Names, Cleanup(n) \/ DeleteRemove(n)
  PROVE  BackendInv' /\ stray' \ stray \subseteq cancelled
<1>1. /\ NameInv(n) /\ FunctionTypes /\ job[n] \in JobType
  BY Before
<1>2. PICK left \in Leftovers(n), ok \in BOOLEAN :
         /\ RemoveAll(n, left) /\ End(n, ok)
         /\ \/ /\ job[n].kind = "create" /\ job[n].pc = "cleanup" /\ ok = FALSE
               /\ shared' = IF left.state = "whole" THEN shared \cup {left.ip} ELSE shared
            \/ /\ job[n].kind = "delete" /\ job[n].pc = "remove" /\ ok = (left = NoDir)
               /\ shared' = shared
  <2>1. CASE Cleanup(n)
    <3>1. /\ \E left \in Leftovers(n) :
               /\ RemoveAll(n, left)
               /\ shared' = IF left.state = "whole" THEN shared \cup {left.ip} ELSE shared
          /\ End(n, FALSE) /\ At(n, "create", "cleanup")
      BY <2>1, Zenon DEF Cleanup
    <3>2. job[n].kind = "create" /\ job[n].pc = "cleanup" /\ FALSE \in BOOLEAN
      BY <3>1
    <3> QED BY <3>1, <3>2, Zenon
  <2>2. CASE DeleteRemove(n)
    <3>1. /\ \E left \in Leftovers(n) : RemoveAll(n, left) /\ End(n, left = NoDir)
          /\ At(n, "delete", "remove") /\ UNCHANGED shared
      BY <2>2, Zenon DEF DeleteRemove
    <3>2. job[n].kind = "delete" /\ job[n].pc = "remove" /\ shared' = shared
      BY <3>1
    <3>3. \A left : (left = NoDir) \in BOOLEAN
      OBVIOUS
    <3> QED BY <3>1, <3>2, <3>3, Zenon
  <2> QED BY <2>1, <2>2
<1>3. /\ StoreTypes' /\ D!DTypeOK' /\ KeyStep(n) /\ \A m \in Names : m # n => SameStore(m)
      /\ UNCHANGED <<keys, process, commands, starts>>
      /\ dir'[n].state = left.state /\ dir'[n].ip = left.ip
      /\ left.state = "whole" => dir[n].state = "whole" /\ left.ip = dir[n].ip
      /\ dir'[n].there = left.there /\ (~left.there <=> left = NoDir)
      /\ left = NoDir => n \notin vm' /\ n \notin lost' /\ dir'[n] = NoDir
      /\ left # NoDir => n \in lost' /\ (n \in vm' <=> n \in vm) /\ dir[n].there
      /\ stray' \ stray \subseteq {n} \cap vm
  BY <1>2, RemoveAllEffect
<1>4. /\ FunctionTypes' /\ job'[n].kind = "none" /\ job'[n].pc = "none" /\ n \notin cancelled'
      /\ loopIP'[n] = IF Forgets(n, ok) THEN None ELSE loopIP[n]
      /\ n \in made' <=> n \in made /\ ~(job[n].kind = "delete" /\ ok)
      /\ \A m \in Names : m # n => SameFunction(m)
  <2>1. End(n, ok)
    BY <1>2
  <2> QED BY <1>1, <1>2, <2>1, EndEffect
<1>5. shared \subseteq shared' /\ shared' \subseteq Nat
  BY <1>1, <1>2, <1>3, Before DEF NameInv, Types, ProcessTypes
<1>7. NameInv(n)'
  BY <1>1, <1>2, <1>3, <1>4, <1>5, Before DEF NameInv, Forgets, NoDir
<1>6. stray' \ stray \subseteq cancelled
  BY <1>1, <1>2, <1>3 DEF NameInv
<1> QED BY <1>3, <1>4, <1>5, <1>6, <1>7, SharingStep

-----------------------------------------------------------------------------
\* The other backend functions.

\* A function that is neither a creation nor a deletion ends: whatever it says,
\* the registry and the directory stay, and QEMU may have been launched or quit.
LEMMA PlainEnd ==
  ASSUME BackendInv, NEW n \in Names, job[n].kind \in {"start", "stop", "quit"},
         job[n].pc # "saving", NEW ok \in BOOLEAN, End(n, ok),
         vm' \in {vm, vm \cup {n}, vm \ {n}}, n \in vm' => n \in vm \/ dir[n].image,
         UNCHANGED <<stray, store, process, downloads, lost, intake>>
  PROVE  BackendInv'
<1>1. /\ NameInv(n) /\ Types /\ FunctionTypes /\ StoreTypes /\ job[n] \in JobType
  BY Before
<1>2. /\ FunctionTypes' /\ job'[n].kind = "none" /\ job'[n].pc = "none" /\ n \notin cancelled'
      /\ loopIP'[n] = loopIP[n] /\ (n \in made' <=> n \in made)
      /\ \A m \in Names : m # n => SameFunction(m)
  BY <1>1, EndEffect DEF Forgets
<1>3. StoreTypes' /\ D!DTypeOK' /\ KeyStep(n) /\ \A m \in Names : m # n => SameStore(m)
  BY <1>1 DEF Types, StoreTypes, D!DTypeOK, KeyStep, SameStore
<1>4. dir[n].image => dir[n].there
  BY <1>1 DEF NameInv, NoDir
<1>5. NameInv(n)'
  BY <1>1, <1>2, <1>4 DEF NameInv
<1> QED BY <1>2, <1>3, <1>5, FunctionStep

\* One that goes on.
LEMMA PlainGoto ==
  ASSUME BackendInv, NEW n \in Names, NEW pc \in {"hung", "powerdown", "remove"},
         Goto(n, pc), Busy(n), job[n].pc # "saving",
         pc = "powerdown" => job[n].kind = "stop",
         pc = "remove" => job[n].kind = "delete",
         pc = "hung" => job[n].kind # "create" \/ job[n].pc = "connect",
         pc = "remove" /\ n \in vm' => n \in cancelled, vm' \in {vm, vm \ {n}},
         UNCHANGED <<stray, store, process, downloads, lost, intake>>
  PROVE  BackendInv'
<1>1. /\ NameInv(n) /\ Types /\ FunctionTypes /\ StoreTypes /\ job[n] \in JobType
  BY Before
<1>2. /\ FunctionTypes' /\ job'[n].kind = job[n].kind /\ job'[n].pc = pc
      /\ \A m \in Names : m # n => SameFunction(m)
  BY <1>1, GotoEffect DEF Pcs
<1>3. StoreTypes' /\ D!DTypeOK' /\ KeyStep(n) /\ \A m \in Names : m # n => SameStore(m)
  BY <1>1 DEF Types, StoreTypes, D!DTypeOK, KeyStep, SameStore
<1>4. NameInv(n)'
  BY <1>1, <1>2 DEF NameInv, Goto
<1> QED BY <1>2, <1>3, <1>4, FunctionStep

LEMMA StartSteps ==
  ASSUME BackendInv, NEW n \in Names, up, StartRestore(n) \/ StartBoot(n)
  PROVE  BackendInv'
<1>1. /\ NameInv(n) /\ Types /\ FunctionTypes /\ StoreTypes
      /\ job[n] \in JobType /\ dir[n] \in DirType
  BY Before
<1>2. job[n].kind = "start" /\ job[n].pc \in {"start", "boot"}
  <2>1. At(n, "start", "start") \/ At(n, "start", "boot")
    BY Zenon DEF StartRestore, StartBoot
  <2> QED BY <2>1
<1>3. CASE StartBoot(n)
  <2>1. UNCHANGED <<stray, store, process, downloads, lost, intake>>
    BY <1>3 DEF StartBoot
  <2>2. \/ End(n, FALSE) /\ vm' = vm
        \/ dir[n].image /\ End(n, TRUE) /\ vm' = vm \cup {n}
    BY <1>3, Zenon DEF StartBoot
  <2> QED BY <1>2, <2>1, <2>2, PlainEnd
<1>4. CASE StartRestore(n)
  <2>1. UNCHANGED <<keys, machines, process, downloads, lost, intake>>
    BY <1>4 DEF StartRestore
  <2>2. CASE End(n, FALSE) /\ UNCHANGED dir
    BY <1>2, <2>1, <2>2, PlainEnd
  <2>3. CASE /\ dir[n].state = "whole" /\ Goto(n, "saving")
             /\ dir' = [dir EXCEPT ![n].state = "torn"] /\ job[n].pc = "start"
    <3>1. /\ FunctionTypes' /\ job'[n].kind = "start" /\ job'[n].pc = "saving"
          /\ \A m \in Names : m # n => SameFunction(m)
      BY <1>1, <1>2, <2>3, GotoEffect DEF Pcs
    <3>2. /\ StoreTypes' /\ D!DTypeOK' /\ KeyStep(n) /\ \A m \in Names : m # n => SameStore(m)
          /\ dir'[n] = [dir[n] EXCEPT !.state = "torn"]
      BY <1>1, <2>1, <2>3 DEF Types, StoreTypes, DirType, D!DTypeOK, KeyStep, SameStore
    <3>3. dir[n].there
      BY <1>1, <2>3 DEF NameInv, NoDir
    <3>4. NameInv(n)'
      BY <1>1, <1>2, <2>1, <2>3, <3>1, <3>2, <3>3 DEF NameInv, Goto, DirType
    <3> QED BY <2>1, <3>1, <3>2, <3>4, FunctionStep
  <2>4. job[n].pc = "start"
    BY <1>4 DEF StartRestore
  <2> QED BY <1>4, <2>2, <2>3, <2>4, Zenon DEF StartRestore
<1> QED BY <1>3, <1>4

LEMMA StopSteps ==
  ASSUME BackendInv, NEW n \in Names, StopVM(n) \/ Powerdown(n) \/ Quit(n)
  PROVE  BackendInv'
<1>1. CASE StopVM(n)
  <2>1. job[n].kind = "stop" /\ job[n].pc = "start"
    BY <1>1 DEF StopVM
  <2>2. UNCHANGED <<stray, store, process, downloads, lost, intake>> /\ vm' = vm
    BY <1>1 DEF StopVM
  <2>3. End(n, FALSE) \/ Goto(n, "powerdown")
    BY <1>1, Zenon DEF StopVM
  <2> QED BY <2>1, <2>2, <2>3, PlainEnd, PlainGoto
<1>2. CASE Powerdown(n)
  <2>1. job[n].kind = "stop" /\ job[n].pc = "powerdown"
    BY <1>2 DEF Powerdown
  <2>2. UNCHANGED <<stray, store, process, downloads, lost, intake>> /\ vm' = vm
    BY <1>2 DEF Powerdown
  <2>3. \E ok \in BOOLEAN : End(n, ok)
    <3>1. (n \notin vm) \in BOOLEAN
      OBVIOUS
    <3> QED BY <1>2, <3>1, Zenon DEF Powerdown
  <2> QED BY <2>1, <2>2, <2>3, PlainEnd
<1>3. CASE Quit(n)
  <2>1. job[n].kind = "quit" /\ job[n].pc = "start"
    BY <1>3 DEF Quit
  <2>2. UNCHANGED <<stray, store, process, downloads, lost, intake>>
    BY <1>3 DEF Quit
  <2>3. \E ok \in BOOLEAN : End(n, ok) /\ vm' \in {vm, vm \ {n}}
    <3>1. PICK reached \in BOOLEAN : QuitVM(n, reached) /\ End(n, reached)
      BY <1>3, Zenon DEF Quit
    <3>2. vm' \in {vm, vm \ {n}}
      BY <3>1 DEF QuitVM
    <3> QED BY <3>1, <3>2, Zenon
  <2> QED BY <2>1, <2>2, <2>3, PlainEnd
<1> QED BY <1>1, <1>2, <1>3

\* deleteInstance makes QEMU quit, or does not reach it because it is
\* cancelled.
LEMMA DeleteQuitStep ==
  ASSUME BackendInv, NEW n \in Names, DeleteQuit(n)
  PROVE  BackendInv'
<1>1. job[n].kind = "delete" /\ job[n].pc = "start" /\ Goto(n, "remove")
  <2>1. At(n, "delete", "start") /\ Goto(n, "remove")
    BY Zenon DEF DeleteQuit
  <2> QED BY <2>1
<1>2. UNCHANGED <<stray, store, process, downloads, lost, intake>>
  BY DEF DeleteQuit
<1>3. vm' \in {vm, vm \ {n}} /\ (n \in vm' => n \in cancelled)
  BY DEF DeleteQuit, QuitVM
<1> QED BY <1>1, <1>2, <1>3, PlainGoto

LEMMA GreetingHangsStep ==
  ASSUME BackendInv, NEW n \in Names, GreetingHangs(n)
  PROVE  BackendInv'
<1>1. Goto(n, "hung") /\ Connecting(n)
  BY Zenon DEF GreetingHangs
<1>2. /\ job[n].kind \in Kinds /\ job[n].pc # "saving"
      /\ job[n].kind = "create" => job[n].pc = "connect"
  BY <1>1 DEF Connecting, Kinds
<1>3. UNCHANGED <<store, machines, process, downloads, lost, intake>>
  BY DEF GreetingHangs
<1> QED BY <1>1, <1>2, <1>3, PlainGoto DEF Kinds

-----------------------------------------------------------------------------
\* The service, the main goroutine, users, crashes and restarts.

LEMMA InitHolds == Init => BackendInv
<1> SUFFICES ASSUME Init PROVE BackendInv
  OBVIOUS
<1>1. Types
  <2>1. FunctionTypes
    BY DEF Init, FunctionTypes, JobType, Idle, Pcs, IPs, Apart
  <2>2. StoreTypes
    <3>1. NoDir \in DirType /\ keys \in KeyType
      BY DEF Init, DirType, NoDir, KeyType, IPs
    <3> QED BY <3>1 DEF Init, StoreTypes
  <2>3. ProcessTypes
    <3>1. 0 \in 0 .. MaxCommands /\ 0 \in 0 .. MaxStarts
      BY Special
    <3> QED BY <3>1 DEF Init, ProcessTypes
  <2>4. D!DTypeOK
    BY DEF Init, D!DInit, D!DTypeOK
  <2> QED BY <2>1, <2>2, <2>3, <2>4 DEF Types
<1>2. ASSUME NEW n \in Names PROVE NameInv(n)
  BY DEF Init, NameInv, Idle, NoDir
<1>3. KeysMatch
  BY DEF Init, KeysMatch
<1> QED BY <1>1, <1>2, <1>3 DEF BackendInv

\* Steps of the service and the main goroutine that start and end no function.
LEMMA ServerSteps ==
  ASSUME BackendInv,
         Signal \/ SvcDone \/ Drained \/ SvcEnd \/ MainFinished \/ MainExit
  PROVE  BackendInv'
<1>1. UNCHANGED <<loopIP, job, cancelled, store, machines, downloads, history, intake>>
  BY DEF Signal, SvcDone, Drained, SvcEnd, MainFinished, MainExit
<1>2. Types'
  <2>1. up' \in BOOLEAN /\ done' \in BOOLEAN /\ svc' \in {"serving", "draining", "ended"}
        /\ dest' \in Names \cup {None}
    BY DEF BackendInv, Types, ProcessTypes, Signal, SvcDone, Drained, SvcEnd, MainFinished, MainExit
  <2> QED BY <1>1, <2>1 DEF BackendInv, Types, FunctionTypes, Apart, StoreTypes, ProcessTypes, D!DTypeOK,
                          history
<1>3. /\ svc' = "ended" => \A n \in Names : ~Busy(n)
      /\ svc' = "serving" => svc = "serving"
      /\ up' = up \/ (~up' /\ svc = "ended" /\ svc' = svc)
  BY DEF Signal, SvcDone, Drained, SvcEnd, MainFinished, MainExit, BackendInv, NameInv
<1>4. ASSUME NEW n \in Names PROVE NameInv(n)'
  <2>1. NameInv(n)
    BY DEF BackendInv
  <2> QED BY <1>1, <1>3, <2>1 DEF NameInv, history
<1>5. KeysMatch'
  BY <1>1 DEF BackendInv, KeysMatch
<1> QED BY <1>2, <1>4, <1>5 DEF BackendInv

\* A command is accepted, cancelled by its user or by the shutdown.
LEMMA CommandSteps ==
  ASSUME BackendInv, NEW n \in Names, up,
         Cancel(n) \/ Drain(n) \/ (\E k \in Kinds : Accept(n, k))
  PROVE  BackendInv'
<1>1. /\ NameInv(n) /\ Types /\ FunctionTypes /\ StoreTypes /\ ProcessTypes /\ job[n] \in JobType
  BY Before DEF Types
<1>2. UNCHANGED <<up, done, svc, store, machines, downloads, history, starts>>
  BY DEF Cancel, Drain, Accept
<1>3. StoreTypes' /\ D!DTypeOK' /\ KeysMatch'
  BY <1>1, <1>2 DEF BackendInv, Types, StoreTypes, KeysMatch, D!DTypeOK, history
<1>4. CASE Cancel(n) \/ Drain(n)
  <2>1. /\ cancelled' = cancelled \cup {n} /\ Busy(n) /\ dest' \in {dest, n}
        /\ UNCHANGED <<loopIP, job, shared, commands>>
    BY <1>4 DEF Cancel, Drain
  <2>2. FunctionTypes' /\ ProcessTypes'
    BY <1>1, <1>2, <2>1 DEF FunctionTypes, Apart, ProcessTypes, history
  <2>3. ASSUME NEW m \in Names PROVE NameInv(m)'
    BY <1>2, <2>1 DEF BackendInv, NameInv, history
  <2> QED BY <1>3, <2>2, <2>3 DEF BackendInv, Types
<1>5. ASSUME NEW k \in Kinds, Accept(n, k) PROVE BackendInv'
  <2>1. /\ svc = "serving" /\ ~Busy(n) /\ (k = "create") = (n \notin registered)
        /\ commands < MaxCommands /\ commands' = commands + 1
        /\ UNCHANGED <<dest, cancelled>>
    BY <1>5 DEF Accept
  <2>6. PICK ip \in Pool \cup Requested \cup {None} :
          /\ job' = [job EXCEPT ![n] = [kind |-> k, pc |-> "start", ip |-> ip]]
          /\ IF k = "create" THEN FindIP(n, ip) \/ RequestIP(n, ip)
             ELSE ip = None /\ UNCHANGED <<loopIP, shared>>
    BY <1>5, Zenon DEF Accept
  <2>7. /\ shared \subseteq shared' /\ shared' \subseteq Nat
        /\ loopIP' \in [Names -> IPs] /\ loopIP'[n] # None
        /\ \A m \in Names : m # n => loopIP'[m] = loopIP[m]
        /\ ip \in IPs /\ IF k = "create" THEN Known(n, ip)' ELSE loopIP' = loopIP
        /\ \/ loopIP'[n] = loopIP[n] \/ loopIP'[n] = 0
           \/ \A m \in Names : loopIP[m] # None => loopIP'[n] # loopIP[m]
    <3>1. Pool \subseteq Nat \ {0} /\ loopIP \in [Names -> IPs] /\ shared \subseteq Nat
      BY <1>1, Special DEF Pool, FunctionTypes, ProcessTypes
    <3>2. CASE k = "create" /\ FindIP(n, ip)
      BY <3>1, <3>2, Special DEF FindIP, FreeIPs, hostIPs, IPs
    <3>3. CASE k = "create" /\ RequestIP(n, ip)
      BY <3>1, <3>3, Special DEF RequestIP, IPs
    <3>4. CASE k # "create"
      BY <3>1, <3>4, <2>1, <2>6, Special DEF IPs
    <3> QED BY <3>2, <3>3, <3>4, <2>6
  <2>2. /\ FunctionTypes' /\ job'[n].kind = k /\ job'[n].pc = "start"
        /\ job'[n].ip = ip /\ \A m \in Names : m # n => SameFunction(m)
    <3>1. Apart'
      BY <1>1, <2>7 DEF FunctionTypes, Apart, IPs
    <3>2. job' \in [Names -> JobType] /\ job'[n] = [kind |-> k, pc |-> "start", ip |-> ip]
      BY <1>1, <2>6, <2>7 DEF FunctionTypes, JobType, Pcs
    <3> QED BY <1>1, <1>2, <2>1, <2>6, <2>7, <3>1, <3>2 DEF FunctionTypes, SameFunction, history
  <2>3. ProcessTypes'
    BY <1>1, <1>2, <2>1, <2>7, Special DEF ProcessTypes
  <2>4. NameInv(n)'
    <3>1. Recorded(n)'
      BY <1>1, <1>2, <2>1, <2>2, <2>7, Special DEF NameInv, history, Kinds
    <3>2. CreateHolds(n)'
      BY <1>1, <1>2, <2>1, <2>2, <2>7, Special DEF NameInv, history, Kinds
    <3>3. Lasts(n)' /\ Owned(n)'
      BY <1>1, <1>2, <2>1, <2>2, <2>7, Special DEF NameInv, history, Kinds
    <3> QED BY <1>1, <1>2, <2>1, <2>2, <2>7, <3>1, <3>2, <3>3 DEF NameInv, history, Kinds
  <2>5. ASSUME NEW m \in Names, m # n PROVE NameInv(m)'
    BY <1>2, <2>2, <2>5, <2>7, OtherName DEF KeyStep, SameStore, history
  <2> QED BY <1>3, <2>2, <2>3, <2>4, <2>5 DEF BackendInv, Types
<1> QED BY <1>4, <1>5

LEMMA ManagerSteps ==
  ASSUME BackendInv, ManagerDone \/ ManagerLeave \/ ManagerReturn \/ \E n \in Names : Manager(n)
  PROVE  BackendInv'
<1>1. D!DTypeOK
  BY DEF BackendInv, Types
<1>2. D!DTypeOK'
  <2>1. CASE \E n \in Names : Manager(n)
    BY <1>1, <2>1, DownloadsType DEF Manager
  <2>2. CASE ManagerDone \/ ManagerLeave \/ ManagerReturn
    BY <1>1, <2>2 DEF ManagerDone, ManagerLeave, ManagerReturn, D!DTypeOK, D!Stop, D!Leave,
                      D!Report, D!Return, D!MayLeave
  <2> QED BY <2>1, <2>2
<1>3. UNCHANGED <<process, loopIP, job, cancelled, store, machines, history, intake>>
  BY DEF ManagerDone, ManagerLeave, ManagerReturn, Manager
<1> QED BY <1>2, <1>3, DownloadsStep

LEMMA VMEndsStep ==
  ASSUME BackendInv, NEW n \in Names, VMEnds(n)
  PROVE  BackendInv'
<1>1. Types'
  BY DEF VMEnds, BackendInv, Types, FunctionTypes, Apart, StoreTypes, ProcessTypes, D!DTypeOK, history
<1>2. ASSUME NEW m \in Names PROVE NameInv(m)'
  BY DEF VMEnds, BackendInv, NameInv, history
<1>3. KeysMatch'
  BY DEF VMEnds, BackendInv, KeysMatch
<1> QED BY <1>1, <1>2, <1>3 DEF BackendInv

LEMMA CrashStep ==
  ASSUME BackendInv, Crash
  PROVE  BackendInv'
<1>1. /\ up /\ ~up' /\ up' \in BOOLEAN /\ lost' = lost \cup {n \in Names : CutBy(n)}
      /\ UNCHANGED <<done, svc, dest, loopIP, job, cancelled, dir, machines, downloads, made, intake>>
  BY DEF Crash
<1>2. /\ keys' \in KeyType /\ KeysMatch' /\ keys'.priv = keys.priv
      /\ keys' = keys \/ \E m \in Names : job[m].pc = "keypub" /\ keys' = [keys EXCEPT !.pub = m]
  <2>1. keys \in KeyType /\ KeysMatch
    BY DEF BackendInv, Types, StoreTypes
  <2>2. CASE keys' = keys
    BY <2>1, <2>2 DEF KeysMatch
  <2>3. CASE \E m \in Names : job[m].pc = "keypub" /\ keys' = [keys EXCEPT !.pub = m]
    <3>1. PICK m \in Names : job[m].pc = "keypub" /\ keys' = [keys EXCEPT !.pub = m]
      BY <2>3
    <3>2. keys.priv = m
      BY <3>1 DEF BackendInv, NameInv
    <3> QED BY <2>1, <3>1, <3>2 DEF KeyType, KeysMatch
  <2> QED BY <2>2, <2>3 DEF Crash
<1>3. ASSUME NEW m \in Names, HasKey(m) PROVE HasKey(m)'
  <2>1. ASSUME NEW p \in Names, job[p].pc = "keypub" PROVE keys.priv = p
    BY <2>1 DEF BackendInv, NameInv
  <2> QED BY <1>1, <1>2, <1>3, <2>1 DEF BackendInv, Types, StoreTypes, KeyType
<1>4. ASSUME NEW m \in Names PROVE NameInv(m)'
  <2>1. NameInv(m) /\ (m \in lost' <=> m \in lost \/ CutBy(m))
    BY <1>1 DEF BackendInv
  <2>2. CreateHolds(m)'
    BY <1>1, <1>2, <1>3, <2>1 DEF NameInv
  <2>3. Lasts(m)' /\ Accounted(m)' /\ Owned(m)'
    BY <1>1, <1>2, <1>3, <2>1 DEF NameInv
  <2> QED BY <1>1, <2>1, <2>2, <2>3 DEF NameInv
<1>5. Types'
  BY <1>1, <1>2 DEF BackendInv, Types, FunctionTypes, Apart, StoreTypes, ProcessTypes, D!DTypeOK
<1> QED BY <1>2, <1>4, <1>5 DEF BackendInv

\* The next service finds what can be read.
LEMMA StartServerStep ==
  ASSUME BackendInv, StartServer
  PROVE  BackendInv'
<1>1. /\ ~up /\ up' /\ up' \in BOOLEAN /\ done' = FALSE /\ svc' = "serving" /\ dest' = None
      /\ starts < MaxStarts /\ starts' = starts + 1
      /\ loopIP' = [n \in Names |-> IF n \in Found THEN dir[n].ip ELSE None]
      /\ job' = [n \in Names |-> Idle] /\ cancelled' = {}
      /\ man' = "serving" /\ unheard' = FALSE /\ ask' = [n \in Names |-> "idle"]
      /\ UNCHANGED <<store, machines, history, shared, commands>>
  BY DEF StartServer, D!Restart
<1>0. ASSUME NEW n \in Names
      PROVE  /\ n \in Found => dir[n].state = "whole" /\ dir[n].ip \in Nat \ {0}
             /\ dir[n].state = "whole" => n \in Found \/ ~Distinct(n)
  <2>1. NameInv(n)
    BY DEF BackendInv
  <2>2. n \in Found => dir[n].state = "whole" /\ dir[n].ip \in Nat \ {0}
    BY <2>1 DEF Found, Readable, NameInv
  <2>3. ASSUME dir[n].state = "whole", n \notin Found PROVE ~Distinct(n)
    <3>1. PICK m \in Names : Rank[m] < Rank[n] /\ dir[m].state = "whole" /\ dir[m].ip = dir[n].ip
      BY <2>3 DEF Found, Readable
    <3>2. m # n /\ NameInv(m)
      BY <3>1, Special DEF BackendInv
    <3> QED BY <2>1, <2>3, <3>1, <3>2, Special DEF NameInv, BackendInv, Types, FunctionTypes, Apart
  <2> QED BY <2>2, <2>3
<1>2. Types'
  <2>1. D!DTypeOK'
    BY <1>1 DEF D!DTypeOK
  <2>2. FunctionTypes'
    <3>1. job' \in [Names -> JobType] /\ cancelled' \subseteq Names /\ made' \subseteq Names
      BY <1>1 DEF BackendInv, Types, FunctionTypes, JobType, Idle, Pcs, IPs, history
    <3>2. loopIP' \in [Names -> IPs]
      BY <1>0, <1>1 DEF IPs
    <3>3. Apart'
      <4>1. ASSUME NEW m \in Found, NEW n \in Found, m # n PROVE dir[m].ip # dir[n].ip
        <5>1. Rank[m] < Rank[n] \/ Rank[n] < Rank[m]
          BY <4>1, Special DEF Found
        <5> QED BY <5>1 DEF Found
      <4> QED BY <1>1, <4>1, Zenon DEF Apart
    <3> QED BY <3>1, <3>2, <3>3 DEF FunctionTypes
  <2>3. StoreTypes'
    BY <1>1 DEF BackendInv, Types, StoreTypes, history
  <2>4. starts' \in 0 .. MaxStarts /\ commands' \in 0 .. MaxCommands
    BY <1>1, Special DEF BackendInv, Types, ProcessTypes
  <2>5. ProcessTypes'
    BY <1>1, <2>4 DEF BackendInv, Types, ProcessTypes
  <2> QED BY <2>1, <2>2, <2>3, <2>5 DEF Types
<1>3. ASSUME NEW n \in Names PROVE NameInv(n)'
  <2>1. /\ NameInv(n) /\ job'[n].kind = "none" /\ job'[n].pc = "none"
        /\ loopIP'[n] = IF n \in Found THEN dir[n].ip ELSE None
        /\ starts' > 0
    BY <1>1 DEF BackendInv, Idle, Types, ProcessTypes
  <2> QED BY <1>0, <1>1, <2>1, Special DEF NameInv, history
<1>4. KeysMatch'
  BY <1>1 DEF BackendInv, KeysMatch
<1> QED BY <1>2, <1>3, <1>4 DEF BackendInv

-----------------------------------------------------------------------------
\* Every step.  Only RemoveSteps leaves a QEMU behind.

LEMMA ProgressStep ==
  ASSUME BackendInv, NEW n \in Names, Progress(n)
  PROVE  BackendInv' /\ stray' \ stray \subseteq cancelled
<1>1. CASE Cleanup(n) \/ DeleteRemove(n)
  BY <1>1, RemoveSteps
<1>2. CASE ~(Cleanup(n) \/ DeleteRemove(n))
  <2>1. BackendInv'
    BY <1>2, Zenon, CreateDirStep, CreateFailsStep, KeySteps, SaveSteps, DownloadSteps,
       CreateImagesStep, InstallSteps, StartSteps, StopSteps, DeleteQuitStep, GreetingHangsStep
       DEF Progress
  <2>2. stray' = stray
    BY <1>2 DEF Progress, CreateDir, CreateFails, FindKeys, MakePrivate, MakePublic, Configure,
       Save, Ask, Downloaded, CreateImages, CreateBoot, Connect, Quitting, StartRestore,
       StartBoot, StopVM, Powerdown, Quit, DeleteQuit, GreetingHangs, InstallEnds
  <2> QED BY <2>1, <2>2
<1> QED BY <1>1, <1>2

LEMMA NextStep ==
  ASSUME BackendInv, [Next]_vars
  PROVE  BackendInv' /\ stray' \ stray \subseteq cancelled
<1>1. ASSUME NEW n \in Names, Progress(n)
      PROVE  BackendInv' /\ stray' \ stray \subseteq cancelled
  BY <1>1, ProgressStep
<1>2. ASSUME NEW n \in Names, Guest(n)
      PROVE  BackendInv' /\ stray' = stray
  <2>1. BackendInv'
    BY <1>2, Zenon, InstallSteps, VMEndsStep DEF Guest
  <2> QED BY <1>2, <2>1 DEF Guest, Finished, InstallEnds, VMEnds
<1>3. ASSUME NEW n \in Names, up, Cancel(n) \/ Drain(n) \/ (\E k \in Kinds : Accept(n, k))
      PROVE  BackendInv' /\ stray' = stray
  BY <1>3, CommandSteps DEF Cancel, Drain, Accept
<1>4. ASSUME ManagerDone \/ ManagerLeave \/ ManagerReturn \/ \E n \in Names : Manager(n)
      PROVE  BackendInv' /\ stray' = stray
  BY <1>4, ManagerSteps DEF ManagerDone, ManagerLeave, ManagerReturn, Manager
<1>5. ASSUME Signal \/ SvcDone \/ Drained \/ SvcEnd \/ MainFinished \/ MainExit
      PROVE  BackendInv' /\ stray' = stray
  BY <1>5, ServerSteps DEF Signal, SvcDone, Drained, SvcEnd, MainFinished, MainExit
<1>6. ASSUME Crash \/ StartServer
      PROVE  BackendInv' /\ stray' = stray
  BY <1>6, CrashStep, StartServerStep DEF Crash, StartServer
<1>7. ASSUME UNCHANGED vars
      PROVE  BackendInv' /\ stray' = stray
  <2>1. /\ UNCHANGED <<process, loopIP, job, cancelled, store, machines, history, intake>>
        /\ UNCHANGED downloads
    BY <1>7 DEF vars
  <2>2. D!DTypeOK'
    BY <2>1 DEF BackendInv, Types, D!DTypeOK
  <2> QED BY <2>1, <2>2, DownloadsStep
<1>8. Next \/ UNCHANGED vars
  OBVIOUS
<1>9. (stray' = stray) => (stray' \ stray \subseteq cancelled)
  OBVIOUS
<1>10. ASSUME NEW n \in Names, NEW k \in Kinds, Accept(n, k)
       PROVE  up
  BY <1>10 DEF Accept
<1> QED BY <1>1, <1>2, <1>3, <1>4, <1>5, <1>6, <1>7, <1>8, <1>9, <1>10, Zenon DEF Next, Server

-----------------------------------------------------------------------------
\* In every reachable state what a function's step says about its directory,
\* its keys and its QEMU is so, and every name has the owner it needs.
THEOREM BackendInductive == Spec => []BackendInv
<1>1. BackendInv /\ [Next]_vars => BackendInv'
  BY NextStep
<1> QED BY InitHolds, <1>1, PTL DEF Spec

\* Every variable has its type, only a command that runs is cancelled, and a
\* QEMU that can be reached has a directory, for any number of instances.
THEOREM BackendTypes == Spec => []BackendTypeOK
<1>1. BackendInv => BackendTypeOK
  <2> SUFFICES ASSUME BackendInv PROVE BackendTypeOK
    OBVIOUS
  <2>1. ASSUME NEW n \in Names
        PROVE  /\ n \in cancelled => Busy(n)
               /\ n \in vm => dir[n].there
               /\ (job[n].kind = "none") = (job[n].pc = "none")
    BY DEF BackendInv, NameInv
  <2> QED BY <2>1 DEF BackendInv, BackendTypeOK, Types, FunctionTypes, StoreTypes, ProcessTypes,
                      JobType, DirType, KeyType, Pcs, IPs
<1> QED BY BackendInductive, <1>1, PTL

\* The deferred RemoveAll of createInstance and deleteInstance leave no
\* directory that the serving service does not know, faults apart.
THEOREM DirectoriesOwned == Spec => []NoOrphans
<1>1. BackendInv => NoOrphans
  BY DEF BackendInv, NameInv, NoOrphans
<1> QED BY BackendInductive, <1>1, PTL

\* An instance that was created stays registered and keeps its state file, its
\* image and its key until it is deleted, through failed commands, crashes and
\* restarts.
THEOREM CreatedLast == Spec => []InstancesLast
<1>1. BackendInv => InstancesLast
  <2> SUFFICES ASSUME BackendInv, NEW n \in made \ lost
      PROVE  /\ up /\ svc = "serving" => n \in registered \/ (starts > 0 /\ ~Distinct(n))
             /\ dir[n].image /\ dir[n].key = keys.priv /\ keys.pub = keys.priv
             /\ dir[n].state = "whole" \/ (up /\ job[n].pc = "saving")
    BY DEF InstancesLast
  <2>1. n \in Names
    BY DEF BackendInv, Types, FunctionTypes
  <2>2. Lasts(n)
    BY <2>1 DEF BackendInv, NameInv
  <2> QED BY <2>2
<1> QED BY BackendInductive, <1>1, PTL

\* Every step that removes the directory of a QEMU that still runs is one of a
\* function whose context is cancelled.
THEOREM StrayFromCancelled == Spec => StrayOnlyIfCancelled
<1>1. BackendInv /\ [Next]_vars => [stray' \ stray \subseteq cancelled]_vars
  BY NextStep
<1> QED BY BackendInductive, <1>1, PTL DEF Spec, StrayOnlyIfCancelled
=============================================================================
