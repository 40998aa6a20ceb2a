------------------------------- MODULE Backend -------------------------------
(***************************************************************************)
(* The backend functions of ccvm.go, step by step: what they do to the     *)
(* directory and the QEMU process of an instance and to the user's SSH     *)
(* keys, and how they end when they fail, are cancelled, or the process    *)
(* crashes.  They run under the service, reduced to one command per        *)
(* instance at a time (InstanceCommands says so), and ask the download     *)
(* manager (Downloads).  startServer waits for both.                       *)
(***************************************************************************)
EXTENDS Integers, FiniteSets

CONSTANTS
  Names,         \* of instances
  Rank,          \* the order of their directories
  Bios,          \* those whose workload names a BIOS to download
  PoolSize,      \* bound: addresses findFreeIP chooses from
  Requested,     \* bound: addresses that users name; 0.0.0.0 is none
  MaxCommands,   \* bound: commands
  MaxStarts,     \* bound: restarts of the process
  None           \* no name, no key, no address

Pool == 1 .. PoolSize

ASSUME BackendAssumption ==
  /\ Bios \subseteq Names /\ None \notin Names \cup Nat
  /\ Rank \in [Names -> Nat] /\ \A m, n \in Names : m # n => Rank[m] # Rank[n]
  /\ PoolSize \in Nat /\ Requested \subseteq Nat \ {0}
  /\ MaxCommands \in Nat /\ MaxStarts \in Nat

VARIABLES
  up,          \* the process runs
  done,        \* doneCh is closed
  svc,         \* ccvmService.run: "serving", "draining", "ended"
  dest,        \* the name whose command is being drained, or None
  loopIP,      \* ccvmService.instances: the address recorded for a name, or None
  job,         \* the backend function that runs for a name
  cancelled,   \* the names whose function's context is cancelled
  dir,         \* the directory of an instance
  keys,        \* id_rsa and id_rsa.pub: the instance they were made for
  vm,          \* the names whose QEMU runs and can be reached
  man, ask, unheard,  \* the download manager and the requests of the functions
  \* History:
  stray,       \* names that have left a QEMU behind that nobody can reach
  made,        \* instances created and not deleted
  lost,        \* names whose directory a fault has left in an unknown state
  shared,      \* addresses that several directories may name, see Distinct
  commands, starts

D == INSTANCE Downloads WITH Requesters <- Names, givenUp <- cancelled

process  == <<up, done, svc, dest>>
store    == <<dir, keys>>
machines == <<vm, stray>>
history  == <<made, lost>>
downloads == <<man, ask, unheard>>
intake   == <<shared, commands, starts>>
vars == <<process, loopIP, job, cancelled, store, machines, downloads, history, intake>>

-----------------------------------------------------------------------------
Idle == [kind |-> "none", pc |-> "none", ip |-> None]
NoDir == [there |-> FALSE, state |-> "none", ip |-> None, image |-> FALSE, key |-> None]
Busy(n) == job[n].kind # "none"
registered == {n \in Names : loopIP[n] # None}

Init ==
  /\ up = TRUE /\ done = FALSE /\ svc = "serving" /\ dest = None
  /\ job = [n \in Names |-> Idle] /\ cancelled = {}
  /\ dir = [n \in Names |-> NoDir] /\ keys = [priv |-> None, pub |-> None]
  /\ vm = {} /\ stray = {} /\ D!DInit
  /\ made = {} /\ lost = {} /\ commands = 0 /\ starts = 0
  /\ loopIP = [n \in Names |-> None] /\ shared = {}

\* n's function goes on at pc.
At(n, kind, pc) == job[n].kind = kind /\ job[n].pc = pc
Goto(n, pc) ==
  /\ job' = [job EXCEPT ![n].pc = pc]
  /\ UNCHANGED <<cancelled, loopIP, made>>

\* The loop of the instance ends with a creation that fails or a deletion
\* that succeeds, and the service then forgets its name.
Forgets(n, ok) == (job[n].kind = "create" /\ ~ok) \/ (job[n].kind = "delete" /\ ok)

\* Mutant: the context outlives the command.
EndKeepsContext(n, ok) ==
  /\ job' = [job EXCEPT ![n] = Idle] /\ UNCHANGED cancelled
  /\ loopIP' = [loopIP EXCEPT ![n] = IF Forgets(n, ok) THEN None ELSE loopIP[n]]
  /\ made' = IF job[n].kind = "create" /\ ok THEN made \cup {n}
             ELSE IF job[n].kind = "delete" /\ ok THEN made \ {n} ELSE made

End(n, ok) ==
  /\ job' = [job EXCEPT ![n] = Idle] /\ cancelled' = cancelled \ {n}
  /\ loopIP' = [loopIP EXCEPT ![n] = IF Forgets(n, ok) THEN None ELSE loopIP[n]]
  /\ made' = IF job[n].kind = "create" /\ ok THEN made \cup {n}
             ELSE IF job[n].kind = "delete" /\ ok THEN made \ {n} ELSE made

\* Mutant: the error is not assigned to the variable the deferred function tests.
FailWithoutCleanup(n) == End(n, FALSE)

\* createInstance returns an error: the deferred function is still to run.
Fail(n) == Goto(n, "cleanup")

\* What os.RemoveAll leaves of a directory: nothing, or when it fails the
\* directory with or without the state file.
Leftovers(n) == {NoDir, dir[n], [dir[n] EXCEPT !.state = "none", !.ip = None]}

\* n's directory goes; a QEMU that still runs can no longer be reached.
RemoveAll(n, left) ==
  /\ dir' = [dir EXCEPT ![n] = left]
  /\ lost' = IF left = NoDir THEN lost \ {n} ELSE lost \cup {n}
  /\ IF left = NoDir /\ n \in vm THEN vm' = vm \ {n} /\ stray' = stray \cup {n}
     ELSE UNCHANGED machines
  /\ UNCHANGED <<keys, process, downloads, commands, starts>>

-----------------------------------------------------------------------------
\* createInstance.

\* prepareCreate, then the directory is made unless there is one.
CreateDir(n) ==
  /\ At(n, "create", "start")
  /\ \/ End(n, FALSE) /\ UNCHANGED dir
     \/ /\ ~dir[n].there /\ dir' = [dir EXCEPT ![n].there = TRUE]
        /\ Goto(n, "keys")
  /\ UNCHANGED <<keys, machines, process, downloads, lost, intake>>

\* The steps that may return an error of their own.
Fallible == {"config", "keygen", "images", "boot"}
CreateFails(n) ==
  /\ job[n].kind = "create" /\ job[n].pc \in Fallible /\ Fail(n)
  /\ UNCHANGED <<store, machines, process, downloads, lost, intake>>

\* prepareSSHKeys: both files are looked for.
FindKeys(n) ==
  /\ At(n, "create", "keys")
  /\ IF keys.priv # None /\ keys.pub # None
     THEN Goto(n, "config") /\ dir' = [dir EXCEPT ![n].key = keys.pub]
     ELSE Goto(n, "keygen") /\ UNCHANGED dir
  /\ UNCHANGED <<keys, machines, process, downloads, lost, intake>>

\* Mutant: ssh-keygen may overwrite a key.
MayOverwriteKey(n) == n \notin cancelled

\* ssh-keygen does not overwrite a private key, and does not start when the
\* context is done.
MayMakeKey(n) == n \notin cancelled /\ keys.priv = None

\* ssh-keygen writes the private key, then the public one.
MakePrivate(n) ==
  /\ At(n, "create", "keygen")
  /\ IF MayMakeKey(n) THEN Goto(n, "keypub") /\ keys' = [keys EXCEPT !.priv = n]
     ELSE Fail(n) /\ UNCHANGED keys
  /\ UNCHANGED <<dir, machines, process, downloads, lost, intake>>

\* It may be killed in between.  The public key is read afterwards.
MakePublic(n) ==
  /\ At(n, "create", "keypub")
  /\ \/ /\ Goto(n, "config")
        /\ keys' = [keys EXCEPT !.pub = n] /\ dir' = [dir EXCEPT ![n].key = n]
     \/ n \in cancelled /\ Fail(n) /\ UNCHANGED store
  /\ UNCHANGED <<machines, process, downloads, lost, intake>>

\* The local listener and the cloud configuration are made, and save opens
\* the state file, which truncates it.  It names the address, for good.
Configure(n) ==
  /\ At(n, "create", "config") /\ Goto(n, "saving")
  /\ dir' = [dir EXCEPT ![n].state = "torn", ![n].ip = job[n].ip]
  /\ UNCHANGED <<keys, machines, process, downloads, lost, intake>>

AfterSave(n) == IF job[n].kind = "start" THEN "boot" ELSE IF n \in Bios THEN "bios" ELSE "image"

\* save has written the state file.  An error is only a warning to start.
Save(n) ==
  /\ job[n].pc = "saving"
  /\ \/ /\ dir' = [dir EXCEPT ![n].state = "whole"]
        /\ Goto(n, AfterSave(n)) /\ UNCHANGED lost
     \/ /\ UNCHANGED dir
        /\ IF job[n].kind = "create" THEN Fail(n) /\ UNCHANGED lost
           ELSE Goto(n, "boot") /\ lost' = lost \cup {n}
  /\ UNCHANGED <<keys, machines, process, downloads, intake>>

\* downloadImages: the BIOS, if any, and the image.  The request is offered
\* whether or not the context is done.
Ask(n) ==
  /\ job[n].pc \in {"bios", "image"} /\ D!Offer(n)
  /\ UNCHANGED <<process, loopIP, job, cancelled, store, machines, history, intake>>

Downloaded(n) ==
  /\ job[n].pc \in {"bios", "image"} /\ D!Collect(n)
  /\ IF ask[n] = "failed" THEN Fail(n)
     ELSE Goto(n, IF job[n].pc = "bios" THEN "image" ELSE "images")
  /\ UNCHANGED <<store, machines, process, lost, intake>>

\* The configuration ISO and the root file system; both heed the context.
CreateImages(n) ==
  /\ At(n, "create", "images")
  /\ IF n \in cancelled THEN Fail(n) /\ UNCHANGED dir
     ELSE Goto(n, "boot") /\ dir' = [dir EXCEPT ![n].image = TRUE]
  /\ UNCHANGED <<keys, machines, process, downloads, lost, intake>>

\* bootVM for a creation; the launch does not look at the context.
CreateBoot(n) ==
  /\ At(n, "create", "boot") /\ n \notin vm
  /\ vm' = vm \cup {n} /\ Goto(n, "connect")
  /\ UNCHANGED <<stray, store, process, downloads, lost, intake>>

\* manageInstallation connects to QEMU.  QMPStart fails when QEMU has gone or
\* the context is done, and then nothing makes QEMU quit; when the capabilities
\* are refused, it is made to quit.
Connect(n) ==
  /\ At(n, "create", "connect")
  /\ \/ (n \notin vm \/ n \in cancelled) /\ Fail(n)
     \/ n \in vm /\ Goto(n, "install")
     \/ n \in vm /\ n \in cancelled /\ Goto(n, "quitting")
  /\ UNCHANGED <<store, machines, process, downloads, lost, intake>>

\* cloud-init in the guest reports FINISHED.
Finished(n) ==
  /\ At(n, "create", "install") /\ n \in vm /\ End(n, TRUE)
  /\ UNCHANGED <<store, machines, process, downloads, lost, intake>>

\* The context is done, QEMU has gone or the HTTP server has ended.
InstallEnds(n) ==
  /\ At(n, "create", "install")
  /\ IF n \in vm THEN Goto(n, "quitting") ELSE Fail(n)
  /\ UNCHANGED <<store, machines, process, downloads, lost, intake>>

\* Mutant: QEMU is not made to quit.
NobodyQuits(n) == UNCHANGED vm

QemuQuits(n) == vm' = vm \ {n}

\* The deferred function of manageInstallation: quit, and wait until the
\* connection is lost.
Quitting(n) ==
  /\ At(n, "create", "quitting") /\ Fail(n) /\ QemuQuits(n)
  /\ UNCHANGED <<stray, store, process, downloads, lost, intake>>

\* The deferred function of createInstance; the error of RemoveAll is ignored,
\* and the address is free again even if the directory still names it.
Cleanup(n) ==
  /\ At(n, "create", "cleanup") /\ End(n, FALSE)
  /\ \E left \in Leftovers(n) :
       /\ RemoveAll(n, left)
       /\ shared' = IF left.state = "whole" THEN shared \cup {left.ip} ELSE shared

-----------------------------------------------------------------------------
\* The other backend functions.

\* restoreWorkload needs the state file.  MergeCustom and checkMemAvailable
\* may fail.  save opens the state file.
StartRestore(n) ==
  /\ At(n, "start", "start")
  /\ \/ End(n, FALSE) /\ UNCHANGED dir
     \/ dir[n].state = "whole" /\ Goto(n, "saving") /\ dir' = [dir EXCEPT ![n].state = "torn"]
  /\ UNCHANGED <<keys, machines, process, downloads, lost, intake>>

\* bootVM for start: an error if QEMU can be reached, runs or does not launch.
StartBoot(n) ==
  /\ At(n, "start", "boot")
  /\ \/ End(n, FALSE) /\ UNCHANGED vm
     \/ n \notin vm /\ dir[n].image /\ End(n, TRUE) /\ vm' = vm \cup {n}
  /\ UNCHANGED <<stray, store, process, downloads, lost, intake>>

\* stopVM: an error if QEMU cannot be reached, else SHUTDOWN is waited for.
\* QEMU may be reached or not when the context is done.
StopVM(n) ==
  /\ At(n, "stop", "start")
  /\ \/ (n \notin vm \/ n \in cancelled) /\ End(n, FALSE)
     \/ n \in vm /\ Goto(n, "powerdown")
  /\ UNCHANGED <<store, machines, process, downloads, lost, intake>>

\* Mutant: only the end of QEMU is waited for.
PowerdownOnly(n) ==
  /\ At(n, "stop", "powerdown") /\ n \notin vm /\ End(n, TRUE)
  /\ UNCHANGED <<store, machines, process, downloads, lost, intake>>

Powerdown(n) ==
  /\ At(n, "stop", "powerdown") /\ (n \notin vm \/ n \in cancelled)
  /\ End(n, n \notin vm)
  /\ UNCHANGED <<store, machines, process, downloads, lost, intake>>

\* quitVM: QEMU is reached and quits, or it is not reached.
QuitVM(n, reached) ==
  /\ IF reached THEN n \in vm ELSE n \notin vm \/ n \in cancelled
  /\ vm' = IF reached THEN vm \ {n} ELSE vm

Quit(n) ==
  /\ At(n, "quit", "start")
  /\ \E reached \in BOOLEAN : QuitVM(n, reached) /\ End(n, reached)
  /\ UNCHANGED <<stray, store, process, downloads, lost, intake>>

\* deleteInstance: the error of quitVM is ignored, that of RemoveAll is not.
DeleteQuit(n) ==
  /\ At(n, "delete", "start") /\ Goto(n, "remove")
  /\ \E reached \in BOOLEAN : QuitVM(n, reached)
  /\ UNCHANGED <<stray, store, process, downloads, lost, intake>>

DeleteRemove(n) ==
  /\ At(n, "delete", "remove")
  /\ \E left \in Leftovers(n) : RemoveAll(n, left) /\ End(n, left = NoDir)
  /\ UNCHANGED shared

\* The steps that begin with QMPStart.
Connecting(n) ==
  <<job[n].kind, job[n].pc>> \in {<<"create", "connect">>, <<"start", "boot">>, <<"stop", "start">>,
                                 <<"quit", "start">>, <<"delete", "start">>}

\* If the context is done when QEMU's greeting has arrived, QMPStart and the
\* loop that it has started may wait for each other.
GreetingHangs(n) ==
  /\ Connecting(n) /\ n \in vm /\ n \in cancelled /\ Goto(n, "hung")
  /\ UNCHANGED <<store, machines, process, downloads, lost, intake>>

\* A QEMU ends by itself: its guest has powered down, or it was killed.
VMEnds(n) ==
  /\ n \in vm /\ vm' = vm \ {n}
  /\ UNCHANGED <<stray, process, loopIP, job, cancelled, store, downloads, history, intake>>

-----------------------------------------------------------------------------
\* The service, the main goroutine and the users.

Kinds == {"create", "start", "stop", "quit", "delete"}

\* The service takes its addresses to be those of its loops.  (reap takes one
\* out when the loop has ended.)
hostIPs == {loopIP[n] : n \in registered}

\* Mutant: the addresses in use are not looked up.
PoolIPs == Pool

FreeIPs == Pool \ hostIPs

\* The service chooses the lowest address that is free.
FindIP(n, ip) ==
  /\ ip \in FreeIPs /\ \A free \in FreeIPs : ip <= free
  /\ loopIP' = [loopIP EXCEPT ![n] = ip] /\ UNCHANGED shared

\* The user names one, and 0 is recorded.
RequestIP(n, ip) ==
  /\ ip \in Requested \ hostIPs
  /\ loopIP' = [loopIP EXCEPT ![n] = 0] /\ shared' = shared \cup {ip}

\* A command is accepted.
Accept(n, k) ==
  /\ up /\ svc = "serving" /\ ~Busy(n) /\ (k = "create") = (n \notin registered)
  /\ commands < MaxCommands /\ commands' = commands + 1
  /\ \E ip \in Pool \cup Requested \cup {None} :
       /\ job' = [job EXCEPT ![n] = [kind |-> k, pc |-> "start", ip |-> ip]]
       /\ IF k = "create" THEN FindIP(n, ip) \/ RequestIP(n, ip)
          ELSE ip = None /\ UNCHANGED <<loopIP, shared>>
  /\ UNCHANGED <<process, cancelled, store, machines, downloads, history, starts>>

\* The user interrupts a command.
Cancel(n) ==
  /\ svc = "serving" /\ Busy(n) /\ n \notin cancelled
  /\ cancelled' = cancelled \cup {n}
  /\ UNCHANGED <<process, loopIP, job, store, machines, downloads, history, intake>>

Signal ==
  /\ up /\ ~done /\ done' = TRUE
  /\ UNCHANGED <<up, svc, dest, loopIP, job, cancelled, store, machines, downloads, history, intake>>

\* doneCh is noticed; then one command after another is cancelled and waited
\* for, until its result channel is closed.
SvcDone ==
  /\ up /\ done /\ svc = "serving" /\ svc' = "draining"
  /\ UNCHANGED <<up, done, dest, loopIP, job, cancelled, store, machines, downloads, history, intake>>


Drain(n) ==
  /\ svc = "draining" /\ dest = None /\ Busy(n)
  /\ dest' = n /\ cancelled' = cancelled \cup {n}
  /\ UNCHANGED <<up, done, svc, loopIP, job, store, machines, downloads, history, intake>>

Drained ==
  /\ dest # None /\ ~Busy(dest) /\ dest' = None
  /\ UNCHANGED <<up, done, svc, loopIP, job, cancelled, store, machines, downloads, history, intake>>

\* Every command has ended, or the idle timer has expired without one.
SvcEnd ==
  /\ up /\ svc # "ended" /\ dest = None /\ \A n \in Names : ~Busy(n)
  /\ svc' = "ended"
  /\ UNCHANGED <<up, done, dest, loopIP, job, cancelled, store, machines, downloads, history, intake>>

\* finishedCh is closed.
MainFinished ==
  /\ up /\ svc = "ended" /\ ~done /\ done' = TRUE
  /\ UNCHANGED <<up, svc, dest, loopIP, job, cancelled, store, machines, downloads, history, intake>>

\* wg.Wait: the service and the download manager have returned.
MainExit ==
  /\ up /\ svc = "ended" /\ done /\ man = "exited" /\ up' = FALSE
  /\ UNCHANGED <<done, svc, dest, loopIP, job, cancelled, store, machines, downloads, history, intake>>

Manager(n) ==
  /\ up /\ (D!Take(n) \/ D!Answer(n))
  /\ UNCHANGED <<process, loopIP, job, cancelled, store, machines, history, intake>>

ManagerDone ==
  /\ up /\ done /\ D!Stop
  /\ UNCHANGED <<process, loopIP, job, cancelled, store, machines, history, intake>>

ManagerLeave ==
  /\ up /\ (D!Leave \/ D!Report)
  /\ UNCHANGED <<process, loopIP, job, cancelled, store, machines, history, intake>>

ManagerReturn ==
  /\ up /\ D!Return
  /\ UNCHANGED <<process, loopIP, job, cancelled, store, machines, history, intake>>

\* What a crash may cut in two: a creation, a deletion, the writing of a state.
CutBy(n) == job[n].kind \in {"create", "delete"} \/ job[n].pc = "saving"

\* The process is gone.  QEMU and ssh-keygen are left running.
Crash ==
  /\ up /\ up' = FALSE /\ starts < MaxStarts
  /\ lost' = lost \cup {n \in Names : CutBy(n)}
  /\ keys' \in {keys} \cup {[keys EXCEPT !.pub = n] : n \in {m \in Names : job[m].pc = "keypub"}}
  /\ UNCHANGED <<done, svc, dest, loopIP, job, cancelled, dir, machines, downloads, made, intake>>

\* The state can be read.  It then has an SSH port (ensureSSHPortMapping) and
\* an IPv4 address (create and the command line take no other).
Readable(n) == dir[n].state = "whole"

\* findExistingInstances walks over the directories in their order and skips
\* one whose state cannot be read or names an address it has met before.
Found == {n \in Names : /\ Readable(n)
                        /\ \A m \in Names : Rank[m] < Rank[n] /\ Readable(m)
                                           => dir[m].ip # dir[n].ip}

\* systemd starts the process when somebody connects to its socket.
StartServer ==
  /\ ~up /\ starts < MaxStarts /\ starts' = starts + 1
  /\ up' = TRUE /\ done' = FALSE /\ svc' = "serving" /\ dest' = None
  /\ loopIP' = [n \in Names |-> IF n \in Found THEN dir[n].ip ELSE None]
  /\ job' = [n \in Names |-> Idle] /\ cancelled' = {}
  /\ ask' = [n \in Names |-> "idle"] /\ D!Restart
  /\ UNCHANGED <<store, machines, history, shared, commands>>

\* The function that runs for n goes on, whatever it waits for but the guest.
Progress(n) ==
  /\ up
  /\ \/ CreateDir(n) \/ CreateFails(n) \/ FindKeys(n) \/ MakePrivate(n) \/ MakePublic(n)
     \/ Configure(n) \/ Save(n) \/ Ask(n) \/ Downloaded(n) \/ CreateImages(n)
     \/ CreateBoot(n) \/ Connect(n) \/ Quitting(n) \/ Cleanup(n)
     \/ StartRestore(n) \/ StartBoot(n) \/ StopVM(n) \/ Powerdown(n) \/ Quit(n)
     \/ DeleteQuit(n) \/ DeleteRemove(n) \/ GreetingHangs(n)
     \/ (n \in cancelled \/ n \notin vm) /\ InstallEnds(n)

\* What the guest or the HTTP server may do.
Guest(n) == (up /\ (Finished(n) \/ InstallEnds(n))) \/ VMEnds(n)

Server ==
  \/ SvcDone \/ Drained \/ SvcEnd \/ MainFinished \/ MainExit \/ ManagerDone
  \/ ManagerLeave \/ ManagerReturn

Next ==
  \/ \E n \in Names : \/ Progress(n) \/ Guest(n) \/ Manager(n)
                      \/ up /\ (Cancel(n) \/ Drain(n))
                      \/ \E k \in Kinds : Accept(n, k)
  \/ Signal \/ Server \/ Crash \/ StartServer

Spec == Init /\ [][Next]_vars

(***************************************************************************)
(* Fairness: the functions go on, the download manager serves and answers  *)
(* (Downloader's RequestEnds), the goroutines of the service and startServer *)
(* run.  Nothing is assumed of guests, users, signals and restarts.        *)
(***************************************************************************)
Fairness ==
  /\ \A n \in Names : WF_vars(Progress(n)) /\ SF_vars(Manager(n)) /\ WF_vars(up /\ Drain(n))
  /\ WF_vars(SvcDone) /\ WF_vars(Drained) /\ WF_vars(SvcEnd /\ done) /\ WF_vars(MainFinished)
  /\ WF_vars(MainExit) /\ SF_vars(ManagerDone) /\ WF_vars(ManagerLeave) /\ WF_vars(ManagerReturn)

FairSpec == Spec /\ Fairness
-----------------------------------------------------------------------------
\* Every variable has its type; only a command that runs is cancelled, and a
\* QEMU that can be reached has a directory.
BackendTypeOK ==
  /\ up \in BOOLEAN /\ done \in BOOLEAN /\ svc \in {"serving", "draining", "ended"}
  /\ dest \in Names \cup {None} /\ cancelled \subseteq Names
  /\ job \in [Names -> [kind : Kinds \cup {"none"},
                        pc : {"none", "start", "keys", "keygen", "keypub", "config", "saving",
                              "bios", "image", "images", "boot", "connect", "install",
                              "quitting", "hung", "cleanup", "powerdown", "remove"},
                        ip : Nat \cup {None}]]
  /\ dir \in [Names -> [there : BOOLEAN, state : {"none", "torn", "whole"}, ip : Nat \cup {None},
                        image : BOOLEAN, key : Names \cup {None}]]
  /\ keys \in [priv : Names \cup {None}, pub : Names \cup {None}]
  /\ vm \subseteq Names /\ stray \subseteq Names /\ D!DTypeOK
  /\ made \subseteq Names /\ lost \subseteq Names
  /\ loopIP \in [Names -> Nat \cup {None}] /\ shared \subseteq Nat
  /\ commands \in 0 .. MaxCommands /\ starts \in 0 .. MaxStarts
  /\ \A n \in Names : /\ n \in cancelled => Busy(n)
                      /\ n \in vm => dir[n].there
                      /\ (job[n].kind = "none") = (job[n].pc = "none")

\* The directory of n names an address of its own.  The service may give the
\* same address twice if a user has asked for it, as 0 is recorded instead, or
\* if it is still in a directory whose removal has failed.
Distinct(n) == dir[n].ip \notin shared

\* createInstance's deferred RemoveAll and deleteInstance: a directory belongs
\* to a registered instance while the service serves, unless a fault (a crash,
\* a full disk, a removal that fails) has come in the way, or its address is
\* that of another directory and findExistingInstances has skipped it.
NoOrphans == \A n \in Names :
  up /\ svc = "serving" /\ dir[n].there /\ Distinct(n) => n \in registered \cup lost

\* An instance that has been created is registered until it is deleted, in the
\* service that created it and in those started after it unless its address is
\* that of another directory, and has all it needs: a state file, a disk image
\* and the key that id_rsa opens, except while its own state is being written.
InstancesLast == \A n \in made \ lost :
  /\ up /\ svc = "serving" => n \in registered \/ (starts > 0 /\ ~Distinct(n))
  /\ dir[n].image /\ dir[n].key = keys.priv /\ keys.pub = keys.priv
  /\ dir[n].state = "whole" \/ (up /\ job[n].pc = "saving")

\* A QEMU that nobody can reach any more is only left by a function whose
\* context was cancelled (vm.go:262, ccvm.go:433).
StrayOnlyIfCancelled == [][stray' \ stray \subseteq cancelled]_vars

\* A command that is cancelled ends, unless it hangs in QMPStart or the process
\* is told to stop.
CancelledEnds == \A n \in Names :
  (n \in cancelled) ~> (n \notin cancelled \/ job[n].pc = "hung" \/ done \/ ~up)

\* What can keep the process from ending: a transfer that nobody listens to
\* and a download manager that has left, a creation that offers a download to
\* such a manager, or a function that hangs in QMPStart.
Hangs ==
  \/ man = "gone" /\ unheard
  \/ ~D!Receiving /\ \E n \in Names : ask[n] = "offered"
  \/ \E n \in Names : job[n].pc = "hung"


\* server_test.go, TestServerShutdownPending: with a creation under way doneCh
\* is closed and wg.Wait returns.
ServerExits == done ~> (~done \/ ~up)
=============================================================================
