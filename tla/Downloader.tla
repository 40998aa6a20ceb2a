----------------------------- MODULE Downloader -----------------------------
(***************************************************************************)
(* The download manager (downloader.start), the transfer it starts for     *)
(* every file it does not have (initiateDownload) and the goroutines that  *)
(* ask for files (downloadFile).                                           *)
(*                                                                         *)
(* The manager receives requests, and progress from the transfers, in one  *)
(* select and tells the listeners of a file about it one after another.    *)
(* All channels are unbuffered: whoever sends waits for the receiver, the  *)
(* manager for a listener and a transfer for the manager.                  *)
(***************************************************************************)
EXTENDS Integers, Sequences, FiniteSets

CONSTANTS
  Requesters,   \* goroutines that call downloadFile, each once
  Files,        \* base names of URLs
  Xz,           \* the files that are unpacked with unxz
  Failing,      \* the files whose download may fail
  Cached,       \* the files in the cache directory at first
  Fickle,       \* the requesters whose context may be cancelled
  MaxUpdates,   \* bound: progress updates of one transfer
  MaxRestarts,  \* bound: restarts of the process
  None,         \* no entry, no transfer, no answer
  BadURL        \* a URL that cannot be parsed

ASSUME DownloaderAssumption ==
  /\ Xz \subseteq Files /\ Failing \subseteq Files /\ Cached \subseteq Files
  /\ Fickle \subseteq Requesters
  /\ MaxUpdates \in Nat \ {0} /\ MaxRestarts \in Nat
  /\ None \notin Requesters \cup Files \cup {"ok", "err"} /\ BadURL \notin Files

VARIABLES
  mgr,        \* where the manager is
  shutting,   \* shuttingDown
  done,       \* doneCh is closed
  files,      \* downloader.files
  tell,       \* the update the manager is passing on to listeners
  req,        \* the requesters
  cancelled,  \* those whose context is cancelled
  xfer,       \* the transfers; the one r's request starts is transfer r
  disk,       \* the cache directory: each file and its .part
  restarts

manager == <<mgr, shutting, files, tell>>
world   == <<done, restarts>>
vars    == <<manager, req, cancelled, xfer, disk, world>>

-----------------------------------------------------------------------------
NoUpdate == [file |-> None, left |-> <<>>, gone |-> FALSE, kept |-> <<>>,
             complete |-> FALSE, err |-> FALSE]

IdleRequester  == [pc |-> "idle", want |-> None, closed |-> FALSE, out |-> None]
UnusedTransfer == [pc |-> "unused", file |-> None, stop |-> FALSE, err |-> FALSE, updates |-> 0]
NewTransfer(f) == [UnusedTransfer EXCEPT !.pc = "start", !.file = f]

\* A file found in the cache, and one that requester r asks for first.
FoundEntry  == [complete |-> TRUE, listeners |-> <<>>, xfer |-> None]

\* Mutant: the function that cancels the transfer is not stored.
EntryWithoutCancel(r) == [complete |-> FALSE, listeners |-> <<r>>, xfer |-> None]
NewEntry(r) == [complete |-> FALSE, listeners |-> <<r>>, xfer |-> r]

\* setup: partial downloads are removed, every other file is taken as whole.
FoundIn(d) == [f \in Files |-> IF d[f].img # "none" THEN FoundEntry ELSE None]

Init ==
  /\ mgr = "select" /\ shutting = FALSE /\ done = FALSE /\ restarts = 0
  /\ disk = [f \in Files |-> [img |-> IF f \in Cached THEN "whole" ELSE "none", part |-> FALSE]]
  /\ files = FoundIn(disk)
  /\ tell = NoUpdate /\ cancelled = {}
  /\ req = [r \in Requesters |-> IdleRequester]
  /\ xfer = [r \in Requesters |-> UnusedTransfer]

-----------------------------------------------------------------------------
\* Requesters: downloadFile.

\* The request is offered on downloadCh, without regard to the context.
Request(r, f) ==
  /\ req[r].pc = "idle" /\ mgr # "exited"
  /\ req' = [req EXCEPT ![r].pc = "offering", ![r].want = f]
  /\ UNCHANGED <<manager, cancelled, xfer, disk, world>>

Cancel(r) ==
  /\ r \in Fickle \ cancelled /\ req[r].pc \in {"offering", "waiting", "callback"}
  /\ cancelled' = cancelled \cup {r}
  /\ UNCHANGED <<manager, req, xfer, disk, world>>

\* The requester's record after a message that carries v ("ok" for no error)
\* and, if it is the last, is followed by the close of its channel.  An error
\* is always the last; other messages are reported to the progress callback.
Told(k, v, last) == [k EXCEPT !.pc = IF v = "err" THEN "ended" ELSE "callback",
                              !.closed = last, !.out = IF last THEN v ELSE None]

\* The progress callback returns.
Callback(r) ==
  /\ req[r].pc = "callback"
  /\ req' = [req EXCEPT ![r].pc = IF req[r].closed THEN "ended" ELSE "waiting"]
  /\ UNCHANGED <<manager, cancelled, xfer, disk, world>>

-----------------------------------------------------------------------------
\* The manager: start, processUpdate and activeDownloads.

Listened(fs) == {f \in Files : fs[f] # None /\ fs[f].listeners # <<>>}

\* Cancel the transfers xs.
Stopped(xs) == [x \in Requesters |-> IF x \in xs THEN [xfer[x] EXCEPT !.stop = TRUE] ELSE xfer[x]]

\* Mutant: a request for a file that is being downloaded starts another transfer.
NeverJoins(f) == FALSE

\* A request for file f joins the download of it that is in the table.
Joins(f)  == files[f] # None /\ ~files[f].complete

\* Mutant: the file is not looked for in the cache directory.
HasEntry(f) == files[f] # None /\ files[f].complete

\* File f can be served from the cache.
HasFile(f) == files[f] # None /\ files[f].complete /\ disk[f].img # "none"

\* A request is received.
MgrReceive(r) ==
  /\ mgr = "select" /\ req[r].pc = "offering"
  /\ LET f == req[r].want IN
     \/ /\ shutting
        /\ req' = [req EXCEPT ![r] = Told(@, "err", TRUE)]
        /\ UNCHANGED <<files, xfer>>
     \/ /\ ~shutting /\ f = BadURL
        /\ req' = [req EXCEPT ![r] = Told(@, "ok", TRUE)]
        /\ UNCHANGED <<files, xfer>>
     \/ /\ ~shutting /\ f \in Files /\ Joins(f)
        /\ files' = [files EXCEPT ![f].listeners = Append(@, r)]
        /\ req' = [req EXCEPT ![r].pc = "waiting"]
        /\ UNCHANGED xfer
     \/ /\ ~shutting /\ f \in Files /\ ~Joins(f) /\ HasFile(f)
        /\ req' = [req EXCEPT ![r] = [Told(@, "ok", TRUE) EXCEPT !.pc = "ended"]]
        /\ UNCHANGED <<files, xfer>>
     \/ /\ ~shutting /\ f \in Files /\ ~Joins(f) /\ ~HasFile(f)
        /\ files' = [files EXCEPT ![f] = NewEntry(r)]
        /\ xfer' = [xfer EXCEPT ![r] = NewTransfer(f)]
        /\ req' = [req EXCEPT ![r].pc = "waiting"]
  /\ UNCHANGED <<mgr, shutting, tell, cancelled, disk, world>>

\* Mutant: the end of the last download does not end the manager.
NeverLeaves(fs) == FALSE

\* Mutant: the manager leaves during a shutdown whoever listens.
LeavesAtOnce(fs) == shutting

\* After an update: the manager leaves once nobody listens during a shutdown.
Leaves(fs) == shutting /\ Listened(fs) = {}

\* All listeners in u have been told, those kept go on listening.  A download
\* nobody listens to any more is cancelled but stays in the table until its
\* transfer has reported the end; a failed one is removed.  fs is the table
\* and xs the transfers before that.
UpdateDone(u, fs, xs) ==
  LET e == fs[u.file]
      ended == u.kept = <<>> \/ u.complete
      ft == IF u.err THEN [fs EXCEPT ![u.file] = None]
            ELSE [fs EXCEPT ![u.file].listeners = u.kept]
      cancels == (IF ended THEN {e.xfer} ELSE {})
                   \cup (IF shutting THEN {ft[f].xfer : f \in Listened(ft)} ELSE {})
  IN /\ files' = ft
     /\ xfer' = [x \in Requesters |-> IF x \in cancels THEN [xs[x] EXCEPT !.stop = TRUE] ELSE xs[x]]
     /\ tell' = NoUpdate
     /\ mgr' = IF Leaves(ft) THEN "waiting" ELSE "select"

\* Transfer x sends an update.  Whether the first listener's context is done
\* is looked up before the manager sends to it.
MgrUpdate(x) ==
  /\ mgr = "select" /\ xfer[x].pc \in {"reporting", "finishing"}
  /\ LET f  == xfer[x].file
         c  == xfer[x].pc = "finishing"
         xs == [xfer EXCEPT ![x].pc = IF c THEN "ended" ELSE "fetching"]
         fs == [files EXCEPT ![f].complete = c]
         u  == [file |-> f, left |-> files[f].listeners, kept |-> <<>>,
                gone |-> files[f].listeners # <<>> /\ Head(files[f].listeners) \in cancelled,
                complete |-> c, err |-> xfer[x].err]
     IN IF files[f] = None THEN xfer' = xs /\ UNCHANGED <<files, tell, mgr>>
        ELSE IF u.left = <<>> THEN UpdateDone(u, fs, xs)
        ELSE /\ mgr' = "telling" /\ tell' = u /\ files' = fs /\ xfer' = xs
  /\ UNCHANGED <<shutting, req, cancelled, disk, world>>

\* Mutant: a listener that has been told is not kept.
KeptNobody(u) == <<>>

\* The listeners that go on listening after the first one left is told.
Kept(u) == IF u.gone \/ u.complete THEN u.kept ELSE Append(u.kept, Head(u.left))

\* The manager sends the update to the next listener.  To one whose context
\* is done it sends an error unless the download is complete.
MgrTell ==
  /\ mgr = "telling" /\ req[Head(tell.left)].pc = "waiting"
  /\ LET l == Head(tell.left)
         v == IF tell.gone THEN (IF tell.complete THEN "ok" ELSE "err")
              ELSE (IF tell.err THEN "err" ELSE "ok")
         rest == Tail(tell.left)
         u == [tell EXCEPT !.left = rest, !.kept = Kept(tell),
                           !.gone = rest # <<>> /\ Head(rest) \in cancelled]
     IN /\ req' = [req EXCEPT ![l] = Told(@, v, tell.gone \/ tell.complete)]
        /\ IF rest = <<>> THEN UpdateDone(u, files, xfer)
           ELSE tell' = u /\ UNCHANGED <<mgr, files, xfer>>
  /\ UNCHANGED <<shutting, cancelled, disk, world>>

\* doneCh is closed: the manager leaves, or cancels what is listened to.
MgrDone ==
  /\ mgr = "select" /\ done /\ ~shutting
  /\ IF Listened(files) = {} THEN mgr' = "waiting" /\ UNCHANGED <<shutting, xfer>>
     ELSE /\ shutting' = TRUE /\ xfer' = Stopped({files[f].xfer : f \in Listened(files)})
          /\ UNCHANGED mgr
  /\ UNCHANGED <<files, tell, req, cancelled, disk, world>>

\* wg.Wait
MgrStop ==
  /\ mgr = "waiting" /\ \A x \in Requesters : xfer[x].pc \in {"unused", "ended"}
  /\ mgr' = "exited"
  /\ UNCHANGED <<shutting, files, tell, req, cancelled, xfer, disk, world>>

-----------------------------------------------------------------------------
\* Transfers: initiateDownload, prepareDownload, getFile and renameFile.

\* The transfer is ready to report its end, having removed the .part file.
Ends(x, err) == xfer' = [xfer EXCEPT ![x].pc = "finishing", ![x].err = err]

Fails(x) ==
  /\ Ends(x, TRUE)
  /\ disk' = [disk EXCEPT ![xfer[x].file].part = FALSE]

MayFail(x) == xfer[x].file \in Failing \/ xfer[x].stop

\* The .part file is made anew.
XferCreate(x) ==
  /\ xfer[x].pc = "start"
  /\ \/ xfer' = [xfer EXCEPT ![x].pc = "asking"]
        /\ disk' = [disk EXCEPT ![xfer[x].file].part = TRUE]
     \/ xfer[x].file \in Failing /\ Fails(x)
  /\ UNCHANGED <<manager, req, cancelled, world>>

\* The server answers, and the transfer is about to report the size.
XferAnswered(x) ==
  /\ xfer[x].pc = "asking"
  /\ \/ ~xfer[x].stop /\ xfer' = [xfer EXCEPT ![x].pc = "reporting", ![x].updates = 1]
        /\ UNCHANGED disk
     \/ MayFail(x) /\ Fails(x)
  /\ UNCHANGED <<manager, req, cancelled, world>>

\* More of the file is read, or all of it.  A file that is not unpacked then
\* gets its name, whether the transfer has been cancelled or not.
XferRead(x) ==
  /\ xfer[x].pc = "fetching"
  /\ LET f == xfer[x].file IN
     \/ /\ xfer[x].updates < MaxUpdates
        /\ xfer' = [xfer EXCEPT ![x].pc = "reporting", ![x].updates = @ + 1]
        /\ UNCHANGED disk
     \/ f \in Xz /\ xfer' = [xfer EXCEPT ![x].pc = "unpack"] /\ UNCHANGED disk
     \/ /\ f \notin Xz /\ Ends(x, FALSE)
        /\ disk' = [disk EXCEPT ![f] = [img |-> "whole", part |-> FALSE]]
     \/ MayFail(x) /\ Fails(x)
  /\ UNCHANGED <<manager, req, cancelled, world>>

\* unxz writes the file under its own name, and does not start when there is
\* a file of that name or the context is done.
XferUnpack(x) ==
  /\ xfer[x].pc = "unpack"
  /\ LET f == xfer[x].file IN
     IF xfer[x].stop \/ disk[f].img # "none" THEN Fails(x)
     ELSE /\ xfer' = [xfer EXCEPT ![x].pc = "unpacking"]
          /\ disk' = [disk EXCEPT ![f].img = "partial"]
  /\ UNCHANGED <<manager, req, cancelled, world>>

\* unxz ends; it removes its output when it fails, but not when the done
\* context kills it.
XferUnpacked(x) ==
  /\ xfer[x].pc = "unpacking"
  /\ LET f == xfer[x].file IN
     \/ Ends(x, FALSE) /\ disk' = [disk EXCEPT ![f] = [img |-> "whole", part |-> FALSE]]
     \/ /\ f \in Failing /\ Ends(x, TRUE)
        /\ disk' = [disk EXCEPT ![f] = [img |-> "none", part |-> FALSE]]
     \/ xfer[x].stop /\ Fails(x)
  /\ UNCHANGED <<manager, req, cancelled, world>>

-----------------------------------------------------------------------------
\* The process and its surroundings.

\* startServer closes doneCh.
Done ==
  /\ ~done /\ done' = TRUE
  /\ UNCHANGED <<manager, req, cancelled, xfer, disk, restarts>>

\* The user removes a file from the cache.
Removed(f) ==
  /\ mgr = "select" /\ files[f] # None /\ files[f].complete /\ disk[f].img # "none"
  /\ disk' = [disk EXCEPT ![f].img = "none"]
  /\ UNCHANGED <<manager, req, cancelled, xfer, world>>

\* The process has ended, by itself or by a crash, and is started again.
Restart ==
  /\ restarts < MaxRestarts /\ restarts' = restarts + 1
  /\ mgr' = "select" /\ shutting' = FALSE /\ done' = FALSE /\ tell' = NoUpdate
  /\ disk' = [f \in Files |-> [disk[f] EXCEPT !.part = FALSE]]
  /\ files' = FoundIn(disk')
  /\ req' = [r \in Requesters |-> IF req[r].pc \in {"idle", "ended"} THEN req[r]
                                  ELSE [req[r] EXCEPT !.pc = "ended", !.out = None]]
  /\ xfer' = [x \in Requesters |-> IF xfer[x].pc = "unused" THEN xfer[x]
                                   ELSE [xfer[x] EXCEPT !.pc = "ended"]]
  /\ UNCHANGED cancelled

Next ==
  \/ \E r \in Requesters :
       \/ \E f \in Files \cup {BadURL} : Request(r, f)
       \/ Cancel(r) \/ Callback(r) \/ MgrReceive(r)
       \/ MgrUpdate(r) \/ XferCreate(r) \/ XferAnswered(r) \/ XferRead(r)
       \/ XferUnpack(r) \/ XferUnpacked(r)
  \/ \E f \in Files : Removed(f)
  \/ MgrTell \/ MgrDone \/ MgrStop \/ Done \/ Restart

Spec == Init /\ [][Next]_vars

(***************************************************************************)
(* Fairness.  Every goroutine that can run does; the network answers or    *)
(* fails, unxz ends, progress callbacks return.  The manager's select is   *)
(* fair to requests, which wait in line.                                   *)
(***************************************************************************)
Fairness ==
  /\ \A r \in Requesters :
       /\ SF_vars(MgrReceive(r)) /\ SF_vars(MgrUpdate(r)) /\ WF_vars(Callback(r))
       /\ WF_vars(XferCreate(r) \/ XferAnswered(r) \/ XferRead(r)
                    \/ XferUnpack(r) \/ XferUnpacked(r))
  /\ WF_vars(MgrTell) /\ SF_vars(MgrDone) /\ WF_vars(MgrStop)

FairSpec == Spec /\ Fairness

-----------------------------------------------------------------------------
LiveEntry == [complete : BOOLEAN, listeners : Seq(Requesters), xfer : Requesters]
Entries   == {FoundEntry} \cup LiveEntry

ASSUME NoEntryAssumption == None \notin Entries

RequesterType ==
  [pc : {"idle", "offering", "waiting", "callback", "ended"},
   want : Files \cup {BadURL, None}, closed : BOOLEAN, out : {"ok", "err", None}]

TransferType ==
  [pc : {"unused", "start", "asking", "reporting", "fetching", "unpack", "unpacking",
         "finishing", "ended"},
   file : Files \cup {None}, stop : BOOLEAN, err : BOOLEAN, updates : 0 .. MaxUpdates]

\* Every variable has its type; an unfinished download can be cancelled.
DownloadTypeOK ==
  /\ mgr \in {"select", "telling", "waiting", "exited"}
  /\ shutting \in BOOLEAN /\ done \in BOOLEAN /\ restarts \in 0 .. MaxRestarts
  /\ files \in [Files -> Entries \cup {None}]
  /\ tell \in [file : Files \cup {None}, left : Seq(Requesters), gone : BOOLEAN,
               kept : Seq(Requesters), complete : BOOLEAN, err : BOOLEAN]
  /\ req \in [Requesters -> RequesterType] /\ cancelled \subseteq Requesters
  /\ xfer \in [Requesters -> TransferType]
  /\ disk \in [Files -> [img : {"none", "partial", "whole"}, part : BOOLEAN]]

Working(x) == xfer[x].pc \notin {"unused", "finishing", "ended"}

\* No two transfers write the same .part file or the same file.
OneWriter == \A x, y \in Requesters :
  Working(x) /\ Working(y) /\ xfer[x].file = xfer[y].file => x = y

\* A transfer that is at work is the one its file's entry in the table stands
\* for, so that requests join it and a shutdown cancels it.
WorkIsKnown == \A x \in Requesters :
  Working(x) => files[xfer[x].file] # None /\ files[xfer[x].file].xfer = x

\* download.go: "Discarding partially downloaded file".  A requester that did
\* not cancel and is told of no error finds the whole file in the cache.
OkMeansWhole ==
  [][\A r \in Requesters \ cancelled :
       req[r].want \in Files /\ req[r].out # "ok" /\ req'[r].out = "ok"
         => disk[req[r].want].img = "whole"]_vars

\* As long as the manager is not told to stop, every request is answered.
RequestEnds == \A r \in Requesters :
  (req[r].pc = "offering") ~> (req[r].pc = "ended" \/ done)

\* If no request is cancelled, the manager returns once it is told to stop.
UncancelledReturns == done ~> (mgr = "exited" \/ cancelled # {} \/ ~done)

\* download_test.go ends with cancel() and wg.Wait(): the manager returns once
\* it is told to stop.
ManagerReturns == done ~> (mgr = "exited" \/ ~done)

\* download_test.go: the other of two requests fails with "Download failed".
\* A request fails only if it is cancelled itself, the download of its file
\* fails, or the manager is told to stop.
FailsForCause == \A r \in Requesters :
  req[r].out = "err" => r \in cancelled \/ req[r].want \in Failing \/ done
=============================================================================
