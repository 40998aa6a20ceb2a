--------------------------- MODULE DownloaderProofs ---------------------------
(***************************************************************************)
(* Theorems about Downloader: no two transfers write the same file, every  *)
(* transfer at work can be joined and cancelled, a requester that is told  *)
(* of no error has the file, and Downloads is implemented, step by step.   *)
(***************************************************************************)
EXTENDS DownloaderRefinement, TLAPS

LEMMA Assumed ==
  /\ Xz \subseteq Files /\ Cached \subseteq Files /\ Fickle \subseteq Requesters
  /\ MaxUpdates \in Nat \ {0} /\ MaxRestarts \in Nat
  /\ None \notin Requesters \cup Files /\ None # "ok" /\ None # "err" /\ BadURL \notin Files
BY DownloaderAssumption DEF DownloaderAssumption

-----------------------------------------------------------------------------
(***************************************************************************)
(* The inductive invariant.                                                *)
(***************************************************************************)

HeardOf(f) == mgr = "telling" /\ tell.file = f

\* In table fs and transfers xs: a transfer that has not reported its end is the
\* one the entry of its file stands for, and that entry is not complete; only
\* the end of a transfer is an error, and only archives are unpacked.
Matches(fs, xs) == \A x \in Requesters :
  /\ xs[x].pc \notin {"unused", "ended"} =>
       /\ xs[x].file \in Files /\ fs[xs[x].file] # None
       /\ fs[xs[x].file].xfer = x /\ ~fs[xs[x].file].complete
  /\ xs[x].err => xs[x].pc \in {"finishing", "ended"}
  /\ xs[x].pc \in {"unpack", "unpacking"} => xs[x].file \in Xz

\* A requester whose request has not been received has started no transfer.
TransferInv ==
  /\ Matches(files, xfer)
  /\ \A x \in Requesters : req[x].pc \in {"idle", "offering"} => xfer[x].pc = "unused"

\* The update that is passed on is about a file in the table whose entry was
\* made for a transfer and lists somebody; it is an error only if it is the
\* last; listeners are kept only if it is not.
TellInv == mgr = "telling" =>
  /\ tell.file \in Files /\ tell.left # <<>>
  /\ files[tell.file] # None /\ files[tell.file].xfer \in Requesters
  /\ files[tell.file].listeners # <<>>
  /\ tell.err => tell.complete
  /\ tell.complete <=> files[tell.file].complete
  /\ tell.complete => tell.kept = <<>>
  /\ tell.gone => Head(tell.left) \in cancelled

TellType == [file : Files \cup {None}, left : Seq(Requesters), gone : BOOLEAN,
             kept : Seq(Requesters), complete : BOOLEAN, err : BOOLEAN]
DiskType == [img : {"none", "partial", "whole"}, part : BOOLEAN]

ManagerTypes ==
  /\ mgr \in {"select", "telling", "waiting", "exited"} /\ shutting \in BOOLEAN
  /\ files \in [Files -> Entries \cup {None}] /\ tell \in TellType
WorldTypes ==
  /\ done \in BOOLEAN /\ restarts \in 0 .. MaxRestarts /\ cancelled \subseteq Requesters
RequestTypes  == req \in [Requesters -> RequesterType]
TransferTypes == xfer \in [Requesters -> TransferType] /\ disk \in [Files -> DiskType]

WorkTypes == ManagerTypes /\ WorldTypes /\ RequestTypes /\ TransferTypes

WorkInv == WorkTypes /\ TransferInv /\ TellInv

\* What a file in the cache is worth: only unxz leaves a partial file under the
\* file's own name, a complete entry stands for a whole file or a missing one.
DiskInv ==
  /\ \A f \in Files :
       /\ disk[f].img = "partial" => f \in Xz
       /\ files[f] # None /\ files[f].complete /\ disk[f].img = "partial"
            => HeardOf(f) /\ tell.err
       /\ HeardOf(f) /\ tell.complete /\ ~tell.err => disk[f].img = "whole"
  /\ \A x \in Requesters :
       xfer[x].pc = "finishing" /\ ~xfer[x].err => disk[xfer[x].file].img = "whole"

Among(r, s) == \E i \in 1 .. Len(s) : s[i] = r

\* Who listens asked for that file.  A requester that waits for more listens to
\* a download in the table, and is still to be told of the update that is passed
\* on, or kept for the next.  A complete entry has no listeners but those that
\* are being told so.
Taken(r) == req[r].out = None /\ req[r].pc \in {"waiting", "callback"}
Listening(r, f) ==
  /\ f \in Files /\ files[f] # None /\ Among(r, files[f].listeners)
  /\ HeardOf(f) => Among(r, tell.left) \/ Among(r, tell.kept)

ListenInv ==
  /\ \A r \in Requesters :
       /\ req[r].pc = "idle" => req[r].want = None
       /\ ~req[r].closed \/ req[r].pc \in {"idle", "offering", "waiting"} => req[r].out = None
       /\ Taken(r) => Listening(r, req[r].want)
       /\ \A f \in Files : files[f] # None /\ Among(r, files[f].listeners) => req[r].want = f
       /\ mgr = "telling" /\ (Among(r, tell.left) \/ Among(r, tell.kept)) => req[r].want = tell.file
  /\ \A f \in Files :
       files[f] # None /\ files[f].complete => HeardOf(f) \/ files[f].listeners = <<>>

-----------------------------------------------------------------------------
\* Sequences of listeners.

LEMMA ListenerLists ==
  ASSUME NEW s \in Seq(Requesters)
  PROVE  /\ <<>> \in Seq(Requesters)
         /\ \A r \in Requesters : <<r>> \in Seq(Requesters) /\ Append(s, r) \in Seq(Requesters)
         /\ s # <<>> => Head(s) \in Requesters /\ Tail(s) \in Seq(Requesters)
OBVIOUS

LEMMA AmongAppend ==
  ASSUME NEW s \in Seq(Requesters), NEW r \in Requesters, NEW l \in Requesters
  PROVE  Among(l, Append(s, r)) <=> Among(l, s) \/ l = r
<1>1. /\ Len(Append(s, r)) = Len(s) + 1 /\ Append(s, r)[Len(s) + 1] = r
      /\ \A i \in 1 .. Len(s) : Append(s, r)[i] = s[i]
      /\ Len(s) \in Nat
  OBVIOUS
<1> QED BY <1>1 DEF Among

LEMMA AmongHeadTail ==
  ASSUME NEW s \in Seq(Requesters), s # <<>>, NEW l \in Requesters
  PROVE  Among(l, s) <=> l = Head(s) \/ Among(l, Tail(s))
<1>1. /\ Len(s) \in Nat \ {0} /\ Len(Tail(s)) = Len(s) - 1 /\ Head(s) = s[1]
      /\ \A i \in 1 .. Len(s) - 1 : Tail(s)[i] = s[i + 1]
  OBVIOUS
<1>2. ASSUME Among(l, s) PROVE l = Head(s) \/ Among(l, Tail(s))
  <2>1. PICK i \in 1 .. Len(s) : s[i] = l
    BY <1>2 DEF Among
  <2>2. CASE i = 1
    BY <1>1, <2>1, <2>2
  <2>3. CASE i # 1
    <3>1. i - 1 \in 1 .. Len(Tail(s)) /\ Tail(s)[i - 1] = s[i]
      BY <1>1, <2>1, <2>3
    <3> QED BY <2>1, <3>1 DEF Among
  <2> QED BY <2>2, <2>3
<1>3. ASSUME Among(l, Tail(s)) PROVE Among(l, s)
  <2>1. PICK i \in 1 .. Len(Tail(s)) : Tail(s)[i] = l
    BY <1>3 DEF Among
  <2>2. i + 1 \in 1 .. Len(s) /\ s[i + 1] = l
    BY <1>1, <2>1
  <2> QED BY <2>2 DEF Among
<1>4. Among(Head(s), s)
  BY <1>1 DEF Among
<1> QED BY <1>2, <1>3, <1>4

LEMMA AmongNobody == ASSUME NEW l PROVE ~Among(l, <<>>)
BY DEF Among

-----------------------------------------------------------------------------
\* Types.

LEMMA EntryTypes ==
  /\ None \notin Entries
  /\ \A e \in Entries :
       /\ e.listeners \in Seq(Requesters) /\ e.complete \in BOOLEAN
       /\ ~e.complete \/ e.xfer \in Requesters => e \in LiveEntry
<1>1. None \notin Entries
  BY NoEntryAssumption DEF NoEntryAssumption
<1>2. ASSUME NEW e \in LiveEntry
      PROVE  e.listeners \in Seq(Requesters) /\ e.complete \in BOOLEAN
  BY DEF LiveEntry
<1>3. /\ FoundEntry.listeners = <<>> /\ FoundEntry.complete = TRUE
      /\ FoundEntry.xfer \notin Requesters
  BY Assumed DEF FoundEntry
<1>4. <<>> \in Seq(Requesters)
  OBVIOUS
<1> QED BY <1>1, <1>2, <1>3, <1>4 DEF Entries

LEMMA NoUpdateType == NoUpdate \in TellType
<1>1. <<>> \in Seq(Requesters)
  OBVIOUS
<1> QED BY <1>1 DEF NoUpdate, TellType

LEMMA ToldType ==
  ASSUME NEW k \in RequesterType, NEW v \in {"ok", "err"}, NEW last \in BOOLEAN
  PROVE  /\ Told(k, v, last) \in RequesterType
         /\ Told(k, v, last).pc = IF v = "err" THEN "ended" ELSE "callback"
         /\ Told(k, v, last).out = IF last THEN v ELSE None
         /\ Told(k, v, last).want = k.want /\ Told(k, v, last).closed = last
         /\ [Told(k, v, last) EXCEPT !.pc = "ended"] \in RequesterType
         /\ [Told(k, v, last) EXCEPT !.pc = "ended"].pc = "ended"
         /\ [Told(k, v, last) EXCEPT !.pc = "ended"].out = Told(k, v, last).out
BY DEF Told, RequesterType

LEMMA NewTransferType ==
  ASSUME NEW f \in Files
  PROVE  /\ NewTransfer(f) \in TransferType /\ NewTransfer(f).pc = "start"
         /\ NewTransfer(f).file = f /\ ~NewTransfer(f).err
<1>1. 0 \in 0 .. MaxUpdates
  BY Assumed
<1> QED BY <1>1 DEF NewTransfer, UnusedTransfer, TransferType

-----------------------------------------------------------------------------
\* Requesters.

LEMMA RequesterStep ==
  ASSUME WorkInv, NEW r \in Requesters, NEW f \in Files \cup {BadURL},
         Request(r, f) \/ Cancel(r) \/ Callback(r)
  PROVE  WorkInv'
<1>1. UNCHANGED <<manager, xfer, disk, world>>
  BY DEF Request, Cancel, Callback
<1>2. RequestTypes' /\ WorldTypes'
  BY <1>1, Assumed DEF WorkInv, WorkTypes, Request, Cancel, Callback, RequestTypes, WorldTypes,
     RequesterType, world
<1>3. WorkTypes'
  BY <1>1, <1>2 DEF WorkInv, WorkTypes, ManagerTypes, TransferTypes, manager
<1>4. TransferInv'
  <2>1. \A x \in Requesters : req'[x].pc \in {"idle", "offering"} => req[x].pc \in {"idle", "offering"}
    BY DEF WorkInv, WorkTypes, RequestTypes, RequesterType, Request, Cancel, Callback
  <2> QED BY <1>1, <2>1 DEF WorkInv, WorkTypes, TransferInv, Matches, manager
<1>5. cancelled \subseteq cancelled'
  BY DEF Request, Cancel, Callback
<1>6. TellInv'
  BY <1>1, <1>5 DEF WorkInv, WorkTypes, TellInv, manager
<1> QED BY <1>3, <1>4, <1>6 DEF WorkInv, WorkTypes

-----------------------------------------------------------------------------
\* Requests are received.

LEMMA ReceiveStep ==
  ASSUME WorkInv, NEW r \in Requesters, MgrReceive(r)
  PROVE  WorkInv'
<1> DEFINE f == req[r].want
<1>1. /\ TransferInv /\ ManagerTypes /\ WorldTypes /\ RequestTypes /\ TransferTypes
      /\ req[r] \in RequesterType
  BY DEF WorkInv, WorkTypes, RequestTypes
<1>2. /\ mgr = "select" /\ req[r].pc = "offering" /\ xfer[r].pc = "unused"
      /\ UNCHANGED <<mgr, shutting, tell, cancelled, disk, world>>
  BY <1>1 DEF MgrReceive, TransferInv
<1>3. TellInv' /\ WorldTypes'
  BY <1>1, <1>2 DEF TellInv, WorldTypes, world
<1>4. ASSUME NEW k \in RequesterType, req' = [req EXCEPT ![r] = k], k.pc \notin {"idle", "offering"}
      PROVE  RequestTypes' /\ \A x \in Requesters :
               req'[x].pc \in {"idle", "offering"} => x # r /\ req[x].pc \in {"idle", "offering"}
  BY <1>1, <1>4 DEF RequestTypes
<1>5. ASSUME NEW k \in RequesterType, req' = [req EXCEPT ![r] = k], k.pc \notin {"idle", "offering"},
             UNCHANGED <<files, xfer>>
      PROVE  WorkInv'
  <2>1. ManagerTypes' /\ TransferTypes'
    BY <1>1, <1>2, <1>5 DEF ManagerTypes, TransferTypes
  <2>2. TransferInv'
    BY <1>1, <1>4, <1>5 DEF TransferInv, Matches
  <2> QED BY <1>3, <1>4, <1>5, <2>1, <2>2 DEF WorkInv, WorkTypes
<1>6. CASE shutting /\ req' = [req EXCEPT ![r] = Told(@, "err", TRUE)] /\ UNCHANGED <<files, xfer>>
  BY <1>1, <1>5, <1>6, ToldType
<1>7. CASE req' = [req EXCEPT ![r] = Told(@, "ok", TRUE)] /\ UNCHANGED <<files, xfer>>
  BY <1>1, <1>5, <1>7, ToldType
<1>8. CASE /\ req' = [req EXCEPT ![r] = [Told(@, "ok", TRUE) EXCEPT !.pc = "ended"]]
           /\ UNCHANGED <<files, xfer>>
  <2> DEFINE k == [Told(req[r], "ok", TRUE) EXCEPT !.pc = "ended"]
  <2>1. k \in RequesterType /\ k.pc = "ended"
    BY <1>1, ToldType
  <2> QED BY <1>1, <1>5, <1>8, <2>1
<1>9. ASSUME req' = [req EXCEPT ![r].pc = "waiting"]
      PROVE  RequestTypes' /\ \A x \in Requesters :
               req'[x].pc \in {"idle", "offering"} => x # r /\ req[x].pc \in {"idle", "offering"}
  <2> DEFINE k == [req[r] EXCEPT !.pc = "waiting"]
  <2>1. k \in RequesterType /\ k.pc = "waiting"
    BY <1>1 DEF RequesterType
  <2> QED BY <1>4, <1>9, <2>1
<1>10. CASE /\ ~shutting /\ f \in Files /\ Joins(f) /\ UNCHANGED xfer
            /\ files' = [files EXCEPT ![f].listeners = Append(@, r)]
            /\ req' = [req EXCEPT ![r].pc = "waiting"]
  <2>1. files[f] # None /\ ~files[f].complete /\ files[f] \in LiveEntry
    BY <1>1, <1>10, EntryTypes DEF Joins, ManagerTypes
  <2> DEFINE e == [files[f] EXCEPT !.listeners = Append(@, r)]
  <2>2. e \in LiveEntry /\ e.xfer = files[f].xfer /\ e.complete = files[f].complete
    BY <2>1, ListenerLists DEF LiveEntry
  <2>3. e # None
    BY <2>2, EntryTypes DEF Entries
  <2>4. f \in Files /\ files' = [files EXCEPT ![f] = e] /\ xfer' = xfer
    BY <1>10
  <2> HIDE DEF e, f
  <2>5. ManagerTypes' /\ TransferTypes'
    BY <1>1, <1>2, <1>10, <2>2, <2>4 DEF ManagerTypes, TransferTypes, Entries
  <2>6. TransferInv'
    <3>1. \A x \in Requesters :
            req'[x].pc \in {"idle", "offering"} => x # r /\ req[x].pc \in {"idle", "offering"}
      BY <1>9, <1>10
    <3> QED BY <1>1, <2>1, <2>2, <2>3, <2>4, <3>1 DEF TransferInv, Matches, ManagerTypes
  <2> QED BY <1>3, <1>9, <1>10, <2>5, <2>6 DEF WorkInv, WorkTypes
<1>11. CASE /\ ~shutting /\ f \in Files /\ ~Joins(f) /\ files' = [files EXCEPT ![f] = NewEntry(r)]
            /\ xfer' = [xfer EXCEPT ![r] = NewTransfer(f)]
            /\ req' = [req EXCEPT ![r].pc = "waiting"]
  <2>1. NewEntry(r) \in LiveEntry /\ NewEntry(r).xfer = r /\ ~NewEntry(r).complete
    BY ListenerLists DEF LiveEntry, NewEntry
  <2>2. NewEntry(r) # None
    BY <2>1, EntryTypes DEF Entries
  <2>3. /\ NewTransfer(f) \in TransferType /\ NewTransfer(f).pc = "start"
        /\ NewTransfer(f).file = f /\ ~NewTransfer(f).err
    BY <1>11, NewTransferType
  <2>4. \A x \in Requesters : xfer[x].pc \notin {"unused", "ended"} => xfer[x].file # f
    BY <1>1, <1>11 DEF Joins, TransferInv, Matches
  <2> HIDE DEF f
  <2>5. ManagerTypes' /\ TransferTypes'
    BY <1>1, <1>2, <1>11, <2>1, <2>3 DEF ManagerTypes, TransferTypes, Entries
  <2>6. TransferInv'
    BY <1>1, <1>2, <1>9, <1>11, <2>1, <2>2, <2>3, <2>4
       DEF TransferInv, Matches, ManagerTypes, TransferTypes
  <2> QED BY <1>3, <1>9, <1>11, <2>5, <2>6 DEF WorkInv, WorkTypes
<1> QED BY <1>6, <1>7, <1>8, <1>10, <1>11 DEF MgrReceive

-----------------------------------------------------------------------------
\* Updates are passed on.

\* Transfer x goes on in xs as in ys, but may have been cancelled.
GoesOn(xs, ys, x) ==
  xs[x] \in TransferType /\ xs[x].pc = ys[x].pc /\ xs[x].file = ys[x].file /\ xs[x].err = ys[x].err

LEMMA MatchesCancelled ==
  ASSUME NEW fs, NEW xs, NEW ys, Matches(fs, ys), \A x \in Requesters : GoesOn(xs, ys, x)
  PROVE  Matches(fs, xs)
BY DEF Matches, GoesOn

\* A transfer that is cancelled goes on.
LEMMA StopGoesOn ==
  ASSUME NEW t \in TransferType
  PROVE  LET s == [t EXCEPT !.stop = TRUE] IN
         s \in TransferType /\ s.pc = t.pc /\ s.file = t.file /\ s.err = t.err
BY DEF TransferType

LEMMA UpdateDoneEffect ==
  ASSUME NEW u, NEW fs \in [Files -> Entries \cup {None}], NEW xs \in [Requesters -> TransferType],
         u.file \in Files, fs[u.file] \in LiveEntry, u.kept \in Seq(Requesters),
         UpdateDone(u, fs, xs)
  PROVE  /\ files' \in [Files -> Entries \cup {None}]
         /\ \A f \in Files : f # u.file => files'[f] = fs[f]
         /\ u.err => files'[u.file] = None
         /\ ~u.err => /\ files'[u.file] \in LiveEntry /\ files'[u.file] # None
                      /\ files'[u.file].listeners = u.kept
                      /\ files'[u.file].xfer = fs[u.file].xfer
                      /\ files'[u.file].complete = fs[u.file].complete
         /\ xfer' \in [Requesters -> TransferType]
         /\ \A x \in Requesters : GoesOn(xfer', xs, x)
         /\ tell' = NoUpdate /\ mgr' = IF Leaves(files') THEN "waiting" ELSE "select"
<1> DEFINE e == [fs[u.file] EXCEPT !.listeners = u.kept]
           ft == IF u.err THEN [fs EXCEPT ![u.file] = None]
                 ELSE [fs EXCEPT ![u.file].listeners = u.kept]
<1>1. e \in LiveEntry /\ e.listeners = u.kept /\ e.xfer = fs[u.file].xfer
      /\ e.complete = fs[u.file].complete
  BY DEF LiveEntry
<1>2. e # None /\ e \in Entries
  BY <1>1, EntryTypes DEF Entries
<1>3. files' = IF u.err THEN [fs EXCEPT ![u.file] = None] ELSE [fs EXCEPT ![u.file] = e]
  BY DEF UpdateDone
<1>4. /\ files' = ft /\ tell' = NoUpdate
      /\ mgr' = IF Leaves(ft) THEN "waiting" ELSE "select"
      /\ \E cancels : xfer' = [x \in Requesters |->
           IF x \in cancels THEN [xs[x] EXCEPT !.stop = TRUE] ELSE xs[x]]
  BY DEF UpdateDone
<1>5. \A x \in Requesters : GoesOn(xfer', xs, x)
  <2>1. \A x \in Requesters : xfer'[x] \in {xs[x], [xs[x] EXCEPT !.stop = TRUE]}
    BY <1>4
  <2>2. \A x \in Requesters : xs[x] \in TransferType
    OBVIOUS
  <2> QED BY <2>1, <2>2, StopGoesOn DEF GoesOn
<1>6. xfer' \in [Requesters -> TransferType]
  BY <1>4, <1>5 DEF GoesOn
<1>7. mgr' = IF Leaves(files') THEN "waiting" ELSE "select"
  BY <1>4
<1> HIDE DEF e, ft
<1> QED BY <1>1, <1>2, <1>3, <1>4, <1>5, <1>6, <1>7

\* The invariant after an update that everybody has been told of.
LEMMA UpdateDoneStep ==
  ASSUME WorkInv, NEW u, NEW fs \in [Files -> Entries \cup {None}],
         NEW xs \in [Requesters -> TransferType], Matches(fs, xs),
         u.file \in Files, fs[u.file] \in LiveEntry, u.kept \in Seq(Requesters),
         u.err => fs[u.file].complete, UpdateDone(u, fs, xs), RequestTypes', WorldTypes',
         shutting' = shutting, disk' = disk,
         \A x \in Requesters : req'[x].pc \in {"idle", "offering"} => xs[x].pc = "unused"
  PROVE  WorkInv'
<1>1. /\ files' \in [Files -> Entries \cup {None}]
      /\ \A f \in Files : f # u.file => files'[f] = fs[f]
      /\ ~u.err => /\ files'[u.file] # None
                   /\ files'[u.file].xfer = fs[u.file].xfer
                   /\ files'[u.file].complete = fs[u.file].complete
      /\ xfer' \in [Requesters -> TransferType] /\ \A x \in Requesters : GoesOn(xfer', xs, x)
      /\ tell' = NoUpdate /\ mgr' \in {"waiting", "select"}
  BY UpdateDoneEffect
<1>2. ManagerTypes' /\ TransferTypes' /\ TellInv'
  BY <1>1, NoUpdateType DEF WorkInv, WorkTypes, ManagerTypes, TransferTypes, TellInv
<1>3. Matches(files', xs)
  BY <1>1 DEF Matches
<1>4. Matches(files, xfer)'
  BY <1>1, <1>3, MatchesCancelled
<1>5. TransferInv'
  BY <1>1, <1>4 DEF TransferInv, GoesOn
<1> QED BY <1>2, <1>5 DEF WorkInv, WorkTypes

\* The update of transfer x: the entry of its file, the transfer and the update.
UpdateOf(x, u, fs, xs) ==
  /\ u.file = xfer[x].file /\ u.file \in Files /\ u.left = files[u.file].listeners /\ u.kept = <<>>
  /\ files[u.file] # None /\ ~files[u.file].complete /\ u.complete = (xfer[x].pc = "finishing")
  /\ u.err = xfer[x].err /\ (u.err => u.complete)
  /\ u.gone => u.left # <<>> /\ Head(u.left) \in cancelled
  /\ fs[u.file] \in LiveEntry /\ fs[u.file].xfer = x
  /\ fs[u.file].listeners = files[u.file].listeners /\ fs[u.file].complete = u.complete
  /\ \A f \in Files : f # u.file => fs[f] = files[f]
  /\ \A y \in Requesters : xs[y] = IF y # x THEN xfer[y]
       ELSE [xfer[x] EXCEPT !.pc = IF u.complete THEN "ended" ELSE "fetching"]
  /\ IF u.left = <<>> THEN UpdateDone(u, fs, xs)
     ELSE mgr' = "telling" /\ tell' = u /\ files' = fs /\ xfer' = xs

LEMMA MgrUpdateEffect ==
  ASSUME WorkInv, NEW x \in Requesters, MgrUpdate(x)
  PROVE  \E u \in TellType, fs \in [Files -> Entries \cup {None}],
            xs \in [Requesters -> TransferType] : UpdateOf(x, u, fs, xs)
<1> DEFINE f  == xfer[x].file
           c  == xfer[x].pc = "finishing"
           xs == [xfer EXCEPT ![x].pc = IF c THEN "ended" ELSE "fetching"]
           fs == [files EXCEPT ![f].complete = c]
           u  == [file |-> f, left |-> files[f].listeners, kept |-> <<>>,
                  gone |-> files[f].listeners # <<>> /\ Head(files[f].listeners) \in cancelled,
                  complete |-> c, err |-> xfer[x].err]
           e  == [files[f] EXCEPT !.complete = c]
<1>1. /\ f \in Files /\ files[f] # None /\ files[f].xfer = x /\ ~files[f].complete
      /\ xfer[x].err => c
      /\ xfer[x].pc \in {"reporting", "finishing"} /\ xfer[x] \in TransferType
  BY DEF WorkInv, WorkTypes, TransferTypes, TransferInv, Matches, MgrUpdate
<1>2. files[f] \in LiveEntry
  BY <1>1, EntryTypes DEF WorkInv, WorkTypes, ManagerTypes
<1>3. e \in LiveEntry /\ e.xfer = x /\ e.listeners = files[f].listeners /\ e.complete = c
  BY <1>1, <1>2 DEF LiveEntry
<1>4. fs = [files EXCEPT ![f] = e] /\ fs \in [Files -> Entries \cup {None}]
  BY <1>1, <1>3 DEF Entries, WorkInv, WorkTypes, ManagerTypes
<1>5. /\ fs[f] = e /\ \A g \in Files : g # f => fs[g] = files[g]
  BY <1>1, <1>4 DEF WorkInv, WorkTypes, ManagerTypes
<1>6. /\ xs \in [Requesters -> TransferType]
      /\ \A y \in Requesters : xs[y] = IF y # x THEN xfer[y]
           ELSE [xfer[x] EXCEPT !.pc = IF c THEN "ended" ELSE "fetching"]
  BY <1>1 DEF WorkInv, WorkTypes, TransferTypes, TransferType
<1>7. files[f].listeners \in Seq(Requesters)
  BY <1>2 DEF LiveEntry
<1>8. u \in TellType
  BY <1>1, <1>7, ListenerLists DEF TellType, TransferType
<1>9. IF u.left = <<>> THEN UpdateDone(u, fs, xs)
      ELSE mgr' = "telling" /\ tell' = u /\ files' = fs /\ xfer' = xs
  BY <1>1 DEF MgrUpdate
<1> HIDE DEF fs, xs, e
<1>10. /\ u.file = f /\ u.left = files[f].listeners /\ u.kept = <<>> /\ u.complete = c
       /\ u.err = xfer[x].err /\ (u.gone => u.left # <<>> /\ Head(u.left) \in cancelled)
  OBVIOUS
<1> HIDE DEF u
<1>11. UpdateOf(x, u, fs, xs)
  BY <1>1, <1>3, <1>5, <1>6, <1>9, <1>10 DEF UpdateOf
<1> QED BY <1>4, <1>6, <1>8, <1>11, Zenon

LEMMA MgrUpdateStep ==
  ASSUME WorkInv, NEW x \in Requesters, MgrUpdate(x)
  PROVE  WorkInv'
<1>1. PICK u \in TellType, fs \in [Files -> Entries \cup {None}],
           xs \in [Requesters -> TransferType] : UpdateOf(x, u, fs, xs)
  BY MgrUpdateEffect
<1>2. /\ WorkTypes /\ TransferInv /\ UNCHANGED <<shutting, req, cancelled, disk, world>>
      /\ u.kept \in Seq(Requesters) /\ RequestTypes' /\ WorldTypes' /\ xfer[x].pc \in {"reporting", "finishing"}
  BY DEF WorkInv, MgrUpdate, WorkTypes, RequestTypes, WorldTypes, world, TellType
<1>3. Matches(fs, xs)
  <2>1. ASSUME NEW y \in Requesters, y # x
        PROVE  /\ xs[y].pc \notin {"unused", "ended"} =>
                    /\ xs[y].file \in Files /\ fs[xs[y].file] # None
                    /\ fs[xs[y].file].xfer = y /\ ~fs[xs[y].file].complete
               /\ xs[y].err => xs[y].pc \in {"finishing", "ended"}
               /\ xs[y].pc \in {"unpack", "unpacking"} => xs[y].file \in Xz
    BY <1>1, <1>2, <2>1 DEF UpdateOf, TransferInv, Matches
  <2>2. /\ xs[x].file = u.file /\ xs[x].err = u.err
        /\ xs[x].pc = IF u.complete THEN "ended" ELSE "fetching"
    BY <1>1, <1>2 DEF UpdateOf, WorkTypes, TransferTypes, TransferType
  <2>3. fs[u.file] # None
    BY <1>1, EntryTypes DEF UpdateOf, Entries
  <2> QED BY <1>1, <2>1, <2>2, <2>3 DEF UpdateOf, Matches
<1>4. \A y \in Requesters : req'[y].pc \in {"idle", "offering"} => xs[y].pc = "unused"
  BY <1>1, <1>2 DEF UpdateOf, TransferInv
<1>5. CASE u.left = <<>>
  BY <1>1, <1>2, <1>3, <1>4, <1>5, UpdateDoneStep DEF UpdateOf
<1>6. CASE u.left # <<>>
  <2>1. mgr' = "telling" /\ tell' = u /\ files' = fs /\ xfer' = xs
    BY <1>1, <1>6 DEF UpdateOf
  <2>2. ManagerTypes' /\ TransferTypes'
    BY <1>2, <2>1 DEF WorkTypes, ManagerTypes, TransferTypes
  <2>3. fs[u.file] # None
    BY <1>1, EntryTypes DEF UpdateOf, Entries
  <2>4. fs[u.file].xfer \in Requesters
    BY <1>1 DEF UpdateOf
  <2>5. TellInv'
    BY <1>1, <1>2, <1>6, <2>1, <2>3, <2>4 DEF UpdateOf, TellInv
  <2>6. TransferInv'
    BY <1>3, <1>4, <2>1 DEF TransferInv
  <2> QED BY <1>2, <2>2, <2>5, <2>6 DEF WorkInv, WorkTypes
<1> QED BY <1>5, <1>6

\* One more listener has been told: it is kept unless this was its last message.
TellOf(u, v) ==
  /\ mgr = "telling" /\ req[Head(tell.left)].pc = "waiting"
  /\ u.file = tell.file /\ u.complete = tell.complete /\ u.err = tell.err
  /\ u.left = Tail(tell.left) /\ u.kept = Kept(tell)
  /\ u.gone => u.left # <<>> /\ Head(u.left) \in cancelled
  /\ v = "ok" /\ ~tell.gone => ~tell.err
  /\ tell.gone /\ ~tell.complete => v = "err"
  /\ ~tell.gone /\ ~tell.err => v = "ok"
  /\ req' = [req EXCEPT ![Head(tell.left)] = Told(@, v, tell.gone \/ tell.complete)]
  /\ IF u.left = <<>> THEN UpdateDone(u, files, xfer)
     ELSE tell' = u /\ UNCHANGED <<mgr, files, xfer>>

LEMMA MgrTellEffect ==
  ASSUME WorkInv, MgrTell
  PROVE  /\ Head(tell.left) \in Requesters /\ tell \in TellType
         /\ \E u \in TellType, v \in {"ok", "err"} : TellOf(u, v)
<1> DEFINE l == Head(tell.left)
           v == IF tell.gone THEN (IF tell.complete THEN "ok" ELSE "err")
                ELSE (IF tell.err THEN "err" ELSE "ok")
           rest == Tail(tell.left)
           u == [tell EXCEPT !.left = rest, !.kept = Kept(tell),
                             !.gone = rest # <<>> /\ Head(rest) \in cancelled]
<1>1. mgr = "telling" /\ tell \in TellType /\ tell.left # <<>> /\ tell.left \in Seq(Requesters)
  BY DEF MgrTell, WorkInv, WorkTypes, ManagerTypes, TellInv, TellType
<1>2. l \in Requesters /\ rest \in Seq(Requesters)
  BY <1>1, ListenerLists
<1>3. Kept(tell) \in Seq(Requesters)
  BY <1>1, <1>2, ListenerLists DEF Kept, TellType
<1>4. u \in TellType
  BY <1>1, <1>2, <1>3 DEF TellType
<1>5. /\ u.file = tell.file /\ u.complete = tell.complete /\ u.err = tell.err
      /\ u.left = rest /\ u.kept = Kept(tell) /\ u.gone = (rest # <<>> /\ Head(rest) \in cancelled)
  BY <1>1 DEF TellType
<1>6. /\ req[l].pc = "waiting"
      /\ req' = [req EXCEPT ![l] = Told(@, v, tell.gone \/ tell.complete)]
      /\ IF u.left = <<>> THEN UpdateDone(u, files, xfer)
         ELSE tell' = u /\ UNCHANGED <<mgr, files, xfer>>
  BY <1>1, <1>5 DEF MgrTell
<1> HIDE DEF u
<1>7. TellOf(u, v)
  BY <1>1, <1>5, <1>6 DEF TellOf
<1>8. v \in {"ok", "err"}
  OBVIOUS
<1> HIDE DEF v
<1> QED BY <1>1, <1>2, <1>4, <1>7, <1>8

LEMMA MgrTellStep ==
  ASSUME WorkInv, MgrTell
  PROVE  WorkInv'
<1> DEFINE l == Head(tell.left)
<1>1. PICK u \in TellType, v \in {"ok", "err"} : TellOf(u, v)
  BY MgrTellEffect
<1>2. /\ l \in Requesters /\ WorkTypes /\ TransferInv /\ TellInv /\ tell \in TellType
      /\ UNCHANGED <<shutting, cancelled, disk, world>> /\ WorldTypes'
  BY MgrTellEffect DEF WorkInv, MgrTell, WorkTypes, WorldTypes, world
<1> HIDE DEF l
<1>3. /\ req[l] \in RequesterType /\ (tell.gone \/ tell.complete) \in BOOLEAN
      /\ req' = [req EXCEPT ![l] = Told(@, v, tell.gone \/ tell.complete)]
  BY <1>1, <1>2 DEF WorkTypes, RequestTypes, TellOf, l
<1>4. RequestTypes' /\ req'[l].pc \in {"ended", "callback"} /\ \A y \in Requesters : y # l => req'[y] = req[y]
  <2>1. PICK last \in BOOLEAN : req' = [req EXCEPT ![l] = Told(@, v, last)]
    BY <1>3
  <2> DEFINE k == Told(req[l], v, last)
  <2>2. k \in RequesterType /\ k.pc \in {"ended", "callback"}
    <3>1. req[l] \in RequesterType /\ v \in {"ok", "err"} /\ last \in BOOLEAN
      BY <1>1, <1>3, <2>1
    <3> QED BY <3>1 DEF Told, RequesterType
  <2>3. req' = [req EXCEPT ![l] = k]
    BY <2>1
  <2> HIDE DEF k
  <2> QED BY <1>2, <2>2, <2>3 DEF WorkTypes, RequestTypes
<1>5. \A y \in Requesters : req'[y].pc \in {"idle", "offering"} => xfer[y].pc = "unused"
  BY <1>2, <1>4 DEF TransferInv
<1>6. /\ mgr = "telling" /\ u.file = tell.file /\ u.complete = tell.complete /\ u.err = tell.err
      /\ u.kept = Kept(tell) /\ tell.file \in Files /\ files[tell.file] # None
      /\ files[tell.file].xfer \in Requesters /\ (tell.err => tell.complete)
      /\ (tell.complete <=> files[tell.file].complete) /\ (tell.complete => tell.kept = <<>>)
  BY <1>1, <1>2 DEF TellOf, TellInv
<1>7. files[tell.file] \in LiveEntry
  BY <1>2, <1>6, EntryTypes DEF WorkTypes, ManagerTypes
<1>8. CASE u.left = <<>>
  <2>1. /\ UpdateDone(u, files, xfer) /\ u.kept \in Seq(Requesters) /\ (u.err => files[u.file].complete)
        /\ u.file \in Files /\ files[u.file] \in LiveEntry
    BY <1>1, <1>6, <1>7, <1>8 DEF TellOf, TellType
  <2>2. /\ Matches(files, xfer) /\ files \in [Files -> Entries \cup {None}]
        /\ xfer \in [Requesters -> TransferType]
    BY <1>2 DEF TransferInv, WorkTypes, ManagerTypes, TransferTypes
  <2> QED BY <1>2, <1>4, <1>5, <2>1, <2>2, UpdateDoneStep
<1>9. CASE u.left # <<>>
  <2>1. tell' = u /\ UNCHANGED <<mgr, files, xfer>> /\ (u.gone => Head(u.left) \in cancelled)
    BY <1>1, <1>9 DEF TellOf
  <2>2. ManagerTypes' /\ TransferTypes' /\ TransferInv'
    BY <1>2, <1>5, <2>1 DEF WorkTypes, ManagerTypes, TransferTypes, TransferInv
  <2>3. tell.complete => u.kept = <<>>
    BY <1>6 DEF Kept
  <2>4. TellInv'
    BY <1>2, <1>6, <1>9, <2>1, <2>3 DEF TellInv
  <2> QED BY <1>2, <1>4, <2>2, <2>4 DEF WorkInv, WorkTypes
<1> QED BY <1>8, <1>9

LEMMA MgrEndSteps ==
  ASSUME WorkInv, MgrDone \/ MgrStop
  PROVE  WorkInv'
<1>1. /\ mgr' \in {mgr, "waiting", "exited"} /\ shutting' \in BOOLEAN
      /\ UNCHANGED <<files, tell, req, cancelled, disk, world>>
  BY DEF MgrDone, MgrStop, WorkInv, WorkTypes, ManagerTypes
<1>2. xfer' \in [Requesters -> TransferType] /\ \A x \in Requesters : GoesOn(xfer', xfer, x)
  <2>1. xfer \in [Requesters -> TransferType]
    BY DEF WorkInv, WorkTypes, TransferTypes
  <2>2. CASE xfer' = xfer
    BY <2>1, <2>2 DEF GoesOn
  <2>3. CASE xfer' = Stopped({files[f].xfer : f \in Listened(files)})
    <3>1. \A x \in Requesters : xfer'[x] \in {xfer[x], [xfer[x] EXCEPT !.stop = TRUE]}
      BY <2>3 DEF Stopped
    <3>2. \A x \in Requesters : GoesOn(xfer', xfer, x)
      BY <2>1, <3>1, StopGoesOn DEF GoesOn
    <3>3. \E S : xfer' = [x \in Requesters |-> IF x \in S THEN [xfer[x] EXCEPT !.stop = TRUE] ELSE xfer[x]]
      BY <2>3 DEF Stopped
    <3> QED BY <3>2, <3>3 DEF GoesOn
  <2> QED BY <2>2, <2>3 DEF MgrDone, MgrStop
<1>3. WorkTypes'
  BY <1>1, <1>2 DEF WorkInv, WorkTypes, ManagerTypes, TransferTypes, RequestTypes, WorldTypes, world
<1>4. TransferInv' /\ TellInv'
  BY <1>1, <1>2, MatchesCancelled DEF WorkInv, TransferInv, TellInv, GoesOn
<1> QED BY <1>3, <1>4 DEF WorkInv

-----------------------------------------------------------------------------
\* Transfers.

\* A step of transfer x concerns x and its file; what it leaves is a transfer
\* that has not reported its end.
XferSteps(x) == XferCreate(x) \/ XferAnswered(x) \/ XferRead(x) \/ XferUnpack(x) \/ XferUnpacked(x)

XferTo(x, t, d) ==
  /\ t \in TransferType /\ t.pc \notin {"unused", "ended"} /\ t.file = xfer[x].file
  /\ d \in DiskType /\ (d.img \in {disk[t.file].img, "none", "whole"} \/ t.file \in Xz)
  /\ t.err => t.pc = "finishing"
  /\ t.pc \in {"unpack", "unpacking"} => t.file \in Xz
  /\ t.pc = "finishing" /\ ~t.err => d.img = "whole"
  /\ xfer' = [xfer EXCEPT ![x] = t] /\ disk' = [disk EXCEPT ![t.file] = d]

LEMMA XferEffect ==
  ASSUME WorkInv, NEW x \in Requesters, XferSteps(x)
  PROVE  /\ xfer[x].pc \in {"start", "asking", "fetching", "unpack", "unpacking"}
         /\ xfer[x].file \in Files
         /\ UNCHANGED <<manager, req, cancelled, world>>
         /\ \E t, d : XferTo(x, t, d)
<1> DEFINE f == xfer[x].file
<1>1. xfer[x].pc \in {"start", "asking", "fetching", "unpack", "unpacking"}
  BY DEF XferSteps, XferCreate, XferAnswered, XferRead, XferUnpack, XferUnpacked
<1>2. UNCHANGED <<manager, req, cancelled, world>>
  BY DEF XferSteps, XferCreate, XferAnswered, XferRead, XferUnpack, XferUnpacked
<1>3. /\ f \in Files /\ xfer[x] \in TransferType /\ disk[f] \in DiskType /\ ~xfer[x].err
      /\ disk = [disk EXCEPT ![f] = disk[f]]
      /\ MaxUpdates \in Nat \ {0} /\ 1 \in 0 .. MaxUpdates
  BY <1>1, Assumed DEF WorkInv, WorkTypes, TransferTypes, TransferInv, Matches
<1>4. ASSUME Fails(x)
      PROVE  \E t, d : XferTo(x, t, d)
  <2> DEFINE t == [xfer[x] EXCEPT !.pc = "finishing", !.err = TRUE]
             d == [disk[f] EXCEPT !.part = FALSE]
  <2>1. t \in TransferType /\ t.pc = "finishing" /\ t.err /\ t.file = f /\ d \in DiskType /\ d.img = disk[f].img
    BY <1>3 DEF TransferType, DiskType
  <2>2. xfer' = [xfer EXCEPT ![x] = t] /\ disk' = [disk EXCEPT ![f] = d]
    BY <1>4 DEF Fails, Ends
  <2> HIDE DEF t, d
  <2>3. XferTo(x, t, d)
    BY <2>1, <2>2 DEF XferTo
  <2> QED BY <2>3
<1>5. ASSUME NEW t, NEW pc \in {"asking", "reporting", "unpack", "unpacking"}, NEW up \in 0 .. MaxUpdates,
             t \in {[xfer[x] EXCEPT !.pc = pc], [xfer[x] EXCEPT !.pc = pc, !.updates = up]},
             NEW d \in DiskType, d.img \in {disk[f].img, "none", "whole"} \/ f \in Xz,
             xfer' = [xfer EXCEPT ![x] = t], disk' = [disk EXCEPT ![f] = d],
             pc \in {"unpack", "unpacking"} => f \in Xz
      PROVE  \E k, e : XferTo(x, k, e)
  <2>1. t \in TransferType /\ t.pc = pc /\ ~t.err /\ t.file = f
    BY <1>3, <1>5 DEF TransferType
  <2>2. XferTo(x, t, d)
    BY <1>5, <2>1 DEF XferTo
  <2> QED BY <2>2
<1>6. ASSUME NEW err \in BOOLEAN, NEW d \in DiskType, d.img = IF err THEN "none" ELSE "whole",
             Ends(x, err), disk' = [disk EXCEPT ![f] = d]
      PROVE  \E t, e : XferTo(x, t, e)
  <2> DEFINE t == [xfer[x] EXCEPT !.pc = "finishing", !.err = err]
  <2>1. t \in TransferType /\ t.pc = "finishing" /\ t.err = err /\ t.file = f
    BY <1>3 DEF TransferType
  <2> HIDE DEF t
  <2>2. XferTo(x, t, d)
    BY <1>6, <2>1 DEF t, Ends, XferTo
  <2> QED BY <2>2
<1> SUFFICES \E t, d : XferTo(x, t, d)
  BY <1>1, <1>2, <1>3
<1>7. CASE XferCreate(x)
  <2>1. CASE /\ xfer' = [xfer EXCEPT ![x] = [xfer[x] EXCEPT !.pc = "asking"]]
             /\ disk' = [disk EXCEPT ![f] = [disk[f] EXCEPT !.part = TRUE]]
    <3>1. [disk[f] EXCEPT !.part = TRUE] \in DiskType /\ [disk[f] EXCEPT !.part = TRUE].img = disk[f].img
      BY <1>3 DEF DiskType
    <3> QED BY <1>3, <1>5, <2>1, <3>1
  <2> QED BY <1>4, <1>7, <2>1 DEF XferCreate
<1>8. CASE XferAnswered(x)
  <2>1. CASE /\ xfer' = [xfer EXCEPT ![x] = [xfer[x] EXCEPT !.pc = "reporting", !.updates = 1]]
             /\ UNCHANGED disk
    BY <1>3, <1>5, <2>1
  <2> QED BY <1>4, <1>8, <2>1 DEF XferAnswered
<1>9. CASE XferRead(x)
  <2>1. CASE xfer[x].updates < MaxUpdates /\ UNCHANGED disk
             /\ xfer' = [xfer EXCEPT ![x] = [xfer[x] EXCEPT !.pc = "reporting", !.updates = @ + 1]]
    <3>1. xfer[x].updates + 1 \in 0 .. MaxUpdates
      BY <1>3, <2>1 DEF TransferType
    <3> QED BY <1>3, <1>5, <2>1, <3>1
  <2>2. CASE /\ f \in Xz /\ UNCHANGED disk
             /\ xfer' = [xfer EXCEPT ![x] = [xfer[x] EXCEPT !.pc = "unpack"]]
    BY <1>3, <1>5, <2>2
  <2>3. CASE Ends(x, FALSE) /\ disk' = [disk EXCEPT ![f] = [img |-> "whole", part |-> FALSE]]
    BY <1>6, <2>3 DEF DiskType
  <2> QED BY <1>4, <1>9, <2>1, <2>2, <2>3 DEF XferRead
<1>10. CASE XferUnpack(x)
  <2>1. CASE /\ f \in Xz /\ xfer' = [xfer EXCEPT ![x] = [xfer[x] EXCEPT !.pc = "unpacking"]]
             /\ disk' = [disk EXCEPT ![f] = [disk[f] EXCEPT !.img = "partial"]]
    <3>1. [disk[f] EXCEPT !.img = "partial"] \in DiskType
      BY <1>3 DEF DiskType
    <3> QED BY <1>3, <1>5, <2>1, <3>1
  <2>2. f \in Xz
    BY <1>10 DEF XferUnpack, WorkInv, TransferInv, Matches
  <2> QED BY <1>4, <1>10, <2>1, <2>2 DEF XferUnpack
<1>11. CASE XferUnpacked(x)
  <2>1. CASE /\ Ends(x, FALSE)
             /\ disk' = [disk EXCEPT ![f] = [img |-> "whole", part |-> FALSE]]
    BY <1>6, <2>1 DEF DiskType
  <2>2. CASE Ends(x, TRUE) /\ disk' = [disk EXCEPT ![f] = [img |-> "none", part |-> FALSE]]
    BY <1>6, <2>2 DEF DiskType
  <2> QED BY <1>4, <1>11, <2>1, <2>2 DEF XferUnpacked
<1> QED BY <1>7, <1>8, <1>9, <1>10, <1>11 DEF XferSteps

LEMMA XferStep ==
  ASSUME WorkInv, NEW x \in Requesters, XferSteps(x)
  PROVE  WorkInv'
<1>1. /\ xfer[x].pc \in {"start", "asking", "fetching", "unpack", "unpacking"}
      /\ xfer[x].file \in Files /\ UNCHANGED <<manager, req, cancelled, world>>
  BY XferEffect
<1>2. PICK t, d : XferTo(x, t, d)
  BY XferEffect
<1>3. WorkTypes'
  BY <1>1, <1>2 DEF WorkInv, WorkTypes, ManagerTypes, WorldTypes, RequestTypes, TransferTypes,
     XferTo, manager, world
<1>4. /\ xfer \in [Requesters -> TransferType] /\ files' = files
      /\ xfer' = [xfer EXCEPT ![x] = t] /\ t.file = xfer[x].file
      /\ t.pc \notin {"unused", "ended"} /\ (t.err => t.pc = "finishing")
      /\ t.pc \in {"unpack", "unpacking"} => t.file \in Xz
  BY <1>1, <1>2 DEF XferTo, WorkInv, WorkTypes, TransferTypes, manager
<1>5. TransferInv'
  BY <1>1, <1>4 DEF WorkInv, TransferInv, Matches
<1>6. TellInv'
  BY <1>1 DEF WorkInv, TellInv, manager
<1> QED BY <1>3, <1>5, <1>6 DEF WorkInv

-----------------------------------------------------------------------------
\* The process and its surroundings.

\* A table that is read from the cache directory.
LEMMA FoundTable ==
  ASSUME NEW d
  PROVE  /\ FoundIn(d) \in [Files -> Entries \cup {None}]
         /\ \A f \in Files : FoundIn(d)[f] # None =>
              FoundIn(d)[f] = FoundEntry /\ d[f].img # "none"
BY DEF FoundIn, Entries

LEMMA InitWork == Init => WorkInv
<1> SUFFICES ASSUME Init PROVE WorkInv
  OBVIOUS
<1>1. ManagerTypes
  BY FoundTable, NoUpdateType DEF Init, ManagerTypes
<1>2. WorldTypes
  <2>1. 0 \in 0 .. MaxRestarts
    BY Assumed
  <2> QED BY <2>1 DEF Init, WorldTypes
<1>3. RequestTypes
  BY DEF Init, RequestTypes, RequesterType, IdleRequester
<1>4. TransferTypes
  <2>1. 0 \in 0 .. MaxUpdates
    BY Assumed
  <2>2. UnusedTransfer \in TransferType
    BY <2>1 DEF UnusedTransfer, TransferType
  <2>3. disk \in [Files -> DiskType]
    BY DEF Init, DiskType
  <2> QED BY <2>2, <2>3 DEF Init, TransferTypes
<1>5. TransferInv
  BY DEF Init, TransferInv, Matches, UnusedTransfer
<1>6. TellInv
  BY DEF Init, TellInv
<1> QED BY <1>1, <1>2, <1>3, <1>4, <1>5, <1>6 DEF WorkInv, WorkTypes

LEMMA RestartStep ==
  ASSUME WorkInv, Restart
  PROVE  WorkInv'
<1>1. ManagerTypes' /\ TellInv'
  BY FoundTable, NoUpdateType DEF Restart, ManagerTypes, TellInv
<1>2. WorldTypes'
  <2>1. restarts' \in 0 .. MaxRestarts
    <3>1. restarts \in 0 .. MaxRestarts /\ restarts < MaxRestarts /\ restarts' = restarts + 1
      BY DEF Restart, WorkInv, WorkTypes, WorldTypes
    <3> QED BY <3>1, Assumed
  <2> QED BY <2>1 DEF Restart, WorkInv, WorkTypes, WorldTypes
<1>3. RequestTypes' /\ \A r \in Requesters : req'[r].pc \in {"idle", "offering"} => req[r].pc = "idle"
  <2>1. \A r \in Requesters : req[r] \in RequesterType
    BY DEF WorkInv, WorkTypes, RequestTypes
  <2>2. \A r \in Requesters : \/ req'[r] = req[r] /\ req[r].pc \in {"idle", "ended"}
                              \/ req'[r] = [req[r] EXCEPT !.pc = "ended", !.out = None]
    BY DEF Restart
  <2>3. \A r \in Requesters : /\ req'[r] \in RequesterType
                              /\ req'[r].pc \in {"idle", "offering"} => req[r].pc = "idle"
    BY <2>1, <2>2 DEF RequesterType
  <2>4. req' = [r \in Requesters |-> req'[r]]
    BY DEF Restart
  <2> QED BY <2>3, <2>4 DEF RequestTypes
<1>4. /\ xfer' \in [Requesters -> TransferType]
      /\ \A x \in Requesters : /\ xfer'[x].pc \in {"unused", "ended"}
                               /\ xfer[x].pc = "unused" => xfer'[x].pc = "unused"
                               /\ xfer'[x].err => xfer'[x].pc = "ended"
  <2>1. \A x \in Requesters : xfer[x] \in TransferType /\ (xfer[x].err => xfer[x].pc # "unused")
    BY DEF WorkInv, WorkTypes, TransferTypes, TransferInv, Matches
  <2>2. \A x \in Requesters : xfer'[x] = IF xfer[x].pc = "unused" THEN xfer[x]
                                         ELSE [xfer[x] EXCEPT !.pc = "ended"]
    BY DEF Restart
  <2>3. \A x \in Requesters : /\ xfer'[x] \in TransferType
                              /\ xfer'[x].pc \in {"unused", "ended"}
                              /\ xfer[x].pc = "unused" => xfer'[x].pc = "unused"
                              /\ xfer'[x].err => xfer'[x].pc = "ended"
    BY <2>1, <2>2 DEF TransferType
  <2> QED BY <2>3 DEF Restart
<1>5. disk' \in [Files -> DiskType]
  BY DEF Restart, WorkInv, WorkTypes, TransferTypes, DiskType
<1>6. TransferInv'
  BY <1>3, <1>4 DEF WorkInv, TransferInv, Matches
<1> QED BY <1>1, <1>2, <1>3, <1>4, <1>5, <1>6 DEF WorkInv, WorkTypes, TransferTypes

LEMMA OutsideSteps ==
  ASSUME WorkInv, Done \/ (\E f \in Files : Removed(f)) \/ UNCHANGED vars
  PROVE  WorkInv'
<1>1. UNCHANGED <<manager, req, cancelled, xfer, restarts>> /\ done' \in BOOLEAN
  BY DEF Done, Removed, vars, world, WorkInv, WorkTypes, WorldTypes
<1>2. disk' \in [Files -> DiskType]
  BY DEF Done, Removed, vars, WorkInv, WorkTypes, TransferTypes, DiskType
<1>3. WorkTypes'
  BY <1>1, <1>2 DEF WorkInv, WorkTypes, ManagerTypes, WorldTypes, RequestTypes, TransferTypes, manager
<1> QED BY <1>1, <1>3 DEF WorkInv, TransferInv, Matches, TellInv, manager

LEMMA NextWork == WorkInv /\ [Next]_vars => WorkInv'
<1> SUFFICES ASSUME WorkInv, Next \/ UNCHANGED vars PROVE WorkInv'
  OBVIOUS
<1> QED BY Zenon, RequesterStep, ReceiveStep, MgrUpdateStep, MgrTellStep, MgrEndSteps, XferStep,
           OutsideSteps, RestartStep DEF Next, XferSteps

-----------------------------------------------------------------------------
\* In every reachable state the table, the transfers and the update that is
\* passed on agree.
THEOREM WorkInductive == Spec => []WorkInv
BY InitWork, NextWork, PTL DEF Spec

\* Every variable has its type; an unfinished download can be cancelled.
THEOREM DownloadTypes == Spec => []DownloadTypeOK
<1>1. WorkInv => DownloadTypeOK
  BY DEF WorkInv, WorkTypes, DownloadTypeOK, ManagerTypes, WorldTypes, RequestTypes,
         TransferTypes, TellType, DiskType
<1> QED BY WorkInductive, <1>1, PTL

\* A transfer at work is the one that requests for its file join and that a
\* shutdown cancels.
THEOREM TransfersKnown == Spec => []WorkIsKnown
<1>1. WorkInv => WorkIsKnown
  BY DEF WorkInv, TransferInv, Matches, WorkIsKnown, Working
<1> QED BY WorkInductive, <1>1, PTL

\* However many goroutines ask for a file at once, one transfer writes it.
THEOREM SingleWriter == Spec => []OneWriter
<1>1. WorkInv => OneWriter
  BY DEF WorkInv, TransferInv, Matches, OneWriter, Working
<1> QED BY WorkInductive, <1>1, PTL

-----------------------------------------------------------------------------
\* Who listens to what.

ServiceInv == WorkInv /\ ListenInv

LEMMA InitListen == Init => ListenInv
<1> SUFFICES ASSUME Init PROVE ListenInv
  OBVIOUS
<1>1. \A f \in Files : files[f] # None => files[f].listeners = <<>>
  BY FoundTable DEF Init, FoundEntry
<1>2. mgr = "select" /\ \A r \in Requesters : req[r] = IdleRequester
  BY DEF Init
<1> QED BY <1>1, <1>2, AmongNobody DEF ListenInv, Taken, IdleRequester

\* Steps that pass nothing on: the listeners stay.
LEMMA ListenFrame ==
  ASSUME WorkInv, ListenInv, UNCHANGED <<files, tell>>,
         mgr' = mgr \/ (mgr # "telling" /\ mgr' # "telling"),
         \A r \in Requesters :
           /\ req'[r].want = req[r].want \/ req[r].want = None
           /\ req'[r].pc = "idle" => req'[r].want = None
           /\ ~req'[r].closed \/ req'[r].pc \in {"idle", "offering", "waiting"} => req'[r].out = None
           /\ Taken(r)' => Taken(r)
  PROVE  ListenInv'
<1>1. \A f : HeardOf(f)' <=> HeardOf(f)
  BY DEF HeardOf
<1>2. mgr = "telling" => tell.file \in Files
  BY DEF WorkInv, TellInv
<1>3. ASSUME NEW r \in Requesters
      PROVE  /\ \A f \in Files : files[f] # None /\ Among(r, files[f].listeners) => req'[r].want = f
             /\ mgr = "telling" /\ (Among(r, tell.left) \/ Among(r, tell.kept)) => req'[r].want = tell.file
             /\ Taken(r)' => Listening(r, req'[r].want)
  BY <1>2, Assumed DEF ListenInv, Listening
<1> QED BY <1>1, <1>3 DEF ListenInv, Listening

LEMMA QuietListen ==
  ASSUME ServiceInv,
         \/ \E r \in Requesters, f \in Files \cup {BadURL} : Request(r, f) \/ Cancel(r) \/ Callback(r)
         \/ \E x \in Requesters : XferSteps(x)
         \/ MgrDone \/ MgrStop \/ Done \/ (\E f \in Files : Removed(f)) \/ UNCHANGED vars
  PROVE  ListenInv'
<1>1. req \in [Requesters -> RequesterType]
  BY DEF ServiceInv, WorkInv, WorkTypes, RequestTypes
<1>2. ASSUME NEW r \in Requesters, NEW f \in Files \cup {BadURL}, Request(r, f) \/ Cancel(r) \/ Callback(r)
      PROVE  ListenInv'
  <2>1. UNCHANGED <<files, tell, mgr>>
    BY <1>2 DEF Request, Cancel, Callback, manager
  <2>2. ASSUME NEW q \in Requesters
        PROVE  /\ req'[q].want = req[q].want \/ req[q].want = None
               /\ req'[q].pc = "idle" => req'[q].want = None
               /\ ~req'[q].closed \/ req'[q].pc \in {"idle", "offering", "waiting"} => req'[q].out = None
               /\ Taken(q)' => Taken(q)
    <3>0. req[q] \in RequesterType /\ ListenInv
      BY <1>1 DEF ServiceInv
    <3>1. CASE Request(r, f)
      BY <1>1, <3>0, <3>1 DEF Request, ListenInv, Taken, RequesterType
    <3>2. CASE Cancel(r)
      BY <1>1, <3>0, <3>2 DEF Cancel, ListenInv, Taken
    <3>3. CASE Callback(r)
      BY <1>1, <3>0, <3>3 DEF Callback, ListenInv, Taken, RequesterType
    <3> QED BY <1>2, <3>1, <3>2, <3>3
  <2> QED BY <2>1, <2>2, ListenFrame DEF ServiceInv
<1>3. ASSUME NEW x \in Requesters, XferSteps(x)
      PROVE  UNCHANGED <<files, tell, mgr, req>>
  BY <1>3 DEF XferSteps, XferCreate, XferAnswered, XferRead, XferUnpack, XferUnpacked, manager
<1>4. ASSUME MgrDone \/ MgrStop \/ Done \/ (\E f \in Files : Removed(f)) \/ UNCHANGED vars
      PROVE  /\ UNCHANGED <<files, tell, req>>
             /\ mgr' = mgr \/ (mgr # "telling" /\ mgr' # "telling")
  BY <1>4 DEF MgrDone, MgrStop, Done, Removed, vars, manager
<1>5. ASSUME UNCHANGED <<files, tell, req>>, mgr' = mgr \/ (mgr # "telling" /\ mgr' # "telling")
      PROVE  ListenInv'
  BY <1>5, ListenFrame DEF ServiceInv, ListenInv, Taken
<1> QED BY <1>2, <1>3, <1>4, <1>5

LEMMA RestartListen ==
  ASSUME ServiceInv, Restart
  PROVE  ListenInv'
<1>1. \A f \in Files : files'[f] # None => files'[f].listeners = <<>>
  <2>1. files' = FoundIn(disk')
    BY DEF Restart
  <2>2. \A f \in Files : FoundIn(disk')[f] \in {FoundEntry, None}
    BY DEF FoundIn
  <2> QED BY <2>1, <2>2 DEF FoundEntry
<1>2. \A r \in Requesters : req[r] \in RequesterType
  BY DEF ServiceInv, WorkInv, WorkTypes, RequestTypes
<1>3. mgr' = "select" /\ \A r \in Requesters :
        \/ req'[r] = req[r] /\ req[r].pc \in {"idle", "ended"}
        \/ req'[r].pc = "ended" /\ req'[r].out = None
  BY <1>2 DEF Restart, RequesterType
<1> QED BY <1>1, <1>3, AmongNobody DEF ServiceInv, ListenInv, Taken

LEMMA ReceiveListen ==
  ASSUME ServiceInv, NEW r \in Requesters, MgrReceive(r)
  PROVE  ListenInv'
<1> DEFINE f == req[r].want
<1>1. /\ req \in [Requesters -> RequesterType] /\ req[r] \in RequesterType
      /\ files \in [Files -> Entries \cup {None}] /\ ListenInv
  BY DEF ServiceInv, WorkInv, WorkTypes, RequestTypes, ManagerTypes
<1>2. /\ mgr = "select" /\ mgr' = mgr /\ tell' = tell /\ req[r].pc = "offering" /\ req[r].out = None
  BY <1>1 DEF MgrReceive, ListenInv
<1>3. ASSUME NEW k \in RequesterType, k.pc \in {"callback", "ended"}, k.closed, k.want = f,
             k.out \in {"ok", "err"},
             req' = [req EXCEPT ![r] = k], files' = files
      PROVE  ListenInv'
  <2>1. ASSUME NEW q \in Requesters
        PROVE  /\ req'[q].want = req[q].want
               /\ req'[q].pc = "idle" => req'[q].want = None
               /\ ~req'[q].closed \/ req'[q].pc \in {"idle", "offering", "waiting"} => req'[q].out = None
               /\ Taken(q)' => Taken(q)
    BY <1>1, <1>3, Assumed DEF ListenInv, Taken
  <2> QED BY <1>2, <1>3, <2>1, ListenFrame DEF ServiceInv
<1>4. ASSUME NEW e, files' = [files EXCEPT ![f] = e], f \in Files, e # None, ~e.complete,
             req' = [req EXCEPT ![r].pc = "waiting"],
             \A q \in Requesters : Among(q, e.listeners) <=>
               q = r \/ (files[f] # None /\ Among(q, files[f].listeners))
      PROVE  ListenInv'
  <2>1. /\ \A q \in Requesters : /\ req'[q].want = req[q].want /\ req'[q].out = req[q].out
                                 /\ req'[q].closed = req[q].closed
                                 /\ req'[q].pc = IF q = r THEN "waiting" ELSE req[q].pc
        /\ \A g \in Files : files'[g] = IF g = f THEN e ELSE files[g]
    BY <1>1, <1>4 DEF RequesterType
  <2> HIDE DEF f
  <2>2. ~HeardOf(f)' /\ \A g : ~HeardOf(g)'
    BY <1>2 DEF HeardOf
  <2>3. ASSUME NEW q \in Requesters
        PROVE  /\ req'[q].pc = "idle" => req'[q].want = None
               /\ ~req'[q].closed \/ req'[q].pc \in {"idle", "offering", "waiting"} => req'[q].out = None
    BY <1>1, <1>2, <2>1 DEF ListenInv
  <2>4. ASSUME NEW q \in Requesters, Taken(q)'
        PROVE  Listening(q, req[q].want)'
    <3>1. CASE q = r
      BY <1>4, <2>1, <2>2, <3>1 DEF Listening, f
    <3>2. CASE q # r
      <4>1. Listening(q, req[q].want)
        BY <1>1, <2>1, <2>4, <3>2 DEF ListenInv, Taken
      <4> QED BY <1>4, <2>1, <2>2, <3>2, <4>1 DEF Listening
    <3> QED BY <3>1, <3>2
  <2>5. ASSUME NEW q \in Requesters, NEW g \in Files, files'[g] # None, Among(q, files'[g].listeners)
        PROVE  req'[q].want = g
    BY <1>1, <1>4, <2>1, <2>5 DEF ListenInv, f
  <2>6. ASSUME NEW g \in Files, files'[g] # None, files'[g].complete
        PROVE  files'[g].listeners = <<>>
    BY <1>1, <1>2, <1>4, <2>1, <2>6 DEF ListenInv, HeardOf
  <2>7. mgr' # "telling"
    BY <1>2
  <2> QED BY <2>3, <2>4, <2>5, <2>6, <2>7 DEF ListenInv
<1>5. CASE \/ req' = [req EXCEPT ![r] = Told(@, "err", TRUE)] /\ files' = files
           \/ req' = [req EXCEPT ![r] = Told(@, "ok", TRUE)] /\ files' = files
  <2>1. PICK v \in {"ok", "err"} : req' = [req EXCEPT ![r] = Told(req[r], v, TRUE)]
    BY <1>5
  <2> DEFINE k == Told(req[r], v, TRUE)
  <2>2. k \in RequesterType /\ k.out = v /\ k.closed /\ k.want = req[r].want
    BY <1>1, ToldType
  <2>3. req' = [req EXCEPT ![r] = k]
    BY <2>1
  <2>4. k.pc \in {"ended", "callback"}
    BY <1>1 DEF Told, RequesterType
  <2> HIDE DEF k
  <2> QED BY <1>3, <1>5, <2>2, <2>3, <2>4
<1>6. CASE req' = [req EXCEPT ![r] = [Told(@, "ok", TRUE) EXCEPT !.pc = "ended"]] /\ files' = files
  <2> DEFINE k == [Told(req[r], "ok", TRUE) EXCEPT !.pc = "ended"]
  <2>1. k \in RequesterType /\ k.pc = "ended" /\ k.closed /\ k.out = "ok" /\ k.want = f
    BY <1>1 DEF Told, RequesterType
  <2>2. req' = [req EXCEPT ![r] = k]
    BY <1>6
  <2> HIDE DEF k
  <2> QED BY <1>3, <1>6, <2>1, <2>2
<1>7. CASE /\ f \in Files /\ Joins(f) /\ files' = [files EXCEPT ![f].listeners = Append(@, r)]
           /\ req' = [req EXCEPT ![r].pc = "waiting"]
  <2>1. files[f] # None /\ ~files[f].complete /\ files[f] \in LiveEntry
    BY <1>1, <1>7, EntryTypes DEF Joins
  <2> DEFINE e == [files[f] EXCEPT !.listeners = Append(@, r)]
  <2>2. e \in LiveEntry /\ e.listeners = Append(files[f].listeners, r) /\ ~e.complete
    BY <2>1, ListenerLists DEF LiveEntry
  <2>3. e # None
    BY <2>2, EntryTypes DEF Entries
  <2>4. \A q \in Requesters : Among(q, e.listeners) <=> q = r \/ Among(q, files[f].listeners)
    BY <2>1, <2>2, AmongAppend DEF LiveEntry
  <2>5. files' = [files EXCEPT ![f] = e]
    BY <1>7
  <2> HIDE DEF e
  <2> QED BY <1>4, <1>7, <2>1, <2>2, <2>3, <2>4, <2>5
<1>8. CASE /\ f \in Files /\ ~Joins(f) /\ files' = [files EXCEPT ![f] = NewEntry(r)]
           /\ req' = [req EXCEPT ![r].pc = "waiting"]
  <2>1. NewEntry(r) \in LiveEntry /\ NewEntry(r).listeners = <<r>> /\ ~NewEntry(r).complete
    BY ListenerLists DEF LiveEntry, NewEntry
  <2>2. NewEntry(r) # None
    BY <2>1, EntryTypes DEF Entries
  <2>3. files[f] # None => files[f].listeners = <<>>
    BY <1>1, <1>2, <1>8 DEF Joins, ListenInv, HeardOf
  <2>4. \A q \in Requesters : Among(q, <<r>>) <=> q = r
    BY DEF Among
  <2> QED BY <1>4, <1>8, <2>1, <2>2, <2>3, <2>4, AmongNobody
<1> QED BY <1>5, <1>6, <1>7, <1>8 DEF MgrReceive

\* A complete entry is left without listeners, and a failed one is removed with
\* nobody listening.
LEMMA UpdateListen ==
  ASSUME ServiceInv, NEW x \in Requesters, MgrUpdate(x)
  PROVE  ListenInv'
<1>1. PICK u \in TellType, fs \in [Files -> Entries \cup {None}],
           xs \in [Requesters -> TransferType] : UpdateOf(x, u, fs, xs)
  BY MgrUpdateEffect DEF ServiceInv
<1>2. req' = req /\ mgr = "select" /\ ListenInv
  BY DEF MgrUpdate, ServiceInv
<1>3. /\ u.file \in Files /\ u.left = files[u.file].listeners /\ u.kept = <<>> /\ files[u.file] # None
      /\ fs[u.file] \in LiveEntry /\ fs[u.file].listeners = files[u.file].listeners
      /\ \A f \in Files : f # u.file => fs[f] = files[f]
      /\ ~files[u.file].complete
  BY <1>1 DEF UpdateOf
<1>4. CASE u.left = <<>>
  <2>1. /\ \A f \in Files : f # u.file => files'[f] = files[f]
        /\ files'[u.file] # None => files'[u.file].listeners = <<>>
        /\ mgr' # "telling"
    <3>1. UpdateDone(u, fs, xs)
      BY <1>1, <1>4 DEF UpdateOf
    <3>2. /\ \A f \in Files : f # u.file => files'[f] = fs[f]
          /\ u.err => files'[u.file] = None
          /\ ~u.err => files'[u.file].listeners = u.kept
          /\ mgr' # "telling"
      BY <1>1, <1>3, <3>1, UpdateDoneEffect DEF TellType
    <3> QED BY <1>3, <3>2
  <2>2. ASSUME NEW r \in Requesters
        PROVE  /\ Taken(r)' => Listening(r, req[r].want)'
               /\ \A f \in Files : files'[f] # None /\ Among(r, files'[f].listeners) => req'[r].want = f
    <3>1. Taken(r)' => Listening(r, req[r].want) /\ req[r].want # u.file
      <4>1. Taken(r)' => Listening(r, req[r].want)
        BY <1>2 DEF ListenInv, Taken
      <4>2. ~Among(r, files[u.file].listeners)
        BY <1>3, <1>4, AmongNobody
      <4> QED BY <4>1, <4>2 DEF Listening
    <3>2. ASSUME Taken(r)'
          PROVE  Listening(r, req[r].want)'
      <4>1. req[r].want \in Files /\ files'[req[r].want] = files[req[r].want]
        BY <2>1, <3>1, <3>2 DEF Listening
      <4> QED BY <1>2, <2>1, <3>1, <3>2, <4>1 DEF Listening, HeardOf
    <3>3. \A f \in Files : files'[f] # None /\ Among(r, files'[f].listeners) => req'[r].want = f
      BY <1>2, <2>1, AmongNobody DEF ListenInv
    <3> QED BY <3>2, <3>3
  <2>3. \A f \in Files : files'[f] # None /\ files'[f].complete => files'[f].listeners = <<>>
    BY <1>2, <2>1 DEF ListenInv, HeardOf
  <2> QED BY <1>2, <2>1, <2>2, <2>3 DEF ListenInv
<1>5. CASE u.left # <<>>
  <2>1. mgr' = "telling" /\ tell' = u /\ files' = fs
    BY <1>1, <1>5 DEF UpdateOf
  <2>2. fs[u.file] # None
    BY <1>3, EntryTypes DEF Entries
  <2>3. ASSUME NEW r \in Requesters
        PROVE  /\ Taken(r)' => Listening(r, req[r].want)'
               /\ \A f \in Files : files'[f] # None /\ Among(r, files'[f].listeners) => req'[r].want = f
               /\ Among(r, tell'.left) \/ Among(r, tell'.kept) => req'[r].want = tell'.file
    BY <1>2, <1>3, <2>1, <2>2, AmongNobody DEF ListenInv, Listening, Taken, HeardOf
  <2>4. \A f \in Files : files'[f] # None /\ files'[f].complete => HeardOf(f)' \/ files'[f].listeners = <<>>
    BY <1>2, <1>3, <2>1 DEF ListenInv, HeardOf
  <2> QED BY <1>2, <2>3, <2>4 DEF ListenInv
<1> QED BY <1>4, <1>5

\* A listener that goes on listening is kept; the others have got their last
\* message.
LEMMA TellEffectOnListeners ==
  ASSUME ServiceInv, NEW u \in TellType, NEW v \in {"ok", "err"}, MgrTell, TellOf(u, v)
  PROVE  /\ \A r \in Requesters :
              /\ req'[r].want = req[r].want /\ (req'[r].pc = "idle" => req[r].pc = "idle")
              /\ ~req'[r].closed \/ req'[r].pc \in {"idle", "offering", "waiting"} => req'[r].out = None
              /\ Taken(r)' => /\ Taken(r) /\ (r = Head(tell.left) => ~tell.complete)
                              /\ Among(r, tell.left) => Among(r, u.left) \/ Among(r, u.kept)
              /\ Among(r, tell.kept) => Among(r, u.kept)
              /\ Among(r, u.left) \/ Among(r, u.kept) => Among(r, tell.left) \/ Among(r, tell.kept)
         /\ tell.complete => u.kept = <<>>
<1> DEFINE l == Head(tell.left)
<1>1. /\ tell \in TellType /\ tell.left # <<>> /\ tell.left \in Seq(Requesters)
      /\ tell.kept \in Seq(Requesters) /\ l \in Requesters /\ ListenInv
      /\ (tell.complete => tell.kept = <<>>)
  BY MgrTellEffect DEF ServiceInv, WorkInv, TellInv, MgrTell, TellType
<1>2. \A r \in Requesters : /\ Among(r, tell.left) <=> r = l \/ Among(r, u.left)
                            /\ Among(r, Append(tell.kept, l)) <=> Among(r, tell.kept) \/ r = l
  BY <1>1, AmongHeadTail, AmongAppend DEF TellOf
<1>3. u.kept = IF tell.gone \/ tell.complete THEN tell.kept ELSE Append(tell.kept, l)
  BY DEF TellOf, Kept
<1>4. /\ req \in [Requesters -> RequesterType] /\ req[l].pc = "waiting" /\ req[l].out = None
      /\ req' = [req EXCEPT ![l] = Told(@, v, tell.gone \/ tell.complete)]
  BY <1>1 DEF TellOf, ServiceInv, WorkInv, WorkTypes, RequestTypes, ListenInv
<1>5. /\ \A r \in Requesters : r # l => req'[r] = req[r]
      /\ req'[l].want = req[l].want /\ req'[l].pc \in {"ended", "callback"}
      /\ tell.gone \/ tell.complete => req'[l].out = v
      /\ ~(tell.gone \/ tell.complete) => req'[l].out = None
      /\ ~req'[l].closed => ~(tell.gone \/ tell.complete)
  BY <1>1, <1>4 DEF Told, RequesterType
<1>6. ASSUME NEW r \in Requesters, Taken(r)'
      PROVE  Taken(r) /\ (r = l => ~(tell.gone \/ tell.complete))
  BY <1>1, <1>4, <1>5, <1>6, Assumed DEF Taken
<1>7. \A r \in Requesters :
        /\ req'[r].want = req[r].want /\ (req'[r].pc = "idle" => req[r].pc = "idle")
        /\ ~req'[r].closed \/ req'[r].pc \in {"idle", "offering", "waiting"} => req'[r].out = None
  BY <1>1, <1>5 DEF ListenInv
<1> HIDE DEF l
<1>8. ASSUME NEW r \in Requesters
      PROVE  /\ Taken(r)' => (Among(r, tell.left) => Among(r, u.left) \/ Among(r, u.kept))
             /\ Among(r, tell.kept) => Among(r, u.kept)
             /\ Among(r, u.left) \/ Among(r, u.kept) => Among(r, tell.left) \/ Among(r, tell.kept)
  BY <1>2, <1>3, <1>6
<1>9. tell.complete => u.kept = <<>>
  BY <1>1, <1>3
<1> QED BY <1>6, <1>7, <1>8, <1>9 DEF l

LEMMA TellListen ==
  ASSUME ServiceInv, MgrTell
  PROVE  ListenInv'
<1>1. PICK u \in TellType, v \in {"ok", "err"} : TellOf(u, v)
  BY MgrTellEffect DEF ServiceInv
<1>2. /\ mgr = "telling" /\ ListenInv /\ tell.file \in Files /\ files[tell.file] # None
      /\ files[tell.file].xfer \in Requesters /\ (tell.err => tell.complete)
      /\ files \in [Files -> Entries \cup {None}] /\ xfer \in [Requesters -> TransferType]
      /\ tell \in TellType /\ (tell.complete <=> files[tell.file].complete)
  BY MgrTellEffect
     DEF MgrTell, ServiceInv, WorkInv, TellInv, WorkTypes, ManagerTypes, TransferTypes
<1>3. /\ u.file = tell.file /\ u.err = tell.err /\ u.complete = tell.complete
      /\ u.left \in Seq(Requesters) /\ u.kept \in Seq(Requesters)
  BY <1>1 DEF TellOf, TellType
<1>4. /\ \A r \in Requesters :
           /\ req'[r].want = req[r].want /\ (req'[r].pc = "idle" => req'[r].want = None)
           /\ ~req'[r].closed \/ req'[r].pc \in {"idle", "offering", "waiting"} => req'[r].out = None
           /\ Taken(r)' => /\ Taken(r)
                           /\ Among(r, tell.left) => Among(r, u.left) \/ Among(r, u.kept)
           /\ Among(r, tell.kept) => Among(r, u.kept)
           /\ Among(r, u.left) \/ Among(r, u.kept) => req'[r].want = tell.file
      /\ tell.complete => u.kept = <<>>
  BY <1>1, <1>2, TellEffectOnListeners DEF ListenInv
<1>5. ASSUME NEW r \in Requesters, Taken(r)'
      PROVE  /\ Listening(r, req[r].want)
             /\ req[r].want = tell.file => Among(r, u.left) \/ Among(r, u.kept)
  BY <1>2, <1>4, <1>5 DEF ListenInv, Listening, HeardOf
<1>6. CASE u.left = <<>>
  <2>1. files[u.file] \in LiveEntry /\ UpdateDone(u, files, xfer)
    BY <1>1, <1>2, <1>3, <1>6, EntryTypes DEF TellOf
  <2>2. /\ \A f \in Files : f # u.file => files'[f] = files[f]
        /\ u.err => files'[u.file] = None
        /\ ~u.err => /\ files'[u.file] # None /\ files'[u.file].listeners = u.kept
                     /\ files'[u.file].complete = files[u.file].complete
        /\ mgr' # "telling"
    BY <1>2, <1>3, <2>1, UpdateDoneEffect
  <2>3. ASSUME NEW r \in Requesters, Taken(r)'
        PROVE  Listening(r, req[r].want)'
    <3>1. CASE req[r].want = tell.file
      <4>1. Among(r, u.kept) /\ ~tell.complete
        BY <1>4, <1>5, <1>6, <2>3, <3>1, AmongNobody
      <4> QED BY <1>2, <1>3, <1>4, <2>2, <3>1, <4>1 DEF Listening, HeardOf
    <3>2. CASE req[r].want # tell.file
      BY <1>3, <1>4, <1>5, <2>2, <2>3, <3>2 DEF Listening, HeardOf
    <3> QED BY <3>1, <3>2
  <2>4. ASSUME NEW r \in Requesters, NEW f \in Files, files'[f] # None, Among(r, files'[f].listeners)
        PROVE  req'[r].want = f
    BY <1>2, <1>3, <1>4, <2>2, <2>4 DEF ListenInv
  <2>5. ASSUME NEW f \in Files, files'[f] # None, files'[f].complete
        PROVE  files'[f].listeners = <<>>
    <3>1. CASE f = u.file
      <4>1. ~u.err /\ files[f].complete /\ files'[f].listeners = u.kept
        BY <2>2, <2>5, <3>1
      <4> QED BY <1>2, <1>3, <1>4, <3>1, <4>1
    <3>2. CASE f # u.file
      BY <1>2, <1>3, <2>2, <2>5, <3>2 DEF ListenInv, HeardOf
    <3> QED BY <3>1, <3>2
  <2> QED BY <1>4, <2>2, <2>3, <2>4, <2>5 DEF ListenInv
<1>7. CASE u.left # <<>>
  <2>1. tell' = u /\ UNCHANGED <<mgr, files>>
    BY <1>1, <1>7 DEF TellOf
  <2>2. ASSUME NEW r \in Requesters, Taken(r)'
        PROVE  Listening(r, req[r].want)'
    BY <1>3, <1>4, <1>5, <2>1, <2>2 DEF Listening, HeardOf
  <2>3. \A r \in Requesters, f \in Files :
          files'[f] # None /\ Among(r, files'[f].listeners) => req'[r].want = f
    BY <1>2, <1>4, <2>1 DEF ListenInv
  <2>4. \A f \in Files : HeardOf(f)' <=> HeardOf(f)
    BY <1>3, <2>1 DEF HeardOf
  <2> QED BY <1>2, <1>3, <1>4, <2>1, <2>2, <2>3, <2>4 DEF ListenInv
<1> QED BY <1>6, <1>7

LEMMA NextService ==
  ASSUME ServiceInv, [Next]_vars
  PROVE  ServiceInv'
<1>1. WorkInv'
  BY NextWork DEF ServiceInv
<1>2. Next \/ UNCHANGED vars
  OBVIOUS
<1>3. BadURL \in Files \cup {BadURL}
  OBVIOUS
<1>4. ListenInv'
  BY <1>2, <1>3, QuietListen, RestartListen, ReceiveListen, UpdateListen, TellListen, Zenon
     DEF Next, XferSteps
<1> QED BY <1>1, <1>4 DEF ServiceInv

LEMMA ServiceInductive == Spec => []ServiceInv
<1>1. Init => ServiceInv
  BY InitWork, InitListen DEF ServiceInv
<1>2. ServiceInv /\ [Next]_vars => ServiceInv'
  BY NextService
<1> QED BY <1>1, <1>2, PTL DEF Spec

-----------------------------------------------------------------------------
(***************************************************************************)
(* The cache.  A service that is restarted takes a file that unxz has left *)
(* unfinished for a whole one, so this needs that no restart finds one.    *)
(***************************************************************************)
FindsWholeFiles == Restart => \A f \in Files : disk[f].img # "partial"

\* Whenever the process is started again, no file in the cache is unfinished.
NoneLeftPartial == [][FindsWholeFiles]_vars

CacheInv == WorkInv /\ DiskInv

LEMMA InitDisk == Init => DiskInv
<1> SUFFICES ASSUME Init PROVE DiskInv
  OBVIOUS
<1>1. \A f \in Files : disk[f].img \in {"whole", "none"}
  BY DEF Init
<1>2. mgr = "select" /\ \A x \in Requesters : xfer[x].pc = "unused"
  BY DEF Init, UnusedTransfer
<1> QED BY <1>1, <1>2 DEF DiskInv, HeardOf

\* Steps that leave the cache, the table and the transfers' ends alone.
LEMMA DiskFrame ==
  ASSUME DiskInv, UNCHANGED <<disk, files, mgr, tell>>,
         \A x \in Requesters : xfer'[x].file = xfer[x].file /\ xfer'[x].err = xfer[x].err
                               /\ xfer'[x].pc = xfer[x].pc
  PROVE  DiskInv'
BY DEF DiskInv, HeardOf

LEMMA ReceiveDisk ==
  ASSUME CacheInv, NEW r \in Requesters, MgrReceive(r)
  PROVE  DiskInv'
<1>1. UNCHANGED <<mgr, tell, disk>> /\ mgr = "select"
  BY DEF MgrReceive
<1>2. \A x \in Requesters : xfer'[x] = xfer[x] \/ (xfer'[x].pc = "start" /\ ~xfer'[x].err)
  BY DEF MgrReceive, CacheInv, WorkInv, WorkTypes, TransferTypes, NewTransfer, UnusedTransfer
<1>3. \A f \in Files : files'[f] # None /\ files'[f].complete => files[f] # None /\ files[f].complete
  <2>1. files \in [Files -> Entries \cup {None}]
    BY DEF CacheInv, WorkInv, WorkTypes, ManagerTypes
  <2>2. CASE files' = files
    BY <2>2
  <2>3. CASE \E f \in Files : Joins(f) /\ files' = [files EXCEPT ![f].listeners = Append(@, r)]
    <3>1. PICK f \in Files : Joins(f) /\ files' = [files EXCEPT ![f].listeners = Append(@, r)]
      BY <2>3
    <3>2. files[f] \in LiveEntry /\ ~files[f].complete
      BY <2>1, <3>1, EntryTypes DEF Joins
    <3>3. ~files'[f].complete
      BY <2>1, <3>1, <3>2 DEF LiveEntry
    <3> QED BY <2>1, <3>1, <3>3
  <2>4. CASE \E f \in Files : files' = [files EXCEPT ![f] = NewEntry(r)]
    BY <2>1, <2>4 DEF NewEntry
  <2> QED BY <2>2, <2>3, <2>4 DEF MgrReceive
<1> QED BY <1>1, <1>2, <1>3 DEF CacheInv, DiskInv, HeardOf

\* The end of a transfer: a partial file is left only with an error.
LEMMA UpdateDisk ==
  ASSUME CacheInv, NEW x \in Requesters, MgrUpdate(x)
  PROVE  DiskInv'
<1>1. PICK u \in TellType, fs \in [Files -> Entries \cup {None}],
           xs \in [Requesters -> TransferType] : UpdateOf(x, u, fs, xs)
  BY MgrUpdateEffect DEF CacheInv
<1>2. disk' = disk /\ mgr = "select" /\ DiskInv /\ xfer \in [Requesters -> TransferType]
  BY DEF MgrUpdate, CacheInv, WorkInv, WorkTypes, TransferTypes
<1>3. /\ \A f \in Files \ {u.file} : fs[f] = files[f]
      /\ fs[u.file].complete = u.complete /\ u.file \in Files /\ fs[u.file] \in LiveEntry
      /\ u.complete /\ ~u.err => disk[u.file].img = "whole"
      /\ \A y \in Requesters : /\ xs[y].file = xfer[y].file /\ xs[y].err = xfer[y].err
                               /\ xs[y].pc = "finishing" => xfer[y].pc = "finishing"
  BY <1>1, <1>2 DEF UpdateOf, DiskInv, TransferType
<1>4. CASE u.left = <<>>
  <2>1. /\ \A f \in Files : f # u.file => files'[f] = fs[f]
        /\ u.err => files'[u.file] = None
        /\ ~u.err => files'[u.file].complete = fs[u.file].complete
        /\ \A y \in Requesters : GoesOn(xfer', xs, y)
        /\ mgr' # "telling"
    BY <1>1, <1>3, <1>4, UpdateDoneEffect, ListenerLists DEF UpdateOf, TellType
  <2> QED BY <1>2, <1>3, <2>1 DEF DiskInv, HeardOf, GoesOn
<1>5. CASE u.left # <<>>
  <2>1. mgr' = "telling" /\ tell' = u /\ files' = fs /\ xfer' = xs
    BY <1>1, <1>5 DEF UpdateOf
  <2> QED BY <1>2, <1>3, <2>1 DEF DiskInv, HeardOf
<1> QED BY <1>4, <1>5

LEMMA TellDisk ==
  ASSUME CacheInv, MgrTell
  PROVE  DiskInv'
<1>1. PICK u \in TellType, v \in {"ok", "err"} : TellOf(u, v)
  BY MgrTellEffect DEF CacheInv
<1>2. /\ disk' = disk /\ mgr = "telling" /\ DiskInv /\ WorkTypes /\ tell.file \in Files
      /\ files[tell.file] # None /\ files[tell.file].xfer \in Requesters
      /\ files \in [Files -> Entries \cup {None}] /\ xfer \in [Requesters -> TransferType]
  BY DEF MgrTell, CacheInv, WorkInv, TellInv, WorkTypes, ManagerTypes, TransferTypes
<1>3. u.file = tell.file /\ u.err = tell.err /\ u.complete = tell.complete /\ u.kept \in Seq(Requesters)
  BY <1>1 DEF TellOf, TellType
<1>4. CASE u.left = <<>>
  <2>1. files[u.file] \in LiveEntry
    BY <1>2, <1>3, EntryTypes
  <2>2. UpdateDone(u, files, xfer)
    BY <1>1, <1>4 DEF TellOf
  <2>3. /\ \A f \in Files : f # u.file => files'[f] = files[f]
        /\ u.err => files'[u.file] = None
        /\ ~u.err => files'[u.file].complete = files[u.file].complete
        /\ \A y \in Requesters : GoesOn(xfer', xfer, y)
        /\ mgr' # "telling"
    BY <1>2, <1>3, <2>1, <2>2, UpdateDoneEffect
  <2> QED BY <1>2, <1>3, <2>3 DEF DiskInv, HeardOf, GoesOn
<1>5. CASE u.left # <<>>
  <2>1. tell' = u /\ UNCHANGED <<mgr, files, xfer>>
    BY <1>1, <1>5 DEF TellOf
  <2> QED BY <1>2, <1>3, <2>1 DEF DiskInv, HeardOf
<1> QED BY <1>4, <1>5

\* A transfer writes under the name of a file whose entry is not complete.
LEMMA XferDisk ==
  ASSUME CacheInv, NEW x \in Requesters, XferSteps(x)
  PROVE  DiskInv'
<1> DEFINE f == xfer[x].file
<1>1. /\ xfer[x].pc \in {"start", "asking", "fetching", "unpack", "unpacking"}
      /\ f \in Files /\ UNCHANGED <<mgr, files, tell>>
  BY XferEffect DEF CacheInv, manager
<1>2. PICK t, d : XferTo(x, t, d)
  BY XferEffect DEF CacheInv
<1>3. /\ DiskInv /\ disk \in [Files -> DiskType] /\ xfer \in [Requesters -> TransferType]
      /\ files[f] # None /\ ~files[f].complete /\ files[f].xfer = x
      /\ HeardOf(f) => ~tell.complete
  BY <1>1 DEF CacheInv, WorkInv, WorkTypes, TransferTypes, TransferInv, Matches, TellInv, HeardOf
<1>4. \A y \in Requesters : y # x /\ xfer[y].pc = "finishing" => xfer[y].file # f
  BY <1>3 DEF CacheInv, WorkInv, TransferInv, Matches
<1>5. /\ xfer' = [xfer EXCEPT ![x] = t] /\ disk' = [disk EXCEPT ![f] = d]
      /\ t.file = f /\ (d.img \in {disk[f].img, "none", "whole"} \/ f \in Xz)
      /\ t.pc = "finishing" /\ ~t.err => d.img = "whole"
  BY <1>2 DEF XferTo
<1> HIDE DEF f
<1>6. \A g \in Files : g # f => disk'[g] = disk[g]
  BY <1>1, <1>3, <1>5
<1>7. disk'[f] = d /\ xfer'[x] = t /\ \A y \in Requesters : y # x => xfer'[y] = xfer[y]
  BY <1>1, <1>3, <1>5
<1>8. d.img = "partial" => f \in Xz
  BY <1>1, <1>3, <1>5 DEF DiskInv
<1>9. ASSUME NEW g \in Files
      PROVE  /\ disk'[g].img = "partial" => g \in Xz
             /\ files'[g] # None /\ files'[g].complete /\ disk'[g].img = "partial"
                  => HeardOf(g)' /\ tell'.err
             /\ HeardOf(g)' /\ tell'.complete /\ ~tell'.err => disk'[g].img = "whole"
  BY <1>1, <1>3, <1>6, <1>7, <1>8 DEF DiskInv, HeardOf
<1>10. ASSUME NEW y \in Requesters, xfer'[y].pc = "finishing", ~xfer'[y].err
       PROVE  disk'[xfer'[y].file].img = "whole"
  <2>1. CASE y = x
    BY <1>5, <1>7, <1>10, <2>1
  <2>2. CASE y # x
    <3>1. xfer[y].file \in Files /\ xfer[y].file # f
      BY <1>4, <1>7, <1>10, <2>2 DEF CacheInv, WorkInv, TransferInv, Matches
    <3> QED BY <1>3, <1>6, <1>7, <1>10, <2>2, <3>1 DEF DiskInv
  <2> QED BY <2>1, <2>2
<1> QED BY <1>9, <1>10 DEF DiskInv

\* The user removes a file of the cache; the service is started again.
LEMMA OutsideDisk ==
  ASSUME CacheInv, FindsWholeFiles, (\E f \in Files : Removed(f)) \/ Restart
  PROVE  DiskInv'
<1>1. DiskInv /\ disk \in [Files -> DiskType]
  BY DEF CacheInv, WorkInv, WorkTypes, TransferTypes
<1>2. ASSUME NEW f \in Files, Removed(f) PROVE DiskInv'
  <2>1. \A x \in Requesters : xfer[x].pc = "finishing" => xfer[x].file # f /\ xfer[x].file \in Files
    BY <1>2 DEF Removed, CacheInv, WorkInv, TransferInv, Matches
  <2>2. \A g \in Files : disk'[g].img = IF g = f THEN "none" ELSE disk[g].img
    BY <1>1, <1>2 DEF Removed, DiskType
  <2>3. UNCHANGED <<mgr, files, tell, xfer>> /\ mgr = "select"
    BY <1>2 DEF Removed, manager
  <2> QED BY <1>1, <2>1, <2>2, <2>3 DEF DiskInv, HeardOf
<1>3. ASSUME Restart PROVE DiskInv'
  <2>1. \A f \in Files : disk[f].img # "partial"
    BY <1>3 DEF FindsWholeFiles
  <2>2. \A f \in Files : disk'[f].img = disk[f].img
    BY <1>1, <1>3 DEF Restart, DiskType
  <2>3. mgr' = "select" /\ \A x \in Requesters : xfer'[x].pc # "finishing"
    <3>1. \A x \in Requesters : xfer[x] \in TransferType
      BY DEF CacheInv, WorkInv, WorkTypes, TransferTypes
    <3> QED BY <1>3, <3>1 DEF Restart, TransferType
  <2> QED BY <1>1, <2>1, <2>2, <2>3 DEF DiskInv, HeardOf
<1> QED BY <1>2, <1>3

LEMMA NextDisk ==
  ASSUME CacheInv, [Next /\ FindsWholeFiles]_vars
  PROVE  CacheInv'
<1>1. WorkInv'
  BY NextWork DEF CacheInv
<1>2. ASSUME NEW r \in Requesters, NEW f \in Files \cup {BadURL}, Request(r, f) \/ Cancel(r) \/ Callback(r)
      PROVE  DiskInv'
  BY <1>2, DiskFrame DEF CacheInv, Request, Cancel, Callback, manager
<1>3. ASSUME MgrDone \/ MgrStop PROVE DiskInv'
  <2>1. \A x \in Requesters : xfer'[x].file = xfer[x].file /\ xfer'[x].err = xfer[x].err
                               /\ xfer'[x].pc = xfer[x].pc
    <3>1. \A x \in Requesters : xfer[x] \in TransferType
      BY DEF CacheInv, WorkInv, WorkTypes, TransferTypes
    <3>2. \A x \in Requesters : xfer'[x] \in {xfer[x], [xfer[x] EXCEPT !.stop = TRUE]}
      BY <1>3 DEF MgrDone, MgrStop, Stopped
    <3> QED BY <3>1, <3>2 DEF TransferType
  <2>2. UNCHANGED <<disk, files, tell>> /\ mgr # "telling" /\ mgr' # "telling"
    BY <1>3 DEF MgrDone, MgrStop
  <2> QED BY <2>1, <2>2 DEF CacheInv, DiskInv, HeardOf
<1>4. ASSUME Done \/ UNCHANGED vars PROVE DiskInv'
  BY <1>4, DiskFrame DEF CacheInv, Done, vars, manager
<1>5. (Next /\ FindsWholeFiles) \/ UNCHANGED vars
  OBVIOUS
<1>6. DiskInv'
  BY <1>2, <1>3, <1>4, <1>5, ReceiveDisk, UpdateDisk, TellDisk, XferDisk, OutsideDisk, Zenon
     DEF Next, XferSteps
<1> QED BY <1>1, <1>6 DEF CacheInv

\* Who is told of no error, and did not cancel, has the whole file.
LEMMA WholeStep ==
  ASSUME ServiceInv, DiskInv, [Next]_vars,
         NEW r \in Requesters \ cancelled, req[r].want \in Files,
         req[r].out # "ok", req'[r].out = "ok"
  PROVE  disk[req[r].want].img = "whole"
<1>1. /\ req \in [Requesters -> RequesterType] /\ DiskInv /\ disk \in [Files -> DiskType]
      /\ req[r] \in RequesterType
  BY DEF ServiceInv, WorkInv, WorkTypes, RequestTypes, TransferTypes
<1>2. \/ \E q \in Requesters : MgrReceive(q)
      \/ MgrTell
  <2>1. ASSUME NEW q \in Requesters, NEW f \in Files \cup {BadURL},
               Request(q, f) \/ Cancel(q) \/ Callback(q)
        PROVE  req'[r].out = req[r].out
    BY <1>1, <2>1 DEF Request, Cancel, Callback, RequesterType
  <2>2. ASSUME NEW q \in Requesters, MgrUpdate(q) \/ XferSteps(q)
        PROVE  req' = req
    BY <2>2 DEF MgrUpdate, XferSteps, XferCreate, XferAnswered, XferRead, XferUnpack, XferUnpacked
  <2>3. ASSUME MgrDone \/ MgrStop \/ Done \/ (\E f \in Files : Removed(f)) \/ UNCHANGED vars
        PROVE  req' = req
    BY <2>3 DEF MgrDone, MgrStop, Done, Removed, vars
  <2>4. ASSUME Restart
        PROVE  req'[r].out = req[r].out \/ req'[r].out = None
    BY <1>1, <2>4 DEF Restart, RequesterType
  <2>5. Next \/ UNCHANGED vars
    OBVIOUS
  <2>6. req'[r].out # req[r].out /\ req'[r].out # None /\ req' # req
    BY Assumed
  <2> QED BY <2>1, <2>2, <2>3, <2>4, <2>5, <2>6, Zenon DEF Next, XferSteps
<1>3. ASSUME NEW q \in Requesters, MgrReceive(q)
      PROVE  disk[req[r].want].img = "whole"
  <2> DEFINE f == req[q].want
  <2>1. mgr = "select"
    BY <1>3 DEF MgrReceive
  <2>2. ASSUME NEW k, req' = [req EXCEPT ![q] = k], k.out # "ok"
        PROVE  FALSE
    BY <1>1, <2>2
  <2>3. r = q
    BY <1>1, <1>3 DEF MgrReceive
  <2>4. CASE shutting /\ req' = [req EXCEPT ![q] = Told(@, "err", TRUE)]
    BY <1>1, <2>2, <2>4, ToldType
  <2>5. CASE req' = [req EXCEPT ![q].pc = "waiting"]
    BY <1>1, <2>3, <2>5 DEF RequesterType
  <2>6. CASE f \in Files /\ HasFile(f)
    BY <1>1, <2>1, <2>3, <2>6 DEF HasFile, DiskInv, HeardOf, DiskType
  <2>7. f # BadURL
    BY <2>3, Assumed
  <2> QED BY <1>3, <2>4, <2>5, <2>6, <2>7 DEF MgrReceive
<1>4. ASSUME MgrTell
      PROVE  disk[req[r].want].img = "whole"
  <2> DEFINE l == Head(tell.left)
  <2>1. PICK u \in TellType, v \in {"ok", "err"} : TellOf(u, v)
    BY <1>4, MgrTellEffect DEF ServiceInv
  <2>2. /\ mgr = "telling" /\ l \in Requesters /\ tell.left \in Seq(Requesters) /\ tell.left # <<>>
        /\ (tell.gone => l \in cancelled) /\ tell.file \in Files
    BY <1>4, MgrTellEffect DEF ServiceInv, WorkInv, TellInv, MgrTell, TellType
  <2>3. req' = [req EXCEPT ![l] = Told(@, v, tell.gone \/ tell.complete)]
    BY <2>1 DEF TellOf
  <2>4. r = l
    BY <1>1, <2>2, <2>3
  <2>5. v = "ok" /\ (tell.gone \/ tell.complete)
    BY <1>1, <2>2, <2>3, <2>4, Assumed DEF Told, RequesterType
  <2>6. ~tell.gone
    BY <2>2, <2>4
  <2>7. tell.complete /\ ~tell.err
    BY <2>1, <2>5, <2>6 DEF TellOf
  <2>8. req[r].want = tell.file
    BY <2>2, <2>4, AmongHeadTail DEF ServiceInv, ListenInv
  <2> QED BY <2>2, <2>7, <2>8 DEF DiskInv, HeardOf
<1> QED BY <1>2, <1>3, <1>4

\* A requester that did not cancel and is told of no error finds the whole file
\* in the cache: with any number of requesters, files, failures and restarts, as
\* long as no restart finds a file that unxz has left unfinished.
THEOREM OkIsWhole == Spec /\ NoneLeftPartial => OkMeansWhole
<1>1. Init => CacheInv
  BY InitWork, InitDisk DEF CacheInv
<1>2. CacheInv /\ [Next]_vars /\ [FindsWholeFiles]_vars => CacheInv'
  BY NextDisk
<1>3. ServiceInv /\ CacheInv /\ [Next]_vars =>
        [\A r \in Requesters \ cancelled :
           req[r].want \in Files /\ req[r].out # "ok" /\ req'[r].out = "ok"
             => disk[req[r].want].img = "whole"]_vars
  BY WholeStep DEF CacheInv
<1> QED BY <1>1, <1>2, <1>3, ServiceInductive, PTL DEF Spec, NoneLeftPartial, OkMeansWhole

\* None does if no file is unpacked, or the process is not started again.
THEOREM WholeFilesFound == Xz = {} \/ MaxRestarts = 0 => (Spec => NoneLeftPartial)
<1> SUFFICES ASSUME Xz = {} \/ MaxRestarts = 0 PROVE Spec => NoneLeftPartial
  OBVIOUS
<1>1. CacheInv => FindsWholeFiles
  <2> SUFFICES ASSUME CacheInv, Restart PROVE \A f \in Files : disk[f].img # "partial"
    BY DEF FindsWholeFiles
  <2>1. restarts < MaxRestarts /\ restarts \in 0 .. MaxRestarts
    BY DEF Restart, CacheInv, WorkInv, WorkTypes, WorldTypes
  <2>2. MaxRestarts # 0
    BY <2>1, Assumed
  <2> QED BY <2>2 DEF CacheInv, DiskInv
<1>2. Init => CacheInv
  BY InitWork, InitDisk DEF CacheInv
<1>3. CacheInv /\ [Next]_vars => CacheInv'
  BY <1>1, NextDisk
<1> QED BY <1>1, <1>2, <1>3, PTL DEF Spec, NoneLeftPartial

-----------------------------------------------------------------------------
(***************************************************************************)
(* Downloader implements Downloads: each step of the manager, of a         *)
(* transfer or of a requester is one of Downloads, or changes nothing that *)
(* Downloads speaks of.                                                    *)
(***************************************************************************)
\* The converse of ListenInv: everybody who listens is owed an answer, and is
\* listed once.  A last message carries an answer.
Distinct(s) == \A i, j \in 1 .. Len(s) : s[i] = s[j] => i = j

OweInv ==
  /\ \A r \in Requesters :
       /\ req[r].pc = "callback" /\ req[r].closed => req[r].out # None
       /\ \A f \in Files :
            files[f] # None /\ ~HeardOf(f) /\ Among(r, files[f].listeners) => Taken(r)
       /\ mgr = "telling" /\ (Among(r, tell.left) \/ Among(r, tell.kept)) => Taken(r)
       /\ ~(mgr = "telling" /\ Among(r, tell.left) /\ Among(r, tell.kept))
  /\ \A f \in Files : files[f] # None => Distinct(files[f].listeners)
  /\ mgr = "telling" => Distinct(tell.left) /\ Distinct(tell.kept)

OwingInv == ServiceInv /\ OweInv

LEMMA DistinctLists ==
  ASSUME NEW s \in Seq(Requesters), NEW r \in Requesters
  PROVE  /\ Distinct(<<>>) /\ Distinct(<<r>>)
         /\ Distinct(s) /\ ~Among(r, s) => Distinct(Append(s, r))
         /\ Distinct(s) /\ s # <<>> => Distinct(Tail(s)) /\ ~Among(Head(s), Tail(s))
<1>1. Distinct(<<>>) /\ Distinct(<<r>>)
  BY DEF Distinct
<1>2. ASSUME Distinct(s), ~Among(r, s) PROVE Distinct(Append(s, r))
  <2>1. /\ Len(Append(s, r)) = Len(s) + 1 /\ Append(s, r)[Len(s) + 1] = r /\ Len(s) \in Nat
        /\ \A i \in 1 .. Len(s) : Append(s, r)[i] = s[i]
    OBVIOUS
  <2> QED BY <1>2, <2>1 DEF Distinct, Among
<1>3. ASSUME Distinct(s), s # <<>> PROVE Distinct(Tail(s)) /\ ~Among(Head(s), Tail(s))
  <2>1. /\ Len(s) \in Nat \ {0} /\ Len(Tail(s)) = Len(s) - 1 /\ Head(s) = s[1]
        /\ \A i \in 1 .. Len(s) - 1 : Tail(s)[i] = s[i + 1]
    BY <1>3
  <2> QED BY <1>3, <2>1 DEF Distinct, Among
<1> QED BY <1>1, <1>2, <1>3


\* Initially, and after a restart, nobody listens.
LEMMA NobodyOwed ==
  ASSUME mgr # "telling", \A f \in Files : files[f] # None => files[f].listeners = <<>>,
         \A r \in Requesters : req[r].pc # "callback"
  PROVE  OweInv
<1>1. Distinct(<<>>)
  BY DEF Distinct
<1> QED BY <1>1, AmongNobody DEF OweInv, HeardOf

LEMMA InitOwe == Init => OweInv
<1> SUFFICES ASSUME Init PROVE OweInv
  OBVIOUS
<1>1. \A f \in Files : files[f] # None => files[f].listeners = <<>>
  BY FoundTable DEF Init, FoundEntry
<1>2. mgr # "telling" /\ \A r \in Requesters : req[r].pc # "callback"
  BY DEF Init, IdleRequester
<1> QED BY <1>1, <1>2, NobodyOwed

LEMMA OweFrame ==
  ASSUME OweInv, UNCHANGED <<files, tell>>,
         mgr' = mgr \/ (mgr # "telling" /\ mgr' # "telling"),
         \A r \in Requesters :
           /\ req'[r].pc = "callback" /\ req'[r].closed => req'[r].out # None
           /\ Taken(r) => Taken(r)'
  PROVE  OweInv'
<1>1. \A f : HeardOf(f)' <=> HeardOf(f)
  BY DEF HeardOf
<1> QED BY <1>1 DEF OweInv

LEMMA QuietOwe ==
  ASSUME OwingInv,
         \/ \E r \in Requesters, f \in Files \cup {BadURL} : Request(r, f) \/ Cancel(r) \/ Callback(r)
         \/ \E x \in Requesters : XferSteps(x)
         \/ MgrDone \/ MgrStop \/ Done \/ (\E f \in Files : Removed(f)) \/ UNCHANGED vars
  PROVE  OweInv'
<1>1. /\ req \in [Requesters -> RequesterType] /\ OweInv
  BY DEF OwingInv, ServiceInv, WorkInv, WorkTypes, RequestTypes
<1>2. ASSUME NEW r \in Requesters, NEW f \in Files \cup {BadURL}, Request(r, f) \/ Cancel(r) \/ Callback(r)
      PROVE  OweInv'
  <2>1. UNCHANGED <<files, tell, mgr>>
    BY <1>2 DEF Request, Cancel, Callback, manager
  <2>2. ASSUME NEW q \in Requesters
        PROVE  /\ req'[q].pc = "callback" /\ req'[q].closed => req'[q].out # None
               /\ Taken(q) => Taken(q)'
    <3>0. req[q] \in RequesterType
      BY <1>1
    <3>1. CASE Request(r, f)
      BY <1>1, <3>0, <3>1 DEF Request, OweInv, Taken, RequesterType
    <3>2. CASE Cancel(r)
      BY <1>1, <3>0, <3>2 DEF Cancel, OweInv, Taken
    <3>3. CASE Callback(r)
      BY <1>1, <3>0, <3>3 DEF Callback, OweInv, Taken, RequesterType
    <3> QED BY <1>2, <3>1, <3>2, <3>3
  <2> QED BY <1>1, <2>1, <2>2, OweFrame
<1>3. ASSUME NEW x \in Requesters, XferSteps(x)
      PROVE  UNCHANGED <<files, tell, mgr, req>>
  BY <1>3 DEF XferSteps, XferCreate, XferAnswered, XferRead, XferUnpack, XferUnpacked, manager
<1>4. ASSUME MgrDone \/ MgrStop \/ Done \/ (\E f \in Files : Removed(f)) \/ UNCHANGED vars
      PROVE  /\ UNCHANGED <<files, tell, req>>
             /\ mgr' = mgr \/ (mgr # "telling" /\ mgr' # "telling")
  BY <1>4 DEF MgrDone, MgrStop, Done, Removed, vars, manager
<1>5. ASSUME UNCHANGED <<files, tell, req>>, mgr' = mgr \/ (mgr # "telling" /\ mgr' # "telling")
      PROVE  OweInv'
  BY <1>1, <1>5, OweFrame DEF OweInv, Taken
<1> QED BY <1>2, <1>3, <1>4, <1>5

LEMMA RestartOwe ==
  ASSUME OwingInv, Restart
  PROVE  OweInv'
<1>1. \A f \in Files : files'[f] # None => files'[f].listeners = <<>>
  <2>1. files' = FoundIn(disk')
    BY DEF Restart
  <2>2. \A f \in Files : FoundIn(disk')[f] \in {FoundEntry, None}
    BY DEF FoundIn
  <2> QED BY <2>1, <2>2 DEF FoundEntry
<1>2. \A r \in Requesters : req[r] \in RequesterType
  BY DEF OwingInv, ServiceInv, WorkInv, WorkTypes, RequestTypes
<1>3. mgr' = "select" /\ \A r \in Requesters : req'[r].pc # "callback"
  BY <1>2 DEF Restart, RequesterType
<1>4. Distinct(<<>>)
  BY DEF Distinct
<1> QED BY <1>1, <1>3, <1>4, AmongNobody DEF OweInv, HeardOf

\* A request that is received is not listed yet.
LEMMA ReceiveOwe ==
  ASSUME OwingInv, NEW r \in Requesters, MgrReceive(r)
  PROVE  OweInv'
<1> DEFINE f == req[r].want
<1>1. /\ req \in [Requesters -> RequesterType] /\ req[r] \in RequesterType
      /\ files \in [Files -> Entries \cup {None}] /\ ListenInv /\ OweInv
  BY DEF OwingInv, ServiceInv, WorkInv, WorkTypes, RequestTypes, ManagerTypes
<1>2. /\ mgr = "select" /\ mgr' = mgr /\ tell' = tell /\ req[r].pc = "offering" /\ req[r].out = None
      /\ ~Taken(r)
  BY <1>1 DEF MgrReceive, ListenInv, Taken
<1>3. ASSUME NEW k \in RequesterType, k.out \in {"ok", "err"},
             req' = [req EXCEPT ![r] = k], files' = files
      PROVE  OweInv'
  <2>1. ASSUME NEW q \in Requesters
        PROVE  /\ req'[q].pc = "callback" /\ req'[q].closed => req'[q].out # None
               /\ Taken(q) => Taken(q)'
    BY <1>1, <1>2, <1>3, Assumed DEF OweInv, Taken
  <2> QED BY <1>1, <1>2, <1>3, <2>1, OweFrame
<1>4. ASSUME NEW e, files' = [files EXCEPT ![f] = e], f \in Files,
             req' = [req EXCEPT ![r].pc = "waiting"],
             \A q \in Requesters : Among(q, e.listeners) =>
               q = r \/ (files[f] # None /\ Among(q, files[f].listeners)),
             Distinct(e.listeners)
      PROVE  OweInv'
  <2>1. /\ \A q \in Requesters : /\ req'[q].out = req[q].out
                                 /\ req'[q].closed = req[q].closed
                                 /\ req'[q].pc = IF q = r THEN "waiting" ELSE req[q].pc
        /\ \A g \in Files : files'[g] = IF g = f THEN e ELSE files[g]
    BY <1>1, <1>4 DEF RequesterType
  <2> HIDE DEF f
  <2>2. \A q \in Requesters : Taken(q)' <=> Taken(q) \/ q = r
    BY <1>2, <2>1 DEF Taken
  <2>3. \A g : ~HeardOf(g) /\ ~HeardOf(g)'
    BY <1>2 DEF HeardOf
  <2>4. ASSUME NEW q \in Requesters
        PROVE  req'[q].pc = "callback" /\ req'[q].closed => req'[q].out # None
    BY <1>1, <2>1 DEF OweInv
  <2>5. ASSUME NEW q \in Requesters, NEW g \in Files, files'[g] # None, Among(q, files'[g].listeners)
        PROVE  Taken(q)'
    BY <1>1, <1>4, <2>1, <2>2, <2>3, <2>5 DEF OweInv
  <2>6. \A g \in Files : files'[g] # None => Distinct(files'[g].listeners)
    BY <1>1, <1>4, <2>1 DEF OweInv
  <2>7. mgr' # "telling"
    BY <1>2
  <2> QED BY <2>4, <2>5, <2>6, <2>7 DEF OweInv
<1>5. CASE \/ req' = [req EXCEPT ![r] = Told(@, "err", TRUE)] /\ files' = files
           \/ req' = [req EXCEPT ![r] = Told(@, "ok", TRUE)] /\ files' = files
  <2>1. PICK v \in {"ok", "err"} : req' = [req EXCEPT ![r] = Told(req[r], v, TRUE)]
    BY <1>5
  <2> DEFINE k == Told(req[r], v, TRUE)
  <2>2. k \in RequesterType /\ k.out = v /\ k.closed /\ k.want = req[r].want
    BY <1>1, ToldType
  <2>3. req' = [req EXCEPT ![r] = k]
    BY <2>1
  <2>4. k.pc \in {"ended", "callback"}
    BY <1>1 DEF Told, RequesterType
  <2> HIDE DEF k
  <2> QED BY <1>3, <1>5, <2>2, <2>3, <2>4
<1>6. CASE req' = [req EXCEPT ![r] = [Told(@, "ok", TRUE) EXCEPT !.pc = "ended"]] /\ files' = files
  <2> DEFINE k == [Told(req[r], "ok", TRUE) EXCEPT !.pc = "ended"]
  <2>1. k \in RequesterType /\ k.out = "ok"
    BY <1>1 DEF Told, RequesterType
  <2>2. req' = [req EXCEPT ![r] = k]
    BY <1>6
  <2> HIDE DEF k
  <2> QED BY <1>3, <1>6, <2>1, <2>2
<1>7. CASE /\ f \in Files /\ Joins(f) /\ files' = [files EXCEPT ![f].listeners = Append(@, r)]
           /\ req' = [req EXCEPT ![r].pc = "waiting"]
  <2>1. files[f] # None /\ ~files[f].complete /\ files[f] \in LiveEntry
    BY <1>1, <1>7, EntryTypes DEF Joins
  <2> DEFINE e == [files[f] EXCEPT !.listeners = Append(@, r)]
  <2>2. e.listeners = Append(files[f].listeners, r)
    BY <2>1 DEF LiveEntry
  <2>3. \A q \in Requesters : Among(q, e.listeners) <=> q = r \/ Among(q, files[f].listeners)
    BY <2>1, <2>2, AmongAppend DEF LiveEntry
  <2>4. ~Among(r, files[f].listeners) /\ Distinct(files[f].listeners)
    BY <1>1, <1>2, <1>7, <2>1 DEF OweInv, HeardOf
  <2>5. Distinct(e.listeners)
    BY <2>1, <2>2, <2>4, DistinctLists DEF LiveEntry
  <2>6. files' = [files EXCEPT ![f] = e]
    BY <1>7
  <2> HIDE DEF e
  <2> QED BY <1>4, <1>7, <2>1, <2>3, <2>5, <2>6
<1>8. CASE /\ f \in Files /\ ~Joins(f) /\ files' = [files EXCEPT ![f] = NewEntry(r)]
           /\ req' = [req EXCEPT ![r].pc = "waiting"]
  <2>1. NewEntry(r).listeners = <<r>>
    BY DEF NewEntry
  <2>2. \A q \in Requesters : Among(q, <<r>>) <=> q = r
    BY DEF Among
  <2>3. Distinct(<<r>>)
    BY DEF Distinct
  <2> QED BY <1>4, <1>8, <2>1, <2>2, <2>3
<1> QED BY <1>5, <1>6, <1>7, <1>8 DEF MgrReceive


\* While the end of a transfer or its progress is passed on, nobody is told
\* twice and nobody is forgotten.
LEMMA UpdateOwe ==
  ASSUME OwingInv, NEW x \in Requesters, MgrUpdate(x)
  PROVE  OweInv'
<1>1. PICK u \in TellType, fs \in [Files -> Entries \cup {None}],
           xs \in [Requesters -> TransferType] : UpdateOf(x, u, fs, xs)
  BY MgrUpdateEffect DEF OwingInv, ServiceInv
<1>2. req' = req /\ mgr = "select" /\ OweInv
  BY DEF MgrUpdate, OwingInv
<1>3. /\ u.file \in Files /\ u.left = files[u.file].listeners /\ u.kept = <<>> /\ files[u.file] # None
      /\ fs[u.file] \in LiveEntry /\ fs[u.file].listeners = files[u.file].listeners
      /\ \A f \in Files : f # u.file => fs[f] = files[f]
  BY <1>1 DEF UpdateOf
<1>4. Distinct(<<>>)
  BY DEF Distinct
<1>5. \A f : ~HeardOf(f)
  BY <1>2 DEF HeardOf
<1>6. CASE u.left = <<>>
  <2>1. UpdateDone(u, fs, xs) /\ u.kept \in Seq(Requesters)
    BY <1>1, <1>6 DEF UpdateOf, TellType
  <2>2. /\ \A f \in Files : f # u.file => files'[f] = files[f]
        /\ files'[u.file] # None => files'[u.file].listeners = <<>>
        /\ mgr' # "telling"
    BY <1>3, <2>1, UpdateDoneEffect
  <2> QED BY <1>2, <1>3, <1>4, <1>5, <2>2, AmongNobody DEF OweInv, Taken
<1>7. CASE u.left # <<>>
  <2>1. mgr' = "telling" /\ tell' = u /\ files' = fs
    BY <1>1, <1>7 DEF UpdateOf
  <2> QED BY <1>2, <1>3, <1>4, <1>5, <2>1, AmongNobody DEF OweInv, Taken, HeardOf
<1> QED BY <1>6, <1>7

LEMMA TellOwe ==
  ASSUME OwingInv, MgrTell
  PROVE  OweInv'
<1> DEFINE l == Head(tell.left)
<1>1. PICK u \in TellType, v \in {"ok", "err"} : TellOf(u, v)
  BY MgrTellEffect DEF OwingInv, ServiceInv
<1>2. /\ mgr = "telling" /\ OweInv /\ ListenInv /\ tell.file \in Files /\ files[tell.file] # None
      /\ files[tell.file].xfer \in Requesters /\ (tell.err => tell.complete)
      /\ files \in [Files -> Entries \cup {None}] /\ xfer \in [Requesters -> TransferType]
      /\ req \in [Requesters -> RequesterType]
      /\ tell.left # <<>> /\ tell.left \in Seq(Requesters) /\ tell.kept \in Seq(Requesters)
      /\ l \in Requesters
  BY MgrTellEffect
     DEF MgrTell, OwingInv, ServiceInv, WorkInv, TellInv, WorkTypes, ManagerTypes, TransferTypes,
         RequestTypes, TellType
<1>3. /\ u.file = tell.file /\ u.err = tell.err /\ u.left = Tail(tell.left)
      /\ u.left \in Seq(Requesters) /\ u.kept \in Seq(Requesters)
      /\ u.kept = IF tell.gone \/ tell.complete THEN tell.kept ELSE Append(tell.kept, l)
      /\ req' = [req EXCEPT ![l] = Told(@, v, tell.gone \/ tell.complete)]
      /\ ~tell.gone /\ ~tell.err => v = "ok"
      /\ (tell.gone \/ tell.complete) \in BOOLEAN
  BY <1>1 DEF TellOf, TellType, Kept
<1>4. /\ Among(l, tell.left) /\ Taken(l) /\ ~Among(l, tell.kept) /\ req[l].want = tell.file
      /\ Distinct(tell.left) /\ Distinct(tell.kept)
  BY <1>2, AmongHeadTail DEF OweInv, ListenInv
<1>5. /\ \A r \in Requesters : /\ Among(r, tell.left) <=> r = l \/ Among(r, u.left)
                               /\ Among(r, Append(tell.kept, l)) <=> Among(r, tell.kept) \/ r = l
      /\ ~Among(l, u.left) /\ Distinct(u.left) /\ Distinct(Append(tell.kept, l))
  <2>1. \A r \in Requesters : Among(r, tell.left) <=> r = l \/ Among(r, u.left)
    BY <1>2, <1>3, AmongHeadTail
  <2>2. ~Among(l, u.left) /\ Distinct(u.left)
    BY <1>2, <1>3, <1>4, DistinctLists
  <2> HIDE DEF l
  <2>3. \A r \in Requesters : Among(r, Append(tell.kept, l)) <=> Among(r, tell.kept) \/ r = l
    BY <1>2, AmongAppend
  <2>4. Distinct(Append(tell.kept, l))
    BY <1>2, <1>4, DistinctLists
  <2> QED BY <2>1, <2>2, <2>3, <2>4
<1>6. /\ \A r \in Requesters : r # l => req'[r] = req[r]
      /\ tell.gone \/ tell.complete => req'[l].out = v
      /\ ~tell.gone /\ ~tell.complete => req'[l].out = None /\ req'[l].pc = "callback"
      /\ req'[l].pc = "callback" /\ req'[l].closed => tell.gone \/ tell.complete
  <2> HIDE DEF l
  <2>1. PICK last \in BOOLEAN : /\ last <=> tell.gone \/ tell.complete
                                /\ req' = [req EXCEPT ![l] = Told(@, v, last)]
    BY <1>3
  <2>2. req[l] \in RequesterType /\ v \in {"ok", "err"}
    BY <1>1, <1>2
  <2> DEFINE k == Told(req[l], v, last)
  <2>3. /\ k.pc = (IF v = "err" THEN "ended" ELSE "callback")
        /\ k.out = (IF last THEN v ELSE None) /\ k.closed = last
    BY <2>2 DEF Told, RequesterType
  <2>4. req'[l] = k /\ \A r \in Requesters : r # l => req'[r] = req[r]
    BY <1>2, <2>1
  <2> HIDE DEF k
  <2> QED BY <1>2, <1>3, <2>1, <2>3, <2>4
<1> HIDE DEF l
<1>7. ASSUME NEW r \in Requesters
      PROVE  /\ req'[r].pc = "callback" /\ req'[r].closed => req'[r].out # None
             /\ r # l \/ (~tell.gone /\ ~tell.complete) => (Taken(r) => Taken(r)')
             /\ Among(r, u.left) \/ Among(r, u.kept) => Taken(r)'
             /\ ~(Among(r, u.left) /\ Among(r, u.kept))
             /\ \A f \in Files \ {tell.file} :
                  files[f] # None /\ Among(r, files[f].listeners) => Taken(r)'
  <2>1. req'[r].pc = "callback" /\ req'[r].closed => req'[r].out # None
    BY <1>1, <1>2, <1>6, Assumed DEF OweInv
  <2>2. r # l \/ (~tell.gone /\ ~tell.complete) => (Taken(r) => Taken(r)')
    BY <1>6 DEF Taken
  <2>3. Among(r, u.left) => r # l /\ Among(r, tell.left)
    BY <1>5
  <2>4. Among(r, u.kept) => \/ r # l /\ Among(r, tell.kept)
                            \/ r = l /\ ~tell.gone /\ ~tell.complete
    BY <1>3, <1>4, <1>5
  <2>5. Among(r, u.left) \/ Among(r, u.kept) => Taken(r)'
    BY <1>2, <1>4, <2>2, <2>3, <2>4 DEF OweInv
  <2>6. ~(Among(r, u.left) /\ Among(r, u.kept))
    BY <1>2, <2>3, <2>4 DEF OweInv
  <2>7. ASSUME NEW f \in Files, f # tell.file, files[f] # None, Among(r, files[f].listeners)
        PROVE  Taken(r)'
    <3>1. r # l
      BY <1>2, <1>4, <2>7 DEF ListenInv
    <3> QED BY <1>2, <2>2, <2>7, <3>1 DEF OweInv, HeardOf
  <2> QED BY <2>1, <2>2, <2>5, <2>6, <2>7
<1>8. Distinct(u.left) /\ Distinct(u.kept)
  BY <1>3, <1>4, <1>5
<1>9. CASE u.left = <<>>
  <2>1. files[u.file] \in LiveEntry /\ UpdateDone(u, files, xfer)
    BY <1>1, <1>2, <1>3, <1>9, EntryTypes DEF TellOf
  <2>2. /\ \A f \in Files : f # u.file => files'[f] = files[f]
        /\ u.err => files'[u.file] = None
        /\ ~u.err => files'[u.file].listeners = u.kept
        /\ mgr' # "telling"
    BY <1>2, <1>3, <2>1, UpdateDoneEffect
  <2> QED BY <1>2, <1>3, <1>7, <1>8, <2>2 DEF OweInv, HeardOf
<1>10. CASE u.left # <<>>
  <2>1. tell' = u /\ UNCHANGED <<mgr, files>>
    BY <1>1, <1>10 DEF TellOf
  <2> QED BY <1>2, <1>3, <1>7, <1>8, <2>1 DEF OweInv, HeardOf
<1> QED BY <1>9, <1>10

LEMMA NextOwing == OwingInv /\ [Next]_vars => OwingInv'
<1> SUFFICES ASSUME OwingInv, Next \/ UNCHANGED vars PROVE OwingInv'
  OBVIOUS
<1>1. ServiceInv'
  BY NextService DEF OwingInv
<1>2. OweInv'
  BY Zenon, QuietOwe, ReceiveOwe, UpdateOwe, TellOwe, RestartOwe DEF Next, XferSteps
<1> QED BY <1>1, <1>2 DEF OwingInv

LEMMA OwingInductive == Spec => []OwingInv
<1>1. Init => OwingInv
  BY InitWork, InitListen, InitOwe DEF OwingInv, ServiceInv
<1> QED BY <1>1, NextOwing, PTL DEF Spec


-----------------------------------------------------------------------------
\* The refinement mapping.

\* What has been asked and got, read off a requester's record.
LEMMA AskValues ==
  ASSUME NEW k \in RequesterType, k.pc \in {"idle", "offering"} => k.out = None
  PROVE  /\ k.out = "ok" => AskOf(k) = "ok"
         /\ k.out = "err" => AskOf(k) = "failed"
         /\ k.out = None => AskOf(k) = CASE k.pc = "ended" -> "failed"
                                         [] k.pc = "idle" -> "idle"
                                         [] k.pc = "offering" -> "offered"
                                         [] k.pc \in {"waiting", "callback"} -> "taken"
         /\ k.out \in {"ok", "err", None}
         /\ k.pc \in {"ended", "idle", "offering", "waiting", "callback"}
BY Assumed DEF AskOf, RequesterType

\* Among the requests of Downloads, those taken are the listening requesters'.
LEMMA AskTaken ==
  ASSUME ServiceInv, NEW r \in Requesters
  PROVE  /\ AskNow[r] = AskOf(req[r])
         /\ Taken(r) <=> AskOf(req[r]) = "taken"
<1>1. /\ req[r] \in RequesterType /\ (req[r].pc \in {"idle", "offering"} => req[r].out = None)
  BY DEF ServiceInv, WorkInv, WorkTypes, RequestTypes, ListenInv
<1> QED BY <1>1, AskValues DEF Taken, AskNow

LEMMA AskOne ==
  ASSUME NEW r \in Requesters, NEW k, req \in [Requesters -> RequesterType],
         req' = [req EXCEPT ![r] = k]
  PROVE  AskNow' = [AskNow EXCEPT ![r] = AskOf(k)]
BY DEF AskNow

LEMMA AskSame ==
  ASSUME req' = req
  PROVE  AskNow' = AskNow
BY DEF AskNow

LEMMA NobodyTaken ==
  ASSUME ServiceInv, Listened(files) = {}
  PROVE  Promise!TakenIn(AskNow) = {}
<1>1. ASSUME NEW r \in Requesters, Taken(r) PROVE FALSE
  <2>1. Listening(r, req[r].want)
    BY <1>1 DEF ServiceInv, ListenInv
  <2> QED BY <2>1, AmongNobody DEF Listening, Listened
<1> QED BY <1>1, AskTaken DEF Promise!TakenIn

LEMMA NobodyTakenNext ==
  ASSUME ServiceInv', Listened(files') = {}, NEW r \in Requesters
  PROVE  ~Taken(r)' /\ AskOf(req'[r]) # "taken" /\ AskNow'[r] = AskOf(req'[r])
<1>1. ASSUME Taken(r)' PROVE FALSE
  <2>1. Listening(r, req[r].want)'
    BY <1>1 DEF ServiceInv, ListenInv
  <2> QED BY <2>1, AmongNobody DEF Listening, Listened
<1>2. /\ req'[r] \in RequesterType /\ (req'[r].pc \in {"idle", "offering"} => req'[r].out = None)
  BY DEF ServiceInv, WorkInv, WorkTypes, RequestTypes, ListenInv
<1>3. Taken(r)' <=> req'[r].out = None /\ req'[r].pc \in {"waiting", "callback"}
  BY DEF Taken
<1> QED BY <1>1, <1>2, <1>3, AskValues DEF AskNow

LEMMA SomebodyTaken ==
  ASSUME OwingInv, mgr = "select", Listened(files) # {}
  PROVE  Promise!TakenIn(AskNow) # {}
<1>1. PICK f \in Files : files[f] # None /\ files[f].listeners # <<>>
  BY DEF Listened
<1>2. files[f].listeners \in Seq(Requesters)
  BY <1>1, EntryTypes DEF OwingInv, ServiceInv, WorkInv, WorkTypes, ManagerTypes
<1>3. Head(files[f].listeners) \in Requesters /\ Among(Head(files[f].listeners), files[f].listeners)
  BY <1>1, <1>2, AmongHeadTail, ListenerLists
<1>4. PICK r \in Requesters : Among(r, files[f].listeners)
  BY <1>3
<1>5. Taken(r)
  BY <1>1, <1>4 DEF OwingInv, OweInv, HeardOf
<1> QED BY <1>5, AskTaken DEF OwingInv, Promise!TakenIn

\* Transfers that nobody listens to: how each step changes whether there are any.

LEMMA UnheardSame ==
  ASSUME \A x \in Requesters : Unheard(x)' <=> Unheard(x)
  PROVE  UnheardNow' = UnheardNow
BY DEF UnheardNow

LEMMA UnheardFewer ==
  ASSUME \A x \in Requesters : Unheard(x)' => Unheard(x)
  PROVE  UnheardNow' \in {UnheardNow, FALSE}
BY DEF UnheardNow

\* The table stays, and the transfers are no nearer to their end than before.
LEMMA UnheardQuiet ==
  ASSUME files' = files,
         \A x \in Requesters :
           /\ xfer'[x].file = xfer[x].file
           /\ xfer'[x].pc \in {"unused", "ended"} <=> xfer[x].pc \in {"unused", "ended"}
  PROVE  UnheardNow' = UnheardNow
<1>1. \A x \in Requesters : Unheard(x)' <=> Unheard(x)
  BY DEF Unheard
<1> QED BY <1>1, UnheardSame

LEMMA UnheardReceive ==
  ASSUME WorkInv, NEW r \in Requesters, MgrReceive(r)
  PROVE  /\ UnheardNow' \in {UnheardNow, FALSE}
         /\ files' = files => UnheardNow' = UnheardNow
<1> DEFINE f == req[r].want
<1>1. /\ files \in [Files -> Entries \cup {None}] /\ xfer \in [Requesters -> TransferType]
      /\ Matches(files, xfer) /\ xfer[r].pc = "unused"
  BY DEF WorkInv, WorkTypes, ManagerTypes, TransferTypes, TransferInv, MgrReceive
<1> HIDE DEF f
<1>2. CASE UNCHANGED <<files, xfer>>
  BY <1>2, UnheardQuiet
<1>3. CASE /\ f \in Files /\ Joins(f) /\ xfer' = xfer
           /\ files' = [files EXCEPT ![f].listeners = Append(@, r)]
  <2> DEFINE e == [files[f] EXCEPT !.listeners = Append(@, r)]
  <2>1. files[f] \in LiveEntry /\ files[f] # None
    BY <1>1, <1>3, EntryTypes DEF Joins
  <2>2. files[f].listeners \in Seq(Requesters)
    BY <2>1 DEF LiveEntry
  <2>3. e \in LiveEntry /\ e.listeners = Append(files[f].listeners, r)
    <3>1. Append(files[f].listeners, r) \in Seq(Requesters)
      BY <2>2, ListenerLists
    <3> QED BY <2>1, <3>1 DEF LiveEntry
  <2>4. e.listeners # <<>> /\ e # None /\ e.listeners # files[f].listeners
    <3> DEFINE m == Append(files[f].listeners, r)
    <3>1. Len(m) = Len(files[f].listeners) + 1 /\ Len(files[f].listeners) \in Nat
      BY <2>2
    <3>2. m # <<>> /\ m # files[f].listeners
      BY <3>1
    <3>3. e.listeners = m
      BY <2>3
    <3> HIDE DEF m, e
    <3>4. e # None
      BY <2>3, EntryTypes DEF Entries
    <3> QED BY <3>2, <3>3, <3>4
  <2>5. files' = [files EXCEPT ![f] = e]
    BY <1>3
  <2> HIDE DEF e
  <2>6. \A x \in Requesters : Unheard(x)' => Unheard(x)
    BY <1>1, <1>3, <2>4, <2>5 DEF Unheard, Matches
  <2>7. files' # files
    BY <1>1, <1>3, <2>4, <2>5
  <2> QED BY <2>6, <2>7, UnheardFewer
<1>4. CASE /\ f \in Files /\ ~Joins(f)
           /\ files' = [files EXCEPT ![f] = NewEntry(r)] /\ xfer' = [xfer EXCEPT ![r] = NewTransfer(f)]
  <2>1. NewEntry(r).listeners = <<r>> /\ NewEntry(r) \in LiveEntry /\ <<r>> # <<>>
        /\ NewTransfer(f).file = f /\ ~NewEntry(r).complete
    <3>1. <<r>> \in Seq(Requesters) /\ Len(<<r>>) = 1
      OBVIOUS
    <3> QED BY <3>1 DEF NewEntry, LiveEntry, NewTransfer, UnusedTransfer
  <2>2. NewEntry(r) # None /\ files'[f] = NewEntry(r)
    BY <1>1, <1>4, <2>1, EntryTypes DEF Entries
  <2>3. ASSUME NEW x \in Requesters, Unheard(x)' PROVE Unheard(x)
    <3>1. x # r
      BY <1>1, <1>4, <2>1, <2>2, <2>3 DEF Unheard
    <3>2. xfer'[x] = xfer[x]
      BY <1>1, <1>4, <3>1
    <3>3. xfer[x].pc \notin {"unused", "ended"} /\ xfer[x].file # f /\ xfer[x].file \in Files
      BY <1>1, <1>4, <2>1, <2>2, <2>3, <3>2 DEF Unheard, Matches
    <3>4. files'[xfer[x].file] = files[xfer[x].file]
      BY <1>1, <1>4, <3>3
    <3> QED BY <2>3, <3>2, <3>3, <3>4 DEF Unheard
  <2>4. files' # files
    BY <1>1, <1>4, <2>1, <2>2 DEF Joins, NewEntry
  <2> QED BY <2>3, <2>4, UnheardFewer
<1> QED BY Zenon, <1>2, <1>3, <1>4 DEF MgrReceive, f


\* A download that somebody listens to goes on being listened to while its
\* listeners are told; one that nobody listens to stays so or has ended.
LEMMA UnheardUpdate ==
  ASSUME WorkInv, NEW x \in Requesters, MgrUpdate(x), NEW u \in TellType,
         NEW fs \in [Files -> Entries \cup {None}], NEW xs \in [Requesters -> TransferType],
         UpdateOf(x, u, fs, xs)
  PROVE  IF u.left = <<>> THEN UnheardNow ELSE UnheardNow' = UnheardNow
<1>1. /\ xfer[x].pc \in {"reporting", "finishing"} /\ Matches(files, xfer)
      /\ xfer \in [Requesters -> TransferType] /\ u.file = xfer[x].file /\ u.file \in Files
      /\ u.left = files[u.file].listeners
  BY DEF MgrUpdate, WorkInv, WorkTypes, TransferTypes, TransferInv, UpdateOf
<1>2. CASE u.left = <<>>
  BY <1>1, <1>2 DEF Unheard, UnheardNow
<1>3. CASE u.left # <<>>
  <2>1. files' = fs /\ xfer' = xs /\ fs[u.file].listeners = files[u.file].listeners
        /\ fs[u.file] # None /\ files[u.file] # None
    BY <1>1, <1>3, EntryTypes DEF UpdateOf, Entries
  <2>2. ~Unheard(x)
    BY <1>1, <1>3, <2>1 DEF Unheard
  <2>3. xs[x].file = u.file
    BY <1>1 DEF UpdateOf, TransferType
  <2>4. ~Unheard(x)'
    BY <1>1, <1>3, <2>1, <2>3 DEF Unheard
  <2>5. ASSUME NEW y \in Requesters, y # x PROVE Unheard(y)' <=> Unheard(y)
    <3>1. xfer'[y] = xfer[y]
      BY <2>1, <2>5 DEF UpdateOf
    <3>2. CASE xfer[y].pc \in {"unused", "ended"}
      BY <3>1, <3>2 DEF Unheard
    <3>3. CASE xfer[y].pc \notin {"unused", "ended"}
      <4>1. xfer[y].file \in Files /\ xfer[y].file # u.file
        BY <1>1, <2>5, <3>3 DEF Matches
      <4>2. files'[xfer[y].file] = files[xfer[y].file]
        BY <2>1, <4>1 DEF UpdateOf
      <4> QED BY <3>1, <4>2 DEF Unheard
    <3> QED BY <3>2, <3>3
  <2> QED BY <1>3, <2>2, <2>4, <2>5, UnheardSame
<1> QED BY <1>2, <1>3

\* The listener told last may have been the last to listen, if it gave up.
LEMMA UnheardTell ==
  ASSUME WorkInv, MgrTell, NEW u \in TellType, NEW v \in {"ok", "err"}, TellOf(u, v)
  PROVE  \/ UnheardNow' = UnheardNow
         \/ UnheardNow' = TRUE /\ tell.gone /\ v = "err" /\ Head(tell.left) \in cancelled
<1>1. /\ mgr = "telling" /\ TellInv /\ Matches(files, xfer) /\ xfer \in [Requesters -> TransferType]
      /\ files \in [Files -> Entries \cup {None}] /\ u.file = tell.file /\ u.kept \in Seq(Requesters)
      /\ u.kept = Kept(tell) /\ u.complete = tell.complete /\ u.err = tell.err
      /\ (tell.gone /\ ~tell.complete => v = "err")
  BY DEF MgrTell, WorkInv, WorkTypes, ManagerTypes, TransferTypes, TransferInv, TellOf, TellType
<1>2. /\ tell.file \in Files /\ files[tell.file] # None /\ files[tell.file].xfer \in Requesters
      /\ files[tell.file].listeners # <<>> /\ (tell.err => tell.complete)
      /\ (tell.complete <=> files[tell.file].complete) /\ (tell.gone => Head(tell.left) \in cancelled)
  BY <1>1 DEF TellInv
<1>3. CASE u.left # <<>>
  BY <1>3, UnheardQuiet DEF TellOf
<1>4. CASE u.left = <<>>
  <2>1. files[u.file] \in LiveEntry /\ UpdateDone(u, files, xfer)
    BY <1>1, <1>2, <1>4, EntryTypes DEF TellOf
  <2>2. /\ \A f \in Files : f # u.file => files'[f] = files[f]
        /\ ~u.err => files'[u.file] # None /\ files'[u.file].listeners = u.kept
        /\ \A x \in Requesters : GoesOn(xfer', xfer, x)
    BY <1>1, <1>2, <2>1, UpdateDoneEffect
  <2>3. ASSUME NEW y \in Requesters
        PROVE  /\ Unheard(y) => Unheard(y)'
               /\ tell.complete \/ u.kept # <<>> => (Unheard(y)' => Unheard(y))
    <3>1. xfer'[y].pc = xfer[y].pc /\ xfer'[y].file = xfer[y].file
      BY <2>2 DEF GoesOn
    <3>2. CASE xfer[y].pc \in {"unused", "ended"}
      BY <3>1, <3>2 DEF Unheard
    <3>3. CASE xfer[y].pc \notin {"unused", "ended"}
      <4>1. xfer[y].file \in Files /\ (xfer[y].file = u.file => ~tell.complete)
        BY <1>1, <1>2, <3>3 DEF Matches
      <4>2. CASE xfer[y].file = u.file
        BY <1>1, <1>2, <2>2, <3>1, <4>1, <4>2 DEF Unheard
      <4>3. CASE xfer[y].file # u.file
        BY <2>2, <3>1, <4>1, <4>3 DEF Unheard
      <4> QED BY <4>2, <4>3
    <3> QED BY <3>2, <3>3
  <2>4. CASE tell.complete \/ u.kept # <<>>
    BY <2>3, <2>4, UnheardSame
  <2>5. CASE ~tell.complete /\ u.kept = <<>>
    <3>1. tell.gone
      <4>1. ASSUME ~tell.gone PROVE FALSE
        <5>1. u.kept = Append(tell.kept, Head(tell.left)) /\ tell.kept \in Seq(Requesters)
          BY <1>1, <2>5, <4>1 DEF Kept, WorkInv, WorkTypes, ManagerTypes, TellType
        <5>2. Len(u.kept) = Len(tell.kept) + 1 /\ Len(tell.kept) \in Nat
          BY <5>1
        <5> QED BY <2>5, <5>2
      <4> QED BY <4>1
    <3>2. UnheardNow => UnheardNow'
      BY <2>3 DEF UnheardNow
    <3> QED BY <1>1, <1>2, <2>5, <3>1, <3>2 DEF UnheardNow
  <2> QED BY <2>4, <2>5
<1> QED BY <1>3, <1>4

\* No transfer is left when all are unused or have ended.
LEMMA NoneUnheard ==
  ASSUME NEW xs, \A x \in Requesters : xs[x].pc \in {"unused", "ended"}
  PROVE  /\ xfer = xs => UnheardNow = FALSE
         /\ xfer' = xs => UnheardNow' = FALSE
BY DEF Unheard, UnheardNow


\* A step of Downloads, or one that it does not see.
Promised == Promise!DNext \/ UNCHANGED <<ManagerOf, AskNow, UnheardNow>>

LEMMA InitPromise == Init => Promise!DInit
<1> SUFFICES ASSUME Init PROVE Promise!DInit
  OBVIOUS
<1>1. ManagerOf = "serving"
  BY DEF Init, ManagerOf
<1>2. AskOf(IdleRequester) = "idle"
  BY Assumed DEF AskOf, IdleRequester
<1>3. AskNow = [r \in Requesters |-> "idle"]
  BY <1>2 DEF Init, AskNow
<1>4. UnheardNow = FALSE
  BY NoneUnheard DEF Init, UnusedTransfer
<1> QED BY <1>1, <1>3, <1>4 DEF Promise!DInit

LEMMA RequesterPromise ==
  ASSUME OwingInv, NEW r \in Requesters, NEW f \in Files \cup {BadURL},
         Request(r, f) \/ Cancel(r) \/ Callback(r)
  PROVE  Promised
<1>1. /\ req \in [Requesters -> RequesterType] /\ req[r] \in RequesterType /\ ServiceInv
      /\ (req[r].pc \in {"idle", "offering"} => req[r].out = None)
  BY DEF OwingInv, ServiceInv, WorkInv, WorkTypes, RequestTypes, ListenInv
<1>2. ManagerOf' = ManagerOf /\ UnheardNow' = UnheardNow
  BY UnheardQuiet DEF Request, Cancel, Callback, manager, ManagerOf
<1>3. CASE Request(r, f)
  <2> DEFINE k == [req[r] EXCEPT !.pc = "offering", !.want = f]
  <2>1. k \in RequesterType /\ k.pc = "offering" /\ k.out = None /\ req[r].pc = "idle" /\ req[r].out = None
    BY <1>1, <1>3 DEF Request, RequesterType
  <2>2. req' = [req EXCEPT ![r] = k]
    BY <1>3 DEF Request
  <2> HIDE DEF k
  <2>3. AskOf(req[r]) = "idle" /\ AskOf(k) = "offered"
    BY <1>1, <2>1, AskValues
  <2>4. AskNow[r] = "idle" /\ AskNow' = [AskNow EXCEPT ![r] = "offered"]
    BY <1>1, <2>2, <2>3, AskOne, AskTaken
  <2> QED BY <1>2, <2>4 DEF Promised, Promise!DNext, Promise!Offer
<1>4. CASE Cancel(r)
  BY <1>2, <1>4, AskSame DEF Cancel, Promised
<1>5. CASE Callback(r)
  <2> DEFINE k == [req[r] EXCEPT !.pc = IF req[r].closed THEN "ended" ELSE "waiting"]
  <2>1. /\ req[r].pc = "callback" /\ k \in RequesterType /\ k.out = req[r].out
        /\ k.pc = (IF req[r].closed THEN "ended" ELSE "waiting")
        /\ req[r].closed => req[r].out # None
    BY <1>1, <1>5 DEF Callback, RequesterType, OwingInv, OweInv
  <2>2. req' = [req EXCEPT ![r] = k]
    BY <1>5 DEF Callback
  <2> HIDE DEF k
  <2>3. AskOf(k) = AskOf(req[r])
    BY <1>1, <2>1, AskValues
  <2>4. AskNow' = [AskNow EXCEPT ![r] = AskNow[r]]
    BY <1>1, <2>2, <2>3, AskOne, AskTaken
  <2>5. AskNow' = AskNow
    BY <2>4 DEF AskNow
  <2> QED BY <1>2, <2>5 DEF Promised
<1> QED BY <1>3, <1>4, <1>5


LEMMA ReceivePromise ==
  ASSUME OwingInv, NEW r \in Requesters, MgrReceive(r)
  PROVE  Promised
<1>1. /\ req \in [Requesters -> RequesterType] /\ req[r] \in RequesterType /\ ServiceInv
      /\ mgr = "select" /\ req[r].pc = "offering" /\ req[r].out = None
      /\ ManagerOf' = ManagerOf /\ ManagerOf = (IF shutting THEN "stopping" ELSE "serving")
  BY DEF OwingInv, ServiceInv, WorkInv, WorkTypes, RequestTypes, ListenInv, MgrReceive, ManagerOf
<1>2. AskNow[r] = "offered"
  BY <1>1, AskTaken, AskValues
<1>3. ASSUME NEW k \in RequesterType, req' = [req EXCEPT ![r] = k],
             \/ k.out \in {"ok", "err"} /\ k.pc \in {"callback", "ended"} /\ files' = files
             \/ k.out = None /\ k.pc = "waiting" /\ ~shutting
      PROVE  Promised
  <2>1. AskOf(k) \in {"ok", "failed"} \/ (AskOf(k) = "taken" /\ ~shutting)
    BY <1>3, AskValues
  <2>2. AskNow' = [AskNow EXCEPT ![r] = AskOf(k)]
    BY <1>1, <1>3, AskOne
  <2>3. UnheardNow' \in {UnheardNow} \cup (IF AskOf(k) = "taken" THEN {FALSE} ELSE {})
    BY <1>1, <1>3, UnheardReceive, AskValues DEF ServiceInv
  <2>4. Promise!Take(r)
    BY <1>1, <1>2, <2>1, <2>2, <2>3 DEF Promise!Take, Promise!Receiving
  <2> QED BY <2>4 DEF Promised, Promise!DNext
<1>4. CASE files' = files /\ req' = [req EXCEPT ![r] = Told(@, "err", TRUE)]
  BY <1>1, <1>3, <1>4, ToldType
<1>5. CASE files' = files /\ req' = [req EXCEPT ![r] = Told(@, "ok", TRUE)]
  BY <1>1, <1>3, <1>5, ToldType
<1>6. CASE /\ files' = files
           /\ req' = [req EXCEPT ![r] = [Told(@, "ok", TRUE) EXCEPT !.pc = "ended"]]
  <2> DEFINE k == [Told(req[r], "ok", TRUE) EXCEPT !.pc = "ended"]
  <2>1. k \in RequesterType /\ k.out = "ok" /\ k.pc = "ended"
    BY <1>1 DEF Told, RequesterType
  <2>2. req' = [req EXCEPT ![r] = k]
    BY <1>6
  <2> HIDE DEF k
  <2> QED BY <1>3, <1>6, <2>1, <2>2
<1>7. CASE ~shutting /\ req' = [req EXCEPT ![r].pc = "waiting"]
  <2> DEFINE k == [req[r] EXCEPT !.pc = "waiting"]
  <2>1. k \in RequesterType /\ k.out = None /\ k.pc = "waiting"
    BY <1>1 DEF RequesterType
  <2>2. req' = [req EXCEPT ![r] = k]
    BY <1>7
  <2> HIDE DEF k
  <2> QED BY <1>3, <1>7, <2>1, <2>2
<1> QED BY <1>4, <1>5, <1>6, <1>7 DEF MgrReceive

\* A transfer that nobody listens to reports: the manager may leave.
LEMMA UpdatePromise ==
  ASSUME OwingInv, ServiceInv', NEW x \in Requesters, MgrUpdate(x)
  PROVE  Promised
<1>1. PICK u \in TellType, fs \in [Files -> Entries \cup {None}],
           xs \in [Requesters -> TransferType] : UpdateOf(x, u, fs, xs)
  BY MgrUpdateEffect DEF OwingInv, ServiceInv
<1>2. req' = req /\ mgr = "select" /\ shutting' = shutting /\ shutting \in BOOLEAN
  BY DEF MgrUpdate, OwingInv, ServiceInv, WorkInv, WorkTypes, ManagerTypes
<1>3. AskNow' = AskNow
  BY <1>2, AskSame
<1>4. CASE u.left # <<>>
  <2>1. UnheardNow' = UnheardNow
    BY <1>1, <1>4, UnheardUpdate DEF OwingInv, ServiceInv
  <2> QED BY <1>1, <1>2, <1>3, <1>4, <2>1 DEF UpdateOf, ManagerOf, Promised
<1>5. CASE u.left = <<>>
  <2>0. UnheardNow /\ UnheardNow' \in BOOLEAN
    BY <1>1, <1>5, UnheardUpdate DEF OwingInv, ServiceInv, UnheardNow
  <2>1. mgr' = IF Leaves(files') THEN "waiting" ELSE "select"
    <3>1. u.file \in Files /\ fs[u.file] \in LiveEntry /\ u.kept \in Seq(Requesters) /\ UpdateDone(u, fs, xs)
      BY <1>1, <1>5 DEF UpdateOf, TellType
    <3> QED BY <3>1, UpdateDoneEffect
  <2>2. /\ ManagerOf \in {"serving", "stopping"}
        /\ ManagerOf' = ManagerOf \/ (ManagerOf = "stopping" /\ ManagerOf' = "gone")
        /\ Leaves(files') \/ ManagerOf' = ManagerOf
    BY <1>2, <2>1 DEF ManagerOf, Leaves
  <2>3. Leaves(files') => Promise!TakenIn(AskNow') = {} /\ Promise!TakenIn(AskNow) = {}
    BY <1>3, NobodyTakenNext DEF Leaves, Promise!TakenIn
  <2>4. CASE UnheardNow'
    <3>1. UnheardNow' = UnheardNow
      BY <2>0, <2>4
    <3> QED BY <1>3, <2>2, <2>3, <3>1 DEF Promised, Promise!DNext, Promise!Leave
  <2>5. CASE ~UnheardNow'
    <3>1. Promise!MayLeave
      BY <2>2, <2>3 DEF Promise!MayLeave
    <3>2. UnheardNow' = FALSE
      BY <2>0, <2>5
    <3>3. Promise!Report
      BY <1>3, <2>0, <2>2, <3>1, <3>2 DEF Promise!Report, Promise!Receiving
    <3> QED BY <3>3 DEF Promised, Promise!DNext
  <2> QED BY <2>4, <2>5
<1> QED BY <1>4, <1>5

LEMMA TellPromise ==
  ASSUME OwingInv, ServiceInv', MgrTell
  PROVE  Promised
<1> DEFINE l == Head(tell.left)
<1>1. PICK u \in TellType, v \in {"ok", "err"} : TellOf(u, v)
  BY MgrTellEffect DEF OwingInv, ServiceInv
<1>2. /\ mgr = "telling" /\ OweInv /\ ServiceInv /\ tell.file \in Files /\ files[tell.file] # None
      /\ files[tell.file].xfer \in Requesters /\ (tell.err => tell.complete)
      /\ files \in [Files -> Entries \cup {None}] /\ xfer \in [Requesters -> TransferType]
      /\ req \in [Requesters -> RequesterType] /\ shutting \in BOOLEAN
      /\ tell.left # <<>> /\ tell.left \in Seq(Requesters)
      /\ l \in Requesters /\ shutting' = shutting /\ req[l].pc = "waiting"
  BY MgrTellEffect
     DEF MgrTell, OwingInv, ServiceInv, WorkInv, TellInv, WorkTypes, ManagerTypes, TransferTypes,
         RequestTypes, TellType
<1>3. /\ u.file = tell.file /\ u.kept \in Seq(Requesters) /\ (~tell.gone /\ ~tell.err => v = "ok")
      /\ req' = [req EXCEPT ![l] = Told(@, v, tell.gone \/ tell.complete)]
  BY <1>1 DEF TellOf, TellType
<1>4. Taken(l)
  BY <1>2, AmongHeadTail DEF OweInv
<1> HIDE DEF l
<1>5. PICK last \in BOOLEAN : /\ last <=> tell.gone \/ tell.complete
                              /\ req' = [req EXCEPT ![l] = Told(@, v, last)]
  BY <1>3
<1> DEFINE k == Told(req[l], v, last)
<1>6. /\ k \in RequesterType /\ k.out = (IF last THEN v ELSE None)
      /\ k.pc = (IF v = "err" THEN "ended" ELSE "callback")
      /\ req' = [req EXCEPT ![l] = k] /\ (~last => v = "ok")
  <2>1. req[l] \in RequesterType /\ v \in {"ok", "err"} /\ last \in BOOLEAN
    BY <1>1, <1>2
  <2>2. ~last => v = "ok"
    BY <1>2, <1>3, <1>5
  <2>3. req' = [req EXCEPT ![l] = k]
    BY <1>5
  <2>4. /\ k \in RequesterType /\ k.out = (IF last THEN v ELSE None)
        /\ k.pc = (IF v = "err" THEN "ended" ELSE "callback")
    BY <2>1 DEF Told, RequesterType
  <2> QED BY <2>2, <2>3, <2>4
<1> HIDE DEF k
<1>7. AskOf(k) = IF last THEN (IF v = "ok" THEN "ok" ELSE "failed") ELSE "taken"
  BY <1>1, <1>6, AskValues
<1>8. /\ AskNow' = [AskNow EXCEPT ![l] = AskOf(k)] /\ AskNow[l] = "taken"
      /\ AskNow'[l] = AskOf(k)
  <2>1. AskNow[l] = "taken"
    BY <1>2, <1>4, AskTaken
  <2>2. AskNow' = [AskNow EXCEPT ![l] = AskOf(k)]
    BY <1>2, <1>6, AskOne
  <2>3. AskNow'[l] = AskOf(k)
    BY <1>2, <2>2 DEF AskNow
  <2> QED BY <2>1, <2>2, <2>3
<1>9. ManagerOf = IF shutting THEN "stopping" ELSE "serving"
  BY <1>2 DEF ManagerOf
<1>10. \/ ManagerOf' = ManagerOf
       \/ ManagerOf = "stopping" /\ ManagerOf' = "gone" /\ Leaves(files')
  <2>1. CASE u.left # <<>>
    BY <1>1, <1>2, <2>1 DEF TellOf, ManagerOf
  <2>2. CASE u.left = <<>>
    <3>1. files[u.file] \in LiveEntry /\ UpdateDone(u, files, xfer)
      BY <1>1, <1>2, <1>3, <2>2, EntryTypes DEF TellOf
    <3>2. mgr' = IF Leaves(files') THEN "waiting" ELSE "select"
      BY <1>2, <1>3, <3>1, UpdateDoneEffect
    <3> QED BY <1>2, <1>9, <3>2 DEF ManagerOf, Leaves
  <2> QED BY <2>1, <2>2
<1>11. Leaves(files') => Promise!TakenIn(AskNow') = {} /\ AskOf(k) # "taken"
  BY <1>2, <1>8, NobodyTakenNext DEF Leaves, Promise!TakenIn
<1>12. \/ UnheardNow' = UnheardNow
       \/ UnheardNow' = TRUE /\ last /\ v = "err" /\ l \in cancelled
  <2>1. \/ UnheardNow' = UnheardNow
        \/ UnheardNow' = TRUE /\ tell.gone /\ v = "err" /\ Head(tell.left) \in cancelled
    BY <1>1, UnheardTell DEF OwingInv, ServiceInv
  <2> QED BY <1>5, <2>1 DEF l
<1>13. CASE last
  <2>1. AskOf(k) \in {"ok", "failed"} /\ (v = "err" => AskOf(k) = "failed")
    BY <1>1, <1>7, <1>13
  <2>2. Promise!MayLeave
    BY <1>10, <1>11 DEF Promise!MayLeave
  <2>3. UnheardNow' \in {UnheardNow} \cup (IF AskOf(k) = "failed" /\ l \in cancelled THEN {TRUE} ELSE {})
    BY <1>12, <2>1
  <2>4. Promise!Receiving
    BY <1>9 DEF Promise!Receiving
  <2>5. Promise!Answer(l)
    BY <1>8, <2>1, <2>2, <2>3, <2>4 DEF Promise!Answer
  <2> QED BY <1>2, <2>5 DEF Promised, Promise!DNext
<1>14. CASE ~last
  <2>1. AskOf(k) = "taken" /\ AskNow' = [AskNow EXCEPT ![l] = AskNow[l]]
    BY <1>7, <1>8, <1>14
  <2>2. AskNow' = AskNow
    BY <2>1 DEF AskNow
  <2> QED BY <1>10, <1>11, <1>14, <1>12, <2>1, <2>2 DEF Promised
<1> QED BY <1>5, <1>13, <1>14


LEMMA EndPromise ==
  ASSUME OwingInv, MgrDone \/ MgrStop
  PROVE  Promised
<1>1. req' = req /\ AskNow' = AskNow
  BY AskSame DEF MgrDone, MgrStop
<1>2. CASE MgrStop
  <2>1. ManagerOf = "gone" /\ ManagerOf' = "exited"
    BY <1>2 DEF MgrStop, ManagerOf
  <2>2. UnheardNow = FALSE /\ UnheardNow' = FALSE
    BY <1>2, NoneUnheard DEF MgrStop
  <2> QED BY <1>1, <2>1, <2>2 DEF Promised, Promise!DNext, Promise!Return
<1>3. CASE MgrDone
  <2>1. ManagerOf = "serving" /\ mgr = "select"
    BY <1>3 DEF MgrDone, ManagerOf
  <2>4. UnheardNow' = UnheardNow
    <3>1. xfer \in [Requesters -> TransferType] /\ files' = files
      BY <1>3 DEF MgrDone, OwingInv, ServiceInv, WorkInv, WorkTypes, TransferTypes
    <3>2. ASSUME NEW x \in Requesters PROVE xfer'[x].pc = xfer[x].pc /\ xfer'[x].file = xfer[x].file
      <4>1. xfer'[x] \in {xfer[x], [xfer[x] EXCEPT !.stop = TRUE]}
        BY <1>3 DEF MgrDone, Stopped
      <4> QED BY <3>1, <4>1, StopGoesOn
    <3> QED BY <3>1, <3>2, UnheardQuiet
  <2>2. CASE Listened(files) = {}
    <3>1. ManagerOf' = "gone" /\ Promise!TakenIn(AskNow) = {}
      BY <1>3, <2>2, NobodyTaken DEF MgrDone, ManagerOf, OwingInv
    <3> QED BY <1>1, <2>1, <2>4, <3>1 DEF Promised, Promise!DNext, Promise!Stop
  <2>3. CASE Listened(files) # {}
    <3>1. ManagerOf' = "stopping" /\ Promise!TakenIn(AskNow) # {}
      BY <1>3, <2>1, <2>3, SomebodyTaken DEF MgrDone, ManagerOf
    <3> QED BY <1>1, <2>1, <2>4, <3>1 DEF Promised, Promise!DNext, Promise!Stop
  <2> QED BY <2>2, <2>3
<1> QED BY <1>2, <1>3

LEMMA QuietPromise ==
  ASSUME OwingInv,
         \/ \E x \in Requesters : XferSteps(x)
         \/ Done \/ (\E f \in Files : Removed(f)) \/ UNCHANGED vars
  PROVE  Promised
<1>1. UNCHANGED <<mgr, shutting, req, files>>
  BY DEF XferSteps, XferCreate, XferAnswered, XferRead, XferUnpack, XferUnpacked, Done, Removed,
         vars, manager
<1>2. UnheardNow' = UnheardNow
  <2>1. CASE xfer' = xfer
    BY <1>1, <2>1, UnheardQuiet
  <2>2. ASSUME NEW x \in Requesters, XferSteps(x) PROVE UnheardNow' = UnheardNow
    <3>1. PICK t, d : XferTo(x, t, d)
      BY <2>2, XferEffect DEF OwingInv, ServiceInv
    <3>2. xfer[x].pc \notin {"unused", "ended"} /\ xfer \in [Requesters -> TransferType]
      BY <2>2, XferEffect DEF OwingInv, ServiceInv, WorkInv, WorkTypes, TransferTypes
    <3>3. \A y \in Requesters : /\ xfer'[y].file = xfer[y].file
                                /\ xfer'[y].pc \in {"unused", "ended"} <=> xfer[y].pc \in {"unused", "ended"}
      BY <3>1, <3>2 DEF XferTo
    <3> QED BY <1>1, <3>3, UnheardQuiet
  <2> QED BY <2>1, <2>2 DEF Done, Removed, vars
<1> QED BY <1>1, <1>2, AskSame DEF ManagerOf, Promised

\* What was open when the process ended has failed; what was answered stays so.
LEMMA RestartPromise ==
  ASSUME OwingInv, Restart
  PROVE  Promised
<1>1. ManagerOf' = "serving"
  BY DEF Restart, ManagerOf
<1>2. ASSUME NEW r \in Requesters
      PROVE  /\ AskNow'[r] \in {"idle", "ok", "failed"}
             /\ AskNow'[r] = "ok" => AskNow[r] = "ok"
             /\ AskNow[r] = "idle" => AskNow'[r] = "idle"
  <2> DEFINE k == [req[r] EXCEPT !.pc = "ended", !.out = None]
  <2>1. /\ req[r] \in RequesterType /\ (req[r].pc \in {"idle", "offering"} => req[r].out = None)
        /\ AskNow[r] = AskOf(req[r]) /\ AskNow'[r] = AskOf(req'[r])
        /\ req'[r] = IF req[r].pc \in {"idle", "ended"} THEN req[r] ELSE k
    BY DEF OwingInv, ServiceInv, WorkInv, WorkTypes, RequestTypes, ListenInv, AskNow, Restart
  <2>2. k \in RequesterType /\ k.pc = "ended" /\ k.out = None
    BY <2>1 DEF RequesterType
  <2> HIDE DEF k
  <2>3. AskOf(k) = "failed"
    BY <2>2, AskValues
  <2>4. CASE req[r].pc \in {"idle", "ended"}
    <3>1. AskOf(req[r]) \in {"idle", "ok", "failed"}
      BY <2>1, <2>4, AskValues
    <3> QED BY <2>1, <2>4, <3>1
  <2>5. CASE req[r].pc \notin {"idle", "ended"}
    <3>1. AskOf(req[r]) # "idle"
      BY <2>1, <2>5, AskValues
    <3> QED BY <2>1, <2>3, <2>5, <3>1
  <2> QED BY <2>4, <2>5
<1>3. AskNow' \in [Requesters -> {"idle", "ok", "failed"}]
  <2>1. AskNow' = [r \in Requesters |-> AskNow'[r]]
    BY DEF AskNow
  <2> QED BY <1>2, <2>1
<1>4. UnheardNow' = FALSE
  <2>1. \A x \in Requesters : xfer'[x].pc \in {"unused", "ended"}
    <3>1. xfer \in [Requesters -> TransferType]
      BY DEF OwingInv, ServiceInv, WorkInv, WorkTypes, TransferTypes
    <3>2. ASSUME NEW x \in Requesters
          PROVE  xfer'[x] = IF xfer[x].pc = "unused" THEN xfer[x] ELSE [xfer[x] EXCEPT !.pc = "ended"]
      BY DEF Restart
    <3> QED BY <3>1, <3>2 DEF TransferType
  <2> QED BY <2>1, NoneUnheard
<1> QED BY <1>1, <1>2, <1>3, <1>4 DEF Promised, Promise!DNext, Promise!Restart

LEMMA NextPromise ==
  ASSUME OwingInv, OwingInv', [Next]_vars
  PROVE  [Promise!DNext]_<<ManagerOf, AskNow, UnheardNow>>
<1>1. Next \/ UNCHANGED vars
  OBVIOUS
<1>2. ServiceInv' /\ BadURL \in Files \cup {BadURL}
  BY DEF OwingInv
<1>3. Promised
  BY Zenon, <1>1, <1>2, RequesterPromise, ReceivePromise, UpdatePromise, TellPromise, EndPromise,
     RestartPromise, QuietPromise DEF Next, XferSteps
<1> QED BY <1>3 DEF Promised

\* Every behaviour of the download manager is one that Downloads allows: with
\* any number of requesters, files and restarts, whatever fails or is cancelled
\* and whenever the service is told to stop, the manager answers every request
\* it has taken before it leaves, unless the process is started again.
THEOREM ImplementsDownloads == Spec => KeepsDownloads
<1>1. OwingInv /\ OwingInv' /\ [Next]_vars => [Promise!DNext]_<<ManagerOf, AskNow, UnheardNow>>
  BY NextPromise
<1> QED BY <1>1, InitPromise, OwingInductive, PTL DEF Spec, KeepsDownloads, Promise!DSpec, Promise!dvars

\* Downloads leaves nobody waiting for a manager that is gone.
NoneAbandoned ==
  ManagerOf \in {"gone", "exited"} => \A r \in Requesters : AskNow[r] # "taken"

LEMMA PromiseLeavesNobody ==
  ASSUME NoneAbandoned, [Promise!DNext]_<<ManagerOf, AskNow, UnheardNow>>
  PROVE  NoneAbandoned'
<1>1. /\ DOMAIN AskNow = Requesters
      /\ \A r \in Requesters : AskNow'[r] # "taken" \/ r \in Promise!TakenIn(AskNow')
  BY DEF AskNow, Promise!TakenIn
<1>2. ASSUME UNCHANGED <<ManagerOf, AskNow, UnheardNow>> PROVE NoneAbandoned'
  BY <1>2 DEF NoneAbandoned
<1>3. ASSUME NEW r \in Requesters, Promise!Offer(r) \/ Promise!Collect(r) PROVE NoneAbandoned'
  BY <1>1, <1>3 DEF NoneAbandoned, Promise!Offer, Promise!Collect
<1>4. ASSUME NEW r \in Requesters, Promise!Take(r) \/ Promise!Answer(r) PROVE NoneAbandoned'
  BY <1>1, <1>4 DEF NoneAbandoned, Promise!Take, Promise!Answer, Promise!Receiving, Promise!MayLeave
<1>5. ASSUME Promise!Stop \/ Promise!Leave \/ Promise!Return \/ Promise!Restart PROVE NoneAbandoned'
  BY <1>1, <1>5 DEF NoneAbandoned, Promise!Stop, Promise!Leave, Promise!Return, Promise!Restart
<1>6. ASSUME Promise!Report PROVE NoneAbandoned'
  BY <1>1, <1>6 DEF NoneAbandoned, Promise!Report, Promise!Receiving, Promise!MayLeave
<1> QED BY <1>2, <1>3, <1>4, <1>5, <1>6 DEF Promise!DNext

\* No downloadFile is left waiting, or in its progress callback with its answer
\* still to come, once the manager has left its select for good.
THEOREM NobodyLeftWaiting ==
  Spec => [](mgr \in {"waiting", "exited"} => \A r \in Requesters : ~Taken(r))
<1>1. Promise!DInit => NoneAbandoned
  BY DEF Promise!DInit, NoneAbandoned
<1>2. NoneAbandoned /\ [Promise!DNext]_<<ManagerOf, AskNow, UnheardNow>> => NoneAbandoned'
  BY PromiseLeavesNobody
<1>3. OwingInv /\ NoneAbandoned => (mgr \in {"waiting", "exited"} => \A r \in Requesters : ~Taken(r))
  BY AskTaken DEF OwingInv, NoneAbandoned, ManagerOf
<1>4. Spec => Promise!DSpec
  BY ImplementsDownloads DEF KeepsDownloads
<1> QED BY <1>1, <1>2, <1>3, <1>4, OwingInductive, PTL DEF Promise!DSpec, Promise!dvars
=============================================================================
