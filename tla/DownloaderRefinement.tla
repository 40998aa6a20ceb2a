------------------------ MODULE DownloaderRefinement ------------------------
(***************************************************************************)
(* Downloader implements Downloads: a request is taken while its requester *)
(* listens to a download, and answered when the last message reaches it.   *)
(* Requests are not made again, so nothing is collected.                   *)
(***************************************************************************)
EXTENDS Downloader

\* The manager is "gone" once it has left its select for good.
ManagerOf == IF mgr = "waiting" THEN "gone"
             ELSE IF mgr = "exited" THEN "exited"
             ELSE IF shutting THEN "stopping" ELSE "serving"

\* What the requester whose record is k has asked for and got.
AskOf(k) ==
  CASE k.out = "ok"  -> "ok"
    [] k.out = "err" -> "failed"
    [] k.pc = "ended" /\ k.out = None -> "failed"
    [] k.pc = "idle" -> "idle"
    [] k.pc = "offering" -> "offered"
    [] OTHER -> "taken"

AskNow == [r \in Requesters |-> AskOf(req[r])]

\* Transfer x has still to report, and its file's entry lists nobody.
Unheard(x) ==
  /\ xfer[x].pc \notin {"unused", "ended"}
  /\ files[xfer[x].file] # None => files[xfer[x].file].listeners = <<>>

UnheardNow == \E x \in Requesters : Unheard(x)

Promise == INSTANCE Downloads WITH
  man <- ManagerOf, ask <- AskNow, unheard <- UnheardNow, givenUp <- cancelled

\* Every behaviour of the download manager is one that Downloads allows: no
\* request that it has taken is left without an answer when it leaves.
KeepsDownloads == Promise!DSpec
=============================================================================
