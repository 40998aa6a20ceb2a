------------------------------ MODULE Downloads ------------------------------
(***************************************************************************)
(* What the callers of downloadFile may rely on, without files, transfers  *)
(* and listeners: a request that the download manager has taken is         *)
(* answered before the manager leaves, unless the process is started anew; *)
(* one that is only offered may wait for ever.  The manager returns after  *)
(* that, unless a transfer nobody listens to has still to report to it.    *)
(* Downloader implements this; Backend is composed with it.                *)
(***************************************************************************)
EXTENDS FiniteSets

CONSTANT Requesters

VARIABLES
  man,      \* the manager: "serving", "stopping" after doneCh is closed, "gone"
            \* when it has left its select for good, "exited"
  ask,      \* the request of every requester
  unheard,  \* a transfer that nobody listens to has still to report its end
  givenUp   \* the requesters whose context is done; they change it themselves

dvars == <<man, ask, unheard>>

DTypeOK ==
  /\ man \in {"serving", "stopping", "gone", "exited"} /\ unheard \in BOOLEAN
  /\ ask \in [Requesters -> {"idle", "offered", "taken", "ok", "failed"}]

TakenIn(a) == {r \in Requesters : a[r] = "taken"}

Receiving == man \in {"serving", "stopping"}

DInit == man = "serving" /\ ask = [r \in Requesters |-> "idle"] /\ unheard = FALSE

\* downloadFile waits on downloadCh, whether or not anybody receives.
Offer(r) ==
  /\ ask[r] = "idle" /\ ask' = [ask EXCEPT ![r] = "offered"]
  /\ UNCHANGED <<man, unheard>>

\* The manager receives the request, and answers at once when it has the file
\* already, cannot parse the URL or is stopping.  A taken request may be
\* for what the unheard transfer fetches.
Take(r) ==
  /\ Receiving /\ ask[r] = "offered"
  /\ \E v \in {"ok", "failed"} \cup (IF man = "serving" THEN {"taken"} ELSE {}) :
       /\ ask' = [ask EXCEPT ![r] = v]
       /\ unheard' \in {unheard} \cup (IF v = "taken" THEN {FALSE} ELSE {})
  /\ UNCHANGED man

\* The manager may leave with an answer or a report if nothing else is taken.
MayLeave == man' \in {man} \cup (IF man = "stopping" /\ TakenIn(ask') = {} THEN {"gone"} ELSE {})

\* A taken request is answered.  The transfer of one that fails because its
\* context is done may go on with nobody to listen to it.
Answer(r) ==
  /\ Receiving /\ ask[r] = "taken"
  /\ \E v \in {"ok", "failed"} :
       /\ ask' = [ask EXCEPT ![r] = v]
       /\ unheard' \in {unheard} \cup (IF v = "failed" /\ r \in givenUp THEN {TRUE} ELSE {})
  /\ MayLeave

\* The transfers that nobody listened to have reported their end.
Report ==
  /\ Receiving /\ unheard /\ unheard' = FALSE
  /\ UNCHANGED ask /\ MayLeave

\* The caller has read the answer and may ask again.
Collect(r) ==
  /\ ask[r] \in {"ok", "failed"} /\ ask' = [ask EXCEPT ![r] = "idle"]
  /\ UNCHANGED <<man, unheard>>

\* The manager sees that doneCh is closed.
Stop ==
  /\ man = "serving"
  /\ man' = IF TakenIn(ask) = {} THEN "gone" ELSE "stopping"
  /\ UNCHANGED <<ask, unheard>>

\* The manager's last download has ended and nobody listened.
Leave ==
  /\ man = "stopping" /\ TakenIn(ask) = {} /\ man' = "gone"
  /\ UNCHANGED <<ask, unheard>>

\* The manager waits for its transfers, each of which sends it a last report.
Return ==
  /\ man = "gone" /\ ~unheard /\ man' = "exited"
  /\ UNCHANGED <<ask, unheard>>

\* The process is started again: a new manager serves, a request of the
\* process before comes to nothing, and an answer given stays what it was.
Restart ==
  /\ man' = "serving" /\ unheard' = FALSE /\ ask' \in [Requesters -> {"idle", "ok", "failed"}]
  /\ \A r \in Requesters : /\ ask'[r] = "ok" => ask[r] = "ok"
                           /\ ask[r] = "idle" => ask'[r] = "idle"

DNext ==
  \/ \E r \in Requesters : Offer(r) \/ Take(r) \/ Answer(r) \/ Collect(r)
  \/ Report \/ Stop \/ Leave \/ Return \/ Restart

DSpec == DInit /\ [][DNext]_dvars
=============================================================================
