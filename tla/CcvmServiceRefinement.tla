----------------------- MODULE CcvmServiceRefinement -----------------------
(***************************************************************************)
(* CcvmService implements InstanceCommands: the mapping of its transaction *)
(* table, result channels and loops to phases and answers.                 *)
(***************************************************************************)
EXTENDS CcvmService

\* Loop l has received the command of transaction t and not yet answered it.
Serves(l, t) == \/ loop[l].cmd = t
                \/ loop[l].create = t /\ loop[l].fn # "none"

KindOf(t) == IF op[t] \in {"create", "delete", None} THEN op[t] ELSE "other"

PhaseOf(t) ==
  IF t >= counter THEN "none"
  ELSE IF t \notin transactions THEN "retired"
  ELSE IF result[t].closed THEN "answered"
  ELSE IF \E l \in Loops : Serves(l, t) THEN "running"
  ELSE "accepted"

TargetOf(t) == IF \E l \in Loops : Serves(l, t)
               THEN CHOOSE l \in Loops : Serves(l, t) ELSE None

AnswerOf(t) == IF ~result[t].closed THEN None
               ELSE IF t \in succeeded THEN "ok" ELSE "err"

\* A loop that is asked to leave during a creation that fails does not mark
\* itself deleted.
ExistsOf(l) ==
  /\ Live(l)
  /\ ~(loop[l].pc = "exited" /\ loop[l].create # None /\ loop[l].create \notin succeeded)

\* The variables of the promise.
PhaseNow  == [t \in Tids |-> PhaseOf(t)]
KindNow   == [t \in Tids |-> KindOf(t)]
TargetNow == [t \in Tids |-> TargetOf(t)]
AnswerNow == [t \in Tids |-> AnswerOf(t)]
Existing  == {l \in Loops : ExistsOf(l)}

Promise == INSTANCE InstanceCommands WITH
  Instances <- Loops, phase <- PhaseNow, kind <- KindNow, target <- TargetNow,
  answer <- AnswerNow, alive <- Existing

\* Every behaviour of the service is one the promise allows: each transaction
\* is answered once, by the one command its instance executes at the time.
KeepsPromise == Promise!ASpec
=============================================================================
