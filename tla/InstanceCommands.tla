-------------------------- MODULE InstanceCommands --------------------------
(***************************************************************************)
(* What the ccvm service promises its clients, without its goroutines and  *)
(* channels.  A command is accepted under a transaction number, is refused *)
(* or carried out on an instance that exists, is answered exactly once and *)
(* is retired after that.  An instance executes one command at a time.  It *)
(* exists from the moment its creation is accepted until the creation is   *)
(* answered with an error or a deletion with success.                      *)
(***************************************************************************)
CONSTANTS
  Tids,       \* transaction numbers
  Instances,  \* instances, the one founded by transaction t being t itself
  None

VARIABLES
  phase,      \* of each transaction
  kind,       \* "create", "delete" or "other"
  target,     \* the instance a running transaction works on
  answer,     \* the verdict of an answered transaction
  alive       \* the instances that exist

avars == <<phase, kind, target, answer, alive>>

Kinds == {"create", "delete", "other"}

AInit ==
  /\ phase = [t \in Tids |-> "none"] /\ kind = [t \in Tids |-> None]
  /\ target = [t \in Tids |-> None] /\ answer = [t \in Tids |-> None]
  /\ alive \in SUBSET (Instances \ Tids)

\* The command is scheduled; a creation brings its instance into existence.
Accept(t, k) ==
  /\ phase[t] = "none"
  /\ phase' = [phase EXCEPT ![t] = "accepted"]
  /\ kind' = [kind EXCEPT ![t] = k]
  /\ alive' = IF k = "create" THEN alive \cup {t} ELSE alive
  /\ UNCHANGED <<target, answer>>

\* The command is answered when it arrives, without any effect.
AnswerOnArrival(t, k, v) ==
  /\ phase[t] = "none" /\ (v = "ok" => k = "other")
  /\ phase' = [phase EXCEPT ![t] = "answered"]
  /\ kind' = [kind EXCEPT ![t] = k]
  /\ answer' = [answer EXCEPT ![t] = v]
  /\ UNCHANGED <<target, alive>>

\* The command is refused by its instance, without any effect.
Refuse(t) ==
  /\ phase[t] = "accepted" /\ kind[t] # "create"
  /\ phase' = [phase EXCEPT ![t] = "answered"]
  /\ answer' = [answer EXCEPT ![t] = "err"]
  /\ UNCHANGED <<kind, target, alive>>

Begin(t, i) ==
  /\ phase[t] = "accepted"
  /\ i \in alive /\ \A u \in Tids : target[u] # i
  /\ kind[t] = "create" => i = t
  /\ phase' = [phase EXCEPT ![t] = "running"]
  /\ target' = [target EXCEPT ![t] = i]
  /\ UNCHANGED <<kind, answer, alive>>

End(t, v) ==
  /\ phase[t] = "running"
  /\ phase' = [phase EXCEPT ![t] = "answered"]
  /\ answer' = [answer EXCEPT ![t] = v]
  /\ target' = [target EXCEPT ![t] = None]
  /\ alive' = IF <<kind[t], v>> \in {<<"create", "err">>, <<"delete", "ok">>}
              THEN alive \ {target[t]} ELSE alive
  /\ UNCHANGED kind

Retire(t) ==
  /\ phase[t] = "answered"
  /\ phase' = [phase EXCEPT ![t] = "retired"]
  /\ UNCHANGED <<kind, target, answer, alive>>

ANext ==
  \E t \in Tids :
    \/ \E k \in Kinds : Accept(t, k) \/ \E v \in {"ok", "err"} : AnswerOnArrival(t, k, v)
    \/ \E i \in Instances : Begin(t, i)
    \/ \E v \in {"ok", "err"} : End(t, v)
    \/ Refuse(t) \/ Retire(t)

ASpec == AInit /\ [][ANext]_avars
=============================================================================
