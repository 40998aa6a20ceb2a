----------------------------- MODULE CloudConfig -----------------------------
(***************************************************************************)
(* The cloud-config document of a workload: a function from top-level keys *)
(* to values [t, v], where t is "nil", "scalar", "list" or "map" and v a   *)
(* sequence (of one number for a scalar) or, for a map, a function.        *)
(***************************************************************************)
EXTENDS Integers, Sequences, SequencesExt, TLC

Finished == -1   \* the command that reports FINISHED

\* The items of a YAML list are a sequence.
ConfigOK(cc) == \A k \in DOMAIN cc : cc[k].t = "list" => cc[k].v \in Seq(Int)

Commands(cc) == IF "runcmd" \in DOMAIN cc /\ cc["runcmd"].t = "list" THEN cc["runcmd"].v ELSE <<>>

\* Mutant: empty keys are kept.
KeepEmpty(cc) == cc

\* Keys without a value are removed.
RemoveEmpty(cc) == [k \in {j \in DOMAIN cc : cc[j].t # "nil"} |-> cc[k]]

\* A list or map of the parent meets something else.
Conflict(cc, p) == \E k \in DOMAIN cc \cap DOMAIN p :
  p[k].t \in {"list", "map"} /\ cc[k].t # p[k].t

\* Mutant: the parent's list follows that of the workload.
MergeValueAfter(v, p) == IF p.t = "list" THEN [t |-> "list", v |-> v.v \o p.v] ELSE v

\* A list follows the parent's, a map is completed from the parent's.
MergeValue(v, p) ==
  CASE p.t = "list" -> [t |-> "list", v |-> p.v \o v.v]
    [] p.t = "map"  -> [t |-> "map", v |-> v.v @@ p.v]
    [] OTHER        -> v

MergeConfig(cc, p) ==
  [k \in DOMAIN cc \cup DOMAIN p |->
     IF k \notin DOMAIN cc THEN p[k]
     ELSE IF k \notin DOMAIN p THEN cc[k] ELSE MergeValue(cc[k], p[k])]

\* parse, of the first n documents of a hierarchy, the base's first.
ParsedUpTo(chain) ==
  LET upTo[n \in 0 .. Len(chain)] ==
        IF n = 0 THEN <<>> ELSE MergeConfig(RemoveEmpty(chain[n]), upTo[n - 1])
  IN upTo

Parsed(chain) == ParsedUpTo(chain)[Len(chain)]

ParseFails(chain) == \E i \in 2 .. Len(chain) :
  Conflict(RemoveEmpty(chain[i]), ParsedUpTo(chain)[i - 1])

\* generateCloudConfig panics when the commands are not a list.
Panics(cc) == "runcmd" \in DOMAIN cc /\ cc["runcmd"].t # "list"

WithFinished(cc) ==
  LET cmds == IF "runcmd" \in DOMAIN cc THEN cc["runcmd"].v ELSE <<>>
  IN [k \in {"runcmd"} \cup DOMAIN cc |->
        IF k = "runcmd" THEN [t |-> "list", v |-> Append(cmds, Finished)] ELSE cc[k]]
=============================================================================
