------------------------------- MODULE VMSpec -------------------------------
(***************************************************************************)
(* The specification of a virtual machine (types.go) and of the workload   *)
(* around it, and how one is merged into another.  A specification is a    *)
(* record of its single values (set, 0 for one that is not given), of its  *)
(* lists, whose entries have a key (the guest's port, the mount's tag, the *)
(* drive's path) and a value, and of the workload it inherits from.        *)
(***************************************************************************)
EXTENDS Integers, Sequences, SequencesExt

VMFields   == {"mem_mib", "cpus", "disk_gib", "qemuport"}
BaseFields == {"base_image_url", "base_image_name", "needs_nested_vm"}
OwnFields  == {"bios", "host_ip"}
Fields     == VMFields \cup BaseFields \cup OwnFields
Lists      == {"ports", "mounts", "drives"}

SSH         == 22   \* the guest's port
DefaultSSH  == [key |-> SSH, val |-> 10022]
NoDirectory == -1   \* a mount whose path is not a directory

Entries == [key : Int, val : Int]

KeysOf(list) == {list[i].key : i \in DOMAIN list}

\* Mutant: entries are appended, those with a key that is there already too.
AppendList(in, m) == in \o m

DistinctKeys(list) == \A i, j \in DOMAIN list : list[i].key = list[j].key => i = j

\* Where the first entry with a key is, or 0, and this entry: the one that
\* SSHPort and the next merge find.
Place(list, key) == SelectInSeq(list, LAMBDA e : e.key = key)
Entry(list, key) == list[Place(list, key)]

\* MergeMounts, MergePorts and MergeDrives: an entry of m takes the place of
\* the first one in the list with its key, or is appended.  Appended ones are
\* not looked at.
Put(in, list, e) ==
  IF Place(in, e.key) = 0 THEN Append(list, e) ELSE [list EXCEPT ![Place(in, e.key)] = e]

MergeList(in, m) ==
  LET upTo[n \in 0 .. Len(m)] == IF n = 0 THEN in ELSE Put(in, upTo[n - 1], m[n])
  IN upTo[Len(m)]

MergeLists(in, m) == [l \in Lists |-> MergeList(in[l], m[l])]

\* The fields that the other specification gives are taken from it.
Override(set, other, fields) ==
  [f \in Fields |-> IF f \in fields /\ other[f] # 0 THEN other[f] ELSE set[f]]

\* The fields that are not given are taken from the other specification.
Fill(set, other, fields) ==
  [f \in Fields |-> IF f \in fields /\ set[f] = 0 THEN other[f] ELSE set[f]]

\* workload.merge and VMSpec.Merge.
MergeParent(spec, parent) ==
  [spec EXCEPT !.set = Fill(@, parent.set, VMFields \cup BaseFields),
               !.lists = MergeLists(@, parent.lists)]

\* ensureSSHPortMapping
EnsureSSH(spec) ==
  IF SSH \in KeysOf(spec.lists["ports"]) THEN spec
  ELSE [spec EXCEPT !.lists["ports"] = Append(@, DefaultSSH)]

\* MergeCustom returns an error before it changes any list.
CustomOK(spec, custom) ==
  /\ \A i \in DOMAIN custom.lists["mounts"] : custom.lists["mounts"][i].val # NoDirectory
  /\ custom.set["host_ip"] # 0 \/ spec.set["host_ip"] # 0

CustomFields == VMFields \cup {"host_ip"}

\* Mutant: a user's values do not replace those of the specification.
MergeCustomIfUnset(spec, custom) ==
  [spec EXCEPT !.set = Fill(@, custom.set, CustomFields),
               !.lists = MergeLists(@, custom.lists)]

MergeCustom(spec, custom) ==
  [spec EXCEPT !.set = Override(@, custom.set, CustomFields),
               !.lists = MergeLists(@, custom.lists)]
=============================================================================
