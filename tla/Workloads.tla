------------------------------ MODULE Workloads ------------------------------
(***************************************************************************)
(* How the specification of an instance comes about (workload.go,          *)
(* prepareCreate and start in ccvm.go): a workload is looked up, split and *)
(* parsed, then those it inherits from; they are merged from the base on,  *)
(* the user's values are merged in, the cloud-config is generated and both *)
(* are saved.  Every later start reads them, merges again and saves.       *)
(***************************************************************************)
EXTENDS Documents, VMSpec, CloudConfig

CONSTANTS
  Names,      \* of workloads
  URLs,       \* the names that are URLs or absolute paths
  None,       \* no name, no value
  Inputs,     \* [files, name, customs]: the files there are, the workload that is
              \* asked for, the values the user may give with create and start
  MaxDepth,   \* bound: nested calls of createWorkload, for the size of the stack
  MaxStarts   \* bound: starts

Places == {"cwd", "user", "builtin"}

ASSUME WorkloadsAssumption ==
  /\ URLs \subseteq Names /\ None \notin Names /\ IsFiniteSet(Names)
  /\ MaxDepth \in Nat /\ MaxDepth > Cardinality(Names) /\ MaxStarts \in Nat
  /\ \A i \in Inputs : DOMAIN i.files \subseteq (Places \cup {"url"}) \X Names

VARIABLES
  input,   \* one of Inputs
  pc,
  wanted,  \* the name of the next workload to load
  levels,  \* the workloads loaded, the one asked for first
  merged,  \* how many of them are still to be merged
  spec,    \* the specification merged so far
  custom,  \* the values the user gave last
  cloud,   \* mergedUserData, or None
  saved,   \* the lines of the state file, or None
  starts

vars == <<input, pc, wanted, levels, merged, spec, custom, cloud, saved, starts>>

-----------------------------------------------------------------------------
NoLists   == [l \in Lists |-> <<>>]
EmptySpec == [set |-> [f \in Fields |-> 0], lists |-> NoLists, inherits |-> None]

\* defaultWorkload and defaultVMSpec.
Defaults == [base_image_url |-> 1001, base_image_name |-> 1002, mem_mib |-> 1024,
             cpus |-> 1, disk_gib |-> 60]
DefaultSpec ==
  [EmptySpec EXCEPT !.set = [f \in Fields |-> IF f \in DOMAIN Defaults THEN Defaults[f] ELSE 0]]

\* The name of the image at an URL, which is its last component.
ImageName(url) == url

\* loadWorkloadData looks in the current directory, in ~/.ccloudvm/workloads
\* and in the program itself, unless the name is a URL.
SearchPath(name) == IF name \in URLs THEN <<"url">> ELSE <<"cwd", "user", "builtin">>

Found(name) ==
  LET path == SearchPath(name)
      i == SelectInSeq(path, LAMBDA p : <<p, name>> \in DOMAIN input.files)
  IN IF i = 0 THEN None ELSE <<path[i], name>>

\* A document with a directive in its text, or with bad text, is not parsed;
\* of several texts of one kind the last counts, others are not looked at.
Bad(text) == \E i \in DOMAIN text : text[i].k \in {"directive", "bad"}
LastText(text, kind, default) ==
  LET i == LastOf(text, Len(text), {kind}) IN IF i = 0 THEN default ELSE text[i].v

\* unmarshal: an image that has no name gets the last component of its URL.
Unmarshal(text) ==
  LET s == LastText(text, "spec", EmptySpec)
  IN IF s.set["base_image_name"] # 0 THEN s
     ELSE [s EXCEPT !.set["base_image_name"] = ImageName(s.set["base_image_url"])]

Init ==
  /\ input \in Inputs
  /\ pc = "load" /\ wanted = input.name /\ levels = <<>> /\ merged = 0
  /\ spec = DefaultSpec /\ custom = EmptySpec
  /\ cloud = None /\ saved = None /\ starts = 0

Goto(p) == pc' = p
Stop(p) == Goto(p) /\ UNCHANGED <<wanted, levels, merged, spec, custom, cloud, saved, starts>>

\* createWorkload up to its own call: each call loads one workload.
Load ==
  /\ pc = "load" /\ UNCHANGED input
  /\ LET where == Found(wanted)
         docs == SplitYaml(input.files[where])
         loaded == where # None /\ Len(docs) = 2 /\ ~Bad(docs[1])
         s == Unmarshal(docs[1])
     IN \/ ~loaded /\ Stop("failed")
        \/ loaded /\ Len(levels) = MaxDepth /\ Stop("overflow")
        \/ /\ loaded /\ Len(levels) < MaxDepth
           /\ levels' = Append(levels, [name |-> wanted, spec |-> s, data |-> docs[2]])
           /\ wanted' = s.inherits /\ merged' = merged + 1
           /\ Goto(IF s.inherits = None THEN "merge" ELSE "load")
           /\ UNCHANGED <<spec, custom, cloud, saved, starts>>

\* Mutant: the workload asked for is not merged with its parent.
LastMergeEarly(n) == n <= 2

\* The n-th call that waits is the last to return.
LastMerge(n) == n = 1

\* The call for the workload loaded last returns, with spec as its parent's.
MergeLevel ==
  /\ pc = "merge" /\ merged' = merged - 1
  /\ spec' = EnsureSSH(MergeParent(levels[merged].spec, spec))
  /\ Goto(IF LastMerge(merged) THEN "custom" ELSE "merge")
  /\ UNCHANGED <<input, wanted, levels, custom, cloud, saved, starts>>

\* The rest of prepareCreate.  The host may lack memory or nested VMs.
Customise ==
  /\ pc = "custom" /\ UNCHANGED input
  /\ \/ Stop("failed")
     \/ \E c \in input.customs :
          /\ CustomOK(spec, c) /\ spec' = MergeCustom(spec, c) /\ custom' = c
          /\ Goto("config")
          /\ UNCHANGED <<wanted, levels, merged, cloud, saved, starts>>

\* The cloud-config documents of the hierarchy, the base's first.
Chain == [i \in 1 .. Len(levels) |->
            LastText(levels[Len(levels) + 1 - i].data, "data", <<>>)]

ConfigFails == (\E i \in DOMAIN levels : Bad(levels[i].data)) \/ ParseFails(Chain)

\* generateCloudConfig
Generate ==
  /\ pc = "config" /\ UNCHANGED input
  /\ \/ ConfigFails /\ Stop("failed")
     \/ ~ConfigFails /\ Panics(Parsed(Chain)) /\ Stop("panic")
     \/ /\ ~ConfigFails /\ ~Panics(Parsed(Chain))
        /\ cloud' = WithFinished(Parsed(Chain)) /\ Goto("save")
        /\ UNCHANGED <<wanted, levels, merged, spec, custom, saved, starts>>

Mark(k)    == [k |-> k, v |-> None]
Text(k, v) == [k |-> k, v |-> v]

\* Mutant: an empty document is left out.
StateWithoutEmpty(s, c) ==
  <<Mark("start"), Text("spec", s), Mark("end")>>
    \o IF c = None THEN <<>> ELSE <<Mark("start"), Text("data", c), Mark("end")>>

\* save: two documents, the second of which may be empty.
State(s, c) ==
  <<Mark("start"), Text("spec", s), Mark("end"), Mark("start")>>
    \o (IF c = None THEN <<>> ELSE <<Text("data", c)>>) \o <<Mark("end")>>

Save ==
  /\ pc = "save" /\ saved' = State(spec, cloud) /\ Goto("instance")
  /\ UNCHANGED <<input, wanted, levels, merged, spec, custom, cloud, starts>>

\* start: restoreWorkload, which leaves mergedUserData empty, MergeCustom and
\* save.  Memory and processors that are not given get their defaults.
Start ==
  /\ pc = "instance" /\ starts < MaxStarts /\ starts' = starts + 1
  /\ LET docs == SplitYaml(saved)
         loaded == Len(docs) = 2 /\ ~Bad(docs[1])
         s == Unmarshal(docs[1])
     IN IF ~loaded THEN Goto("unreadable") /\ UNCHANGED <<spec, custom, cloud, saved>>
        ELSE \E c \in input.customs :
               /\ CustomOK(s, c) /\ custom' = c
               /\ spec' = [MergeCustom(s, c) EXCEPT
                             !.set = Fill(@, DefaultSpec.set, {"mem_mib", "cpus"})]
               /\ cloud' = None /\ saved' = State(spec', cloud') /\ Goto(pc)
  /\ UNCHANGED <<input, wanted, levels, merged>>

Next == Load \/ MergeLevel \/ Customise \/ Generate \/ Save \/ Start

Spec == Init /\ [][Next]_vars /\ WF_vars(Load \/ MergeLevel \/ Customise \/ Generate \/ Save)

-----------------------------------------------------------------------------
Specs == [set : [Fields -> Nat], lists : [Lists -> Seq(Entries)],
          inherits : Names \cup {None}]

\* What a line of a file can hold: what its kind holds.
LineOK(line) == /\ line.k = "spec" => line.v \in Specs
                /\ line.k = "data" => ConfigOK(line.v)

ASSUME InputsAssumption == \A i \in Inputs :
  /\ i.name \in Names /\ i.customs \subseteq Specs
  /\ \A f \in DOMAIN i.files : /\ i.files[f] \in Seq(Range(i.files[f]))
                               /\ \A line \in Range(i.files[f]) : LineOK(line)

\* Every variable has its type, and as many levels wait to be merged as the
\* state of the work says.
WorkloadTypeOK ==
  /\ pc \in {"load", "merge", "custom", "config", "save", "instance",
             "failed", "panic", "overflow", "unreadable"}
  /\ wanted \in Names \cup {None} /\ spec \in Specs /\ custom \in Specs
  /\ Len(levels) <= MaxDepth /\ \A i \in DOMAIN levels : levels[i].spec \in Specs
  /\ pc \notin {"load", "merge", "failed", "overflow"} => merged = 0
  /\ merged \in 0 .. Len(levels) /\ starts \in 0 .. MaxStarts

\* workload_test.go, TestSplitYaml: a file is split into the documents it
\* consists of, read from its beginning (the lines after one that is too long
\* for the scanner, workload.go:467, are lost).
SplitIsRight == pc = "load" => \A f \in DOMAIN input.files :
  AreDocuments(SplitYaml(input.files[f]), Scanned(input.files[f]))

\* The first level that defines a value, the workload asked for being the first
\* of all, or 0.
Defining(f) == SelectInSeq(levels, LAMBDA x : x.spec.set[f] # 0)
Inherited(f) == IF Defining(f) = 0 THEN DefaultSpec.set[f] ELSE levels[Defining(f)].spec.set[f]

\* README.md:467, for values that are not lists: of the workloads that give a
\* value the inheriting one takes priority, over any number of levels.
NearestValueWins == pc = "custom" => \A f \in VMFields \cup BaseFields :
  spec.set[f] = Inherited(f)

\* Merging loses no port, mount or drive and makes none up: what a level
\* lists is there, once if no level lists it twice, and sshd can be reached.
ListsComplete == pc = "custom" => \A l \in Lists :
  LET all == UNION {KeysOf(levels[i].spec.lists[l]) : i \in DOMAIN levels}
      result == spec.lists[l]
  IN /\ KeysOf(result) = all \cup (IF l = "ports" THEN {SSH} ELSE {})
     /\ (\A i \in DOMAIN levels : DistinctKeys(levels[i].spec.lists[l])) => DistinctKeys(result)
     /\ \A i \in DOMAIN result :
          \/ \E n \in DOMAIN levels : \E j \in DOMAIN levels[n].spec.lists[l] :
               levels[n].spec.lists[l][j] = result[i]
          \/ result[i] = DefaultSSH

\* What the user gave last, with create or start, is what the instance has,
\* also after restarts from its state file.
CustomWins == pc = "instance" =>
  /\ \A f \in CustomFields : custom.set[f] # 0 => spec.set[f] = custom.set[f]
  /\ \A l \in Lists : DistinctKeys(custom.lists[l]) =>
       \A i \in DOMAIN custom.lists[l] :
         Entry(spec.lists[l], custom.lists[l][i].key) = custom.lists[l][i]

\* manageInstallation waits for FINISHED: it is the last command the guest runs,
\* after those of every level of the hierarchy, the base's first.
FinishedIsLast == cloud # None =>
  cloud["runcmd"].v = Append(FlattenSeq([i \in DOMAIN Chain |-> Commands(Chain[i])]), Finished)

\* An error in a file ends the creation, not the process: it panics only over
\* commands that are no list, and its stack overflows only over a hierarchy
\* that comes back to where it has been.
DiesForCause ==
  /\ pc = "panic" => \E i \in DOMAIN Chain :
       "runcmd" \in DOMAIN Chain[i] /\ Chain[i]["runcmd"].t \notin {"list", "nil"}
  /\ pc = "overflow" => \E i, j \in DOMAIN levels : i # j /\ levels[i].name = levels[j].name

\* A state file can be read again after any number of starts, and gives the
\* specification that was saved.
StateReadable ==
  /\ pc # "unreadable"
  /\ saved # None =>
       Len(SplitYaml(saved)) = 2 /\ (pc = "instance" => Unmarshal(SplitYaml(saved)[1]) = spec)

\* README.md:465-468, "If there is a conflict, i.e., workload A and workload B
\* specify different values for the same field, workload B, the inheriting
\* workload, takes priority": also for the entries of a list.
ChildWins == pc = "custom" => \A l \in Lists : \A n \in DOMAIN levels :
  \A i \in DOMAIN levels[n].spec.lists[l] :
    LET e == levels[n].spec.lists[l][i]
    IN (\A m \in 1 .. n - 1 : e.key \notin KeysOf(levels[m].spec.lists[l]))
         /\ DistinctKeys(levels[n].spec.lists[l])
       => Entry(spec.lists[l], e.key) = e
=============================================================================
