--------------------------- MODULE WorkloadsProofs ---------------------------
(***************************************************************************)
(* Theorems about Workloads: over hierarchies of any depth and files of    *)
(* any length, the nearest value wins, lists lose nothing, what the user   *)
(* gives last is what the instance has, its state file can be read again,  *)
(* and the process dies only of what the code does not guard against.      *)
(***************************************************************************)
EXTENDS Workloads, OperatorProofs, FiniteSetTheorems

\* The lines of the files there are; a workload that has been loaded consists
\* of such lines.
InputLines == UNION {UNION {Range(i.files[f]) : f \in DOMAIN i.files} : i \in Inputs}
Level      == [name : Names, spec : Specs, data : Seq(InputLines)]

\* What the assumption on Inputs says of one line, and of one file.
LEMMA LinesOK == \A line \in InputLines : LineOK(line)
BY InputsAssumption DEF InputsAssumption, InputLines

LEMMA FileLines ==
  ASSUME NEW i \in Inputs, NEW f \in DOMAIN i.files
  PROVE  i.files[f] \in Seq(InputLines)
<1>1. i.files[f] \in Seq(Range(i.files[f]))
  BY InputsAssumption DEF InputsAssumption
<1>2. Range(i.files[f]) \subseteq InputLines
  BY DEF InputLines
<1> HIDE DEF InputLines
<1> QED BY <1>1, <1>2

-----------------------------------------------------------------------------
\* Specifications.

\* The fields and lists that the proofs name.
LEMMA FieldsAre ==
  /\ VMFields \subseteq Fields /\ BaseFields \subseteq Fields /\ CustomFields \subseteq Fields
  /\ "base_image_name" \in BaseFields /\ "base_image_name" \notin CustomFields
  /\ "ports" \in Lists /\ "mem_mib" \in Fields /\ "cpus" \in Fields
BY DEF Fields, VMFields, BaseFields, OwnFields, CustomFields, Lists

\* defaultVMSpec is a specification.
LEMMA EmptySpecs == EmptySpec \in Specs /\ DefaultSpec \in Specs
<1>1. [f \in Fields |-> 0] \in [Fields -> Nat] /\ NoLists \in [Lists -> Seq(Entries)]
  BY DEF NoLists
<1>2. EmptySpec \in Specs
  BY <1>1 DEF EmptySpec, Specs
<1>3. [f \in Fields |-> IF f \in DOMAIN Defaults THEN Defaults[f] ELSE 0] \in [Fields -> Nat]
  <2>1. \A f \in DOMAIN Defaults : Defaults[f] \in Nat
    BY DEF Defaults
  <2> QED BY <2>1
<1> QED BY <1>2, <1>3 DEF DefaultSpec, Specs

\* Fill and Override field by field.
LEMMA FillType ==
  ASSUME NEW a \in [Fields -> Nat], NEW b \in [Fields -> Nat], NEW F
  PROVE  /\ Fill(a, b, F) \in [Fields -> Nat] /\ Override(a, b, F) \in [Fields -> Nat]
         /\ \A f \in Fields :
              /\ Fill(a, b, F)[f] = IF f \in F /\ a[f] = 0 THEN b[f] ELSE a[f]
              /\ Override(a, b, F)[f] = IF f \in F /\ b[f] # 0 THEN b[f] ELSE a[f]
BY DEF Fill, Override

\* MergeLists list by list.
LEMMA MergeListsType ==
  ASSUME NEW a \in [Lists -> Seq(Entries)], NEW b \in [Lists -> Seq(Entries)]
  PROVE  /\ MergeLists(a, b) \in [Lists -> Seq(Entries)]
         /\ \A l \in Lists : MergeLists(a, b)[l] = MergeList(a[l], b[l])
BY MergeListIs DEF MergeLists

\* The parts of a specification that is merged with its parent.
LEMMA MergeParentType ==
  ASSUME NEW s \in Specs, NEW p \in Specs
  PROVE  /\ MergeParent(s, p) \in Specs
         /\ MergeParent(s, p).set = Fill(s.set, p.set, VMFields \cup BaseFields)
         /\ MergeParent(s, p).lists = MergeLists(s.lists, p.lists)
<1> DEFINE set == Fill(s.set, p.set, VMFields \cup BaseFields)
           lists == MergeLists(s.lists, p.lists)
<1>1. s.set \in [Fields -> Nat] /\ p.set \in [Fields -> Nat]
      /\ s.lists \in [Lists -> Seq(Entries)] /\ p.lists \in [Lists -> Seq(Entries)]
  BY DEF Specs
<1>2. set \in [Fields -> Nat] /\ lists \in [Lists -> Seq(Entries)]
  BY <1>1, FillType, MergeListsType
<1>3. MergeParent(s, p) = [s EXCEPT !.set = set, !.lists = lists]
  BY DEF MergeParent
<1> HIDE DEF set, lists
<1>4. MergeParent(s, p) \in Specs /\ MergeParent(s, p).set = set /\ MergeParent(s, p).lists = lists
  BY <1>2, <1>3 DEF Specs
<1> QED BY <1>4 DEF set, lists

\* The parts of a specification that is merged with what the user gives.
LEMMA MergeCustomType ==
  ASSUME NEW s \in Specs, NEW c \in Specs
  PROVE  /\ MergeCustom(s, c) \in Specs
         /\ MergeCustom(s, c).set = Override(s.set, c.set, CustomFields)
         /\ MergeCustom(s, c).lists = MergeLists(s.lists, c.lists)
<1> DEFINE set == Override(s.set, c.set, CustomFields)
           lists == MergeLists(s.lists, c.lists)
<1>1. s.set \in [Fields -> Nat] /\ c.set \in [Fields -> Nat]
      /\ s.lists \in [Lists -> Seq(Entries)] /\ c.lists \in [Lists -> Seq(Entries)]
  BY DEF Specs
<1>2. set \in [Fields -> Nat] /\ lists \in [Lists -> Seq(Entries)]
  BY <1>1, FillType, MergeListsType
<1>3. MergeCustom(s, c) = [s EXCEPT !.set = set, !.lists = lists]
  BY DEF MergeCustom
<1> HIDE DEF set, lists
<1>4. MergeCustom(s, c) \in Specs /\ MergeCustom(s, c).set = set /\ MergeCustom(s, c).lists = lists
  BY <1>2, <1>3 DEF Specs
<1> QED BY <1>4 DEF set, lists

\* The port of sshd is added if no entry has it.
LEMMA EnsureSSHIs ==
  ASSUME NEW s \in Specs, NEW r, r = EnsureSSH(s)
  PROVE  /\ r \in Specs /\ r.set = s.set
         /\ \A l \in Lists \ {"ports"} : r.lists[l] = s.lists[l]
         /\ \A key : key \in KeysOf(r.lists["ports"]) <=> key \in KeysOf(s.lists["ports"]) \/ key = SSH
         /\ DistinctKeys(s.lists["ports"]) => DistinctKeys(r.lists["ports"])
         /\ \A i \in 1 .. Len(r.lists["ports"]) :
              \/ \E j \in 1 .. Len(s.lists["ports"]) : r.lists["ports"][i] = s.lists["ports"][j]
              \/ r.lists["ports"][i] = DefaultSSH
<1> DEFINE old == s.lists["ports"]
           new == Append(old, DefaultSSH)
<1>1. s.lists \in [Lists -> Seq(Entries)] /\ old \in Seq(Entries)
  BY FieldsAre DEF Specs
<1>2. DefaultSSH \in Entries /\ DefaultSSH.key = SSH
  BY DEF DefaultSSH, Entries, SSH
<1>3. CASE SSH \in KeysOf(old)
  <2>1. r = s
    BY <1>3 DEF EnsureSSH
  <2> QED BY <1>3, <2>1
<1>4. CASE SSH \notin KeysOf(old)
  <2>1. r = [s EXCEPT !.lists["ports"] = new]
    BY <1>4 DEF EnsureSSH
  <2>2. new \in Seq(Entries) /\ Len(new) = Len(old) + 1 /\ new[Len(new)] = DefaultSSH
        /\ \A i \in 1 .. Len(old) : new[i] = old[i]
    BY <1>1, <1>2
  <2> HIDE DEF new
  <2>3. r \in Specs /\ r.set = s.set /\ r.lists["ports"] = new
        /\ \A l \in Lists \ {"ports"} : r.lists[l] = s.lists[l]
    <3> DEFINE lists == [s.lists EXCEPT !["ports"] = new]
    <3>1. /\ lists \in [Lists -> Seq(Entries)] /\ lists["ports"] = new
          /\ \A l \in Lists \ {"ports"} : lists[l] = s.lists[l]
      BY <1>1, <2>2, FieldsAre
    <3>2. r = [s EXCEPT !.lists = lists]
      BY <2>1
    <3> HIDE DEF lists
    <3>3. r \in Specs /\ r.set = s.set /\ r.lists = lists
      BY <3>1, <3>2 DEF Specs
    <3> QED BY <3>1, <3>3
  <2>4. \A i \in 1 .. Len(new) : i \in 1 .. Len(old) \/ i = Len(new)
    BY <1>1, <2>2
  <2>5. ASSUME NEW key
        PROVE  key \in KeysOf(new) <=> key \in KeysOf(old) \/ key = SSH
    <3>1. key \in KeysOf(new) <=> \E i \in 1 .. Len(new) : new[i].key = key
      BY <2>2, KeyIs
    <3>2. key \in KeysOf(old) <=> \E i \in 1 .. Len(old) : old[i].key = key
      BY <1>1, KeyIs
    <3>3. \A i \in 1 .. Len(old) : i \in 1 .. Len(new)
      BY <1>1, <2>2
    <3>4. Len(new) \in 1 .. Len(new)
      BY <1>1, <2>2
    <3> HIDE DEF old
    <3> QED BY <1>2, <2>2, <2>4, <3>1, <3>2, <3>3, <3>4
  <2>6. ASSUME DistinctKeys(old)
        PROVE  DistinctKeys(new)
    <3> SUFFICES ASSUME NEW i \in 1 .. Len(new), NEW j \in 1 .. Len(new), new[i].key = new[j].key
                 PROVE  i = j
      BY <2>2 DEF DistinctKeys
    <3>1. \A k \in 1 .. Len(old) : old[k].key # SSH
      BY <1>1, <1>4, KeyIs
    <3>2. CASE i \in 1 .. Len(old) /\ j \in 1 .. Len(old)
      <4>1. DOMAIN old = 1 .. Len(old)
        BY <1>1
      <4>2. old[i].key = old[j].key
        BY <2>2, <3>2
      <4> HIDE DEF old
      <4> QED BY <2>6, <3>2, <4>1, <4>2 DEF DistinctKeys
    <3> HIDE DEF old
    <3> QED BY <1>2, <2>2, <2>4, <3>1, <3>2
  <2>7. \A i \in 1 .. Len(new) :
          (\E j \in 1 .. Len(old) : new[i] = old[j]) \/ new[i] = DefaultSSH
    BY <2>2, <2>4
  <2> QED BY <2>3, <2>5, <2>6, <2>7
<1> QED BY <1>3, <1>4

-----------------------------------------------------------------------------
\* Files and their documents.

\* The last text of a kind is what one of the lines holds, or the default.
LEMMA LastTextIs ==
  ASSUME NEW L, NEW text \in Seq(L), NEW kind, NEW default
  PROVE  \/ LastText(text, kind, default) = default
         \/ \E i \in 1 .. Len(text) : text[i].k = kind /\ LastText(text, kind, default) = text[i].v
<1> DEFINE i == LastOf(text, Len(text), {kind})
<1>1. i \in 0 .. Len(text) /\ (i # 0 => text[i].k \in {kind})
  BY LastOfIs
<1>2. LastText(text, kind, default) = IF i = 0 THEN default ELSE text[i].v
  BY DEF LastText
<1> HIDE DEF i
<1> QED BY <1>1, <1>2

\* What is read from a document is a specification.
LEMMA UnmarshalType ==
  ASSUME NEW text \in Seq(InputLines)
  PROVE  Unmarshal(text) \in Specs
<1> DEFINE s == LastText(text, "spec", EmptySpec)
<1>1. s \in Specs
  <2>1. \A i \in 1 .. Len(text) : text[i] \in InputLines
    OBVIOUS
  <2>2. \A i \in 1 .. Len(text) : text[i].k = "spec" => text[i].v \in Specs
    BY <2>1, LinesOK DEF LineOK
  <2> QED BY <2>2, EmptySpecs, LastTextIs
<1>2. Unmarshal(text) = IF s.set["base_image_name"] # 0 THEN s
                        ELSE [s EXCEPT !.set["base_image_name"] = s.set["base_image_url"]]
  BY DEF Unmarshal, ImageName
<1> HIDE DEF s
<1>3. "base_image_url" \in Fields /\ "base_image_name" \in Fields
  BY DEF Fields, BaseFields
<1> DEFINE set == [s.set EXCEPT !["base_image_name"] = s.set["base_image_url"]]
<1>4. set \in [Fields -> Nat]
  BY <1>1, <1>3 DEF Specs
<1>5. [s EXCEPT !.set["base_image_name"] = s.set["base_image_url"]] = [s EXCEPT !.set = set]
  OBVIOUS
<1> HIDE DEF set
<1>6. [s EXCEPT !.set = set] \in Specs
  BY <1>1, <1>4 DEF Specs
<1> QED BY <1>1, <1>2, <1>5, <1>6

\* What the search finds is there.
LEMMA FoundThere ==
  ASSUME NEW name, Found(name) # None
  PROVE  Found(name) \in DOMAIN input.files
<1> DEFINE path == SearchPath(name)
           I == {i \in 1 .. Len(path) : <<path[i], name>> \in DOMAIN input.files}
           i == SelectInSeq(path, LAMBDA p : <<p, name>> \in DOMAIN input.files)
<1>1. i = IF I # {} THEN Min(I) ELSE 0
  BY DEF SelectInSeq
<1>2. Found(name) = IF i = 0 THEN None ELSE <<path[i], name>>
  BY DEF Found
<1>3. I # {} => Min(I) \in I
  <2>1. I \subseteq Nat
    OBVIOUS
  <2> HIDE DEF I
  <2> QED BY <2>1, LeastIs
<1>4. i \in I
  <2> HIDE DEF I
  <2> QED BY <1>1, <1>2, <1>3
<1>5. <<path[i], name>> \in DOMAIN input.files
  BY <1>4
<1> HIDE DEF i, path
<1> QED BY <1>2, <1>5

\* A document that ends a file of n lines: its start line is at bar, its end
\* line at n, and no line in between or directive is another's.
LEMMA LastDocument ==
  ASSUME NEW lines, NEW n \in Nat, NEW bar \in 1 .. n - 1,
         lines[n].k = "end", lines[bar].k = "start",
         \A i \in bar + 1 .. n - 1 : lines[i].k \notin {"start", "end"},
         bar # 1 => lines[bar - 1].k # "directive"
  PROVE  /\ FindDocument(lines, n).text = SubSeq(lines, bar + 1, n - 1)
         /\ FindDocument(lines, n).first = bar
<1> DEFINE m == LastOf(lines, n - 1, {"start", "end"})
<1>1. m = bar
  <2>1. n - 1 \in Nat
    OBVIOUS
  <2>2. /\ m \in 0 .. n - 1 /\ (m # 0 => lines[m].k \in {"start", "end"})
        /\ \A i \in m + 1 .. n - 1 : lines[i].k \notin {"start", "end"}
    BY <2>1, LastOfIs
  <2> HIDE DEF m
  <2>3. ~(bar > m)
    BY <2>2
  <2>4. ~(m > bar)
    BY <2>2
  <2> QED BY <2>2, <2>3, <2>4
<1>2. FindDocument(lines, n) =
        [text |-> SubSeq(lines, m + 1, n - 1),
         first |-> IF m # 0 /\ lines[m].k = "start" THEN FirstDirective(lines, m) ELSE m + 1]
  BY DEF FindDocument
<1> DEFINE fd == FirstDirective(lines, bar)
<1>3. fd = bar
  <2>1. /\ fd \in 1 .. bar /\ (fd # 1 => lines[fd - 1].k # "directive")
        /\ \A i \in fd .. bar - 1 : lines[i].k = "directive"
    BY FirstDirectiveIs
  <2> HIDE DEF fd
  <2> QED BY <2>1
<1> HIDE DEF m
<1> DEFINE t == SubSeq(lines, bar + 1, n - 1)
<1>4. FindDocument(lines, n) =
        [text |-> t,
         first |-> IF bar # 0 /\ lines[bar].k = "start" THEN fd ELSE bar + 1]
  BY <1>1, <1>2
<1> HIDE DEF t, fd
<1>5. FindDocument(lines, n) = [text |-> t, first |-> bar]
  BY <1>3, <1>4
<1>6. FindDocument(lines, n).text = t /\ FindDocument(lines, n).first = bar
  BY <1>5
<1> QED BY <1>6 DEF t

\* The parts of a concatenation.
LEMMA ConcatLen ==
  ASSUME NEW L, NEW a \in Seq(L), NEW b \in Seq(L)
  PROVE  a \o b \in Seq(L) /\ Len(a \o b) = Len(a) + Len(b)
OBVIOUS

LEMMA ConcatLeft ==
  ASSUME NEW L, NEW a \in Seq(L), NEW b \in Seq(L), NEW i \in 1 .. Len(a)
  PROVE  (a \o b)[i] = a[i]
OBVIOUS

LEMMA ConcatRight ==
  ASSUME NEW L, NEW a \in Seq(L), NEW b \in Seq(L), NEW i \in 1 .. Len(b)
  PROVE  (a \o b)[Len(a) + i] = b[i]
OBVIOUS

\* A state file is split into the documents it was made of.
LEMMA StateDocuments ==
  ASSUME NEW s, NEW c
  PROVE  /\ Len(SplitYaml(State(s, c))) = 2
         /\ SplitYaml(State(s, c))[1] = <<Text("spec", s)>>
<1> DEFINE file == State(s, c)
           a == <<Mark("start"), Text("spec", s), Mark("end"), Mark("start")>>
           b == IF c = None THEN <<>> ELSE <<Text("data", c)>>
           e == <<Mark("end")>>
           n == Len(file)
           L == {Mark("start"), Mark("end"), Text("spec", s), Text("data", c)}
<1>1. /\ Mark("start").k = "start" /\ Mark("end").k = "end"
      /\ Text("spec", s).k = "spec" /\ Text("data", c).k = "data"
  BY DEF Mark, Text
<1>2. /\ a \in Seq(L) /\ Len(a) = 4
      /\ a[1] = Mark("start") /\ a[2] = Text("spec", s) /\ a[3] = Mark("end") /\ a[4] = Mark("start")
  <2>1. Mark("start") \in L /\ Mark("end") \in L /\ Text("spec", s) \in L
    OBVIOUS
  <2> HIDE DEF L
  <2> QED BY <2>1
<1>3. b \in Seq(L) /\ Len(b) \in 0 .. 1 /\ \A i \in 1 .. Len(b) : b[i] = Text("data", c)
  <2>1. Text("data", c) \in L
    OBVIOUS
  <2> HIDE DEF L
  <2> QED BY <2>1
<1>4. e \in Seq(L) /\ Len(e) = 1 /\ e[1] = Mark("end")
  <2>1. Mark("end") \in L
    OBVIOUS
  <2> HIDE DEF L
  <2> QED BY <2>1
<1>5. file = (a \o b) \o e
  <2>1. file = a \o b \o <<Mark("end")>>
    BY DEF State
  <2> QED BY <2>1
<1> HIDE DEF a, b, e, file
<1> DEFINE ab == a \o b
<1>6. /\ ab \in Seq(L) /\ Len(ab) = 4 + Len(b)
      /\ \A i \in 1 .. 4 : ab[i] = a[i]
      /\ \A i \in 1 .. Len(b) : ab[4 + i] = b[i]
  <2> HIDE DEF L, ab
  <2>1. /\ ab \in Seq(L) /\ Len(ab) = Len(a) + Len(b)
        /\ \A i \in 1 .. Len(a) : ab[i] = a[i]
        /\ \A i \in 1 .. Len(b) : ab[Len(a) + i] = b[i]
    <3>1. a \in Seq(L) /\ b \in Seq(L) /\ ab = a \o b
      BY <1>2, <1>3 DEF ab
    <3>2. ab \in Seq(L) /\ Len(ab) = Len(a) + Len(b)
      BY <3>1, ConcatLen
    <3>3. \A i \in 1 .. Len(a) : ab[i] = a[i]
      BY <3>1, ConcatLeft
    <3>4. \A i \in 1 .. Len(b) : ab[Len(a) + i] = b[i]
      BY <3>1, ConcatRight
    <3> QED BY <3>2, <3>3, <3>4
  <2> QED BY <1>2, <2>1
<1> HIDE DEF ab
<1>7. /\ file \in Seq(L) /\ Len(file) = Len(ab) + 1
      /\ \A i \in 1 .. Len(ab) : file[i] = ab[i]
      /\ file[Len(ab) + 1] = Mark("end")
  <2>1. file = ab \o e
    BY <1>5 DEF ab
  <2> HIDE DEF L
  <2>2. /\ file \in Seq(L) /\ Len(file) = Len(ab) + Len(e)
        /\ \A i \in 1 .. Len(ab) : file[i] = ab[i]
        /\ \A i \in 1 .. Len(e) : file[Len(ab) + i] = e[i]
    <3>1. ab \in Seq(L) /\ e \in Seq(L)
      BY <1>6, <1>4
    <3>2. file \in Seq(L) /\ Len(file) = Len(ab) + Len(e)
      BY <2>1, <3>1, ConcatLen
    <3>3. \A i \in 1 .. Len(ab) : file[i] = ab[i]
      BY <2>1, <3>1, ConcatLeft
    <3>4. \A i \in 1 .. Len(e) : file[Len(ab) + i] = e[i]
      BY <2>1, <3>1, ConcatRight
    <3> QED BY <3>2, <3>3, <3>4
  <2> QED BY <1>4, <2>2
<1>8. file \in Seq(L) /\ n = 5 + Len(b) /\ n \in 5 .. 6
  BY <1>3, <1>6, <1>7
<1>9. /\ file[1].k = "start" /\ file[2] = Text("spec", s) /\ file[3].k = "end"
      /\ file[4].k = "start" /\ file[n].k = "end"
      /\ \A i \in 5 .. n - 1 : file[i].k = "data"
  <2> HIDE DEF L
  <2>1. \A i \in 1 .. 4 : file[i] = a[i]
    BY <1>3, <1>6, <1>7
  <2>2. \A i \in 5 .. n - 1 : file[i] = b[i - 4] /\ i - 4 \in 1 .. Len(b)
    <3> SUFFICES ASSUME NEW i \in 5 .. n - 1
                 PROVE  file[i] = b[i - 4] /\ i - 4 \in 1 .. Len(b)
      OBVIOUS
    <3>1. i \in 1 .. Len(ab) /\ i - 4 \in 1 .. Len(b) /\ 4 + (i - 4) = i
      BY <1>3, <1>8, <1>6
    <3>2. ab[4 + (i - 4)] = b[i - 4]
      BY <1>6, <3>1
    <3> QED BY <1>7, <3>1, <3>2
  <2>3. file[n] = Mark("end")
    <3>1. n = Len(ab) + 1
      BY <1>7
    <3>2. file[Len(ab) + 1] = Mark("end")
      BY <1>7
    <3> HIDE DEF n
    <3> QED BY <3>1, <3>2, Zenon
  <2>4. /\ file[1] = Mark("start") /\ file[2] = Text("spec", s)
        /\ file[3] = Mark("end") /\ file[4] = Mark("start")
    BY <1>2, <2>1
  <2>5. \A i \in 5 .. n - 1 : file[i] = Text("data", c)
    BY <1>3, <2>2
  <2> QED BY <1>1, <2>3, <2>4, <2>5
<1>10. Scanned(file) = file
  <2>1. \A x \in L : x.k # "long"
    BY <1>1
  <2>2. \A i \in 1 .. n : file[i] \in L
    <3> HIDE DEF L
    <3> QED BY <1>8
  <2>3. \A i \in 1 .. n : file[i].k # "long"
    BY <2>1, <2>2
  <2> HIDE DEF L
  <2> QED BY <1>8, <2>3, ScannedType
<1>11. PICK f : /\ SplitYaml(file) = f[n] /\ f[0] = <<>>
               /\ \A i \in 1 .. n : f[i] = OneMore(f[FindDocument(file, i).first - 1],
                                                   FindDocument(file, i))
  <2> HIDE DEF L
  <2> QED BY <1>8, <1>10, SplitSteps
<1> HIDE DEF n
<1>12. FindDocument(file, 3).text = SubSeq(file, 2, 2) /\ FindDocument(file, 3).first = 1
  <2>1. \A i \in 1 + 1 .. 3 - 1 : file[i].k \notin {"start", "end"}
    BY <1>1, <1>9
  <2>2. /\ FindDocument(file, 3).text = SubSeq(file, 1 + 1, 3 - 1)
        /\ FindDocument(file, 3).first = 1
    <3>1. 1 \in 1 .. 3 - 1 /\ 3 \in Nat
      OBVIOUS
    <3> QED BY <1>9, <2>1, <3>1, LastDocument
  <2> QED BY <2>2
<1>13. SubSeq(file, 2, 2) = <<Text("spec", s)>>
  <2> DEFINE t == SubSeq(file, 2, 2)
  <2>1. t \in Seq(L) /\ Len(t) = 1 /\ t[1] = file[2]
    <3> HIDE DEF L
    <3>1. Len(file) \in 5 .. 6
      BY <1>8 DEF n
    <3> QED BY <1>8, <3>1
  <2> HIDE DEF t, L
  <2>2. t = <<t[1]>>
    BY <2>1
  <2> QED BY <1>9, <2>1, <2>2 DEF t
<1>14. FindDocument(file, n).first = 4
  <2>1. \A i \in 4 + 1 .. n - 1 : file[i].k \notin {"start", "end"}
    BY <1>9
  <2>2. 4 \in 1 .. n - 1 /\ n \in Nat
    BY <1>8
  <2>3. file[3].k # "directive"
    BY <1>9
  <2> QED BY <1>9, <2>1, <2>2, <2>3, LastDocument
<1> DEFINE second == FindDocument(file, n).text
<1>15. f[3] = Append(<<>>, <<Text("spec", s)>>)
  <2>1. 3 \in 1 .. n
    BY <1>8
  <2>2. f[3] = OneMore(f[1 - 1], FindDocument(file, 3))
    BY <1>11, <1>12, <2>1
  <2>3. f[1 - 1] = <<>>
    BY <1>11
  <2>4. f[3] = Append(<<>>, FindDocument(file, 3).text)
    BY <2>2, <2>3 DEF OneMore
  <2> QED BY <1>12, <1>13, <2>4
<1>16. f[n] = Append(f[3], second)
  <2>1. n \in 1 .. n
    BY <1>8
  <2> QED BY <1>11, <1>14, <2>1 DEF OneMore
<1> HIDE DEF second
<1> DEFINE M == {<<Text("spec", s)>>, second}
<1>17. <<Text("spec", s)>> \in M /\ second \in M
  OBVIOUS
<1> HIDE DEF M
<1>18. f[3] \in Seq(M) /\ Len(f[3]) = 1 /\ f[3][1] = <<Text("spec", s)>>
  BY <1>15, <1>17
<1>19. Len(f[n]) = 2 /\ f[n][1] = <<Text("spec", s)>>
  BY <1>16, <1>17, <1>18
<1> QED BY <1>11, <1>19 DEF file

-----------------------------------------------------------------------------
(***************************************************************************)
(* The inductive invariant.  While the levels are merged, the              *)
(* specification so far is to the levels that have been merged, merged + 1 *)
(* and up, what the properties say it is to all of them in the end.        *)
(***************************************************************************)
TypeInv ==
  /\ input \in Inputs /\ wanted \in Names \cup {None}
  /\ levels \in Seq(Level) /\ Len(levels) <= MaxDepth /\ merged \in 0 .. Len(levels)
  /\ spec \in Specs /\ custom \in Specs /\ starts \in 0 .. MaxStarts
  /\ pc \in {"load", "merge", "custom", "config", "save", "instance",
             "failed", "panic", "overflow"}

Merging == pc \in {"load", "merge", "custom"}
Merged  == pc \in {"custom", "config", "save", "instance", "panic"}

\* All levels are loaded before the first is merged, and all are merged before
\* anything else is done.
ProgressInv ==
  /\ pc = "load" => merged = Len(levels) /\ spec = DefaultSpec /\ wanted \in Names
  /\ pc = "merge" => merged >= 1
  /\ Merged => merged = 0 /\ Len(levels) >= 1
  /\ pc = "overflow" => Len(levels) = MaxDepth
  /\ pc = "panic" => Panics(Parsed(Chain))

\* No image is without a name, so that reading a state file adds nothing.
NameInv == spec.set["base_image_name"] # 0

\* Of the levels from k on a specification has the nearest value of each field,
\* and all the entries of each list.
Nearest(lv, k, s) == \A f \in VMFields \cup BaseFields :
  \/ \E n \in k .. Len(lv) : /\ lv[n].spec.set[f] # 0 /\ s.set[f] = lv[n].spec.set[f]
                             /\ \A m \in k .. n - 1 : lv[m].spec.set[f] = 0
  \/ s.set[f] = DefaultSpec.set[f] /\ \A m \in k .. Len(lv) : lv[m].spec.set[f] = 0

Listed(lv, k, l, e) == \E n \in k .. Len(lv) :
  \E j \in 1 .. Len(lv[n].spec.lists[l]) : lv[n].spec.lists[l][j] = e

Complete(lv, k, s) == \A l \in Lists :
  /\ \A key : key \in KeysOf(s.lists[l]) <=>
       \/ \E n \in k .. Len(lv) : key \in KeysOf(lv[n].spec.lists[l])
       \/ l = "ports" /\ key = SSH /\ k <= Len(lv)
  /\ (\A n \in k .. Len(lv) : DistinctKeys(lv[n].spec.lists[l])) => DistinctKeys(s.lists[l])
  /\ \A i \in 1 .. Len(s.lists[l]) :
       Listed(lv, k, l, s.lists[l][i]) \/ s.lists[l][i] = DefaultSSH

ValuesInv == Merging => Nearest(levels, merged + 1, spec)
ListsInv  == Merging => Complete(levels, merged + 1, spec)

Kept(s, new) ==
  /\ \A f \in CustomFields : new.set[f] # 0 => s.set[f] = new.set[f]
  /\ \A l \in Lists : DistinctKeys(new.lists[l]) =>
       \A i \in DOMAIN new.lists[l] : Entry(s.lists[l], new.lists[l][i].key) = new.lists[l][i]

CustomInv == pc \in {"config", "save", "instance"} => Kept(spec, custom)

CloudInv == cloud # None =>
  /\ pc \in {"save", "instance"} /\ cloud = WithFinished(Parsed(Chain))
  /\ ~ParseFails(Chain) /\ ~Panics(Parsed(Chain))

SavedInv == IF pc = "instance" THEN saved = State(spec, cloud) ELSE saved = None

WorkloadInv ==
  /\ TypeInv /\ ProgressInv /\ NameInv /\ ValuesInv /\ ListsInv
  /\ CustomInv /\ CloudInv /\ SavedInv

\* The two documents of a workload consist of lines of its file.
LEMMA LoadedIs ==
  ASSUME TypeInv, NEW w, Found(w) # None, Len(SplitYaml(input.files[Found(w)])) = 2
  PROVE  /\ SplitYaml(input.files[Found(w)])[1] \in Seq(InputLines)
         /\ SplitYaml(input.files[Found(w)])[2] \in Seq(InputLines)
         /\ Unmarshal(SplitYaml(input.files[Found(w)])[1]) \in Specs
<1> DEFINE docs == SplitYaml(input.files[Found(w)])
<1>1. input \in Inputs
  BY DEF TypeInv
<1>2. Found(w) \in DOMAIN input.files
  BY FoundThere
<1>3. input.files[Found(w)] \in Seq(InputLines)
  BY <1>1, <1>2, FileLines
<1>4. docs \in Seq(Seq(InputLines))
  BY <1>3, SplitType
<1>5. Len(docs) = 2
  OBVIOUS
<1> HIDE DEF docs
<1>6. docs[1] \in Seq(InputLines) /\ docs[2] \in Seq(InputLines)
  <2> DEFINE T == Seq(InputLines)
  <2>1. docs \in Seq(T)
    BY <1>4
  <2> HIDE DEF T
  <2>2. docs[1] \in T /\ docs[2] \in T
    BY <1>5, <2>1
  <2> QED BY <2>2 DEF T
<1>7. Unmarshal(docs[1]) \in Specs
  BY <1>6, UnmarshalType
<1> QED BY <1>6, <1>7 DEF docs

\* What a step of Load does to the levels: it ends the creation or adds one.
LEMMA LoadIs ==
  ASSUME TypeInv, ProgressInv, Load
  PROVE  /\ pc = "load" /\ UNCHANGED <<input, spec, custom, cloud, saved, starts>>
         /\ \/ pc' = "failed" /\ UNCHANGED <<wanted, levels, merged>>
            \/ pc' = "overflow" /\ Len(levels) = MaxDepth /\ UNCHANGED <<wanted, levels, merged>>
            \/ \E x \in Level :
                 /\ Len(levels) < MaxDepth /\ levels' = Append(levels, x)
                 /\ wanted' = x.spec.inherits /\ merged' = merged + 1
                 /\ pc' = IF x.spec.inherits = None THEN "merge" ELSE "load"
<1> DEFINE docs == SplitYaml(input.files[Found(wanted)])
           x == [name |-> wanted, spec |-> Unmarshal(docs[1]), data |-> docs[2]]
<1>1. wanted \in Names
  BY DEF Load, ProgressInv
<1>2. ASSUME Found(wanted) # None, Len(docs) = 2
      PROVE  x \in Level
  <2>1. /\ docs[1] \in Seq(InputLines) /\ docs[2] \in Seq(InputLines)
        /\ Unmarshal(docs[1]) \in Specs
    BY <1>2, LoadedIs
  <2> HIDE DEF docs
  <2> QED BY <1>1, <2>1 DEF Level
<1>3. x.spec = Unmarshal(docs[1])
  OBVIOUS
<1>4. /\ pc = "load" /\ UNCHANGED input
      /\ \/ Stop("failed")
         \/ Len(levels) = MaxDepth /\ Stop("overflow")
         \/ /\ Found(wanted) # None /\ Len(docs) = 2 /\ Len(levels) < MaxDepth
            /\ levels' = Append(levels, x)
            /\ wanted' = x.spec.inherits /\ merged' = merged + 1
            /\ pc' = IF x.spec.inherits = None THEN "merge" ELSE "load"
            /\ UNCHANGED <<spec, custom, cloud, saved, starts>>
  BY DEF Load, Goto
<1> HIDE DEF docs, x
<1> QED BY <1>2, <1>4 DEF Stop, Goto

\* The specification a state file is read back to is the one that was saved.
LEMMA StateIs ==
  ASSUME spec \in Specs, NameInv, NEW c
  PROVE  /\ Len(SplitYaml(State(spec, c))) = 2
         /\ ~Bad(SplitYaml(State(spec, c))[1])
         /\ Unmarshal(SplitYaml(State(spec, c))[1]) = spec
<1> DEFINE text == <<Text("spec", spec)>>
<1>1. Len(SplitYaml(State(spec, c))) = 2 /\ SplitYaml(State(spec, c))[1] = text
  BY StateDocuments
<1>2. text \in Seq({Text("spec", spec)}) /\ Len(text) = 1 /\ text[1] = Text("spec", spec)
  OBVIOUS
<1>3. Text("spec", spec).k = "spec" /\ Text("spec", spec).v = spec
  BY DEF Text
<1> HIDE DEF text
<1>4. ~Bad(text)
  BY <1>2, <1>3 DEF Bad
<1>5. LastText(text, "spec", EmptySpec) = spec
  <2> DEFINE i == LastOf(text, Len(text), {"spec"})
  <2>1. i \in 0 .. 1 /\ \A j \in i + 1 .. 1 : text[j].k \notin {"spec"}
    BY <1>2, LastOfIs
  <2>2. LastText(text, "spec", EmptySpec) = IF i = 0 THEN EmptySpec ELSE text[i].v
    BY DEF LastText
  <2> HIDE DEF i
  <2>3. i = 1
    BY <1>2, <1>3, <2>1
  <2> QED BY <1>2, <1>3, <2>2, <2>3
<1>6. Unmarshal(text) = spec
  BY <1>5 DEF Unmarshal, NameInv
<1> QED BY <1>1, <1>4, <1>6

Started(s, c) == [MergeCustom(s, c) EXCEPT !.set = Fill(@, DefaultSpec.set, {"mem_mib", "cpus"})]

\* The parts of the specification after a start.
LEMMA StartedType ==
  ASSUME NEW s \in Specs, NEW c \in Specs
  PROVE  /\ Started(s, c) \in Specs
         /\ Started(s, c).set =
              Fill(MergeCustom(s, c).set, DefaultSpec.set, {"mem_mib", "cpus"})
         /\ Started(s, c).lists = MergeLists(s.lists, c.lists)
<1> DEFINE r == MergeCustom(s, c)
           set == Fill(r.set, DefaultSpec.set, {"mem_mib", "cpus"})
<1>1. r \in Specs /\ r.lists = MergeLists(s.lists, c.lists)
  BY MergeCustomType
<1>2. Started(s, c) = [r EXCEPT !.set = set]
  BY DEF Started
<1> HIDE DEF r
<1>3. set \in [Fields -> Nat]
  <2>1. r.set \in [Fields -> Nat] /\ DefaultSpec.set \in [Fields -> Nat]
    BY <1>1, EmptySpecs DEF Specs
  <2> QED BY <2>1, FillType
<1> HIDE DEF set
<1>4. Started(s, c) \in Specs /\ Started(s, c).set = set /\ Started(s, c).lists = r.lists
  BY <1>1, <1>2, <1>3 DEF Specs
<1> QED BY <1>1, <1>4 DEF r, set

\* What the user gives is in the result of a merge, if it does not give an
\* entry of a list twice.
LEMMA MergedLists ==
  ASSUME NEW s \in Specs, NEW c \in Specs, NEW l \in Lists, DistinctKeys(c.lists[l]),
         NEW i \in DOMAIN c.lists[l]
  PROVE  Entry(MergeLists(s.lists, c.lists)[l], c.lists[l][i].key) = c.lists[l][i]
<1>1. s.lists \in [Lists -> Seq(Entries)] /\ c.lists \in [Lists -> Seq(Entries)]
  BY DEF Specs
<1>2. MergeLists(s.lists, c.lists)[l] = MergeList(s.lists[l], c.lists[l])
  BY <1>1, MergeListsType
<1> DEFINE a == s.lists[l]
           b == c.lists[l]
<1>3. a \in Seq(Entries) /\ b \in Seq(Entries)
  BY <1>1
<1>4. DistinctKeys(b) /\ i \in DOMAIN b
  OBVIOUS
<1> HIDE DEF a, b
<1>5. i \in 1 .. Len(b)
  BY <1>3, <1>4
<1>6. Entry(MergeList(a, b), b[i].key) = b[i]
  BY <1>3, <1>4, <1>5, MergeListIs
<1> QED BY <1>2, <1>6 DEF a, b

\* Both merges, that of create and that of start, keep what the user gives.
LEMMA CustomKept ==
  ASSUME NEW s \in Specs, NEW c \in Specs
  PROVE  Kept(MergeCustom(s, c), c) /\ Kept(Started(s, c), c)
<1> DEFINE m == MergeCustom(s, c)
           t == Started(s, c)
<1>1. /\ m \in Specs /\ m.set = Override(s.set, c.set, CustomFields)
      /\ m.lists = MergeLists(s.lists, c.lists)
  BY MergeCustomType
<1>2. /\ t.set = Fill(m.set, DefaultSpec.set, {"mem_mib", "cpus"})
      /\ t.lists = MergeLists(s.lists, c.lists)
  BY StartedType
<1> HIDE DEF m, t
<1>3. /\ s.set \in [Fields -> Nat] /\ c.set \in [Fields -> Nat] /\ m.set \in [Fields -> Nat]
      /\ DefaultSpec.set \in [Fields -> Nat]
  BY <1>1, EmptySpecs DEF Specs
<1>4. \A f \in CustomFields : f \in Fields
  BY FieldsAre
<1>5. \A f \in CustomFields : c.set[f] # 0 => m.set[f] = c.set[f]
  BY <1>1, <1>3, <1>4, FillType
<1>6. \A f \in CustomFields : c.set[f] # 0 => t.set[f] = c.set[f]
  BY <1>2, <1>3, <1>4, <1>5, FillType
<1>7. \A l \in Lists : DistinctKeys(c.lists[l]) => \A i \in DOMAIN c.lists[l] :
        Entry(MergeLists(s.lists, c.lists)[l], c.lists[l][i].key) = c.lists[l][i]
  BY MergedLists
<1>8. Kept(m, c)
  BY <1>1, <1>5, <1>7 DEF Kept
<1>9. Kept(t, c)
  BY <1>2, <1>6, <1>7 DEF Kept
<1> QED BY <1>8, <1>9 DEF m, t

\* A start of the instance reads what was saved last.
LEMMA StartIs ==
  ASSUME WorkloadInv, Start
  PROVE  /\ pc = "instance" /\ pc' = "instance" /\ UNCHANGED <<input, wanted, levels, merged>>
         /\ starts < MaxStarts /\ starts' = starts + 1
         /\ cloud' = None /\ saved' = State(spec', cloud')
         /\ \E c \in input.customs : custom' = c /\ spec' = Started(spec, c)
<1> DEFINE docs == SplitYaml(saved)
<1>1. spec \in Specs /\ NameInv /\ pc = "instance" /\ saved = State(spec, cloud)
  BY DEF WorkloadInv, TypeInv, SavedInv, Start
<1>2. Len(docs) = 2 /\ ~Bad(docs[1]) /\ Unmarshal(docs[1]) = spec
  BY <1>1, StateIs
<1>3. /\ starts < MaxStarts /\ starts' = starts + 1 /\ UNCHANGED <<input, wanted, levels, merged>>
      /\ \E c \in input.customs :
           /\ custom' = c
           /\ spec' = [MergeCustom(Unmarshal(docs[1]), c) EXCEPT
                         !.set = Fill(@, DefaultSpec.set, {"mem_mib", "cpus"})]
           /\ cloud' = None /\ saved' = State(spec', cloud') /\ pc' = pc
  BY <1>2 DEF Start, Goto
<1> HIDE DEF docs
<1> QED BY <1>1, <1>2, <1>3 DEF Started

\* The values that the user may give are specifications.
LEMMA CustomsAre ==
  ASSUME TypeInv
  PROVE  input.customs \subseteq Specs /\ input.name \in Names
BY InputsAssumption DEF TypeInv, InputsAssumption

\* No level is loaded, none is merged.
LEMMA InitInv == Init => WorkloadInv
<1> SUFFICES ASSUME Init
             PROVE  WorkloadInv
  OBVIOUS
<1>1. levels = <<>> /\ levels \in Seq(Level) /\ Len(levels) = 0
  BY DEF Init
<1>2. TypeInv
  BY <1>1, EmptySpecs, WorkloadsAssumption, InputsAssumption
     DEF Init, TypeInv, WorkloadsAssumption, InputsAssumption
<1>3. ProgressInv
  BY <1>1, <1>2, CustomsAre DEF Init, ProgressInv, Merged
<1>4. DefaultSpec.set["base_image_name"] # 0
  <2> DEFINE set == [f \in Fields |-> IF f \in DOMAIN Defaults THEN Defaults[f] ELSE 0]
  <2>1. set["base_image_name"] = 1002
    BY FieldsAre DEF Defaults
  <2> HIDE DEF set
  <2>2. DefaultSpec = [EmptySpec EXCEPT !.set = set]
    BY DEF DefaultSpec, set
  <2>3. DefaultSpec.set = set
    BY <2>2 DEF EmptySpec
  <2> QED BY <2>1, <2>3
<1>5. NameInv
  BY <1>4 DEF Init, NameInv
<1>6. merged + 1 .. Len(levels) = {} /\ merged = 0
  BY <1>1 DEF Init
<1>7. ValuesInv
  BY <1>6 DEF Init, ValuesInv, Nearest
<1>8. ListsInv
  <2>1. \A l \in Lists : spec.lists[l] = <<>>
    BY DEF Init, DefaultSpec, EmptySpec, NoLists
  <2>2. \A l \in Lists : Len(spec.lists[l]) = 0 /\ DOMAIN spec.lists[l] = {}
    BY <2>1
  <2>3. \A l \in Lists : KeysOf(spec.lists[l]) = {} /\ DistinctKeys(spec.lists[l])
    BY <2>2 DEF KeysOf, DistinctKeys
  <2> QED BY <1>1, <1>6, <2>2, <2>3 DEF Init, ListsInv, Complete
<1>9. CustomInv /\ CloudInv /\ SavedInv
  BY DEF Init, CustomInv, CloudInv, SavedInv
<1> QED BY <1>2, <1>3, <1>5, <1>7, <1>8, <1>9 DEF WorkloadInv

\* Merges give specifications, Load adds a level.
LEMMA TypeStep == WorkloadInv /\ [Next]_vars => TypeInv'
<1> SUFFICES ASSUME WorkloadInv, [Next]_vars
             PROVE  TypeInv'
  OBVIOUS
<1>1. TypeInv /\ ProgressInv
  BY DEF WorkloadInv
<1>2. CASE Load
  <2>2. /\ UNCHANGED <<input, spec, custom, starts>>
        /\ \/ pc' \in {"failed", "overflow"} /\ UNCHANGED <<wanted, levels, merged>>
           \/ \E x \in Level :
                /\ Len(levels) < MaxDepth /\ levels' = Append(levels, x)
                /\ wanted' = x.spec.inherits /\ merged' = merged + 1
                /\ pc' \in {"merge", "load"}
    BY <1>1, <1>2, LoadIs
  <2>3. CASE UNCHANGED <<wanted, levels, merged>> /\ pc' \in {"failed", "overflow"}
    BY <1>1, <2>2, <2>3 DEF TypeInv
  <2>4. ASSUME NEW x \in Level, Len(levels) < MaxDepth, levels' = Append(levels, x),
               wanted' = x.spec.inherits, merged' = merged + 1, pc' \in {"merge", "load"}
        PROVE  TypeInv'
    <3>1. levels' \in Seq(Level) /\ Len(levels') = Len(levels) + 1
      BY <1>1, <2>4 DEF TypeInv
    <3>2. wanted' \in Names \cup {None}
      BY <2>4 DEF Level, Specs
    <3>3. Len(levels') <= MaxDepth /\ merged' \in 0 .. Len(levels')
      BY <1>1, <2>4, <3>1, WorkloadsAssumption DEF TypeInv, WorkloadsAssumption
    <3> QED BY <1>1, <2>2, <2>4, <3>1, <3>2, <3>3 DEF TypeInv
  <2> QED BY <2>2, <2>3, <2>4
<1>3. CASE MergeLevel
  <2>1. levels[merged] \in Level /\ merged - 1 \in 0 .. Len(levels)
    BY <1>1, <1>3 DEF MergeLevel, TypeInv, ProgressInv
  <2>2. levels[merged].spec \in Specs /\ spec \in Specs
    BY <1>1, <2>1 DEF Level, TypeInv
  <2>3. EnsureSSH(MergeParent(levels[merged].spec, spec)) \in Specs
    BY <2>2, MergeParentType, EnsureSSHIs
  <2>4. /\ UNCHANGED <<input, wanted, levels, custom, starts>> /\ merged' = merged - 1
        /\ spec' \in Specs /\ pc' \in {"merge", "custom"}
    BY <1>3, <2>3 DEF MergeLevel, Goto
  <2> QED BY <1>1, <2>1, <2>4 DEF TypeInv
<1>4. CASE Customise
  <2>1. \A c \in input.customs : c \in Specs /\ MergeCustom(spec, c) \in Specs
    BY <1>1, CustomsAre, MergeCustomType DEF TypeInv
  <2>2. /\ UNCHANGED <<input, wanted, levels, merged, starts>> /\ pc' \in {"failed", "config"}
        /\ spec' \in Specs /\ custom' \in Specs
    BY <1>1, <1>4, <2>1 DEF Customise, Stop, Goto, TypeInv
  <2> QED BY <1>1, <2>2 DEF TypeInv
<1>5. CASE Generate
  BY <1>1, <1>5 DEF Generate, Stop, Goto, TypeInv
<1>6. CASE Save
  BY <1>1, <1>6 DEF Save, Goto, TypeInv
<1>7. CASE Start
  <2>1. \A c \in input.customs : c \in Specs /\ Started(spec, c) \in Specs
    BY <1>1, CustomsAre, StartedType DEF TypeInv
  <2>2. /\ UNCHANGED <<input, wanted, levels, merged>> /\ pc' = "instance"
        /\ starts < MaxStarts /\ starts' = starts + 1 /\ spec' \in Specs /\ custom' \in Specs
    BY <1>7, <2>1, StartIs
  <2>3. starts' \in 0 .. MaxStarts
    BY <1>1, <2>2, WorkloadsAssumption DEF TypeInv, WorkloadsAssumption
  <2> QED BY <1>1, <2>2, <2>3 DEF TypeInv
<1>8. CASE UNCHANGED vars
  BY <1>1, <1>8 DEF vars, TypeInv
<1> QED BY <1>2, <1>3, <1>4, <1>5, <1>6, <1>7, <1>8 DEF Next

\* The documents change only with the levels.
LEMMA ChainStays == UNCHANGED levels => UNCHANGED Chain
BY DEF Chain

\* A step goes on only when the work before it is done.
LEMMA ProgressStep == WorkloadInv /\ [Next]_vars => ProgressInv'
<1> SUFFICES ASSUME WorkloadInv, [Next]_vars
             PROVE  ProgressInv'
  OBVIOUS
<1>1. TypeInv /\ ProgressInv
  BY DEF WorkloadInv
<1>2. CASE Load
  <2>1. /\ UNCHANGED spec /\ pc = "load"
        /\ \/ pc' = "failed"
           \/ pc' = "overflow" /\ Len(levels) = MaxDepth /\ UNCHANGED levels
           \/ \E x \in Level :
                /\ levels' = Append(levels, x) /\ wanted' = x.spec.inherits
                /\ merged' = merged + 1 /\ pc' = IF x.spec.inherits = None THEN "merge" ELSE "load"
    BY <1>1, <1>2, LoadIs
  <2>2. CASE pc' = "failed"
    BY <2>2 DEF ProgressInv, Merged
  <2>3. CASE pc' = "overflow" /\ Len(levels) = MaxDepth /\ UNCHANGED levels
    BY <2>3 DEF ProgressInv, Merged
  <2>4. ASSUME NEW x \in Level, levels' = Append(levels, x), wanted' = x.spec.inherits,
               merged' = merged + 1, pc' = IF x.spec.inherits = None THEN "merge" ELSE "load"
        PROVE  ProgressInv'
    <3>1. Len(levels') = Len(levels) + 1 /\ merged = Len(levels) /\ spec = DefaultSpec
          /\ merged' >= 1
      BY <1>1, <2>1, <2>4 DEF TypeInv, ProgressInv
    <3>2. x.spec.inherits \in Names \cup {None}
      BY <2>4 DEF Level, Specs
    <3>3. pc' \in {"merge", "load"} /\ (pc' = "load" => wanted' \in Names)
      BY <2>4, <3>2
    <3>4. spec' = DefaultSpec'
      BY <2>1, <3>1 DEF DefaultSpec, EmptySpec, NoLists, Defaults
    <3> QED BY <2>4, <3>1, <3>3, <3>4 DEF ProgressInv, Merged
  <2> QED BY <2>1, <2>2, <2>3, <2>4
<1>3. CASE MergeLevel
  <2>1. /\ merged >= 1 /\ merged \in 0 .. Len(levels) /\ merged' = merged - 1 /\ UNCHANGED levels
        /\ pc' = IF merged = 1 THEN "custom" ELSE "merge"
    BY <1>1, <1>3 DEF MergeLevel, Goto, LastMerge, TypeInv, ProgressInv
  <2>2. Len(levels) \in Nat
    BY <1>1 DEF TypeInv
  <2> QED BY <2>1, <2>2 DEF ProgressInv, Merged
<1>4. CASE Customise
  <2>1. pc' \in {"failed", "config"} /\ UNCHANGED <<levels, merged>> /\ Merged
    BY <1>4 DEF Customise, Stop, Goto, Merged
  <2> QED BY <1>1, <2>1 DEF ProgressInv, Merged
<1>5. CASE Generate
  <2>1. /\ pc' \in {"failed", "panic", "save"} /\ UNCHANGED <<levels, merged>> /\ Merged
        /\ pc' = "panic" => Panics(Parsed(Chain))
    BY <1>5 DEF Generate, Stop, Goto, Merged
  <2>2. Chain' = Chain
    BY <2>1, ChainStays
  <2> QED BY <1>1, <2>1, <2>2 DEF ProgressInv, Merged
<1>6. CASE Save
  <2>1. pc' = "instance" /\ UNCHANGED <<levels, merged>> /\ Merged
    BY <1>6 DEF Save, Goto, Merged
  <2> QED BY <1>1, <2>1 DEF ProgressInv, Merged
<1>7. CASE Start
  <2>1. pc = "instance" /\ pc' = "instance" /\ UNCHANGED <<levels, merged>>
    BY <1>7, StartIs
  <2> QED BY <1>1, <2>1 DEF ProgressInv, Merged
<1>8. CASE UNCHANGED vars
  <2>1. UNCHANGED <<pc, levels, merged, spec, wanted>> /\ Chain' = Chain
    BY <1>8, ChainStays DEF vars
  <2> QED BY <1>1, <2>1 DEF ProgressInv, Merged
<1> QED BY <1>2, <1>3, <1>4, <1>5, <1>6, <1>7, <1>8 DEF Next

\* A merge leaves no image without a name.
LEMMA NameStep == WorkloadInv /\ [Next]_vars => NameInv'
<1> SUFFICES ASSUME WorkloadInv, [Next]_vars
             PROVE  NameInv'
  OBVIOUS
<1> DEFINE name == "base_image_name"
<1>1. TypeInv /\ ProgressInv /\ spec.set[name] # 0
  BY DEF WorkloadInv, NameInv
<1>2. name \in Fields /\ name \in VMFields \cup BaseFields /\ name \notin CustomFields
      /\ name \notin {"mem_mib", "cpus"}
  BY FieldsAre
<1> HIDE DEF name
<1>3. CASE UNCHANGED spec
  BY <1>1, <1>3 DEF NameInv, name
<1>4. CASE MergeLevel
  <2> DEFINE x == levels[merged].spec
  <2>1. x \in Specs /\ spec \in Specs
    <3>1. levels[merged] \in Level
      BY <1>1, <1>4 DEF MergeLevel, TypeInv, ProgressInv
    <3> QED BY <1>1, <3>1 DEF Level, TypeInv
  <2>2. spec' = EnsureSSH(MergeParent(x, spec))
    BY <1>4 DEF MergeLevel
  <2> HIDE DEF x
  <2>3. spec'.set = Fill(x.set, spec.set, VMFields \cup BaseFields)
    BY <2>1, <2>2, MergeParentType, EnsureSSHIs
  <2>4. x.set \in [Fields -> Nat] /\ spec.set \in [Fields -> Nat]
    BY <2>1 DEF Specs
  <2>5. spec'.set[name] # 0
    BY <1>1, <1>2, <2>3, <2>4, FillType
  <2> QED BY <2>5 DEF NameInv, name
<1>5. ASSUME NEW c \in input.customs
      PROVE  MergeCustom(spec, c).set[name] # 0 /\ Started(spec, c).set[name] # 0
  <2> DEFINE m == MergeCustom(spec, c)
  <2>1. spec \in Specs /\ c \in Specs
    BY <1>1, CustomsAre DEF TypeInv
  <2>2. m \in Specs /\ m.set = Override(spec.set, c.set, CustomFields)
        /\ Started(spec, c).set = Fill(m.set, DefaultSpec.set, {"mem_mib", "cpus"})
    BY <2>1, MergeCustomType, StartedType
  <2> HIDE DEF m
  <2>3. /\ spec.set \in [Fields -> Nat] /\ c.set \in [Fields -> Nat]
        /\ m.set \in [Fields -> Nat] /\ DefaultSpec.set \in [Fields -> Nat]
    BY <2>1, <2>2, EmptySpecs DEF Specs
  <2>4. m.set[name] = spec.set[name]
    <3> DEFINE a == spec.set
               b == c.set
    <3>1. Override(a, b, CustomFields)[name] =
            IF name \in CustomFields /\ b[name] # 0 THEN b[name] ELSE a[name]
      <4> HIDE DEF a, b
      <4> QED BY <1>2, <2>3, FillType DEF a, b
    <3> QED BY <1>2, <2>2, <3>1
  <2>5. Started(spec, c).set[name] = m.set[name]
    <3> DEFINE a == m.set
               b == DefaultSpec.set
               F == {"mem_mib", "cpus"}
    <3>1. Fill(a, b, F)[name] = IF name \in F /\ a[name] = 0 THEN b[name] ELSE a[name]
      <4> HIDE DEF a, b, F
      <4> QED BY <1>2, <2>3, FillType DEF a, b
    <3> QED BY <1>2, <2>2, <3>1
  <2> QED BY <1>1, <2>4, <2>5 DEF m
<1>6. CASE Customise
  <2>1. UNCHANGED spec \/ \E c \in input.customs : spec' = MergeCustom(spec, c)
    BY <1>6 DEF Customise, Stop
  <2> QED BY <1>3, <1>5, <2>1 DEF NameInv, name
<1>7. CASE Start
  <2>1. \E c \in input.customs : spec' = Started(spec, c)
    BY <1>7, StartIs
  <2> QED BY <1>5, <2>1 DEF NameInv, name
<1>8. CASE Load \/ Generate \/ Save \/ UNCHANGED vars
  <2>1. UNCHANGED spec
    BY <1>1, <1>8, LoadIs DEF Generate, Save, Stop, vars
  <2> QED BY <1>3, <2>1
<1> QED BY <1>4, <1>6, <1>7, <1>8 DEF Next

\* Only Customise and Start change what the user gave last.
LEMMA CustomStep == WorkloadInv /\ [Next]_vars => CustomInv'
<1> SUFFICES ASSUME WorkloadInv, [Next]_vars
             PROVE  CustomInv'
  OBVIOUS
<1>1. TypeInv /\ ProgressInv /\ CustomInv
  BY DEF WorkloadInv
<1>2. \A c \in input.customs : Kept(MergeCustom(spec, c), c) /\ Kept(Started(spec, c), c)
  BY <1>1, CustomsAre, CustomKept DEF TypeInv
<1>3. CASE Load \/ MergeLevel
  <2>1. pc' \in {"failed", "overflow", "merge", "load", "custom"}
    BY <1>1, <1>3, LoadIs DEF MergeLevel, Goto
  <2> QED BY <2>1 DEF CustomInv
<1>4. CASE Customise
  <2>1. \/ pc' = "failed"
        \/ \E c \in input.customs : spec' = MergeCustom(spec, c) /\ custom' = c
    BY <1>4 DEF Customise, Stop, Goto
  <2>2. pc' # "failed" => Kept(spec', custom')
    BY <1>2, <2>1
  <2> QED BY <2>2 DEF CustomInv, Kept
<1>5. CASE Start
  <2>1. \E c \in input.customs : spec' = Started(spec, c) /\ custom' = c
    BY <1>5, StartIs
  <2>2. Kept(spec', custom')
    BY <1>2, <2>1
  <2> QED BY <2>2 DEF CustomInv, Kept
<1>6. CASE Generate \/ Save \/ UNCHANGED vars
  <2>1. UNCHANGED <<spec, custom>>
        /\ (pc' \in {"config", "save", "instance"} => pc \in {"config", "save", "instance"})
    BY <1>6 DEF Generate, Save, Stop, Goto, vars
  <2>2. pc' \in {"config", "save", "instance"} => Kept(spec, custom)
    BY <1>1, <2>1 DEF CustomInv
  <2> QED BY <2>1, <2>2 DEF CustomInv, Kept
<1> QED BY <1>3, <1>4, <1>5, <1>6 DEF Next

\* The cloud-config is generated from all the levels, none is loaded later.
LEMMA CloudStep == WorkloadInv /\ [Next]_vars => CloudInv'
<1> SUFFICES ASSUME WorkloadInv, [Next]_vars
             PROVE  CloudInv'
  OBVIOUS
<1>1. TypeInv /\ ProgressInv /\ CloudInv /\ WorkloadInv
  BY DEF WorkloadInv
<1>2. CASE Load \/ MergeLevel \/ Customise
  <2>1. UNCHANGED cloud /\ pc \in {"load", "merge", "custom"}
    BY <1>1, <1>2, LoadIs DEF MergeLevel, Customise, Stop
  <2> QED BY <1>1, <2>1 DEF CloudInv
<1>3. CASE Generate
  <2>1. \/ UNCHANGED cloud /\ pc = "config"
        \/ /\ ~ParseFails(Chain) /\ ~Panics(Parsed(Chain)) /\ cloud' = WithFinished(Parsed(Chain))
           /\ pc' = "save" /\ UNCHANGED levels
    BY <1>3 DEF Generate, Stop, Goto, ConfigFails
  <2>2. UNCHANGED levels => Chain' = Chain
    BY ChainStays
  <2> QED BY <1>1, <2>1, <2>2 DEF CloudInv
<1>4. CASE Start
  <2>1. cloud' = None
    BY <1>1, <1>4, StartIs
  <2> QED BY <2>1 DEF CloudInv
<1>5. CASE Save \/ UNCHANGED vars
  <2>1. UNCHANGED <<cloud, levels>> /\ (pc \in {"save", "instance"} => pc' \in {"save", "instance"})
    BY <1>5 DEF Save, Goto, vars
  <2>2. Chain' = Chain
    BY <2>1, ChainStays
  <2> QED BY <1>1, <2>1, <2>2 DEF CloudInv
<1> QED BY <1>2, <1>3, <1>4, <1>5 DEF Next

\* Whatever is changed in the instance is saved in the same step.
LEMMA SavedStep == WorkloadInv /\ [Next]_vars => SavedInv'
<1> SUFFICES ASSUME WorkloadInv, [Next]_vars
             PROVE  SavedInv'
  OBVIOUS
<1>1. TypeInv /\ ProgressInv /\ SavedInv /\ WorkloadInv
  BY DEF WorkloadInv
<1>2. CASE Load \/ MergeLevel \/ Customise \/ Generate
  <2>1. UNCHANGED saved /\ pc # "instance" /\ pc' # "instance"
    BY <1>1, <1>2, LoadIs DEF MergeLevel, Customise, Generate, Stop, Goto
  <2> QED BY <1>1, <2>1 DEF SavedInv
<1>3. CASE Save
  <2>1. pc' = "instance" /\ saved' = State(spec, cloud) /\ UNCHANGED <<spec, cloud>>
    BY <1>3 DEF Save, Goto
  <2> QED BY <2>1 DEF SavedInv, State
<1>4. CASE Start
  <2>1. pc' = "instance" /\ saved' = State(spec', cloud')
    BY <1>1, <1>4, StartIs
  <2> QED BY <2>1 DEF SavedInv
<1>5. CASE UNCHANGED vars
  <2>1. UNCHANGED <<pc, saved, spec, cloud>>
    BY <1>5 DEF vars
  <2> QED BY <1>1, <2>1 DEF SavedInv
<1> QED BY <1>2, <1>3, <1>4, <1>5 DEF Next

-----------------------------------------------------------------------------
\* The merge of one more level.

\* The level that a step merges is there.
LEMMA LevelIs ==
  ASSUME TypeInv, ProgressInv, MergeLevel
  PROVE  /\ merged \in 1 .. Len(levels) /\ levels[merged].spec \in Specs /\ spec \in Specs
         /\ merged' = merged - 1 /\ UNCHANGED levels
         /\ spec' = EnsureSSH(MergeParent(levels[merged].spec, spec))
         /\ Len(levels) \in Nat
<1>1. merged \in 1 .. Len(levels) /\ Len(levels) \in Nat
  BY DEF MergeLevel, TypeInv, ProgressInv
<1>2. levels[merged] \in Level
  BY <1>1 DEF TypeInv
<1> QED BY <1>1, <1>2 DEF MergeLevel, TypeInv, Level

\* The last case of the two steps below: nothing is being merged.
LEMMA OtherSteps ==
  ASSUME WorkloadInv, Customise \/ Generate \/ Save \/ Start
  PROVE  ~Merging'
<1>1. pc' \in {"failed", "config", "panic", "save", "instance"}
  BY StartIs DEF Customise, Generate, Save, Stop, Goto
<1> QED BY <1>1 DEF Merging

\* While levels are loaded there is nothing to relate.
LEMMA LoadDone ==
  ASSUME WorkloadInv, Load, Merging'
  PROVE  /\ spec' = DefaultSpec /\ merged' = Len(levels')
         /\ merged' + 1 .. Len(levels') = {}
<1>1. TypeInv /\ ProgressInv
  BY DEF WorkloadInv
<1>2. merged = Len(levels) /\ spec = DefaultSpec /\ UNCHANGED spec
  BY <1>1, LoadIs DEF ProgressInv
<1>3. \E x \in Level : levels' = Append(levels, x) /\ merged' = merged + 1
  BY <1>1, LoadIs DEF Merging
<1>4. Len(levels') = Len(levels) + 1 /\ Len(levels) \in Nat
  BY <1>1, <1>3 DEF TypeInv
<1> QED BY <1>2, <1>3, <1>4

\* A level that gives a value hides those behind it.
LEMMA NearestStep ==
  ASSUME NEW lv, Len(lv) \in Nat, NEW k \in 1 .. Len(lv), NEW s \in Specs, NEW new,
         lv[k].spec \in Specs, Nearest(lv, k + 1, s),
         new.set = Fill(lv[k].spec.set, s.set, VMFields \cup BaseFields)
  PROVE  Nearest(lv, k, new)
<1> SUFFICES ASSUME NEW f \in VMFields \cup BaseFields
             PROVE  \/ \E n \in k .. Len(lv) :
                         /\ lv[n].spec.set[f] # 0 /\ new.set[f] = lv[n].spec.set[f]
                         /\ \A m \in k .. n - 1 : lv[m].spec.set[f] = 0
                    \/ /\ new.set[f] = DefaultSpec.set[f]
                       /\ \A m \in k .. Len(lv) : lv[m].spec.set[f] = 0
  BY DEF Nearest
<1> DEFINE val(n) == lv[n].spec.set[f]
<1>1. new.set[f] = IF val(k) = 0 THEN s.set[f] ELSE val(k)
  <2> DEFINE F == VMFields \cup BaseFields
             a == lv[k].spec.set
             b == s.set
  <2>1. a \in [Fields -> Nat] /\ b \in [Fields -> Nat] /\ f \in Fields /\ f \in F
    BY FieldsAre DEF Specs
  <2>2. new.set = Fill(a, b, F) /\ val(k) = a[f]
    OBVIOUS
  <2> HIDE DEF a, b, F, val
  <2>3. Fill(a, b, F)[f] = IF f \in F /\ a[f] = 0 THEN b[f] ELSE a[f]
    BY <2>1, FillType
  <2> QED BY <2>1, <2>2, <2>3 DEF b
<1>2. \/ \E n \in k + 1 .. Len(lv) : /\ val(n) # 0 /\ s.set[f] = val(n)
                                     /\ \A m \in k + 1 .. n - 1 : val(m) = 0
      \/ s.set[f] = DefaultSpec.set[f] /\ \A m \in k + 1 .. Len(lv) : val(m) = 0
  BY DEF Nearest
<1> HIDE DEF val
<1>3. ASSUME val(k) # 0
      PROVE  \E n \in k .. Len(lv) :
               val(n) # 0 /\ new.set[f] = val(n) /\ \A m \in k .. n - 1 : val(m) = 0
  <2>1. k \in k .. Len(lv) /\ \A m \in k .. k - 1 : val(m) = 0
    OBVIOUS
  <2> QED BY <1>1, <1>3, <2>1
<1>4. ASSUME val(k) = 0,
             NEW n \in k + 1 .. Len(lv), val(n) # 0, s.set[f] = val(n),
             \A m \in k + 1 .. n - 1 : val(m) = 0
      PROVE  \E i \in k .. Len(lv) :
               val(i) # 0 /\ new.set[f] = val(i) /\ \A m \in k .. i - 1 : val(m) = 0
  <2>1. n \in k .. Len(lv) /\ \A m \in k .. n - 1 : m = k \/ m \in k + 1 .. n - 1
    OBVIOUS
  <2> QED BY <1>1, <1>4, <2>1
<1>5. ASSUME val(k) = 0, s.set[f] = DefaultSpec.set[f], \A m \in k + 1 .. Len(lv) : val(m) = 0
      PROVE  new.set[f] = DefaultSpec.set[f] /\ \A m \in k .. Len(lv) : val(m) = 0
  <2>1. \A m \in k .. Len(lv) : m = k \/ m \in k + 1 .. Len(lv)
    OBVIOUS
  <2> QED BY <1>1, <1>5, <2>1
<1> QED BY <1>2, <1>3, <1>4, <1>5 DEF val

\* The values of the merged specification, step by step.
LEMMA ValuesStep == WorkloadInv /\ [Next]_vars => ValuesInv'
<1> SUFFICES ASSUME WorkloadInv, [Next]_vars, Merging'
             PROVE  Nearest(levels', merged' + 1, spec')
  BY DEF ValuesInv
<1>1. TypeInv /\ ProgressInv /\ ValuesInv
  BY DEF WorkloadInv
<1>2. CASE Load
  <2> DEFINE lv == levels'
             k == merged' + 1
  <2>1. k .. Len(lv) = {} /\ spec' = DefaultSpec
    BY <1>2, LoadDone
  <2> HIDE DEF lv, k
  <2>2. Nearest(lv, k, DefaultSpec)
    <3> SUFFICES \A f \in VMFields \cup BaseFields :
                   DefaultSpec.set[f] = DefaultSpec.set[f]
                     /\ \A m \in k .. Len(lv) : lv[m].spec.set[f] = 0
      BY Zenon DEF Nearest
    <3> QED BY <2>1, Zenon
  <2> QED BY <2>1, <2>2 DEF lv, k
<1>3. CASE MergeLevel
  <2> DEFINE x == levels[merged].spec
             new == EnsureSSH(MergeParent(x, spec))
  <2>1. /\ merged \in 1 .. Len(levels) /\ Len(levels) \in Nat /\ x \in Specs /\ spec \in Specs
        /\ merged' = merged - 1 /\ UNCHANGED levels /\ spec' = new
    BY <1>1, <1>3, LevelIs
  <2>2. new.set = Fill(x.set, spec.set, VMFields \cup BaseFields)
    <3> DEFINE p == MergeParent(x, spec)
    <3>1. p \in Specs /\ p.set = Fill(x.set, spec.set, VMFields \cup BaseFields)
      BY <2>1, MergeParentType
    <3> HIDE DEF p
    <3>2. new.set = p.set
      BY <3>1, EnsureSSHIs DEF p
    <3> QED BY <3>1, <3>2
  <2> HIDE DEF new
  <2>3. Nearest(levels, merged + 1, spec)
    BY <1>1, <1>3 DEF ValuesInv, MergeLevel, Merging
  <2>4. Nearest(levels, merged, new)
    BY <2>1, <2>2, <2>3, NearestStep
  <2>5. merged' + 1 = merged
    BY <2>1
  <2> QED BY <2>1, <2>4, <2>5
<1>4. CASE Customise \/ Generate \/ Save \/ Start
  BY <1>4, OtherSteps
<1>5. CASE UNCHANGED vars
  <2>1. UNCHANGED <<pc, levels, merged, spec>>
    BY <1>5 DEF vars
  <2>2. Merging
    BY <2>1 DEF Merging
  <2> QED BY <1>1, <2>1, <2>2 DEF ValuesInv
<1> QED BY <1>2, <1>3, <1>4, <1>5 DEF Next

\* What the lists are after the merge of one more level: a is that of the
\* level, b that of the levels behind it.
Joined(l, a, b, new) ==
  /\ \A key : key \in KeysOf(new) <=> \/ key \in KeysOf(a) \/ key \in KeysOf(b)
                                      \/ l = "ports" /\ key = SSH
  /\ DistinctKeys(a) /\ DistinctKeys(b) => DistinctKeys(new)
  /\ \A i \in 1 .. Len(new) : \/ \E j \in 1 .. Len(a) : new[i] = a[j]
                              \/ \E j \in 1 .. Len(b) : new[i] = b[j]
                              \/ new[i] = DefaultSSH

LEMMA LevelLists ==
  ASSUME NEW x \in Specs, NEW s \in Specs, NEW l \in Lists
  PROVE  Joined(l, x.lists[l], s.lists[l], EnsureSSH(MergeParent(x, s)).lists[l])
<1> DEFINE p == MergeParent(x, s)
           r == EnsureSSH(p)
           a == x.lists[l]
           b == s.lists[l]
           ml == p.lists[l]
           new == r.lists[l]
<1> SUFFICES Joined(l, a, b, new)
  OBVIOUS
<1>1. a \in Seq(Entries) /\ b \in Seq(Entries)
  BY DEF Specs
<1>2. p \in Specs /\ ml = MergeList(a, b)
  <2>1. x.lists \in [Lists -> Seq(Entries)] /\ s.lists \in [Lists -> Seq(Entries)]
    BY DEF Specs
  <2>2. MergeLists(x.lists, s.lists)[l] = MergeList(a, b)
    BY <2>1, MergeListsType
  <2> QED BY <2>2, MergeParentType
<1>3. r = EnsureSSH(p)
  OBVIOUS
<1> HIDE DEF p, r, a, b
<1>4. /\ ml \in Seq(Entries)
      /\ \A key : key \in KeysOf(ml) <=> key \in KeysOf(a) \/ key \in KeysOf(b)
      /\ \A i \in 1 .. Len(ml) : \/ \E j \in 1 .. Len(a) : ml[i] = a[j]
                                 \/ \E j \in 1 .. Len(b) : ml[i] = b[j]
      /\ DistinctKeys(a) /\ DistinctKeys(b) => DistinctKeys(ml)
  <2> HIDE DEF ml
  <2> QED BY <1>1, <1>2, MergeListIs
<1>5. CASE l # "ports"
  <2>1. new = ml
    BY <1>2, <1>3, <1>5, EnsureSSHIs
  <2> HIDE DEF ml, new
  <2> QED BY <1>4, <1>5, <2>1 DEF Joined
<1>6. CASE l = "ports"
  <2>1. /\ \A key : key \in KeysOf(new) <=> key \in KeysOf(ml) \/ key = SSH
        /\ DistinctKeys(ml) => DistinctKeys(new)
        /\ \A i \in 1 .. Len(new) : (\E j \in 1 .. Len(ml) : new[i] = ml[j]) \/ new[i] = DefaultSSH
    <3>1. new = r.lists["ports"] /\ ml = p.lists["ports"]
      BY <1>6
    <3> HIDE DEF ml, new
    <3>2. p \in Specs /\ r = EnsureSSH(p)
      BY <1>2, <1>3
    <3>3. \A key : key \in KeysOf(r.lists["ports"]) <=>
                    key \in KeysOf(p.lists["ports"]) \/ key = SSH
      BY <3>2, EnsureSSHIs
    <3>4. DistinctKeys(p.lists["ports"]) => DistinctKeys(r.lists["ports"])
      BY <3>2, EnsureSSHIs
    <3>5. \A i \in 1 .. Len(r.lists["ports"]) :
            \/ \E j \in 1 .. Len(p.lists["ports"]) : r.lists["ports"][i] = p.lists["ports"][j]
            \/ r.lists["ports"][i] = DefaultSSH
      BY <3>2, EnsureSSHIs
    <3> QED BY <3>1, <3>3, <3>4, <3>5
  <2> HIDE DEF ml, new
  <2>2. \A key : key \in KeysOf(new) <=> key \in KeysOf(a) \/ key \in KeysOf(b) \/ key = SSH
    BY <1>4, <2>1
  <2>3. DistinctKeys(a) /\ DistinctKeys(b) => DistinctKeys(new)
    BY <1>4, <2>1
  <2>4. \A i \in 1 .. Len(new) : \/ \E j \in 1 .. Len(a) : new[i] = a[j]
                                 \/ \E j \in 1 .. Len(b) : new[i] = b[j]
                                 \/ new[i] = DefaultSSH
    BY <1>4, <2>1
  <2> QED BY <1>6, <2>2, <2>3, <2>4 DEF Joined
<1> QED BY <1>5, <1>6

\* A level adds its entries to the lists.
LEMMA CompleteStep ==
  ASSUME NEW lv, Len(lv) \in Nat, NEW k \in 1 .. Len(lv), NEW s \in Specs,
         lv[k].spec \in Specs, Complete(lv, k + 1, s)
  PROVE  Complete(lv, k, EnsureSSH(MergeParent(lv[k].spec, s)))
<1> DEFINE x == lv[k].spec
           new == EnsureSSH(MergeParent(x, s))
<1>1. \A n : n \in k .. Len(lv) <=> n = k \/ n \in k + 1 .. Len(lv)
  OBVIOUS
<1>2. k <= Len(lv)
  OBVIOUS
<1>3. x \in Specs
  OBVIOUS
<1> SUFFICES Complete(lv, k, new)
  OBVIOUS
<1> HIDE DEF new
<1> SUFFICES ASSUME NEW l \in Lists
             PROVE  /\ \A key : key \in KeysOf(new.lists[l]) <=>
                         \/ \E n \in k .. Len(lv) : key \in KeysOf(lv[n].spec.lists[l])
                         \/ l = "ports" /\ key = SSH /\ k <= Len(lv)
                    /\ (\A n \in k .. Len(lv) : DistinctKeys(lv[n].spec.lists[l]))
                         => DistinctKeys(new.lists[l])
                    /\ \A i \in 1 .. Len(new.lists[l]) :
                         Listed(lv, k, l, new.lists[l][i]) \/ new.lists[l][i] = DefaultSSH
  BY DEF Complete
<1> DEFINE at(n) == lv[n].spec.lists[l]
           list == new.lists[l]
           old == s.lists[l]
           mine == x.lists[l]
<1>4. mine = at(k)
  OBVIOUS
<1>5. /\ \A key : key \in KeysOf(list) <=> \/ key \in KeysOf(mine) \/ key \in KeysOf(old)
                                           \/ l = "ports" /\ key = SSH
      /\ DistinctKeys(mine) /\ DistinctKeys(old) => DistinctKeys(list)
      /\ \A i \in 1 .. Len(list) : \/ \E j \in 1 .. Len(mine) : list[i] = mine[j]
                                   \/ \E j \in 1 .. Len(old) : list[i] = old[j]
                                   \/ list[i] = DefaultSSH
  <2>1. Joined(l, mine, old, list)
    BY <1>3, LevelLists DEF new
  <2> HIDE DEF mine, old, list
  <2> QED BY <2>1 DEF Joined
<1> HIDE DEF x
<1>6. /\ \A key : key \in KeysOf(old) <=>
           \/ \E n \in k + 1 .. Len(lv) : key \in KeysOf(at(n))
           \/ l = "ports" /\ key = SSH /\ k + 1 <= Len(lv)
      /\ (\A n \in k + 1 .. Len(lv) : DistinctKeys(at(n))) => DistinctKeys(old)
      /\ \A i \in 1 .. Len(old) : Listed(lv, k + 1, l, old[i]) \/ old[i] = DefaultSSH
  BY DEF Complete
<1>7. ASSUME NEW e
      PROVE  Listed(lv, k, l, e) <=>
               (\E j \in 1 .. Len(mine) : e = mine[j]) \/ Listed(lv, k + 1, l, e)
  <2>1. Listed(lv, k, l, e) <=> \E n \in k .. Len(lv) : \E j \in 1 .. Len(at(n)) : at(n)[j] = e
    BY DEF Listed
  <2>2. Listed(lv, k + 1, l, e) <=>
          \E n \in k + 1 .. Len(lv) : \E j \in 1 .. Len(at(n)) : at(n)[j] = e
    BY DEF Listed
  <2> HIDE DEF at, mine
  <2> QED BY <1>1, <1>4, <2>1, <2>2
<1> HIDE DEF at, list, old, mine
<1>8. \A key : key \in KeysOf(list) <=> \/ \E n \in k .. Len(lv) : key \in KeysOf(at(n))
                                        \/ l = "ports" /\ key = SSH /\ k <= Len(lv)
  BY <1>1, <1>2, <1>4, <1>5, <1>6
<1>9. (\A n \in k .. Len(lv) : DistinctKeys(at(n))) => DistinctKeys(list)
  BY <1>1, <1>4, <1>5, <1>6
<1>10. \A i \in 1 .. Len(list) : Listed(lv, k, l, list[i]) \/ list[i] = DefaultSSH
  BY <1>5, <1>6, <1>7
<1> QED BY <1>8, <1>9, <1>10 DEF at, list

\* With no level there is nothing in the lists.
LEMMA CompleteNone ==
  ASSUME NEW lv, NEW k, k .. Len(lv) = {}, ~(k <= Len(lv))
  PROVE  Complete(lv, k, DefaultSpec)
<1> SUFFICES ASSUME NEW l \in Lists
             PROVE  /\ KeysOf(DefaultSpec.lists[l]) = {} /\ DistinctKeys(DefaultSpec.lists[l])
                    /\ 1 .. Len(DefaultSpec.lists[l]) = {}
  BY Zenon DEF Complete
<1> DEFINE list == DefaultSpec.lists[l]
<1>1. list = <<>>
  BY DEF DefaultSpec, EmptySpec, NoLists
<1> HIDE DEF list
<1>2. Len(list) = 0 /\ DOMAIN list = {}
  BY <1>1
<1>3. KeysOf(list) = {} /\ DistinctKeys(list) /\ 1 .. Len(list) = {}
  BY <1>2 DEF KeysOf, DistinctKeys
<1> QED BY <1>3 DEF list

\* The lists of the merged specification, step by step.
LEMMA ListsStep == WorkloadInv /\ [Next]_vars => ListsInv'
<1> SUFFICES ASSUME WorkloadInv, [Next]_vars, Merging'
             PROVE  Complete(levels', merged' + 1, spec')
  BY DEF ListsInv
<1>1. TypeInv /\ ProgressInv /\ ListsInv
  BY DEF WorkloadInv
<1>2. CASE Load
  <2> DEFINE lv == levels'
             k == merged' + 1
  <2>1. k .. Len(lv) = {} /\ k = Len(lv) + 1 /\ spec' = DefaultSpec
    BY <1>2, LoadDone
  <2>2. Len(lv) \in Nat
    BY <1>1, TypeStep DEF TypeInv
  <2> HIDE DEF lv, k
  <2>3. Complete(lv, k, DefaultSpec)
    BY <2>1, <2>2, CompleteNone
  <2> QED BY <2>1, <2>3 DEF lv, k
<1>3. CASE MergeLevel
  <2> DEFINE new == EnsureSSH(MergeParent(levels[merged].spec, spec))
  <2>1. /\ merged \in 1 .. Len(levels) /\ Len(levels) \in Nat
        /\ levels[merged].spec \in Specs /\ spec \in Specs
        /\ merged' = merged - 1 /\ UNCHANGED levels /\ spec' = new
    BY <1>1, <1>3, LevelIs
  <2>2. Complete(levels, merged + 1, spec)
    BY <1>1, <1>3 DEF ListsInv, MergeLevel, Merging
  <2>3. Complete(levels, merged, new)
    BY <2>1, <2>2, CompleteStep
  <2>4. merged' + 1 = merged
    BY <2>1
  <2> HIDE DEF new
  <2> QED BY <2>1, <2>3, <2>4
<1>4. CASE Customise \/ Generate \/ Save \/ Start
  BY <1>4, OtherSteps
<1>5. CASE UNCHANGED vars
  <2>1. UNCHANGED <<pc, levels, merged, spec>>
    BY <1>5 DEF vars
  <2>2. Merging
    BY <2>1 DEF Merging
  <2> QED BY <1>1, <2>1, <2>2 DEF ListsInv
<1> QED BY <1>2, <1>3, <1>4, <1>5 DEF Next

-----------------------------------------------------------------------------
\* The theorems.

\* Whatever the files say, the steps of createWorkload, prepareCreate and start
\* keep the specification in step with the levels that have been merged.
THEOREM WorkloadInvariant == Spec => []WorkloadInv
<1>1. WorkloadInv /\ [Next]_vars => WorkloadInv'
  BY TypeStep, ProgressStep, NameStep, ValuesStep, ListsStep, CustomStep, CloudStep, SavedStep
     DEF WorkloadInv
<1> QED BY <1>1, InitInv, PTL DEF Spec

\* Every file is split into all its documents and nothing else, wherever it has
\* directives, start and end lines.
THEOREM FilesAreSplit == Spec => []SplitIsRight
<1>1. TypeInv => SplitIsRight
  <2> SUFFICES ASSUME TypeInv, NEW f \in DOMAIN input.files
               PROVE  AreDocuments(SplitYaml(input.files[f]), Scanned(input.files[f]))
    BY DEF SplitIsRight
  <2>1. input.files[f] \in Seq(Range(input.files[f]))
    BY InputsAssumption DEF TypeInv
  <2> QED BY <2>1, SplitIs
<1> QED BY <1>1, WorkloadInvariant, PTL DEF WorkloadInv

\* Every variable keeps its type, over any files.
THEOREM WorkloadTypes == Spec => []WorkloadTypeOK
<1>1. WorkloadInv => WorkloadTypeOK
  <2> SUFFICES ASSUME WorkloadInv
               PROVE  WorkloadTypeOK
    OBVIOUS
  <2>1. TypeInv /\ ProgressInv
    BY DEF WorkloadInv
  <2>2. \A i \in DOMAIN levels : levels[i].spec \in Specs
    <3>1. \A i \in DOMAIN levels : levels[i] \in Level
      BY <2>1 DEF TypeInv
    <3> QED BY <3>1 DEF Level
  <2> QED BY <2>1, <2>2 DEF TypeInv, ProgressInv, Merged, WorkloadTypeOK
<1> QED BY <1>1, WorkloadInvariant, PTL

\* Of the values that the levels give a field the nearest is the one in the
\* merged specification, over any number of levels.
THEOREM NearestWins == Spec => []NearestValueWins
<1>1. WorkloadInv => NearestValueWins
  <2> SUFFICES ASSUME WorkloadInv, pc = "custom", NEW f \in VMFields \cup BaseFields
               PROVE  spec.set[f] = Inherited(f)
    BY DEF NearestValueWins
  <2> DEFINE val(n) == levels[n].spec.set[f]
             N == Len(levels)
             I == {i \in 1 .. N : val(i) # 0}
  <2>1. Defining(f) = IF I # {} THEN Min(I) ELSE 0
    BY DEF Defining, SelectInSeq
  <2>2. Inherited(f) = IF Defining(f) = 0 THEN DefaultSpec.set[f] ELSE val(Defining(f))
    BY DEF Inherited
  <2>3. merged = 0 /\ Nearest(levels, merged + 1, spec) /\ N \in Nat
    BY DEF WorkloadInv, TypeInv, ProgressInv, ValuesInv, Merged, Merging
  <2>4. Nearest(levels, 1, spec)
    <3>1. merged + 1 = 1
      BY <2>3
    <3> QED BY <2>3, <3>1
  <2>5. \/ \E n \in 1 .. N : val(n) # 0 /\ spec.set[f] = val(n) /\ \A m \in 1 .. n - 1 : val(m) = 0
        \/ spec.set[f] = DefaultSpec.set[f] /\ \A m \in 1 .. N : val(m) = 0
    BY <2>4 DEF Nearest
  <2> HIDE DEF val, N
  <2>6. ASSUME NEW n \in 1 .. N, val(n) # 0, spec.set[f] = val(n),
               \A m \in 1 .. n - 1 : val(m) = 0
        PROVE  spec.set[f] = Inherited(f)
    <3>1. I \subseteq Nat /\ n \in I /\ \A m \in I : m >= n
      BY <2>3, <2>6
    <3>2. \A m \in I : m \in Nat /\ m # 0
      BY <2>3
    <3> HIDE DEF I
    <3>3. Min(I) \in I /\ Min(I) <= n /\ Min(I) >= n
      BY <3>1, LeastIs
    <3>4. Min(I) \in Nat /\ n \in Nat /\ n # 0
      BY <3>1, <3>2, <3>3
    <3>5. Min(I) = n
      BY <3>3, <3>4
    <3> QED BY <2>1, <2>2, <2>6, <3>1, <3>4, <3>5
  <2>7. ASSUME spec.set[f] = DefaultSpec.set[f], \A m \in 1 .. N : val(m) = 0
        PROVE  spec.set[f] = Inherited(f)
    <3>1. I = {}
      BY <2>7
    <3> QED BY <2>1, <2>2, <2>7, <3>1
  <2> QED BY <2>5, <2>6, <2>7
<1> QED BY <1>1, WorkloadInvariant, PTL

\* Merging any number of levels loses no entry and makes none up.
THEOREM ListsAreComplete == Spec => []ListsComplete
<1>1. WorkloadInv => ListsComplete
  <2> SUFFICES ASSUME WorkloadInv, pc = "custom", NEW l \in Lists
               PROVE
    LET all == UNION {KeysOf(levels[i].spec.lists[l]) : i \in DOMAIN levels}
        result == spec.lists[l]
    IN /\ KeysOf(result) = all \cup (IF l = "ports" THEN {SSH} ELSE {})
       /\ (\A i \in DOMAIN levels : DistinctKeys(levels[i].spec.lists[l])) => DistinctKeys(result)
       /\ \A i \in DOMAIN result :
            \/ \E n \in DOMAIN levels : \E j \in DOMAIN levels[n].spec.lists[l] :
                 levels[n].spec.lists[l][j] = result[i]
            \/ result[i] = DefaultSSH
    BY DEF ListsComplete
  <2> DEFINE at(n) == levels[n].spec.lists[l]
             list == spec.lists[l]
             N == Len(levels)
  <2>1. /\ merged = 0 /\ Complete(levels, merged + 1, spec) /\ N \in Nat /\ 1 <= N
        /\ DOMAIN levels = 1 .. N
    BY DEF WorkloadInv, TypeInv, ProgressInv, ListsInv, Merged, Merging
  <2>2. Complete(levels, 1, spec)
    <3>1. merged + 1 = 1
      BY <2>1
    <3> QED BY <2>1, <3>1
  <2>3. /\ \A key : key \in KeysOf(list) <=> \/ \E n \in 1 .. N : key \in KeysOf(at(n))
                                             \/ l = "ports" /\ key = SSH
        /\ (\A n \in 1 .. N : DistinctKeys(at(n))) => DistinctKeys(list)
        /\ \A i \in 1 .. Len(list) :
             Listed(levels, 1, l, list[i]) \/ list[i] = DefaultSSH
    BY <2>1, <2>2 DEF Complete
  <2>4. DOMAIN list = 1 .. Len(list) /\ \A n \in 1 .. N : DOMAIN at(n) = 1 .. Len(at(n))
    <3>1. spec \in Specs /\ \A n \in 1 .. N : levels[n] \in Level
      BY DEF WorkloadInv, TypeInv
    <3>2. \A n \in 1 .. N : levels[n].spec \in Specs
      BY <3>1 DEF Level
    <3>3. list \in Seq(Entries) /\ \A n \in 1 .. N : at(n) \in Seq(Entries)
      BY <3>1, <3>2 DEF Specs
    <3> HIDE DEF at, list
    <3> QED BY <3>3
  <2>5. \A e : Listed(levels, 1, l, e) => \E n \in 1 .. N : \E j \in 1 .. Len(at(n)) : at(n)[j] = e
    BY DEF Listed
  <2> HIDE DEF at, list, N
  <2>6. KeysOf(list) = (UNION {KeysOf(at(i)) : i \in 1 .. N}) \cup (IF l = "ports" THEN {SSH} ELSE {})
    <3> DEFINE all == UNION {KeysOf(at(i)) : i \in 1 .. N}
    <3>1. \A key : key \in all <=> \E n \in 1 .. N : key \in KeysOf(at(n))
      OBVIOUS
    <3> HIDE DEF all
    <3>2. \A key : key \in KeysOf(list) <=> key \in all \cup (IF l = "ports" THEN {SSH} ELSE {})
      BY <2>3, <3>1
    <3> DEFINE keys == KeysOf(list)
               sum  == all \cup (IF l = "ports" THEN {SSH} ELSE {})
    <3>3. \A key : key \in keys <=> key \in sum
      BY <3>2
    <3> HIDE DEF keys, sum
    <3>4. keys = sum
      BY <3>3
    <3> QED BY <3>4 DEF keys, sum, all
  <2>7. \A i \in DOMAIN list :
          \/ \E n \in 1 .. N : \E j \in DOMAIN at(n) : at(n)[j] = list[i]
          \/ list[i] = DefaultSSH
    BY <2>3, <2>4, <2>5
  <2> QED BY <2>1, <2>3, <2>6, <2>7 DEF at, list
<1> QED BY <1>1, WorkloadInvariant, PTL

\* What the user gave last is what the instance has, after any number of starts.
THEOREM CustomValuesWin == Spec => []CustomWins
<1>1. WorkloadInv => CustomWins
  BY DEF WorkloadInv, CustomInv, Kept, CustomWins
<1> QED BY <1>1, WorkloadInvariant, PTL

\* There is a cloud-config document for each level.
LEMMA ChainIs ==
  ASSUME TypeInv
  PROVE  /\ Len(Chain) = Len(levels) /\ DOMAIN Chain = 1 .. Len(levels) /\ Len(levels) \in Nat
         /\ \A i \in 1 .. Len(levels) : ConfigOK(Chain[i])
<1> DEFINE N == Len(levels)
           doc(i) == LastText(levels[N + 1 - i].data, "data", <<>>)
<1>1. levels \in Seq(Level) /\ N \in Nat
  BY DEF TypeInv
<1>2. Chain = [i \in 1 .. N |-> doc(i)]
  BY DEF Chain
<1>3. ASSUME NEW i \in 1 .. N
      PROVE  ConfigOK(doc(i))
  <2> DEFINE text == levels[N + 1 - i].data
  <2>1. text \in Seq(InputLines)
    <3>1. levels[N + 1 - i] \in Level
      BY <1>1
    <3> QED BY <3>1 DEF Level
  <2> HIDE DEF text
  <2>2. \A j \in 1 .. Len(text) : text[j].k = "data" => ConfigOK(text[j].v)
    BY <2>1, LinesOK DEF LineOK
  <2>3. ConfigOK(<<>>)
    BY DEF ConfigOK
  <2>4. \/ LastText(text, "data", <<>>) = <<>>
        \/ \E j \in 1 .. Len(text) : text[j].k = "data" /\ LastText(text, "data", <<>>) = text[j].v
    BY <2>1, LastTextIs
  <2> QED BY <2>2, <2>3, <2>4 DEF text
<1> HIDE DEF doc
<1>4. DOMAIN Chain = 1 .. N /\ \A i \in 1 .. N : ConfigOK(Chain[i])
  BY <1>2, <1>3
<1>5. Len(Chain) = N
  BY <1>1, <1>2
<1> QED BY <1>1, <1>4, <1>5

\* FINISHED is reported after the commands of every level.
THEOREM FinishedComesLast == Spec => []FinishedIsLast
<1>1. WorkloadInv => FinishedIsLast
  <2> SUFFICES ASSUME WorkloadInv, cloud # None
               PROVE  cloud["runcmd"].v =
                        Append(FlattenSeq([i \in DOMAIN Chain |-> Commands(Chain[i])]), Finished)
    BY DEF FinishedIsLast
  <2>1. /\ TypeInv /\ Len(levels) >= 1 /\ cloud = WithFinished(Parsed(Chain))
        /\ ~ParseFails(Chain) /\ ~Panics(Parsed(Chain))
    BY DEF WorkloadInv, ProgressInv, CloudInv, Merged
  <2> DEFINE chain == Chain
             cc == Parsed(chain)
             cmds == IF "runcmd" \in DOMAIN cc THEN cc["runcmd"].v ELSE <<>>
             last == [t |-> "list", v |-> Append(cmds, Finished)]
  <2>2. /\ Len(chain) \in Nat \ {0} /\ DOMAIN chain = 1 .. Len(chain)
        /\ \A i \in 1 .. Len(chain) : ConfigOK(chain[i])
    BY <2>1, ChainIs
  <2> HIDE DEF chain
  <2>3. Commands(cc) = FlattenSeq([i \in DOMAIN chain |-> Commands(chain[i])])
    BY <2>1, <2>2, ParsedCommands DEF chain
  <2>4. cmds = Commands(cc)
    BY <2>1 DEF Commands, Panics, chain
  <2>5. cloud = [k \in {"runcmd"} \cup DOMAIN cc |-> IF k = "runcmd" THEN last ELSE cc[k]]
    BY <2>1 DEF WithFinished, chain
  <2>6. last.v = Append(cmds, Finished)
    OBVIOUS
  <2> HIDE DEF cc, cmds, last
  <2>7. cloud["runcmd"] = last
    BY <2>5
  <2> QED BY <2>3, <2>4, <2>6, <2>7 DEF chain
<1> QED BY <1>1, WorkloadInvariant, PTL

\* The process dies only over commands that are no list, or over workloads
\* that inherit from each other: a chain longer than there are names has one
\* twice.
THEOREM DeathHasCause == Spec => []DiesForCause
<1>1. WorkloadInv => DiesForCause
  <2> SUFFICES ASSUME WorkloadInv
               PROVE  DiesForCause
    OBVIOUS
  <2>1. TypeInv /\ ProgressInv
    BY DEF WorkloadInv
  <2>2. ASSUME pc = "panic"
        PROVE  \E i \in DOMAIN Chain :
                 "runcmd" \in DOMAIN Chain[i] /\ Chain[i]["runcmd"].t \notin {"list", "nil"}
    <3>1. Panics(Parsed(Chain))
      BY <2>1, <2>2 DEF ProgressInv
    <3>2. Len(Chain) \in Nat /\ DOMAIN Chain = 1 .. Len(Chain)
      BY <2>1, ChainIs
    <3> QED BY <3>1, <3>2, ParsedHarmless
  <2>3. ASSUME pc = "overflow"
        PROVE  \E i, j \in DOMAIN levels : i # j /\ levels[i].name = levels[j].name
    <3> DEFINE N == Len(levels)
               name == [i \in 1 .. N |-> levels[i].name]
    <3>1. N = MaxDepth /\ N \in Nat /\ DOMAIN levels = 1 .. N
      BY <2>1, <2>3 DEF TypeInv, ProgressInv
    <3>2. IsFiniteSet(Names) /\ N > Cardinality(Names) /\ Cardinality(Names) \in Nat
      BY <3>1, WorkloadsAssumption, FS_CardinalityType DEF WorkloadsAssumption
    <3>3. IsFiniteSet(1 .. N) /\ Cardinality(1 .. N) = N
      BY <3>1, FS_Interval
    <3>4. name \in [1 .. N -> Names]
      <4>1. \A i \in 1 .. N : levels[i] \in Level
        BY <2>1 DEF TypeInv
      <4> QED BY <4>1 DEF Level
    <3>5. \A i \in 1 .. N : name[i] = levels[i].name
      OBVIOUS
    <3> HIDE DEF N, name
    <3>6. \E i, j \in 1 .. N : i # j /\ name[i] = name[j]
      BY <3>2, <3>3, <3>4, FS_PigeonHole
    <3> QED BY <3>1, <3>5, <3>6
  <2> QED BY <2>2, <2>3 DEF DiesForCause
<1> QED BY <1>1, WorkloadInvariant, PTL

\* A state file can be read again after any number of starts.
THEOREM StateCanBeRead == Spec => []StateReadable
<1>1. WorkloadInv => StateReadable
  <2> SUFFICES ASSUME WorkloadInv
               PROVE  StateReadable
    OBVIOUS
  <2>1. pc # "unreadable" /\ spec \in Specs /\ NameInv
    BY DEF WorkloadInv, TypeInv
  <2>2. saved # None => saved = State(spec, cloud)
    BY DEF WorkloadInv, SavedInv
  <2> QED BY <2>1, <2>2, StateIs DEF StateReadable
<1> QED BY <1>1, WorkloadInvariant, PTL
=============================================================================
