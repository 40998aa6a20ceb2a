----------------------------- MODULE MCWorkloads -----------------------------
(***************************************************************************)
(* Small instances of Workloads for TLC: the files a user may have.        *)
(***************************************************************************)
EXTENDS Workloads

CONSTANTS a, b, c, u   \* u is a URL

Set(pairs) == [f \in Fields |-> IF f \in DOMAIN pairs THEN pairs[f] ELSE 0]
E(k, v)    == [key |-> k, val |-> v]
SpecOf(pairs, ports, mounts, parent) ==
  [set |-> Set(pairs), lists |-> [NoLists EXCEPT !["ports"] = ports, !["mounts"] = mounts],
   inherits |-> parent]
List(s)    == [t |-> "list", v |-> s]
Map(f)     == [t |-> "map", v |-> f]
Scalar(n)  == [t |-> "scalar", v |-> <<n>>]
Empty      == [t |-> "nil", v |-> <<>>]

File(spec1, data1) == State(spec1, data1)

\* What a workload at level n of a hierarchy may say; parents make no
\* difference to its contents.
SpecAt(n, kind, parent) ==
  CASE kind = 1 -> SpecOf(<<>>, <<>>, <<>>, parent)
    [] kind = 2 -> SpecOf("mem_mib" :> 10 * n @@ "base_image_url" :> 10 * n, <<E(SSH, 10 * n)>>,
                          <<E(1, 10 * n), E(2, 10 * n)>>, parent)
    [] kind = 3 -> SpecOf("bios" :> 10 * n @@ "qemuport" :> 10 * n,
                          <<E(80, 10 * n), E(81, 10 * n), E(80, 10 * n + 1)>>,
                          <<E(2, 10 * n + 1)>>, parent)
DataAt(n, kind) ==
  CASE kind = 1 -> None
    [] kind = 2 -> "runcmd" :> List(<<10 * n, 10 * n + 1>>) @@ "files" :> Map(1 :> n @@ 2 :> n)
    [] kind = 3 -> "runcmd" :> Empty @@ "files" :> Map(2 :> 10 * n @@ 3 :> n) @@ "x" :> Scalar(n)
    [] kind = 4 -> "runcmd" :> Scalar(n)
    [] kind = 5 -> "runcmd" :> List(<<10 * n>>) @@ "files" :> Empty @@ "x" :> List(<<n>>)

NoCustom == SpecOf("host_ip" :> 1, <<>>, <<>>, None)
Customs  == {NoCustom, SpecOf("mem_mib" :> 7 @@ "host_ip" :> 2, <<E(SSH, 7), E(90, 7)>>, <<E(2, 7), E(9, 7)>>, None),
             SpecOf("cpus" :> 8, <<E(80, 8), E(80, 9)>>, <<E(1, NoDirectory)>>, None),
             SpecOf("cpus" :> 9, <<E(80, 6)>>, <<>>, None)}

\* Every hierarchy of three workloads, in any of the places, with plain contents.
Hierarchies ==
  {[files |-> (<<p, a>> :> File(SpecAt(1, 2, pa), DataAt(1, 2)))
                @@ (<<"user", b>> :> File(SpecAt(2, 3, pb), DataAt(2, 3)))
                @@ (<<"builtin", a>> :> File(SpecAt(4, 2, pc0), DataAt(4, 2)))
                @@ (<<"url", u>> :> File(SpecAt(5, 2, pu), DataAt(5, 5))),
    name |-> a, customs |-> {NoCustom}] :
   p \in {"cwd", "user"}, pa \in Names \cup {None}, pb \in Names \cup {None},
   pc0 \in {a, None}, pu \in Names \cup {None}}

\* Every content of three workloads in a line.
Contents ==
  {[files |-> (<<"user", a>> :> File(SpecAt(1, k1, b), DataAt(1, d1)))
                @@ (<<"user", b>> :> File(SpecAt(2, k2, c), DataAt(2, d2)))
                @@ (<<"builtin", c>> :> File(SpecAt(3, k3, None), DataAt(3, d3))),
    name |-> a, customs |-> Customs] :
   k1 \in 1 .. 3, k2 \in 1 .. 3, k3 \in 1 .. 3, d1 \in 1 .. 5, d2 \in 1 .. 5, d3 \in 1 .. 5}

\* Every file of up to MaxLines lines.
CONSTANT MaxLines
Lines == {Mark(k) : k \in {"start", "end", "directive", "long", "bad"}}
           \cup {Text("spec", SpecAt(1, 2, None)), Text("data", DataAt(1, 2))}
Files ==
  {[files |-> <<"cwd", a>> :> f, name |-> a, customs |-> {NoCustom}] :
   f \in UNION {[1 .. n -> Lines] : n \in 0 .. MaxLines}}

AllInputs == Hierarchies \cup Contents \cup Files
=============================================================================
