--------------------------- MODULE MCCcvmService ---------------------------
(***************************************************************************)
(* Small instances of CcvmService for TLC.  The cfg files substitute these *)
(* definitions for the constants.                                          *)
(***************************************************************************)
EXTENDS CcvmServiceRefinement, TLC

CONSTANTS c1, c2, a, b, g1, g2, g3, g4, g5

\* The generator knows more names than any run has instances, in an order
\* that meets names already in use.
ManyNames     == {a, b, g1, g2, g3, g4, g5}
ManyOrder     == (0 :> b) @@ (1 :> g2) @@ (2 :> g1) @@ (3 :> a) @@ (4 :> g3)
                   @@ (5 :> g4) @@ (6 :> g5)
FewNames      == {g1, g2}
FewOrder      == (0 :> g1) @@ (1 :> g2)

Req(o, n, ip) == [op |-> o, name |-> n, ip |-> ip]

EmptyDisk     == {<<>>}
\* b was found twice on the same address, a has no readable state, g2 is fine.
UsedDisk      == {<<[name |-> a, ip |-> NoIP], [name |-> b, ip |-> 1],
                    [name |-> g2, ip |-> 1]>>,
                  <<[name |-> a, ip |-> 2], [name |-> b, ip |-> 1]>>}

\* One instance created, deleted and created again while others act on it.
LifeRequests  == {Req("create", a, NoIP), Req("delete", a, NoIP), Req("stop", NoName, NoIP)}
\* Names that are generated, left out and unknown.
NameRequests  == {Req("create", NoName, NoIP), Req("delete", b, NoIP),
                  Req("status", NoName, NoIP), Req("list", NoName, NoIP)}
\* Commands of users who interrupt them or are killed.
UserRequests  == {Req("create", a, NoIP), Req("delete", a, NoIP)}
CustomIPs     == {Req("create", a, 9), Req("create", b, 9), Req("create", b, BadIP),
                  Req("create", BadName, NoIP)}

AnyName       == {Req("create", NoName, NoIP)}
CreateStop    == {Req("create", a, NoIP), Req("stop", a, NoIP)}

ClientSymmetry == Permutations(Clients)
=============================================================================
