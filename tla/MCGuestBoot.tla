----------------------------- MODULE MCGuestBoot -----------------------------
(***************************************************************************)
(* GuestBoot for TLC: guest RAM is the dataport, or the pool is separate   *)
(* (VMSWIOTLB), as large as guest RAM, beside a node of another kind; a    *)
(* tree without its parent nodes; no tree at all; two backends; dataports  *)
(* that overlap each other or part of guest RAM.                           *)
(***************************************************************************)
EXTENDS GuestBoot

At(b, n)    == [base |-> b, size |-> n]
PoolNode(r) == [compatible |-> Pool, at |-> r]
OtherNode   == [compatible |-> "other", at |-> At(100, 2)]
Both        == {"reserved-memory", "pci"}

Conf(pools, nodes, dtb, parents) ==
  [ram |-> At(16, 8), pools |-> pools, nodes |-> nodes, dtb |-> dtb,
   parents |-> parents]

MCConfs ==
  LET ram == At(16, 8)  sep == At(32, 8)  two == At(48, 2)
      half == At(20, 8)  end == At(39, 2) IN
  { Conf(<<ram>>, <<PoolNode(ram)>>, TRUE, Both \cup {"usb"}),
    Conf(<<sep>>, <<OtherNode, PoolNode(sep)>>, TRUE, Both),
    Conf(<<two>>, <<PoolNode(two)>>, TRUE, {"pci"}),
    Conf(<<sep>>, <<PoolNode(sep)>>, TRUE, {"reserved-memory"}),
    Conf(<<sep>>, <<PoolNode(sep)>>, FALSE, Both),
    Conf(<<sep, two>>, <<PoolNode(sep), PoolNode(two)>>, TRUE, Both),
    Conf(<<sep, end>>, <<PoolNode(sep), PoolNode(end)>>, TRUE, Both),
    Conf(<<half>>, <<PoolNode(half)>>, TRUE, Both) }
==============================================================================
