--------------------------- MODULE MCClientSlots ---------------------------
(* Instance of ClientSlots for TLC: each of two humans has its own address; *)
(* the second may also be known by the address of the first, which it writes *)
(* in a userinfo with no room for its own: then they share one address, as   *)
(* two players of a LAN do.                                                  *)
EXTENDS ClientSlots, TLC

CONSTANTS h1, h2, a1, a2

MCAddrOf == (h1 :> a1) @@ (h2 :> a2)
MCWritten == (h1 :> {}) @@ (h2 :> {a1})
Symmetry == Permutations(Slots)
=============================================================================
