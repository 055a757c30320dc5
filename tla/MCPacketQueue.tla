---------------------------- MODULE MCPacketQueue ----------------------------
(***************************************************************************)
(* An instance of PacketQueue for TLC.  Keys are only compared for         *)
(* equality, and an unused one leaves nothing behind, so it is enough to   *)
(* push to a key in use or to the least one that is not.                   *)
(***************************************************************************)
EXTENDS PacketQueue

Canonical(k, h) ==
  LET inUse == {h[i].key : i \in DOMAIN h}
  IN  k \in inUse \/ \A n \in 1..(k - 1) : n \in inUse

CanonicalPush(s, d, sz) ==
  /\ Canonical(d, dests)
  /\ Canonical(s, Get(dests, d, [sources |-> <<>>]).sources)
  /\ Push(s, d, sz)

MCNext ==
  \/ \E s \in Source, d \in Dest, sz \in Size : CanonicalPush(s, d, sz)
  \/ Pop
  \/ Drop

MCSpec == Init /\ [][MCNext]_vars
=============================================================================
