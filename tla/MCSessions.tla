------------------------------ MODULE MCSessions ------------------------------
(***************************************************************************)
(* Instances of Sessions for TLC: the sockets of one user behind one        *)
(* address, which is where the limits and the sets that are shared matter.  *)
(***************************************************************************)
EXTENDS Sessions, TLC

CONSTANTS s1, s2, s3, a1, a2, r1, r2, r3, user, ip

OneUser == [s \in Sockets |-> user]
OneIp == [s \in Sockets |-> ip]

\* Sound where Known = Auctions.
RaceSymmetry == Permutations(Sockets) \cup Permutations(Requests) \cup Permutations(Auctions)

\* Bound: with an auction closed, no third message is sent.
FewAfterClose == closed = {} \/ Cardinality({r \in Requests : ~At(r, "unsent")}) <= 2
=============================================================================
