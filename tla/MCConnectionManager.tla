------------------------ MODULE MCConnectionManager ------------------------
(* Instances of ConnectionManager for TLC. *)
EXTENDS ConnectionManager, TLC

CONSTANTS t1, t2, s1, s2, s3, s4, s5

\* Callers differ in nothing but their names, nor do descriptors.
Symmetry == Permutations(Clients) \cup Permutations(Sockets)

\* LwM2M waits with a timeout of a second or of none.
ZeroTimeout == {0}
OneTimeout  == {1}
TwoTimeouts == {1, 2}

=============================================================================
