--------------------------- MODULE MCClusterLogin ---------------------------
(* Three clusters; the address of the second contains the name of the first, *)
(* and the third has no directory on the share.                              *)
EXTENDS ClusterLogin

CONSTANTS demo, demo2, other, home, env

MCNamed == {<<c, c>> : c \in Clusters} \cup {<<demo2, demo>>}
=============================================================================
