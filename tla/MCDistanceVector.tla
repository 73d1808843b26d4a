--------------------------- MODULE MCDistanceVector ----------------------------
(* Instances of DistanceVector for TLC.                                       *)
EXTENDS DistanceVector

CONSTANTS a, b, c

Both(S) == S \cup {<<l[2], l[1]>> : l \in S}

Triangle == Both({<<a, b>>, <<b, c>>, <<a, c>>})
Line     == Both({<<a, b>>, <<b, c>>})

\* Distance from the origin in the triangle.
Hops == [n \in Nodes |-> IF n \in Origins THEN 0 ELSE 1]

(* Without failures every node ends with a shortest path to the prefix.    *)
Converges ==
    <>[] \A n \in Nodes :
            n \in DOMAIN route /\ route[n].metric = ConnectedMetric + HopCost * Hops[n]
=============================================================================
