----------------------- MODULE MCBoundedObjectStorage -----------------------
(* Instances of the storage engine for TLC.                                *)
EXTENDS BoundedObjectStorage, TLC

\* Values are named after their sizes; kStreamingThreshold is 1.
MCSizes == "v0" :> 0 @@ "v1" :> 1 @@ "x1" :> 1 @@ "v2" :> 2 @@ "x2" :> 2
           @@ "v3" :> 3 @@ "v15" :> 15
MCSizeOf == [v \in Values |-> MCSizes[v]]
MCBytes == Values \cup {Hole}

MCTemps == {"a.tmp", "b.tmp", "d.tmp", "d/f.tmp"}
MCTempNames == Names \cap MCTemps

MCTempOfAll == "a" :> "a.tmp" @@ "b" :> "b.tmp" @@ "d" :> "d.tmp" @@ "d/f" :> "d/f.tmp"
MCTempOf == [n \in {m \in Names : m \in DOMAIN MCTempOfAll
                                   /\ MCTempOfAll[m] \in Names} |-> MCTempOfAll[n]]

MCAncestors == [n \in Names |-> IF n \in {"d/f", "d/f.tmp"} THEN {"d"} ELSE {}]

\* Normalised paths name themselves, "./a" is an alias of "a", and the empty
\* path and one with ".." are refused.
MCMapPath == [p \in Paths |-> IF p \in Names THEN p
                              ELSE IF p = "./a" THEN "a" ELSE nullopt]

\* Connections differ in nothing but their names.
MCSymmetry == Permutations(Conns)
=============================================================================
