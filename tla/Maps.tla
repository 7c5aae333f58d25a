-------------------------------- MODULE Maps --------------------------------
(***************************************************************************)
(* Go's maps, as functions whose domain changes. Every service keeps its   *)
(* state in such a map behind one lock.                                    *)
(***************************************************************************)
EXTENDS Functions

EmptyMap == [k \in {} |-> k]

\* m[k] = v
Put(f, k, v) == [x \in DOMAIN f \cup {k} |-> IF x = k THEN v ELSE f[x]]

\* delete(m, k)
Drop(f, k) == Restrict(f, DOMAIN f \ {k})
=============================================================================
