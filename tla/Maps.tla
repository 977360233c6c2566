-------------------------------- MODULE Maps ---------------------------------
(* Go's maps, as functions from the keys they have.                          *)

\* The maps with keys in K and values in V.
MapsOf(K, V) == UNION {[D -> V] : D \in SUBSET K}

\* m after m[k] = v.
With(m, k, v) == [x \in (DOMAIN m) \cup {k} |-> IF x = k THEN v ELSE m[x]]

\* m after every entry of n is put into it.
Merge(m, n) ==
    [x \in (DOMAIN m) \cup (DOMAIN n) |-> IF x \in DOMAIN n THEN n[x] ELSE m[x]]
==============================================================================
