---------------------------- MODULE MapTheorems -----------------------------
(* What the operators of Maps, and Restrict, make of maps.                   *)
EXTENDS Maps, Functions, TLAPS

LEMMA MapType ==
    ASSUME NEW K, NEW V, NEW m \in MapsOf(K, V)
    PROVE  /\ DOMAIN m \subseteq K
           /\ m \in [DOMAIN m -> V]
           /\ \A x \in DOMAIN m : m[x] \in V
BY DEF MapsOf

LEMMA IsMap ==
    ASSUME NEW K, NEW V, NEW m, DOMAIN m \subseteq K, m \in [DOMAIN m -> V]
    PROVE  m \in MapsOf(K, V)
BY DEF MapsOf

LEMMA EmptyMap ==
    ASSUME NEW K, NEW V
    PROVE  << >> \in MapsOf(K, V) /\ DOMAIN << >> = {}
<1>1. << >> \in [{} -> V]
  OBVIOUS
<1> QED
  BY <1>1 DEF MapsOf

LEMMA WithIsMap ==
    ASSUME NEW K, NEW V, NEW m \in MapsOf(K, V), NEW k \in K, NEW v \in V
    PROVE  /\ With(m, k, v) \in MapsOf(K, V)
           /\ DOMAIN With(m, k, v) = (DOMAIN m) \cup {k}
           /\ With(m, k, v)[k] = v
           /\ \A x \in (DOMAIN m) \ {k} : With(m, k, v)[x] = m[x]
<1>1. With(m, k, v) \in [(DOMAIN m) \cup {k} -> V]
  BY MapType DEF With
<1> QED
  BY <1>1, MapType, IsMap DEF With

LEMMA MergeIsMap ==
    ASSUME NEW K, NEW V, NEW m \in MapsOf(K, V), NEW n \in MapsOf(K, V)
    PROVE  Merge(m, n) \in MapsOf(K, V)
<1>1. Merge(m, n) \in [(DOMAIN m) \cup (DOMAIN n) -> V]
  BY MapType DEF Merge
<1> QED
  BY <1>1, MapType, IsMap

LEMMA RestrictIsMap ==
    ASSUME NEW K, NEW V, NEW m \in MapsOf(K, V), NEW S, S \subseteq DOMAIN m
    PROVE  /\ Restrict(m, S) \in MapsOf(K, V)
           /\ DOMAIN Restrict(m, S) = S
           /\ \A x \in S : Restrict(m, S)[x] = m[x]
<1>1. Restrict(m, S) \in [S -> V]
  BY MapType DEF Restrict
<1> QED
  BY <1>1, MapType, IsMap DEF Restrict

LEMMA WiderMap ==
    ASSUME NEW K, NEW V, NEW W, V \subseteq W, NEW m \in MapsOf(K, V)
    PROVE  m \in MapsOf(K, W)
<1>1. m \in [DOMAIN m -> W]
  BY MapType
<1> QED
  BY <1>1, MapType, IsMap
==============================================================================
