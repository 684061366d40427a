-------------------------------- MODULE StdMap --------------------------------
(***************************************************************************)
(* std::map as the traced tool uses it: a function on the keys present.    *)
(***************************************************************************)
EXTENDS Integers

EmptyMap == [k \in {} |-> 0]

\* m[k] = v
Insert(m, k, v) == [x \in DOMAIN m \cup {k} |-> IF x = k THEN v ELSE m[x]]

\* m.erase(k)
Erase(m, k) == [x \in DOMAIN m \ {k} |-> m[x]]

\* The value m[k] yields: operator[] makes an entry of the default if absent.
At(m, k, default) == IF k \in DOMAIN m THEN m[k] ELSE default

\* The keys upper_bound(k) passes over: it stops at the least key above k.
Below(m, k) == {x \in DOMAIN m : x <= k}
Above(m, k) == {x \in DOMAIN m : x > k}

\* The key of the element before upper_bound(k), when there is one.
FloorKey(m, k) == CHOOSE x \in Below(m, k) : \A y \in Below(m, k) : y <= x

\* The key of upper_bound(k), when it is not end().
CeilKey(m, k) == CHOOSE x \in Above(m, k) : \A y \in Above(m, k) : x <= y
=============================================================================
