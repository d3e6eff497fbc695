----------------------------- MODULE RankedMap -----------------------------
(***************************************************************************)
(* RankedMap (src/ranked_map.h): a map from keys to values, and the same   *)
(* pairs ordered by value and then by key.  Keys and values are numbers.   *)
(* Exceptions of memory allocation are left out: the class's one user      *)
(* terminates on them.                                                     *)
(***************************************************************************)
EXTENDS Integers

Empty == [key_value |-> <<>>, value_key |-> {}]
HasKey(m, key) == key \in DOMAIN m.key_value

\* The key GetLowest points to; m is not empty.
Lowest(m) ==
    (CHOOSE p \in m.value_key : \A q \in m.value_key :
        p[1] < q[1] \/ (p[1] = q[1] /\ p[2] <= q[2]))[2]

Erase(m, key) ==
    IF ~HasKey(m, key) THEN m
    ELSE [key_value |-> [k \in DOMAIN m.key_value \ {key} |-> m.key_value[k]],
          value_key |-> m.value_key \ {<<m.key_value[key], key>>}]

\* Mutant: the pair with the old value stays.
UpdateKeepsOld(m, key, value) ==
    [key_value |-> [k \in DOMAIN m.key_value \cup {key} |->
                      IF k = key THEN value ELSE m.key_value[k]],
     value_key |-> m.value_key \cup {<<value, key>>}]

Update(m, key, value) ==
    [key_value |-> [k \in DOMAIN m.key_value \cup {key} |->
                      IF k = key THEN value ELSE m.key_value[k]],
     value_key |-> Erase(m, key).value_key \cup {<<value, key>>}]

\* The two containers hold the same pairs.
Agree(m) == m.value_key = {<<m.key_value[k], k>> : k \in DOMAIN m.key_value}
=============================================================================
