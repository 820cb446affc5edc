------------------------------ MODULE KeyTable ------------------------------
(***************************************************************************)
(* What a LogTab promises the stores built on it: a table of keys, each    *)
(* operation taking effect at once.                                        *)
(***************************************************************************)
CONSTANTS
    Keys,        \* keys that hold values
    Values,      \* values
    None,        \* the value of a key that is not there
    Under        \* Under[p]: the keys that start with prefix p

VARIABLE table

Init == table = [k \in Keys |-> None]

Write(k, v) == table' = [table EXCEPT ![k] = v]
Delete(k)   == table' = [table EXCEPT ![k] = None]
Clear(p)    == table' = [k \in Keys |-> IF k \in Under[p] THEN None ELSE table[k]]

Next == \/ \E k \in Keys, v \in Values : Write(k, v)
        \/ \E k \in Keys : Delete(k)
        \/ \E p \in DOMAIN Under : Clear(p)

Spec == Init /\ [][Next]_table
=============================================================================
