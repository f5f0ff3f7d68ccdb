------------------------------ MODULE Multimap ------------------------------
(***************************************************************************)
(* What libbpf's hashmap promises its users (hashmap.h): a multimap.       *)
(* pairs says how often a key is there with a value, size how many entries *)
(* there are, ret what the last call returned.                             *)
(***************************************************************************)
EXTENDS Integers

CONSTANTS Keys, Values, Strategies

VARIABLES pairs, size, ret

NoPairs == [k \in Keys |-> [v \in Values |-> 0]]

Init == pairs = NoPairs /\ size = 0 /\ ret = <<"none">>

Has(k) == {v \in Values : pairs[k][v] > 0}

\* a new entry; without memory there is none
Added(k, v) ==
  \/ pairs' = [pairs EXCEPT ![k][v] = @ + 1] /\ size' = size + 1 /\ ret' = <<"ok">>
  \/ ret' = <<"ENOMEM">> /\ UNCHANGED <<pairs, size>>

Replaced(k, v, old) ==
  /\ LET less == [pairs EXCEPT ![k][old] = @ - 1] IN pairs' = [less EXCEPT ![k][v] = @ + 1]
  /\ ret' = <<"old", old>>
  /\ UNCHANGED size

Insert(k, v, strategy) ==
  \/ strategy = "APPEND" /\ Added(k, v)
  \/ strategy \in {"ADD", "SET"} /\ Has(k) = {} /\ Added(k, v)
  \/ strategy \in {"SET", "UPDATE"} /\ \E old \in Has(k) : Replaced(k, v, old)
  \/ strategy = "ADD" /\ \E old \in Has(k) : ret' = <<"EEXIST", old>> /\ UNCHANGED <<pairs, size>>
  \/ strategy = "UPDATE" /\ Has(k) = {} /\ ret' = <<"ENOENT">> /\ UNCHANGED <<pairs, size>>

Find(k) ==
  /\ \/ Has(k) = {} /\ ret' = <<"none">>
     \/ \E v \in Has(k) : ret' = <<"found", v>>
  /\ UNCHANGED <<pairs, size>>

Delete(k) ==
  \/ Has(k) = {} /\ ret' = <<"none">> /\ UNCHANGED <<pairs, size>>
  \/ \E v \in Has(k) : /\ pairs' = [pairs EXCEPT ![k][v] = @ - 1]
                       /\ size' = size - 1
                       /\ ret' = <<"old", v>>

\* the entries of a key: each value as often as it is there
Entries(k) == ret' = <<"entries", pairs[k]>> /\ UNCHANGED <<pairs, size>>

\* another multimap takes its place
Renew == pairs' = NoPairs /\ size' = 0 /\ ret' = <<"none">>

Next ==
  \/ \E k \in Keys :
       \/ \E v \in Values, strategy \in Strategies : Insert(k, v, strategy)
       \/ Find(k) \/ Delete(k) \/ Entries(k)
  \/ Renew

Spec == Init /\ [][Next]_<<pairs, size, ret>>
=============================================================================
