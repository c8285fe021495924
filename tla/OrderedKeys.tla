---------------------------- MODULE OrderedKeys ----------------------------
(***************************************************************************)
(* The key order of a collections.OrderedDict, as lru_cache.LRUCache uses  *)
(* it (_keys_to_last_time): a sequence without repetitions, oldest key     *)
(* first.  The values of the dictionary are kept by the modules that use   *)
(* the order.                                                              *)
(***************************************************************************)
EXTENDS Naturals, Sequences

\* A sequence that holds no key twice.
Ordered(order) == \A i, j \in 1..Len(order) : order[i] = order[j] => i = j

Keys(order) == {order[i] : i \in 1..Len(order)}

\* The place of a key that is in the order.
Place(order, k) == CHOOSE i \in 1..Len(order) : order[i] = k

\* del d[k]
Del(order, k) ==
  IF k \in Keys(order)
  THEN [i \in 1..(Len(order) - 1) |->
          IF i < Place(order, k) THEN order[i] ELSE order[i + 1]]
  ELSE order

\* Mutant: the old place of the key is not given up.
TouchTwice(order, k) == Append(order, k)

\* del d[k] if it is there; d[k] = ... : the key becomes the newest one.
Touch(order, k) == Append(Del(order, k), k)
=============================================================================
