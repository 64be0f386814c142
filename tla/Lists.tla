-------------------------------- MODULE Lists -------------------------------
(***************************************************************************)
(* What several parts do with lists, in a form that can be reasoned about. *)
(***************************************************************************)
EXTENDS Naturals, Sequences

(* What a loop keeps of a list that appends those of a set to another.     *)
Kept(s, set) ==
  LET kept[n \in 0 .. Len(s)] ==
        IF n = 0 THEN <<>>
        ELSE IF s[n] \in set THEN Append(kept[n - 1], s[n]) ELSE kept[n - 1]
  IN  kept[Len(s)]

(* One field of each record of a list.                                     *)
Column(list, field) == [i \in DOMAIN list |-> list[i][field]]

(* A map after one of its entries is set.                                  *)
Updated(map, x, value) ==
  [y \in DOMAIN map \cup {x} |-> IF y = x THEN value ELSE map[y]]

=============================================================================
