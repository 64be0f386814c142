------------------------------ MODULE KeyValue ------------------------------
(***************************************************************************)
(* How the agents keep nested data in Consul's flat key-value store: one   *)
(* key for each scalar, one that ends in a slash for each list and each    *)
(* empty map (PutMap), from which the web application builds the data      *)
(* again, key by key in the order Consul lists them (ListMap).             *)
(*                                                                         *)
(* Data is a tree: a function from paths to nodes that has the path of     *)
(* every map and list above a node.  A segment of a path is a number, that *)
(* of an element below Names and a name from there on, so that the order   *)
(* of keys can be computed.                                                *)
(***************************************************************************)
EXTENDS Integers, Sequences, SequencesExt, Functions, FiniteSets

Names == 1000   \* bound: segments below it are indexes of elements
Slash == -1

Map == [kind |-> "map", value |-> ""]
List == [kind |-> "list", value |-> ""]
Panic == [kind |-> "panic", value |-> ""]
Scalar(kind, value) == [kind |-> kind, value |-> value]
IsScalar(node) == node.kind \notin {"map", "list"}

Children(tree, p) == {q \in DOMAIN tree : q # <<>> /\ Front(q) = p}
InList(tree, p) == p # <<>> /\ tree[Front(p)].kind = "list"

-----------------------------------------------------------------------------
(* Writing.                                                                *)

Index_Plain(i) == IF i < 10 THEN <<i>> ELSE <<i \div 10, i % 10>>

(* The name of an element has four digits to keep it in its place among    *)
(* the keys, which Consul sorts as text.  X_... is X with a mistake in it. *)
Index(i) == <<i \div 1000, (i \div 100) % 10, (i \div 10) % 10, i % 10>>

(* The kinds PutTyped has a flag for; any other is kept as text.           *)
Flag(kind) == IF kind \in {"int32", "int", "bool"} THEN kind ELSE "string"

Entry(path, dir, flag, value) == [path |-> path, dir |-> dir, flag |-> flag, value |-> value]

PutMap(tree) ==
  {Entry(p, FALSE, Flag(tree[p].kind), tree[p].value) : p \in {q \in DOMAIN tree : IsScalar(tree[q])}}
    \cup {Entry(p, TRUE, "slice", "") : p \in {q \in DOMAIN tree : tree[q].kind = "list"}}
    \cup {Entry(p, TRUE, "string", "") :
            p \in {q \in DOMAIN tree : tree[q].kind = "map" /\ Children(tree, q) = {}}}

-----------------------------------------------------------------------------
(* Reading.                                                                *)

(* The key of an entry as Consul sorts it.                                 *)
Code(segment) == IF segment < Names THEN Index(segment) ELSE <<segment>>

KeyText(path) ==
  LET text[n \in 0 .. Len(path)] ==
        IF n = 0 THEN <<>> ELSE text[n - 1] \o Append(Code(path[n]), Slash)
  IN  text[Len(path)]

Key(e) == IF e.dir \/ e.path = <<>> THEN KeyText(e.path) ELSE Front(KeyText(e.path))

Before(s, t) ==
  \/ Len(s) < Len(t) /\ s = SubSeq(t, 1, Len(s))
  \/ \E i \in DOMAIN s \cap DOMAIN t :
       s[i] < t[i] /\ SubSeq(s, 1, i - 1) = SubSeq(t, 1, i - 1)

Listed(entries) ==
  LET text == [e \in entries |-> Key(e)]
      place == [e \in entries |-> Cardinality({d \in entries : Before(text[d], text[e])}) + 1]
  IN  [i \in 1 .. Cardinality(entries) |-> CHOOSE e \in entries : place[e] = i]

(* What one entry adds to the data: the maps above it that are not there   *)
(* yet, then the value, unless it is empty text.  An entry below a list    *)
(* makes an element of it, a map even for a scalar, and must come in turn: *)
(* ListMap indexes the list with the number in the key.                    *)
Visit(tree, e) ==
  LET above == {SubSeq(e.path, 1, i) : i \in 1 .. Len(e.path) - 1}
      maps == above \cup (IF e.dir /\ e.flag # "slice" THEN {e.path} ELSE {})
      walked == [p \in DOMAIN tree \cup maps |-> IF p \in DOMAIN tree THEN tree[p] ELSE Map]
      with(node) == [p \in DOMAIN walked \cup {e.path} |-> IF p = e.path THEN node ELSE walked[p]]
      OutOfTurn(p) == /\ p \notin DOMAIN tree
                      /\ InList(walked, p)
                      /\ Last(p) # Cardinality(Children(tree, Front(p)))
  IN  IF tree[<<>>] = Panic THEN tree
      ELSE IF \E p \in above \cup {e.path} : p # <<>> /\ OutOfTurn(p) THEN [tree EXCEPT ![<<>>] = Panic]
      ELSE IF e.path = <<>> THEN tree
      ELSE IF e.flag = "slice" THEN with(List)
      ELSE IF InList(walked, e.path) THEN with(Map)
      ELSE IF e.dir \/ e.value = "" THEN walked
      ELSE with(Scalar(e.flag, e.value))

ListMap(entries) ==
  LET list == Listed(entries)
      built[n \in 0 .. Len(list)] ==
        IF n = 0 THEN [p \in {<<>>} |-> Map] ELSE Visit(built[n - 1], list[n])
  IN  built[Len(list)]

-----------------------------------------------------------------------------
(* What the readers rely on.                                               *)

(* A tree without the scalars that cannot be told from absent ones.        *)
WithoutBlanks(tree) ==
  Restrict(tree, {p \in DOMAIN tree : ~(IsScalar(tree[p]) /\ tree[p].value = "")})

Reloads(tree) == ListMap(PutMap(tree)) = WithoutBlanks(tree)

HasScalarsInLists(tree) == \E p \in DOMAIN tree : InList(tree, p) /\ IsScalar(tree[p])

=============================================================================
