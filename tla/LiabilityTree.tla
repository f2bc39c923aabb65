---------------------------- MODULE LiabilityTree ----------------------------
(***************************************************************************)
(* The Merkle-sum tree over what the system owes (LiabilityTree,           *)
(* zec/engine/solvency.ts) and the check of a proof in the browser         *)
(* (web/lib/zec/solvency.ts).                                              *)
(*                                                                         *)
(* A hash is the tuple of what is hashed, so that two are equal only if    *)
(* the hashed strings are.  Leaves come as a sequence sorted by id.        *)
(***************************************************************************)
EXTENDS Integers, Sequences

LeafHash(snapshot, id, amount) == <<"liability", snapshot, id, amount>>
NodeHash(l, r) == <<"node", l.hash, l.sum, r.hash, r.sum>>

\* Pads odd levels.
Empty == [hash |-> <<"empty">>, sum |-> 0]

LeafNode(snapshot, leaf) ==
  [hash |-> LeafHash(snapshot, leaf.id, leaf.amount), sum |-> leaf.amount]

\* Mutant: the sum of a node is not what its hash commits to.
MutParent(l, r) == [hash |-> NodeHash(l, r), sum |-> l.sum]

Parent(l, r) == [hash |-> NodeHash(l, r), sum |-> l.sum + r.sum]

NodeAt(level, i) == IF i <= Len(level) THEN level[i] ELSE Empty

\* The level above; there is none above a single node.
Above(level) ==
  IF Len(level) <= 1 THEN level
  ELSE [i \in 1 .. (Len(level) + 1) \div 2 |->
          Parent(NodeAt(level, 2 * i - 1), NodeAt(level, 2 * i))]

Levels(snapshot, leaves) ==
  LET level[k \in 0 .. Len(leaves)] ==
        IF k = 0
        THEN [i \in 1 .. Len(leaves) |-> LeafNode(snapshot, leaves[i])]
        ELSE Above(level[k - 1])
  IN  level

\* The root's level.
Height(levels) ==
  CHOOSE k \in DOMAIN levels :
    Len(levels[k]) = 1 /\ \A j \in 0 .. k - 1 : Len(levels[j]) > 1

Tree(snapshot, leaves) ==
  LET levels == Levels(snapshot, leaves)
  IN  [snapshot |-> snapshot, leaves |-> leaves, levels |-> levels,
       root |-> levels[Height(levels)][1]]

\* The other child of a node's parent, and its side.
Sibling(i) == IF i % 2 = 1 THEN i + 1 ELSE i - 1
Side(i) == IF i % 2 = 1 THEN "right" ELSE "left"

\* The places above the leaf at place `at`, on the levels up to `n`.
Climb(at, n) ==
  LET place[k \in 0 .. n] == IF k = 0 THEN at ELSE (place[k - 1] + 1) \div 2
  IN  place

\* The proof of that leaf: its siblings, from the leaf up.
Proof(tree, at) ==
  LET h == Height(tree.levels)
      place == Climb(at, h)
  IN  [snapshot |-> tree.snapshot,
       leaf |-> tree.leaves[at],
       root |-> tree.root,
       path |-> [k \in 1 .. h |->
         [node |-> NodeAt(tree.levels[k - 1], Sibling(place[k - 1])),
          side |-> Side(place[k - 1])]]]

\* The nodes recomputed from a leaf and a path alone.
Walk(leaf, path) ==
  LET node[k \in 0 .. Len(path)] ==
        IF k = 0 THEN leaf
        ELSE IF path[k].side = "right" THEN Parent(node[k - 1], path[k].node)
             ELSE Parent(path[k].node, node[k - 1])
  IN  node

ProofVerifies(proof) ==
  /\ \A k \in 1 .. Len(proof.path) : proof.path[k].node.sum >= 0
  /\ proof.root = Walk(LeafNode(proof.snapshot, proof.leaf),
                       proof.path)[Len(proof.path)]
=============================================================================
