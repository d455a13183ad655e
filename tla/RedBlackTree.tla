---------------------------- MODULE RedBlackTree ----------------------------
(***************************************************************************)
(* The red-black tree of the price levels (pkg/redblacktree): nodes with   *)
(* pointers to their children and their parent, and the iterator that      *)
(* walks them.  Left and right mirror each other, so what the code writes  *)
(* twice is written once for a side.  A node is named by the key it held   *)
(* when the operation began; after the operation by the key it then holds. *)
(***************************************************************************)
EXTENDS Integers, Sequences, FiniteSets, TLC

CONSTANTS Keys, Values, NoValue

ASSUME KeysAssumption == Keys \subseteq Nat \ {0}
ASSUME ValuesAssumption == NoValue \notin Values

VARIABLE tree  \* [root, size, node], node by name

-----------------------------------------------------------------------------
Nil == 0
Sides == {"left", "right"}
Other(side) == IF side = "left" THEN "right" ELSE "left"
NodeColor(T, n) == IF n = Nil THEN "black" ELSE T.node[n].color
IsBlack(T, n) == NodeColor(T, n) = "black"
Parent(T, n) == T.node[n].parent
Side(T, n) == IF T.node[Parent(T, n)].left = n THEN "left" ELSE "right"
Sibling(T, n) == T.node[Parent(T, n)][Other(Side(T, n))]
Paint(T, n, color) == [T EXCEPT !.node[n].color = color]

RECURSIVE Find(_, _, _), Descend(_, _, _), Climb(_, _, _), Nearest(_, _, _, _, _)

\* lookup below n.
Find(T, n, k) ==
    IF n = Nil \/ T.node[n].key = k THEN n
    ELSE Find(T, IF k < T.node[n].key THEN T.node[n].left ELSE T.node[n].right, k)

\* The last node from n on one side: maximumNode, Left and Right of the tree.
Descend(T, n, side) ==
    IF n = Nil \/ T.node[n][side] = Nil THEN n ELSE Descend(T, T.node[n][side], side)

\* Up from n, until from a child that is not on that side.
Climb(T, n, side) ==
    IF Parent(T, n) = Nil THEN Nil
    ELSE IF Side(T, n) # side THEN Parent(T, n)
    ELSE Climb(T, Parent(T, n), side)

\* The iterator's Next (side "right") and Prev ("left"); Nil is its place
\* before the first node and after the last.
FromAbove(T, n, side) ==   \* faulty: always looks among the ancestors
    IF n = Nil THEN Descend(T, T.root, Other(side)) ELSE Climb(T, n, side)
Following(T, n, side) ==
    CASE n = Nil -> Descend(T, T.root, Other(side))
      [] n # Nil /\ T.node[n][side] # Nil -> Descend(T, T.node[n][side], Other(side))
      [] OTHER -> Climb(T, n, side)

\* Floor (side "left") and Ceiling ("right"): the best node so far is one
\* whose key the sought one is beyond.
Beyond(k, key, side) == IF side = "left" THEN key < k ELSE key > k
Nearest(T, n, k, side, best) ==
    IF n = Nil THEN best
    ELSE IF T.node[n].key = k THEN n
    ELSE IF Beyond(k, T.node[n].key, side)
    THEN Nearest(T, T.node[n][Other(side)], k, side, n)
    ELSE Nearest(T, T.node[n][side], k, side, best)

-----------------------------------------------------------------------------
ReplaceNode(T, old, new) ==
    LET p == Parent(T, old)
        hung == IF p = Nil THEN [T EXCEPT !.root = new]
                ELSE [T EXCEPT !.node[p][Side(T, old)] = new]
    IN  IF new = Nil THEN hung ELSE [hung EXCEPT !.node[new].parent = p]

Rotate(T, n, side) ==
    LET up == T.node[n][Other(side)]
        inner == T.node[up][side]
        turned == [ReplaceNode(T, n, up) EXCEPT
                      !.node[n][Other(side)] = inner,
                      !.node[up][side] = n,
                      !.node[n].parent = up]
    IN  IF inner = Nil THEN turned ELSE [turned EXCEPT !.node[inner].parent = n]

-----------------------------------------------------------------------------
RECURSIVE InsertCase1(_, _), DeleteCase1(_, _)

InsertCase5(T, n) ==
    LET p == Parent(T, n)
        g == Parent(T, p)
    IN  Rotate(Paint(Paint(T, p, "black"), g, "red"), g, Other(Side(T, n)))

InsertCase4(T, n) ==
    LET p == Parent(T, n) IN
    IF Side(T, n) # Side(T, p)
    THEN InsertCase5(Rotate(T, p, Side(T, p)), p)
    ELSE InsertCase5(T, n)

InsertCase3(T, n) ==
    LET p == Parent(T, n)
        g == Parent(T, p)
        uncle == Sibling(T, p)
    IN  IF IsBlack(T, uncle) THEN InsertCase4(T, n)
        ELSE InsertCase1(Paint(Paint(Paint(T, p, "black"), uncle, "black"), g, "red"), g)

\* insertCase1 and insertCase2.
InsertCase1(T, n) ==
    IF Parent(T, n) = Nil THEN Paint(T, n, "black")
    ELSE IF IsBlack(T, Parent(T, n)) THEN T
    ELSE InsertCase3(T, n)

\* Where Put hangs a new node: the last node on the way to its key.
RECURSIVE Hook(_, _, _)
Hook(T, n, k) ==
    LET next == IF k < T.node[n].key THEN T.node[n].left ELSE T.node[n].right
    IN  IF next = Nil THEN n ELSE Hook(T, next, k)

Leaf(k, v, parent) == [key |-> k, value |-> v, color |-> "red",
                       left |-> Nil, right |-> Nil, parent |-> parent]

Overwritten(T, n, v) == [T EXCEPT !.node[n].value = v]

Inserted(T, k, v) ==
    LET n == Find(T, T.root, k)
        p == IF T.root = Nil THEN Nil ELSE Hook(T, T.root, k)
        grown == [T EXCEPT !.node = @ @@ (k :> Leaf(k, v, p)), !.size = @ + 1]
        side == IF k < T.node[p].key THEN "left" ELSE "right"
    IN  CASE n # Nil -> Overwritten(T, n, v)
          [] n = Nil /\ p = Nil -> InsertCase1([grown EXCEPT !.root = k], k)
          [] OTHER -> InsertCase1([grown EXCEPT !.node[p][side] = k], k)

-----------------------------------------------------------------------------
DeleteCase6(T, n) ==
    LET p == Parent(T, n)
        s == Sibling(T, n)
        painted == Paint(Paint(T, s, NodeColor(T, p)), p, "black")
        Turn(side) == Rotate(Paint(painted, T.node[s][Other(side)], "black"), p, side)
    IN  IF Side(T, n) = "left" /\ ~IsBlack(T, T.node[s].right) THEN Turn("left")
        ELSE IF ~IsBlack(T, T.node[s].left) THEN Turn("right") ELSE painted

DeleteCase5(T, n) ==
    LET s == Sibling(T, n)
        near == T.node[s][Side(T, n)]
        far == T.node[s][Other(Side(T, n))]
    IN  IF IsBlack(T, s) /\ ~IsBlack(T, near) /\ IsBlack(T, far)
        THEN DeleteCase6(Rotate(Paint(Paint(T, s, "red"), near, "black"), s,
                                Other(Side(T, n))), n)
        ELSE DeleteCase6(T, n)

\* The sibling and both its children are black.
BlackBeside(T, n) ==
    LET s == Sibling(T, n) IN
    IsBlack(T, s) /\ IsBlack(T, T.node[s].left) /\ IsBlack(T, T.node[s].right)

DeleteUnpaid(T, n) ==   \* faulty: the parent stays red
    IF ~IsBlack(T, Parent(T, n)) /\ BlackBeside(T, n)
    THEN Paint(T, Sibling(T, n), "red") ELSE DeleteCase5(T, n)
DeleteCase4(T, n) ==
    IF ~IsBlack(T, Parent(T, n)) /\ BlackBeside(T, n)
    THEN Paint(Paint(T, Sibling(T, n), "red"), Parent(T, n), "black")
    ELSE DeleteCase5(T, n)

DeleteCase3(T, n) ==
    IF IsBlack(T, Parent(T, n)) /\ BlackBeside(T, n)
    THEN DeleteCase1(Paint(T, Sibling(T, n), "red"), Parent(T, n))
    ELSE DeleteCase4(T, n)

DeleteCase2(T, n) ==
    LET p == Parent(T, n)
        s == Sibling(T, n)
    IN  IF IsBlack(T, s) THEN DeleteCase3(T, n)
        ELSE DeleteCase3(Rotate(Paint(Paint(T, p, "red"), s, "black"), p, Side(T, n)), n)

DeleteCase1(T, n) == IF Parent(T, n) = Nil THEN T ELSE DeleteCase2(T, n)

\* The node n, with at most one child, leaves the tree.
Unhook(T, n) ==
    LET child == IF T.node[n].right = Nil THEN T.node[n].left ELSE T.node[n].right
        settled == IF IsBlack(T, n)
                   THEN DeleteCase1(Paint(T, n, NodeColor(T, child)), n) ELSE T
        cut == ReplaceNode(settled, n, child)
        rooted == IF child # Nil /\ Parent(settled, n) = Nil
                  THEN Paint(cut, child, "black") ELSE cut
    IN  [rooted EXCEPT !.node = [m \in DOMAIN @ \ {n} |-> rooted.node[m]]]

\* Every node is named by its key.
Renamed(T) ==
    LET name(n) == IF n = Nil THEN Nil ELSE T.node[n].key
        holder(k) == CHOOSE n \in DOMAIN T.node : T.node[n].key = k
        fresh(m) == [m EXCEPT !.left = name(@), !.right = name(@), !.parent = name(@)]
    IN  [T EXCEPT !.root = name(@),
                  !.node = [k \in {T.node[n].key : n \in DOMAIN @} |->
                              fresh(T.node[holder(k)])]]

\* A node with two children takes the content of its predecessor, and the
\* predecessor's node leaves in its place.
KeyOnly(T, n, pred) ==   \* faulty: the value stays
    [T EXCEPT !.node[n].key = T.node[pred].key]
Content(T, n, pred) ==
    [T EXCEPT !.node[n].key = T.node[pred].key, !.node[n].value = T.node[pred].value]

Removed(T, k) ==
    LET n == Find(T, T.root, k)
        pred == Descend(T, T.node[n].left, "right")
        left == IF T.node[n].left # Nil /\ T.node[n].right # Nil
                THEN Unhook(Content(T, n, pred), pred) ELSE Unhook(T, n)
    IN  IF n = Nil THEN T ELSE Renamed([left EXCEPT !.size = @ - 1])

-----------------------------------------------------------------------------
EmptyTree == [root |-> Nil, size |-> 0, node |-> [k \in {} |-> Nil]]

Put(k, v) == tree' = Inserted(tree, k, v)
Remove(k) == tree' = Removed(tree, k)

Init == tree = EmptyTree
Next == \E k \in Keys : Remove(k) \/ \E v \in Values : Put(k, v)
Spec == Init /\ [][Next]_tree

-----------------------------------------------------------------------------
Names == DOMAIN tree.node

\* The pointers of every node agree in both directions, and only the root
\* has no parent.
TypeOK ==
    /\ tree.root \in Names \cup {Nil}
    /\ \A n \in Names :
          LET m == tree.node[n] IN
          /\ m.key = n /\ m.value \in Values /\ m.color \in {"red", "black"}
          /\ m.parent = Nil <=> n = tree.root
          /\ \A side \in Sides :
                m[side] # Nil => m[side] \in Names /\ tree.node[m[side]].parent = n
          /\ m.parent # Nil => n \in {tree.node[m.parent][side] : side \in Sides}

RECURSIVE BlackHeight(_)
\* The number of black nodes on every way down from n, or -1 when the ways
\* differ.
BlackHeight(n) ==
    IF n = Nil THEN 0
    ELSE LET l == BlackHeight(tree.node[n].left)
             r == BlackHeight(tree.node[n].right)
         IN  IF l # r \/ l = -1 THEN -1
             ELSE l + (IF IsBlack(tree, n) THEN 1 ELSE 0)

\* After any insertions and deletions the tree is balanced: the root is
\* black, no red node has a red parent, and every way down has as many black
\* nodes.  The deletion's cases rely on it when they follow the pointers of a
\* sibling without looking whether there is one.
Balanced ==
    /\ IsBlack(tree, tree.root)
    /\ \A n \in Names :
          ~IsBlack(tree, n) => tree.node[n].parent # Nil /\ IsBlack(tree, tree.node[n].parent)
    /\ BlackHeight(tree.root) >= 0

\* The iterator meets the keys in ascending order, each once, and in
\* descending order backwards: Depth lists the levels by it.
WalksInOrder ==
    LET step(n) == Following(tree, n, "right")
        back(n) == Following(tree, n, "left")
    IN  \A n \in Names \cup {Nil} :
          /\ step(n) = IF \E m \in Names : m > n
                       THEN CHOOSE m \in Names : m > n /\ \A j \in Names : j > n => m <= j
                       ELSE Nil
          /\ n # Nil => back(step(n)) = n

\* Floor and Ceiling answer the nearest key, and the key itself when the tree
\* has it.
FindsNearest ==
    \A k \in Keys :
        LET below == {n \in Names : n <= k}
            above == {n \in Names : n >= k}
            floor == Nearest(tree, tree.root, k, "left", Nil)
            ceiling == Nearest(tree, tree.root, k, "right", Nil)
        IN  /\ IF below = {} THEN floor = Nil
               ELSE floor \in below /\ \A n \in below : n <= floor
            /\ IF above = {} THEN ceiling = Nil
               ELSE ceiling \in above /\ \A n \in above : ceiling <= n

\* The tree's size, by which the book tells an empty side, is the number of
\* its nodes.
SizeIsCount == tree.size = Cardinality(Names)

\* Whatever way a key is asked for, the tree answers like the sorted set of its
\* keys: by the iterator, by Floor and Ceiling, and by Size.
AnswersInOrder == TypeOK /\ WalksInOrder /\ FindsNearest /\ SizeIsCount

\* Looking keys up from the root, the tree is a map: a removal that moves a
\* predecessor's content, and every rotation, loses and mixes up nothing.
Lookup(k) == LET n == Find(tree, tree.root, k)
             IN  IF n = Nil THEN NoValue ELSE tree.node[n].value
Map == INSTANCE SortedMap WITH map <- [k \in Keys |-> Lookup(k)]
IsAMap == Map!Spec
=============================================================================
