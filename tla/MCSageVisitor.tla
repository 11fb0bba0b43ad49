--------------------------- MODULE MCSageVisitor ---------------------------
(***************************************************************************)
(* The writer on every AST of a small family.  Node 1 is the SgFile, 2 the *)
(* SgGlobal, 3 and 4 lie below, 4 beside or under 3.  A node below SgGlobal *)
(* hangs from a traversal successor slot or is visited by inodeSgXxx, may   *)
(* be a type or an I/O statement, foreign or compiler generated, and may    *)
(* carry directives.                                                       *)
(***************************************************************************)
EXTENDS SageDocument

MCNode == 1..4
MCNULL == 0
MCDoc  == 5

Sub(parent, by, way, n) == {c \in {3, 4} : parent[c] = n /\ by[c] = way}

\* Children in increasing order, after an empty slot when they are successors.
Listing(S) == IF S = {} THEN <<>> ELSE
              IF Cardinality(S) = 2 THEN <<3, 4>> ELSE <<CHOOSE c \in S : TRUE>>

Build(parent, by, class, status, pos, leaf, skip) ==
  LET succ(n) == CASE n = 1 -> <<2>>
                   [] n = 2 -> Listing(Sub(parent, by, "succ", 2))
                   [] n = 3 -> <<0>> \o Listing(Sub(parent, by, "succ", 3))
                   [] n = 4 -> IF leaf THEN <<>> ELSE <<0>>
      inode(n) == Listing(Sub(parent, by, "inode", n))
      Of(f, v) == {n \in DOMAIN f : f[n] = v}
  IN [root |-> 1, global |-> 2,
      succ |-> [n \in MCNode |-> succ(n)], inode |-> [n \in MCNode |-> inode(n)],
      quiet |-> Of(class, "io"), types |-> Of(class, "type"),
      listed |-> {n \in MCNode : inode(n) # <<>>},
      foreign |-> Of(status, "foreign"), generated |-> Of(status, "generated"),
      info |-> {n \in 2..4 : pos[n] # {}},
      pragma |-> [n \in MCNode |-> IF n = 1 THEN {} ELSE pos[n]], skip |-> skip]

MCAsts ==
  {Build([c \in {3, 4} |-> IF c = 3 THEN 2 ELSE p], by, class, status,
         [n \in 2..4 |-> IF n = 3 THEN q ELSE r[n]], leaf, skip) :
     p \in {2, 3},
     by \in [{3, 4} -> {"succ", "inode"}],
     class \in {c \in [{3, 4} -> {"plain", "type", "io"}] : c[4] # "io"},
     status \in [{3, 4} -> {"normal", "foreign", "generated"}],
     q \in {{}, {"before"}, {"inside", "after"}},
     r \in [{2, 4} -> {{}, Position}],
     leaf \in BOOLEAN, skip \in BOOLEAN}

=============================================================================
