---------------------------- MODULE MCXmlVisitor ----------------------------
(***************************************************************************)
(* The reader on every document of a small family.  Node 1 is the document *)
(* node and 2 its root element; 3 is the SgGlobal, or whatever else stands *)
(* there; the others hang below.                                           *)
(***************************************************************************)
EXTENDS XmlVisitor

CONSTANT Last   \* the last node

MCNode == 1..Last
MCDocument == 1

\* The nodes below n, in increasing order.
ChildrenOf(parent, n) == SelectSeq([c \in 1..Last |-> c], LAMBDA c : c > 1 /\ parent[c] = n)

Kids(parent) == <<>> \o [n \in MCNode |-> ChildrenOf(parent, n)]

\* Kinds without children.
Leaf == {"ref", "classRef", "classExpr", "info", "comment", "unknown", "type"}

\* Node 3 is the only child of the root, 4 its first child; the last node may
\* stand beside the root.
Trees ==
  {p \in [2..Last -> 1..(Last - 1)] :
     /\ p[2] = 1 /\ p[3] = 2
     /\ \A n \in 4..Last : p[n] \in (3..(n - 1)) \cup (IF n = Last THEN {1} ELSE {})}

\* Nodes 1 to 4.  Node 3 may be a member access, since the object of node 4 may
\* be another.
Tops ==
  {<<"document", "file", "scope", k>> : k \in {"scope", "member", "if", "switch"}}
  \cup {<<"document", "file", "member", k>> : k \in Member}
  \cup {<<"document", "scope", "scope", "scope">>, <<"document", "file", "unknown", "scope">>}

Kinds ==
  {top \o mid \o <<last>> :
     top \in Tops,
     mid \in [1..(Last - 5) -> {"scope", "condition", "classRef", "ref", "info", "comment"}],
     last \in Kind \ {"document", "file", "expr"}}

Leafless(kids, k) == \A n \in MCNode : kids[n] # <<>> => k[n] \notin Leaf

\* ROSE gives a member access the type of the member.
TypedByMember(kids, k) ==
  \A m \in MCNode :
    LET operands == SelectSeq(kids[m], LAMBDA c : k[c] \in Expression)
    IN k[m] \in Member /\ Len(operands) = 2
         => (k[m] = "classMember" <=> k[operands[2]] \in ClassTyped)

\* One element may be refused, in the documents that end in a statement.
MCDocs ==
  {d \in [kids: {Kids(parent) : parent \in Trees}, kind: Kinds,
          refused: {{}} \cup {{n} : n \in {2, 4, Last}}] :
     /\ d.refused # {} => d.kind[Last] = "plain"
     /\ Leafless(d.kids, d.kind)
     /\ TypedByMember(d.kids, d.kind)}
=============================================================================
