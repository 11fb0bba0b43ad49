---------------------------- MODULE SageVisitor ----------------------------
(***************************************************************************)
(* The XML writer: XevSageVisitor::visit (src/src/rose2xml.cpp).           *)
(*                                                                         *)
(* visit() is a recursive procedure over a ROSE AST.  The model keeps its  *)
(* call stack explicitly (frames), and abstracts the text it writes by     *)
(* what a streaming XML parser would know of it: the elements whose end    *)
(* tag is still to come (open), the items written under each element       *)
(* (kids), and the last tag written (tag).                                 *)
(*                                                                         *)
(* An AST is a record:                                                     *)
(*   root      the SgFile node                                             *)
(*   global    the SgGlobal node                                           *)
(*   succ      traversal successors of a node; NULL is an empty slot       *)
(*   inode     nodes its inodeSgXxx function visits                        *)
(*   quiet     SgType and SgIOStatement nodes: successors are not visited  *)
(*   types     the SgType nodes among them                                 *)
(*   listed    nodes for which the class tests of hasInode answer true     *)
(*   foreign   nodes for which isInSameFile answers false                  *)
(*   generated nodes whose file info is compiler generated                 *)
(*   info      nodes with attached preprocessing information               *)
(*   pragma    the positions at which a node carries Fortran directives    *)
(*   skip      the option "skip compiler-generated nodes"                  *)
(***************************************************************************)
EXTENDS Naturals, Sequences

CONSTANTS Node,  \* AST nodes, once for each place that leads to them
          NULL,  \* the null pointer
          Doc,   \* the document itself, parent of the root element
          Asts   \* the ASTs that may be written

Position == {"before", "inside", "after"}

AstType ==
  [root: Node, global: Node,
   succ: [Node -> Seq(Node \cup {NULL})], inode: [Node -> Seq(Node \cup {NULL})],
   quiet: SUBSET Node, types: SUBSET Node, listed: SUBSET Node,
   foreign: SUBSET Node, generated: SUBSET Node, info: SUBSET Node,
   pragma: [Node -> SUBSET Position], skip: BOOLEAN]

ASSUME NodeAssumption == NULL \notin Node /\ Doc \notin Node

\* Of ROSE: SgFile is not a located node, so nothing is attached to it, and
\* it is in its own file; a directive is a piece of preprocessing information.
\* Of the visitor classes: hasInode lists those whose inodeSgXxx function
\* visits something although they have no traversal successors.
ASSUME AstAssumption ==
  /\ Asts \subseteq AstType
  /\ \A a \in Asts :
       /\ a.root \notin a.foreign \cup a.generated \cup a.info
       /\ \A n \in Node :
            /\ a.pragma[n] # {} => n \in a.info
            /\ a.inode[n] # <<>> => n \in a.listed \/ (n \notin a.types /\ a.succ[n] # <<>>)

\* The places from which visit(n) calls visit(): what it would find there is
\* no node twice and never the file.  ROSE shares some nodes, types above
\* all; visit() keeps no record of what it has written and writes such a node
\* again from every place, so it is one Node for each of them.
Places(a, n) ==
  (IF n \in a.quiet \cup a.types THEN <<>> ELSE a.succ[n]) \o a.inode[n]

ASSUME TreeAssumption ==
  \A a \in Asts : \A m \in Node : \A i \in 1..Len(Places(a, m)) :
    /\ Places(a, m)[i] # a.root
    /\ \A n \in Node : \A j \in 1..Len(Places(a, n)) :
         Places(a, m)[i] = Places(a, n)[j] /\ Places(a, m)[i] # NULL => m = n /\ i = j

VARIABLES
  ast,     \* the AST being written; never changes
  frames,  \* call stack of visit()
  depth,   \* depth_
  open,    \* elements whose end tag is not written yet, outermost first
  kids,    \* items written under each element, in order
  tag      \* the last tag written

vars == <<ast, frames, depth, open, kids, tag>>

-----------------------------------------------------------------------------
(* The document: an item is an element, a directive (SgPragmaDeclaration)  *)
(* or the PreprocessingInfo elements of a node.                            *)

ItemKind == {"element", "info"} \cup Position
Item     == ItemKind \X Node
Tag      == {"none", "start", "end", "empty"} \X (Node \cup {NULL})

Innermost == IF open = <<>> THEN Doc ELSE open[Len(open)]

Pop(s) == SubSeq(s, 1, Len(s) - 1)

-----------------------------------------------------------------------------
(* What the code asks of a node.                                           *)

\* Faults: the test for preprocessing information, or the list of classes,
\* is missing.
HasInodeNoInfo(n) == n \in ast.listed \/ (n \notin ast.types /\ ast.succ[n] # <<>>)
HasInodeNoList(n) == (n \notin ast.types /\ ast.succ[n] # <<>>) \/ n \in ast.info

\* rose2xml.cpp hasInode: does the element need an end tag?
HasInode(n) ==
  \/ n \in ast.listed
  \/ n \notin ast.types /\ ast.succ[n] # <<>>
  \/ n \in ast.info

\* visitSuccessors: the successor slots it goes through.
Successors(n) ==
  IF n \in ast.quiet \cup ast.types THEN <<>> ELSE ast.succ[n]

\* writeFortranPragma: the SgPragmaDeclaration element it writes, if any.
FortranPragma(n, pos) ==
  IF pos \in ast.pragma[n] THEN << <<pos, n>> >> ELSE <<>>

\* writePreprocessingInfo: one group of elements for the node. Its #include
\* lines are taken out of the list first (removeIncludeDirectives), so that a
\* node with no other lines, which has an end tag all the same, gets an empty
\* group.
PreprocessingInfo(n) ==
  IF n \in ast.info THEN << <<"info", n>> >> ELSE <<>>

Skipped(n) == ast.skip /\ n \in ast.generated

-----------------------------------------------------------------------------
(* One activation of visit(): its node, where it is, the nodes still to be *)
(* visited by the loop it is in, and (history) Len(open) when it began.    *)

Phase == {"enter", "skip", "succ", "inode"}
Frame == [node: Node, pc: Phase, todo: Seq(Node \cup {NULL}), base: Nat]

Call(n) == [node |-> n, pc |-> "enter", todo |-> <<>>, base |-> Len(open)]

Top       == frames[Len(frames)]
Return    == frames' = Pop(frames)
Goto(p,t) == frames' = [frames EXCEPT ![Len(frames)].pc = p,
                                      ![Len(frames)].todo = t]

Init ==
  /\ ast \in Asts
  /\ frames = <<[node |-> ast.root, pc |-> "enter", todo |-> <<>>, base |-> 0]>>
  /\ depth = 0
  /\ open = <<>>
  /\ kids = [e \in Node \cup {Doc} |-> <<>>]
  /\ tag = <<"none", NULL>>

\* The node is in another file: visit() returns at once.
LeaveForeign ==
  /\ frames # <<>> /\ Top.pc = "enter"
  /\ Top.node \in ast.foreign
  /\ Return
  /\ UNCHANGED <<ast, depth, open, kids, tag>>

\* Fault: the end tag is written although the start tag was not.
SkipStartTagOnly ==
  /\ frames # <<>> /\ Top.pc = "enter"
  /\ Top.node \notin ast.foreign
  /\ Skipped(Top.node)
  /\ Goto("succ", Successors(Top.node))
  /\ UNCHANGED <<ast, depth, open, kids, tag>>

\* A compiler-generated node is skipped, its successors are not.
SkipGenerated ==
  /\ frames # <<>> /\ Top.pc = "enter"
  /\ Top.node \notin ast.foreign
  /\ Skipped(Top.node)
  /\ Goto("skip", Successors(Top.node))
  /\ UNCHANGED <<ast, depth, open, kids, tag>>

Written == /\ frames # <<>> /\ Top.pc = "enter"
           /\ Top.node \notin ast.foreign
           /\ ~Skipped(Top.node)

\* Directives before the node go in front of its element, except those of
\* SgGlobal, which become the first items inside it.
BeforeElement(n) == IF n = ast.global THEN <<>> ELSE FortranPragma(n, "before")
FirstInside(n)   == IF n = ast.global THEN FortranPragma(n, "before") ELSE <<>>

\* Fault: the element ends in ">" and visit() returns.
WriteOpenElement ==
  /\ Written
  /\ ~HasInode(Top.node)
  /\ kids' = [kids EXCEPT ![Innermost] =
                @ \o BeforeElement(Top.node) \o << <<"element", Top.node>> >>]
  /\ tag' = <<"start", Top.node>>
  /\ open' = Append(open, Top.node)
  /\ Return
  /\ UNCHANGED <<ast, depth>>

\* "<SgXxx attributes/>": nothing more is written for this node.
WriteEmptyElement ==
  /\ Written
  /\ ~HasInode(Top.node)
  /\ kids' = [kids EXCEPT ![Innermost] =
                @ \o BeforeElement(Top.node) \o << <<"element", Top.node>> >>]
  /\ tag' = <<"empty", Top.node>>
  /\ Return
  /\ UNCHANGED <<ast, depth, open>>

\* "<SgXxx attributes>"
WriteStartTag ==
  /\ Written
  /\ HasInode(Top.node)
  /\ kids' = [kids EXCEPT
                ![Innermost] =
                   @ \o BeforeElement(Top.node) \o << <<"element", Top.node>> >>,
                ![Top.node] = @ \o FirstInside(Top.node)]
  /\ tag' = <<"start", Top.node>>
  /\ open' = Append(open, Top.node)
  /\ depth' = depth + 1
  /\ Goto("succ", Successors(Top.node))
  /\ UNCHANGED ast

\* Faults: visit() is called on an empty slot; the loop does not go past one.
VisitEmptySlot ==
  /\ frames # <<>> /\ Top.pc # "enter" /\ Top.todo # <<>>
  /\ frames' = Append([frames EXCEPT ![Len(frames)].todo = Tail(@)], Call(Head(Top.todo)))
  /\ UNCHANGED <<ast, depth, open, kids, tag>>

StayAtEmptySlot ==
  /\ frames # <<>> /\ Top.pc # "enter" /\ Top.todo # <<>>
  /\ frames' = IF Head(Top.todo) = NULL THEN frames
               ELSE Append([frames EXCEPT ![Len(frames)].todo = Tail(@)], Call(Head(Top.todo)))
  /\ UNCHANGED <<ast, depth, open, kids, tag>>

\* The recursive call for the next node of the loop; an empty slot is passed
\* over by visitSuccessors, and visit(NULL) returns at once.
VisitNext ==
  /\ frames # <<>> /\ Top.pc # "enter" /\ Top.todo # <<>>
  /\ LET rest == [frames EXCEPT ![Len(frames)].todo = Tail(@)]
     IN frames' = IF Head(Top.todo) = NULL THEN rest
                  ELSE Append(rest, Call(Head(Top.todo)))
  /\ UNCHANGED <<ast, depth, open, kids, tag>>

\* visitSuccessors is done; inodeSgXxx begins.
VisitInode ==
  /\ frames # <<>> /\ Top.pc = "succ" /\ Top.todo = <<>>
  /\ Goto("inode", ast.inode[Top.node])
  /\ UNCHANGED <<ast, depth, open, kids, tag>>

\* The enclosing element, once the innermost one is closed.
Enclosing == IF Len(open) < 2 THEN Doc ELSE open[Len(open) - 1]

\* Fault: depth_ is not decreased.
WriteEndTagDeeper ==
  /\ frames # <<>> /\ Top.pc = "inode" /\ Top.todo = <<>>
  /\ kids' = [kids EXCEPT
                ![Innermost] = @ \o PreprocessingInfo(Top.node)
                                 \o FortranPragma(Top.node, "inside"),
                ![Enclosing] = @ \o FortranPragma(Top.node, "after")]
  /\ tag' = <<"end", Top.node>>
  /\ open' = Pop(open)
  /\ Return
  /\ UNCHANGED <<ast, depth>>

\* Preprocessing information, directives inside the node, the end tag and
\* the directives after the node.
WriteEndTag ==
  /\ frames # <<>> /\ Top.pc = "inode" /\ Top.todo = <<>>
  /\ kids' = [kids EXCEPT
                ![Innermost] = @ \o PreprocessingInfo(Top.node)
                                 \o FortranPragma(Top.node, "inside"),
                ![Enclosing] = @ \o FortranPragma(Top.node, "after")]
  /\ tag' = <<"end", Top.node>>
  /\ open' = Pop(open)
  /\ depth' = depth - 1
  /\ Return
  /\ UNCHANGED ast

LeaveSkipped ==
  /\ frames # <<>> /\ Top.pc = "skip" /\ Top.todo = <<>>
  /\ Return
  /\ UNCHANGED <<ast, depth, open, kids, tag>>

Done == frames = <<>> /\ UNCHANGED vars

Next ==
  \/ LeaveForeign
  \/ SkipGenerated
  \/ WriteEmptyElement
  \/ WriteStartTag
  \/ VisitNext
  \/ VisitInode
  \/ WriteEndTag
  \/ LeaveSkipped
  \/ Done

Spec == Init /\ [][Next]_vars

\* The writer is one thread that nothing blocks.
FairSpec == Spec /\ WF_vars(Next)

-----------------------------------------------------------------------------
(* Properties.                                                             *)

\* Every variable has its type: visit() runs on nodes only, never on the NULL
\* of an empty successor slot, and depth_ does not become negative.
TypeOK ==
  /\ ast \in AstType
  /\ frames \in Seq(Frame)
  /\ depth \in Nat
  /\ open \in Seq(Node)
  /\ kids \in [Node \cup {Doc} -> Seq(Item)]
  /\ tag \in Tag

Opened(f) == f.pc \in {"succ", "inode"}
Height(f) == IF Opened(f) THEN f.base + 1 ELSE f.base

\* An activation that wrote a start tag owns the open element at its height.
OwnElement ==
  \A i \in 1..Len(frames) : Opened(frames[i]) =>
    Height(frames[i]) <= Len(open) /\ open[Height(frames[i])] = frames[i].node

\* An activation that is about to decide what to write has called nobody.
OnlyTopEnters == \A i \in 1..Len(frames) : frames[i].pc = "enter" => i = Len(frames)

\* A callee starts at the height its caller has reached.
Heights ==
  \A i, j \in 1..Len(frames) : i < j =>
    /\ Height(frames[i]) <= frames[j].base
    /\ j = i + 1 => frames[j].base = Height(frames[i])

BottomHeight == frames # <<>> => frames[1].base = 0

TopHeight == Len(open) = IF frames = <<>> THEN 0 ELSE Height(Top)

\* The activations of visit() and the open elements agree: each activation
\* that wrote a start tag owns exactly one open element, and the innermost
\* open element belongs to the innermost of those activations, the one that
\* will write its end tag.
Nesting == OwnElement /\ OnlyTopEnters /\ Heights /\ BottomHeight /\ TopHeight

\* Only the activation for the root runs while no element is open.
OneRoot ==
  frames # <<>> =>
    /\ frames[1].node = ast.root
    /\ frames[1].pc # "skip"
    /\ frames[1].pc = "enter" => tag = <<"none", NULL>>

\* depth_, which drives the indentation, is the number of open elements
\* whenever visit() is entered, loops or returns (rose2xml.cpp:295,313).
DepthIsNesting == depth = Len(open)

\* The document the writer produces is well-formed XML.
Stream == INSTANCE XmlStream WITH Name <- Node, None <- NULL

WellFormed == Stream!Spec

\* visit() returns from the root: the document is completed, every element
\* closed.
Completed == <>[](frames = <<>> /\ open = <<>>)
=============================================================================
