----------------------------- MODULE XmlVisitor -----------------------------
(***************************************************************************)
(* The XML reader: XevXmlVisitor::visit (src/src/xml2rose.cpp), which      *)
(* rebuilds a ROSE AST from an XML document.  The visitSgXxx functions it  *)
(* dispatches to resolve names in SageBuilder's scope stack, a global      *)
(* stack that some of them push to and pop from while they visit their     *)
(* children; a push without its pop, or a pop too many, silently resolves  *)
(* later names in the wrong scope.                                         *)
(*                                                                         *)
(* The call stack of visit() is explicit (frames).  What matters of an     *)
(* element is its kind:                                                    *)
(*   document  the DOM document node                                       *)
(*   comment   a comment or processing instruction beside the root element *)
(*   file      SgSourceFile                                                *)
(*   scope     pushes itself around its children: SgGlobal, SgBasicBlock,  *)
(*             SgClassDefinition, SgFunctionDefinition, SgFortranDo        *)
(*   if        SgIfStmt, a scope that needs a condition and a statement    *)
(*   switch    SgSwitchStatement, a scope that needs two statements        *)
(*   condition SgExprStatement                                             *)
(*   plain     any other statement or declaration                          *)
(*   type      SgType                                                      *)
(*   expr      an expression                                               *)
(*   ref       an expression that looks a name up in the scope stack       *)
(*   member    SgDotExp, SgArrowExp: needs two expressions                 *)
(*   info      PreprocessingInfo                                           *)
(*   unknown   any other element                                           *)
(* An expression whose get_type() is a class with a known definition is a  *)
(* classExpr, classRef or classMember.                                     *)
(***************************************************************************)
EXTENDS Naturals, Sequences

CONSTANTS Node,      \* the nodes of a document
          Document,  \* the document node
          Docs       \* documents

Ref        == {"ref", "classRef"}
Member     == {"member", "classMember"}
ClassTyped == {"classExpr", "classRef", "classMember"}
Expression == {"expr"} \cup Ref \cup Member \cup ClassTyped
Scope      == {"scope", "if", "switch"}
Statement  == {"plain", "condition"} \cup Scope
Located    == Expression \cup Statement
Kind       == {"document", "comment", "file", "type", "info", "unknown"} \cup Located

\* kids: what is below a node.  refused: the elements whose visitSgXxx
\* function stops the program for a reason of its own: an attribute or a child
\* is missing (SlotReader, Attributes), a SgClassDefinition is not below a
\* class declaration, a symbol does not exist.
DocType == [kids: [Node -> Seq(Node)], kind: [Node -> Kind], refused: SUBSET Node]

ASSUME DocAssumption ==
  /\ Document \in Node
  /\ Docs \subseteq DocType
  /\ \A d \in Docs : d.kind[Document] = "document"
  /\ \A d \in Docs, n \in Node : \A i \in 1..Len(d.kids[n]) : d.kids[n][i] # Document
  /\ \A d \in Docs : \A n \in d.refused :
       d.kind[n] \notin {"document", "comment", "info", "unknown"}

\* A node is below one other at most, and below the document node at last:
\* nothing smaller than the set of all nodes has the document node and, with
\* a node, its children.
IsTree(kids) ==
  /\ \A m, n \in Node : \A i \in 1..Len(kids[m]), j \in 1..Len(kids[n]) :
       kids[m][i] = kids[n][j] => m = n /\ i = j
  /\ \A S \in SUBSET Node :
       /\ Document \in S
       /\ \A n \in S : \A i \in 1..Len(kids[n]) : kids[n][i] \in S
       => S = Node

\* Of XML: a document is a tree, and a comment has nothing below it.  Of the
\* writer: a PreprocessingInfo element has text below it and no element.
ASSUME TreeAssumption ==
  /\ \A kids \in {d.kids : d \in Docs} : IsTree(kids)
  /\ \A d \in Docs, n \in Node : d.kind[n] \in {"comment", "info"} => d.kids[n] = <<>>

VARIABLES
  doc,       \* the document; never changes
  frames,    \* call stack of visit()
  scopes,    \* SageBuilder's scope stack; a member access stands for the
             \* class definition it pushes
  resolved,  \* the scope each name was looked up in
  attached,  \* preprocessing information attached to each AST node: an
             \* entry for each time the children were searched for it
  phase

vars == <<doc, frames, scopes, resolved, attached, phase>>

\* An activation: its node, the next child, whether it has its two children
\* (lhs and rhs of visitSgDotExp; cond and tstmt; item and body), the flag of
\* visitSgDotExp, and (history) the scope stack at its start.
Frame == [node: Node, next: Nat, lhs: BOOLEAN, rhs: BOOLEAN, pushed: BOOLEAN, base: Seq(Node)]

Call(n, stack) == [node |-> n, next |-> 1, lhs |-> FALSE, rhs |-> FALSE, pushed |-> FALSE,
                   base |-> stack]

Top      == frames[Len(frames)]
Below    == SubSeq(frames, 1, Len(frames) - 1)
KindOf(n) == doc.kind[n]

pushScopeStack(stack, n) == Append(stack, n)
popScopeStack(stack)     == IF stack = <<>> THEN <<>> ELSE SubSeq(stack, 1, Len(stack) - 1)
topScopeStack(stack)     == IF stack = <<>> THEN Document ELSE stack[Len(stack)]

Init ==
  /\ doc \in Docs
  /\ frames = <<Call(Document, <<>>)>>
  /\ scopes = <<>>
  /\ resolved = [n \in Node |-> {}]
  /\ attached = [n \in Node |-> <<>>]
  /\ phase = "running"

Running == phase = "running"

Abort == phase' = "fatal" /\ UNCHANGED <<doc, frames, scopes, resolved, attached>>

-----------------------------------------------------------------------------
(* The loop over the children (SUBTREE_VISIT_BEGIN).                       *)

Child == doc.kids[Top.node][Top.next]

\* Only the document node and visit() itself look at other nodes than
\* elements: SUBTREE_VISIT_BEGIN passes over them.
MoreChildren == Running /\ frames # <<>> /\ Top.next <= Len(doc.kids[Top.node])

\* A visitSgXxx function is found for the child and begins.
VisitChild ==
  /\ MoreChildren
  /\ KindOf(Child) \notin {"comment", "info", "unknown"}
  /\ scopes' = IF KindOf(Child) \in Scope THEN pushScopeStack(scopes, Child) ELSE scopes
  /\ resolved' = IF KindOf(Child) \in Ref
                 THEN [resolved EXCEPT ![Child] = {topScopeStack(scopes)}] ELSE resolved
  /\ frames' = Append([frames EXCEPT ![Len(frames)].next = @ + 1], Call(Child, scopes))
  /\ UNCHANGED <<doc, attached, phase>>

\* "unknown AST node found": also for a comment next to the root element,
\* since the document node visits every child.
UnknownNode ==
  /\ MoreChildren
  /\ \/ KindOf(Child) = "unknown"
     \/ KindOf(Child) = "comment" /\ Top.node = Document
     \/ KindOf(Child) = "info" /\ Top.node = Document
  /\ Abort

\* Fault: the loop does not go on.
StayAtComment ==
  /\ MoreChildren
  /\ KindOf(Child) = "comment" /\ Top.node # Document
  /\ UNCHANGED vars

\* A comment inside an element.
SkipComment ==
  /\ MoreChildren
  /\ KindOf(Child) = "comment" /\ Top.node # Document
  /\ frames' = [frames EXCEPT ![Len(frames)].next = @ + 1]
  /\ UNCHANGED <<doc, scopes, resolved, attached, phase>>

-----------------------------------------------------------------------------
(* What the caller does with the result of visit().  Three loops fill two  *)
(* pointers, one after the other; those of visitSgDotExp and               *)
(* visitSgArrowExp change the scope stack in between.                      *)

NeedsTwo == Member \cup {"if", "switch"}

\* The tests of the two pointers, for an element of kind k.
First(k)  == CASE k = "if" -> {"condition"} [] k = "switch" -> Statement [] OTHER -> Expression
Second(k) == IF k \in Member THEN Expression ELSE Statement

\* The child is the first of the two.
Lhs(f, k) == KindOf(f.node) \in NeedsTwo /\ ~f.lhs /\ k \in First(KindOf(f.node))

\* A child after the first, while the second is missing.
Rhs(f) == KindOf(f.node) \in NeedsTwo /\ f.lhs /\ ~f.rhs

\* The class of the first operand becomes the scope of the second.
EntersClass(f, k) == KindOf(f.node) \in Member /\ k \in ClassTyped

\* Fault: the flag that says the class was pushed is not set.
TakenNoFlag(f, k) ==
  IF Lhs(f, k) THEN [f EXCEPT !.lhs = TRUE]
  ELSE IF Rhs(f) THEN [f EXCEPT !.rhs = (k \in Second(KindOf(f.node)))] ELSE f

Taken(f, k) ==
  IF Lhs(f, k) THEN [f EXCEPT !.lhs = TRUE, !.pushed = EntersClass(f, k)]
  ELSE IF Rhs(f) THEN [f EXCEPT !.rhs = (k \in Second(KindOf(f.node)))] ELSE f

\* Fault: the class is never popped.
ScopesNoPop(f, k, stack) ==
  IF Lhs(f, k) /\ EntersClass(f, k) THEN pushScopeStack(stack, f.node) ELSE stack

ScopesAfter(f, k, stack) ==
  IF Lhs(f, k) /\ EntersClass(f, k) THEN pushScopeStack(stack, f.node)
  ELSE IF KindOf(f.node) \in Member /\ Rhs(f) /\ f.pushed THEN popScopeStack(stack) ELSE stack

\* A PreprocessingInfo element: visit() answers NULL.
VisitInfo ==
  /\ MoreChildren
  /\ KindOf(Child) = "info" /\ Top.node # Document
  /\ frames' = [frames EXCEPT ![Len(frames)] = [Taken(Top, "info") EXCEPT !.next = @ + 1]]
  /\ scopes' = ScopesAfter(Top, "info", scopes)
  /\ UNCHANGED <<doc, resolved, attached, phase>>

-----------------------------------------------------------------------------
(* The end of a visitSgXxx function, and of visit().                       *)

NoMoreChildren == Running /\ frames # <<>> /\ Top.next > Len(doc.kids[Top.node])

\* Fault: only the first of two children is tested.
MissingFirst == KindOf(Top.node) \in NeedsTwo /\ ~Top.lhs

MissingChild == KindOf(Top.node) \in NeedsTwo /\ ~(Top.lhs /\ Top.rhs)

\* astParent is NULL for the children of the document node.
NoParent == Len(frames) = 2 /\ KindOf(Top.node) \notin {"file", "type"}

\* XEV_MISSING_NODE, "SgNode with no parent is found"
FatalReturn ==
  /\ NoMoreChildren /\ Top.node # Document
  /\ MissingChild \/ NoParent
  /\ Abort

\* XEV_FATAL for another reason: before, between or after the children.
Refuse ==
  /\ Running /\ frames # <<>>
  /\ Top.node \in doc.refused
  /\ Abort

\* The preprocessing information among the children, in order.
InfosIn(d, n) == SelectSeq(d.kids[n], LAMBDA c : d.kind[c] = "info")
Infos(n)      == InfosIn(doc, n)

\* Fault: only statements get their preprocessing information.
checkPreprocStmt(n) ==
  IF KindOf(n) \in Statement THEN [attached EXCEPT ![n] = Append(@, Infos(n))] ELSE attached

checkPreprocInfo(n) ==
  IF KindOf(n) \in Located THEN [attached EXCEPT ![n] = Append(@, Infos(n))] ELSE attached

\* visitSgXxx pops what it pushed; visit() attaches preprocessing information
\* and returns, and the caller looks at the result.
Return ==
  /\ NoMoreChildren /\ Top.node # Document
  /\ ~MissingChild /\ ~NoParent /\ Top.node \notin doc.refused
  /\ attached' = checkPreprocInfo(Top.node)
  /\ LET caller == Below[Len(Below)]
         left == IF KindOf(Top.node) \in Scope THEN popScopeStack(scopes) ELSE scopes
     IN /\ frames' = [Below EXCEPT ![Len(Below)] = Taken(@, KindOf(Top.node))]
        /\ scopes' = ScopesAfter(caller, KindOf(Top.node), left)
  /\ UNCHANGED <<doc, resolved, phase>>

Finish ==
  /\ NoMoreChildren /\ Top.node = Document
  /\ frames' = <<>>
  /\ phase' = "done"
  /\ UNCHANGED <<doc, scopes, resolved, attached>>

Done == ~Running /\ UNCHANGED vars

Next ==
  \/ VisitChild
  \/ UnknownNode
  \/ SkipComment
  \/ VisitInfo
  \/ FatalReturn
  \/ Refuse
  \/ Return
  \/ Finish
  \/ Done

Spec == Init /\ [][Next]_vars

\* The reader is one thread that nothing blocks.
FairSpec == Spec /\ WF_vars(Next)

-----------------------------------------------------------------------------
(* Properties.                                                             *)

\* The element next to the first operand of a member access is the second
\* operand: the writer emits the operands side by side, and preprocessing
\* information after them.
NoGap(m) ==
  \A i, j \in 1..Len(doc.kids[m]) :
    LET At(h) == KindOf(doc.kids[m][h])
    IN /\ i < j /\ At(i) \in ClassTyped /\ At(j) # "comment"
       /\ \A h \in 1..(i - 1) : At(h) \notin Expression
       /\ \A h \in (i + 1)..(j - 1) : At(h) = "comment"
       => At(j) \in Expression

WellSpaced == \A m \in Node : KindOf(m) \in Member => NoGap(m)

\* What an activation that is running its loop has on the scope stack.
Pushed(f) ==
  IF KindOf(f.node) \in Scope THEN <<f.node>>
  ELSE IF KindOf(f.node) \in Member /\ f.pushed /\ ~f.rhs THEN <<f.node>> ELSE <<>>

\* The scope stack is what the running activations pushed, each its own on
\* top of what its caller had: whenever visitSgXxx returns, the stack is the
\* one it was called with.
Balanced ==
  WellSpaced /\ phase # "fatal" =>
    /\ \A i \in 1..Len(frames) :
         (IF i = Len(frames) THEN scopes ELSE frames[i + 1].base)
           = frames[i].base \o Pushed(frames[i])
    /\ frames = <<>> => scopes = <<>>

-----------------------------------------------------------------------------
(* Reference definitions, from the document alone.                         *)

ParentOf(d, n) == CHOOSE m \in Node : \E i \in 1..Len(d.kids[m]) : d.kids[m][i] = n

\* n is the second operand of a member access, the first being an object,
\* which may be a member access itself.
IsSecond(d, m, n) ==
  \E i, j \in 1..Len(d.kids[m]) :
    /\ i < j /\ d.kids[m][j] = n
    /\ d.kind[d.kids[m][i]] \in ClassTyped
    /\ \A h \in 1..(j - 1) : h # i => d.kind[d.kids[m][h]] \notin Expression

OpensScope(d, m, n) == d.kind[m] \in Scope \/ (d.kind[m] \in Member /\ IsSecond(d, m, n))

\* The scope of a node: the class of the object whose member it names, or the
\* nearest enclosing element that is a scope.
ScopeOf(d) ==
  LET scope[n \in Node] ==
        IF n = Document THEN Document
        ELSE IF OpensScope(d, ParentOf(d, n), n) THEN ParentOf(d, n) ELSE scope[ParentOf(d, n)]
  IN scope

\* Every name is looked up in its own scope: in the class of the object for
\* the second operand of a member access, and again in the enclosing scope
\* for what comes after it.
NamesResolved ==
  WellSpaced => \A n \in Node : resolved[n] # {} => resolved[n] = {ScopeOf(doc)[n]}

\* A document that is read to the end has all its names resolved and all its
\* preprocessing information attached, once, in order, to the node it is
\* written in (if that node can carry any).
NothingLost ==
  phase = "done" =>
    \A n \in Node \ {Document} :
      /\ KindOf(n) \in Ref => resolved[n] # {}
      /\ attached[n] = IF KindOf(n) \in Located THEN <<Infos(n)>> ELSE <<>>

TwoChildren(m) ==
  \E i, j \in 1..Len(doc.kids[m]) :
    /\ i < j
    /\ KindOf(doc.kids[m][i]) \in First(KindOf(m))
    /\ KindOf(doc.kids[m][j]) \in Second(KindOf(m))

Acceptable ==
  /\ \A n \in Node : KindOf(n) # "unknown" /\ n \notin doc.refused
  /\ \A i \in 1..Len(doc.kids[Document]) : KindOf(doc.kids[Document][i]) \in {"file", "type"}
  /\ \A m \in Node : KindOf(m) \in NeedsTwo => TwoChildren(m)

\* The reader refuses a document exactly if it has an unknown element, a node
\* beside the root that is not an element, a root that is not SgSourceFile
\* (or a type), a member access without two operands, a SgIfStmt or
\* SgSwitchStatement without its two children in this order, or an element
\* that its own visitSgXxx function refuses.
Verdict == /\ phase = "done" => Acceptable
           /\ phase = "fatal" => ~Acceptable

\* The reader finishes: it returns from the document or stops at an error.
Terminates == <>(phase # "running")
=============================================================================
