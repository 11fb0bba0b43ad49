----------------------------- MODULE SlotReader -----------------------------
(***************************************************************************)
(* The positional readers: most visitSgXxx functions of XevXmlVisitor go   *)
(* through the child elements of an XML element (SUBTREE_VISIT_BEGIN,      *)
(* src/src/common.hpp), visit each one, and keep the resulting AST node in *)
(* one of a few local pointers, the slots.  Which slot gets a child is     *)
(* decided by the order of the children and a class test on each:          *)
(*                                                                         *)
(*   chain   if(a==0) a = isSgA(c); else if(b==0) b = isSgB(c); ...        *)
(*   scan    if(a==0) a = isSgA(c);      if(b==0) b = isSgB(c); ...        *)
(*   last    a = isSgA(c);                                                 *)
(*   array   visitSgArrayType, which moves a list that turns out not to be *)
(*           the last child from one slot to another                       *)
(*                                                                         *)
(* In a chain a child that fails the test of the first empty slot is       *)
(* dropped.  After the loop some slots are tested (XEV_MISSING_NODE is     *)
(* fatal), and some are dereferenced, with or without a test.              *)
(***************************************************************************)
EXTENDS Naturals, Sequences

CONSTANTS Kind,       \* the classes of AST nodes the tests tell apart
          Orphan,     \* those that have no parent of their own: types, which
                      \* are shared, and the SgSupport nodes, whose parent
                      \* visit() clears
          Origin,     \* what a child is, for the one who wrote the document
          NULL,       \* the answer of visit() for a PreprocessingInfo element
          Reader,     \* Reader[c]: how visitSg<c> treats its children
          Docs,       \* Docs[c]: the lists of children a c element may have
          Unguarded,  \* the classes that dereference a pointer nobody tests
          Stray       \* the classes that leave a child with the wrong parent

Class == DOMAIN Reader
Child == [kind: Kind, of: Origin]

\* What the code does with a slot:
\*   required    XEV_MISSING_NODE if it is empty
\*   either      fatal if all the slots with this mark are empty
\*   needs_next  fatal if it is filled and the next slot is empty
\*   counted     fatal if the number of its elements is not the attribute's
\*   default     a new node if it is empty
\*   spill       without the next slot, it is the next slot
\*   lost        what is read is not kept
\*   early       x->f() before the children are read
\*   set_parent  x->set_parent(ret) with no test
\*   if_set      if(x) x->set_parent(ret)
\*   builder     passed to a SageBuilder function, which sets its parent
\*   ctor        passed to a constructor, which gives it another parent
Mark == {"required", "either", "needs_next", "counted", "default", "spill", "lost", "early",
         "set_parent", "if_set", "builder", "ctor"}

Slot == [role: STRING, accepts: SUBSET Kind, marks: SUBSET Mark, many: BOOLEAN]

\* visits: the children are visited with ret as parent, or with astParent
ReaderType == [mode: {"chain", "scan", "last", "array"}, visits: BOOLEAN, slots: Seq(Slot)]

\* The marks of a slot make sense together; only visitSgArrayType is an
\* "array".
Compatible(r) ==
  /\ \A i \in 1..Len(r.slots) :
       LET m == r.slots[i].marks
       IN /\ m \cap {"required", "set_parent"} # {} => m \cap {"lost", "spill"} = {}
          /\ "spill" \in m => i < Len(r.slots) /\ "set_parent" \notin r.slots[i + 1].marks
  /\ r.mode = "array" => Len(r.slots) = 3 /\ \A i \in 1..3 : ~r.slots[i].many

Default == [kind |-> "NullExpression", of |-> "default"]

ASSUME ReaderAssumption ==
  /\ NULL \notin Child
  /\ Default \in Child
  /\ \A c \in Class : Reader[c] \in ReaderType /\ Docs[c] \subseteq Seq(Child \cup {NULL})
  /\ \A c \in Class : Compatible(Reader[c])

VARIABLES class,   \* the class of the element being read
          doc,     \* its children (never changes)
          todo,    \* the children still to be read
          slot,    \* the slots: sequences, at most one long unless "many"
          parent,  \* get_parent() of the nodes in each slot
          phase

vars == <<class, doc, todo, slot, parent, phase>>

Slots     == Reader[class].slots
Indices   == 1..Len(Slots)
Mode      == Reader[class].mode
Marked(m) == {i \in Indices : m \in Slots[i].marks}
Empty(i)  == slot[i] = << >>

Init ==
  /\ class \in Class
  /\ doc \in Docs[class]
  /\ todo = doc
  /\ slot = [i \in Indices |-> << >>]
  /\ parent = [i \in Indices |-> "none"]
  /\ phase = "reading"

\* A pointer still null is used.
EarlyUse ==
  /\ phase = "reading" /\ todo = doc
  /\ Marked("early") # {}
  /\ phase' = "null dereference"
  /\ UNCHANGED <<class, doc, todo, slot, parent>>

\* Fault: an "else" of the chain is missing.
TestedAll == {i \in Indices : Empty(i) \/ Slots[i].many}

\* visitSgArrayType: iexp holds a list and another child follows, so the list
\* is lst.
Moves == Mode = "array" /\ ~Empty(1) /\ Empty(2) /\ ~Empty(3)
           /\ slot[3][1].kind \in Slots[2].accepts

\* The slots whose test the next child gets.
Tested ==
  CASE Mode = "chain" -> {i \in Indices : /\ Empty(i) \/ Slots[i].many
                                          /\ \A j \in Indices : j < i => ~Empty(j)}
    [] Mode = "scan"  -> {i \in Indices : Empty(i) \/ Slots[i].many}
    [] Mode = "last"  -> Indices
    [] OTHER          -> IF Empty(1) THEN {1} ELSE IF Empty(3) \/ Moves THEN {3} ELSE {}

\* Fault: the class of the child is not tested.
ClaimAny(child) == {i \in Tested : child # NULL}

Claim(child) == {i \in Tested : child # NULL /\ child.kind \in Slots[i].accepts}

\* What the slots that do not take the child hold after it.
Kept(i) ==
  CASE Mode = "last"  -> << >>
    [] Moves /\ i > 1 -> IF i = 2 THEN slot[3] ELSE << >>
    [] OTHER          -> slot[i]

\* visit() gives the child the parent it was called with.
Begot(child) == IF child.kind \in Orphan THEN "none"
                ELSE IF Reader[class].visits THEN "ret" ELSE "astParent"

\* One turn of the loop.
ReadChild ==
  /\ phase = "reading" /\ todo # << >>
  /\ Marked("early") = {}
  /\ LET child == Head(todo)
         claim == Claim(child)
     IN /\ slot' = [i \in Indices |->
                      IF i \notin claim THEN Kept(i)
                      ELSE IF Slots[i].many THEN Append(slot[i], child) ELSE <<child>>]
        /\ parent' = [i \in Indices |->
                        IF i \in claim THEN Begot(child)
                        ELSE IF Moves /\ i = 2 THEN parent[3] ELSE parent[i]]
  /\ todo' = Tail(todo)
  /\ UNCHANGED <<class, doc, phase>>

Refused ==
  \/ \E i \in Marked("required") : Empty(i)
  \/ Marked("either") # {} /\ \A i \in Marked("either") : Empty(i)
  \/ \E i \in Marked("needs_next") : ~Empty(i) /\ Empty(i + 1)

\* In a document as it was written the numbers agree.
Miscounted == \E i \in Marked("counted") : ~Empty(i) /\ slot[i][1].of = "any"

\* XEV_MISSING_NODE, XEV_FATAL: the program aborts.
MissingNode ==
  /\ phase = "reading" /\ todo = << >> /\ Marked("early") = {}
  /\ Refused \/ Miscounted
  /\ phase' = "fatal"
  /\ UNCHANGED <<class, doc, todo, slot, parent>>

\* visitSgComplexVal: without parts it is zero; a single part is taken for
\* the second.
Completed(i) ==
  IF i \in Marked("lost") THEN << >>
  ELSE CASE i \in Marked("default") /\ Empty(i)   -> <<Default>>
         [] i \in Marked("spill") /\ Empty(i + 1) -> IF Empty(i) THEN <<Default>> ELSE << >>
         [] i - 1 \in Marked("spill") /\ Empty(i) -> IF Empty(i - 1) THEN <<Default>>
                                                     ELSE slot[i - 1]
         [] OTHER                                 -> slot[i]

Adopting == Marked("set_parent") \cup Marked("if_set") \cup Marked("builder")

\* The node is built from the slots.
Build ==
  /\ phase = "reading" /\ todo = << >> /\ Marked("early") = {}
  /\ ~Refused
  /\ slot' = [i \in Indices |-> Completed(i)]
  /\ parent' = [i \in Indices |-> IF i \in Adopting THEN "ret" ELSE parent[i]]
  /\ phase' = IF \E i \in Marked("set_parent") : slot'[i] = << >>
              THEN "null dereference" ELSE "built"
  /\ UNCHANGED <<class, doc, todo>>

Done == phase # "reading" /\ UNCHANGED vars

Next == EarlyUse \/ ReadChild \/ MissingNode \/ Build \/ Done

Spec == Init /\ [][Next]_vars

-----------------------------------------------------------------------------
(* What a reader has to look like to be safe.                              *)

\* Slot i of reader r is tested after the loop, gets a default, or comes
\* before a tested slot of the same chain.
Guarded(r, i) ==
  \/ r.slots[i].marks \cap {"required", "default"} # {}
  \/ r.mode = "chain" /\ \E j \in 1..Len(r.slots) : i < j /\ "required" \in r.slots[j].marks

\* No pointer is dereferenced untested.
Sound(r) ==
  \A i \in 1..Len(r.slots) :
    /\ "early" \notin r.slots[i].marks
    /\ "set_parent" \in r.slots[i].marks => Guarded(r, i)

Handed(r, i) == r.slots[i].marks \cap {"set_parent", "if_set", "builder", "ctor"} # {}

\* Slot i gets its parent after the loop, is not kept, is visited under ret,
\* or holds nodes that have no parent of their own.
Adopted(r, i) ==
  \/ Handed(r, i)
  \/ "lost" \in r.slots[i].marks
  \/ /\ "default" \notin r.slots[i].marks
     /\ \/ r.slots[i].accepts \subseteq Orphan
        \/ r.visits /\ r.slots[i].accepts \cap Orphan = {}

\* Every child that is kept gets the right parent.
Rooted(r) ==
  /\ \A i \in 1..Len(r.slots) :
       /\ Adopted(r, i)
       /\ "spill" \in r.slots[i].marks => Handed(r, i) /\ Handed(r, i + 1)
  /\ r.mode = "array" => r.slots[3].accepts \cap Orphan = {}

-----------------------------------------------------------------------------
(* Properties.                                                             *)

\* While the children are read, a slot that is no list holds at most one
\* node, and every slot only nodes its test accepts.
Fits ==
  phase = "reading" => \A i \in Indices :
    /\ Slots[i].many \/ Len(slot[i]) <= 1
    /\ \A k \in 1..Len(slot[i]) : slot[i][k].kind \in Slots[i].accepts

\* Every variable has its type, and Fits.
TypeOK ==
  /\ Fits
  /\ class \in Class
  /\ doc \in Seq(Child \cup {NULL})
  /\ todo \in Seq(Child \cup {NULL})
  /\ slot \in [Indices -> Seq(Child)]
  /\ parent \in [Indices -> {"none", "astParent", "ret"}]
  /\ phase \in {"reading", "fatal", "built", "null dereference"}

\* No reader dereferences an empty slot, whatever children an XSLT rule left
\* in the element, except the ones in Unguarded.  Many readers dereference
\* slots they never test (visitSgForStatement: tst; visitSgConditionalExp:
\* cond, tstmt; visitSgSubscriptExpression: low, upp), and rely on the chain:
\* a later slot is filled only after them.
NoNullDeref == phase = "null dereference" => class \in Unguarded

\* A built node has every slot it must have, and each child it keeps points
\* back to it, also where the children were visited with astParent because
\* the node did not exist yet.
ParentLinks ==
  phase = "built" =>
    /\ \A i \in Marked("required") : slot[i] # << >>
    /\ class \notin Stray =>
         \A i \in Indices \ Marked("ctor") : \A k \in 1..Len(slot[i]) :
           slot[i][k].kind \in Orphan \/ parent[i] = "ret"
=============================================================================
