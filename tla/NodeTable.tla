----------------------------- MODULE NodeTable -----------------------------
(***************************************************************************)
(* The vocabulary of the tables that describe, class by class, how an AST  *)
(* node becomes an XML element and how the element is read back.           *)
(*                                                                         *)
(*   reads    the local pointers (slots) visitSgXxx fills from the child   *)
(*            elements, the test each child has to pass, and what the code *)
(*            does with the slot after the loop                            *)
(*   writes   the child elements of the written element: the traversal     *)
(*            successors of the class, then what inodeSgXxx visits         *)
(*   attrs    the attributes attribSgXxx writes and visitSgXxx (or visit() *)
(*            on its behalf) reads                                         *)
(***************************************************************************)
EXTENDS Naturals, Sequences

(* The classes of AST nodes the isSgXxx tests of the readers tell apart.   *)
Initializer == {"AggregateInitializer", "Initializer"}
Expression  == {"Expression", "ExprListExp", "LabelRefExp", "NullExpression", "ValueExp",
                "DeclaredRef"}
                 \cup Initializer
ClassDecl   == {"ClassDeclaration"}
FuncDecl    == {"MemberFunctionDeclaration", "FunctionDeclaration"}
ScopeStmt   == {"BasicBlock", "IfStmt", "ClassDefinition", "FunctionDefinition"}
Declaration == {"VariableDeclaration", "EnumDeclaration", "FunctionParameterList"}
                 \cup ClassDecl \cup FuncDecl
Statement   == {"ExprStatement", "ForInitStatement", "ElseWhereStatement", "Statement"}
                 \cup ScopeStmt \cup Declaration
SageType    == {"Type"}
Support     == {"InitializedName", "CommonBlockObject", "FormatItem", "NameGroup", "RenamePair",
                "InterfaceBody", "DataStatementGroup", "DataStatementObject",
                "DataStatementValue", "Pragma", "FunctionParameterTypeList"}
NodeKind    == Expression \cup Statement \cup SageType \cup Support

-----------------------------------------------------------------------------
(* Slots.                                                                  *)

\* A single pointer; a list that takes every child that passes the test.
S(role, accepts, marks)    == [role |-> role, accepts |-> accepts, marks |-> marks, many |-> FALSE]
List(role, accepts, marks) == [role |-> role, accepts |-> accepts, marks |-> marks, many |-> TRUE]

\* if(a==0) a = ..; else if(b==0) b = ..;   with visit(child,ret) or
\* visit(child,astParent)
Chain(slots)     == [mode |-> "chain", visits |-> TRUE,  slots |-> slots]
Outer(slots)     == [mode |-> "chain", visits |-> FALSE, slots |-> slots]
\* if(a==0) a = ..; if(b==0) b = ..;
Scan(slots)      == [mode |-> "scan",  visits |-> TRUE,  slots |-> slots]
OuterScan(slots) == [mode |-> "scan",  visits |-> FALSE, slots |-> slots]
\* a = isSgA(child);  the last child decides
LastOf(slots)    == [mode |-> "last",  visits |-> FALSE, slots |-> slots]
\* The children are not looked at.
NoSlots == Chain(<< >>)
\* XEV_FATAL: no list of children will do.
Fatal == Chain(<<S("none", {}, {"required"})>>)

Needed == {"required", "set_parent"}

-----------------------------------------------------------------------------
(* Children, as they are written.                                          *)

Must(role, kinds) == [role |-> role, kinds |-> kinds, count |-> {1}]
May(role, kinds)  == [role |-> role, kinds |-> kinds, count |-> {0, 1}]
Many(role, kinds) == [role |-> role, kinds |-> kinds, count |-> 0..2]

Operand  == {"Expression"}
Original == May("original", {"Expression"})   \* get_originalExpressionTree()
Body     == {"BasicBlock", "IfStmt", "Statement", "ExprStatement"}

-----------------------------------------------------------------------------
(* Attributes.                                                             *)

\* written  "always", "set" (when the field differs from its default), "never"
\* read     "required" (XEV_MISSING_ATTR), "default" (the field keeps its
\*          default if the attribute is missing), "garbage" (it keeps what
\*          was in memory), "partial" (some of its values are not known),
\*          "never", "fatal" (XEV_FATAL)
\* unless   written only if that other attribute is not
\* after    read only if that other attribute has no value
\* instead  that other attribute is read in its place, if it is there
\* text     the field is free text; escaped by XmlStr2Entity when written,
\*          decoded once more by XmlEntity2Str when read
A(name, written, read) ==
  [name |-> name, written |-> written, read |-> read, unless |-> "", after |-> "",
   instead |-> "", text |-> FALSE, escaped |-> FALSE, decoded |-> FALSE]

Key(name)    == A(name, "always", "required")
Given(name)  == A(name, "always", "default")
Opt(name)    == A(name, "set", "default")
Unread(name) == A(name, "set", "never")

Unless(a, other) == [a EXCEPT !.unless = other]
After(a, other)  == [a EXCEPT !.after = other]
ReplacedBy(a, other) == [a EXCEPT !.instead = other]

Text(a)    == [a EXCEPT !.text = TRUE]
Escaped(a) == [a EXCEPT !.text = TRUE, !.escaped = TRUE]
Twice(a)   == [a EXCEPT !.text = TRUE, !.escaped = TRUE, !.decoded = TRUE]

\* attribSgStatement and checkStatement: the numeric label
StmtAttrs == <<Opt("label")>>

Node(reads, writes, attrs) == [reads |-> reads, writes |-> writes, attrs |-> attrs]
=============================================================================
