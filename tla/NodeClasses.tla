---------------------------- MODULE NodeClasses ----------------------------
(***************************************************************************)
(* All the classes of the tables, and what is known to be wrong with some. *)
(***************************************************************************)
EXTENDS ExprTable, StmtTable, DeclTable, TypeTable

\* sgnode.hpp: the classes visit() knows
NodeClass == UNION {DOMAIN OperandNode, DOMAIN OperatorNode, DOMAIN ValueNode, DOMAIN StmtNode,
                    DOMAIN DeclNode, DOMAIN TypeNode, DOMAIN SupportNode}

NodeOf(c) ==
  IF      c \in DOMAIN OperandNode  THEN OperandNode[c]
  ELSE IF c \in DOMAIN OperatorNode THEN OperatorNode[c]
  ELSE IF c \in DOMAIN ValueNode    THEN ValueNode[c]
  ELSE IF c \in DOMAIN StmtNode     THEN StmtNode[c]
  ELSE IF c \in DOMAIN DeclNode     THEN DeclNode[c]
  ELSE IF c \in DOMAIN TypeNode     THEN TypeNode[c]
  ELSE SupportNode[c]

\* Types are shared, and visit() clears the parent of SgSupport nodes.
OrphanKind == SageType \cup {"FormatItem", "NameGroup", "DataStatementGroup",
                             "DataStatementObject", "DataStatementValue", "Pragma",
                             "FunctionParameterTypeList"}

NodeReader == LET reads(c) == NodeOf(c).reads IN [c \in NodeClass |-> reads(c)]

\* visitSgUserDefinedUnaryOp uses its operand before it has one;
\* visitSgProcedureHeaderStatement uses var untested.
UnguardedClass == {"UserDefinedUnaryOp", "ProcedureHeaderStatement", "BlockDataHeader"}

\* visitSgTypeComplex and visitSgTypeImaginary keep kexp with the parent it
\* was visited with.
StrayClass == {"TypeComplex", "TypeImaginary"}
=============================================================================
