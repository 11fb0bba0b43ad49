----------------------------- MODULE ExprTable -----------------------------
(***************************************************************************)
(* The expressions (src/src/expr.cpp) and the values (src/src/value.cpp).  *)
(* SgDotExp and SgArrowExp, which move the scope while they are read, are  *)
(* in XmlVisitor.  The attribute "type" is left out: it repeats what the   *)
(* expression's type already says and is never read.                       *)
(***************************************************************************)
EXTENDS NodeTable

\* attribSgExpression, checkExpression
Paren == <<Opt("paren")>>

\* The attributes of values are written without attribSgExpression.
NoParen == <<A("paren", "never", "default")>>

ActualArgumentExpression == Node(
  Outer(<<S("exp", Expression, Needed)>>),
  {<<Must("exp", Operand), Original>>},
  <<Key("name")>> \o Paren)

AggregateInitializer == Node(
  OuterScan(<<S("lst", {"ExprListExp"}, Needed), S("typ", SageType, {})>>),
  {<<Must("lst", {"ExprListExp"}), Original, Must("typ", SageType)>>},
  <<Opt("need_brace")>> \o Paren)

AsmOp == Node(
  Chain(<<S("exp", Expression, {"if_set"})>>),
  {<<Must("exp", Operand), Original>>},
  <<Opt("constraint"), Twice(Opt("constraint_string")), Opt("modifiers"), Opt("name"),
    Opt("record"), Opt("output")>> \o Paren)

AssignInitializer == Node(
  Chain(<<S("exp", Expression, Needed)>>),
  {<<Must("exp", Operand), Original>>},
  <<Given("cast")>> \o Paren)

AsteriskShapeExp == Node(NoSlots, {<<Original>>}, Paren)

\* Fault: the operand's parent is not set.
CastExpNoParent == Node(
  OuterScan(<<S("exp", Expression, {"required"}), S("typ", SageType, {"required"})>>),
  {<<Must("exp", Operand), Must("typ", SageType), Original>>},
  <<Given("ctype")>> \o Paren)

\* An explicit cast: oexp is found and not kept.
CastExp == Node(
  OuterScan(<<S("exp", Expression, Needed), S("typ", SageType, {"required"}),
              S("original", Expression, {"lost"})>>),
  {<<Must("exp", Operand), Must("typ", SageType), Original>>},
  <<Given("ctype")>> \o Paren)

\* A cast of the compiler's: oexp has the test of exp, gets the same child,
\* and becomes the original expression tree.
ImplicitCastExp == Node(
  OuterScan(<<S("exp", Expression, Needed), S("typ", SageType, {"required"}),
              S("original", Expression, {"if_set"})>>),
  {<<Must("exp", Operand), Must("typ", SageType), Original>>},
  <<Given("ctype"), Given("implicit")>> \o Paren)

ColonShapeExp == Node(NoSlots, {<<Original>>}, Paren)

CompoundLiteralExp == Node(
  Chain(<<S("ini", {"AggregateInitializer"}, Needed)>>),
  {<<Must("ini", {"AggregateInitializer"})>>},
  <<Key("symbol")>> \o Paren)

\* Only fstmt is tested.
ConditionalExp == Node(
  Outer(<<S("cond", Expression, {"set_parent"}), S("tstmt", Expression, {"set_parent"}),
          S("fstmt", Expression, Needed)>>),
  {<<Must("cond", Operand), Must("tstmt", Operand), Must("fstmt", Operand), Original>>},
  Paren)

ConstructorInitializer == Node(
  OuterScan(<<S("mdecl", {"MemberFunctionDeclaration"}, {"if_set"}),
              S("elst", {"ExprListExp"}, {"if_set"}), S("typ", SageType, {"if_set"})>>),
  {<<May("elst", {"ExprListExp"}), Must("typ", SageType), Original>>},
  <<Given("name"), Given("qual"), Given("paren_after_name"), Given("unknown")>> \o Paren)

DesignatedInitializer == Node(
  OuterScan(<<S("ini", Initializer, Needed), S("lst", {"ExprListExp"}, Needed)>>),
  {<<Must("lst", {"ExprListExp"}), Must("ini", Initializer), Original>>},
  Paren)

\* An original expression tree would be read as one more element; ROSE gives
\* none to lists.
ExprListExp == Node(
  Chain(<<List("exprs", Expression, {"if_set"})>>),
  {<<Many("exprs", {"Expression", "NullExpression"})>>},
  Paren)

FunctionCallExp == Node(
  Scan(<<S("exp", Expression, Needed), S("para", {"ExprListExp"}, Needed)>>),
  {<<Must("exp", Operand), Must("para", {"ExprListExp"}), Original>>},
  Paren)

FunctionRefExp == Node(
  Chain(<<S("original", Expression, {})>>), {<<Original>>},
  <<Key("name"), Opt("kind")>> \o Paren)

ImpliedDo == Node(
  Outer(<<S("ini", Expression, {"set_parent"}), S("las", Expression, {"set_parent"}),
          S("inc", Expression, Needed), S("lst", {"ExprListExp"}, Needed)>>),
  {<<Must("ini", Operand), Must("las", Operand), Must("inc", {"Expression", "NullExpression"}),
     Must("lst", {"ExprListExp"}), Original>>},
  Paren)

LabelRefExp == Node(NoSlots, {<<Original>>}, <<Given("ltype"), Given("nlabel")>> \o Paren)

NullExpression == Node(NoSlots, {<<Original>>}, Paren)

PointerDerefExp == Node(
  OuterScan(<<S("typ", SageType, Needed), S("exp", Expression, Needed)>>),
  {<<Must("exp", Operand), Must("typ", SageType), Original>>},
  Paren)

\* The type wins if both are there.
SizeOfOp == Node(
  OuterScan(<<S("exp", Expression, {"either", "builder"}), S("typ", SageType, {"either"})>>),
  {<<Must("exp", Operand)>>, <<Must("typ", SageType)>>},
  Paren)

StatementExpression == Node(
  Chain(<<S("stmt", Statement, Needed)>>),
  {<<Must("stmt", {"BasicBlock", "Statement"}), Original>>},
  Paren)

\* Only str is tested.
SubscriptExpression == Node(
  Outer(<<S("low", Expression, {"set_parent"}), S("upp", Expression, {"set_parent"}),
          S("str", Expression, Needed)>>),
  {<<Must("low", {"Expression", "NullExpression"}), Must("upp", {"Expression", "NullExpression"}),
     Must("str", Operand), Original>>},
  Paren)

VarArgCopyOp == Node(
  Outer(<<S("lhs", Expression, {"set_parent"}), S("rhs", Expression, Needed)>>),
  {<<Must("lhs", Operand), Must("rhs", Operand), Original>>}, Paren)

VarArgEndOp == Node(
  Outer(<<S("lhs", Expression, Needed)>>), {<<Must("lhs", Operand), Original>>}, Paren)

VarArgOp == Node(
  OuterScan(<<S("typ", SageType, {"required"}), S("lhs", Expression, Needed)>>),
  {<<Must("lhs", Operand), Must("typ", SageType)>>}, Paren)

VarArgStartOp == Node(
  Outer(<<S("lhs", Expression, {"set_parent"}), S("rhs", Expression, Needed)>>),
  {<<Must("lhs", Operand), Must("rhs", Operand), Original>>}, Paren)

VarRefExp == Node(
  Chain(<<S("original", Expression, {})>>), {<<Original>>}, <<Key("name")>> \o Paren)

\* VISIT_BOP, the 35 binary operators: the function returns before the
\* original expression tree is put in its place.
BinaryOp == Node(
  Chain(<<S("lhs", Expression, {"required"}), S("rhs", Expression, {"required"}),
          S("original", Expression, {"lost"})>>),
  {<<Must("lhs", Operand), Must("rhs", Operand), Original>>}, Paren)

\* VISIT_UOP
UnaryOp == Node(
  Outer(<<S("exp", Expression, {"required", "builder"})>>), {<<Must("exp", Operand)>>}, Paren)

\* VISIT_UOP_MODE
UnaryOpMode == Node(
  Outer(<<S("exp", Expression, Needed)>>), {<<Must("exp", Operand)>>},
  <<Given("mode")>> \o Paren)

PointerAssignOp == Node(
  Outer(<<S("lhs", Expression, Needed), S("rhs", Expression, Needed)>>),
  {<<Must("lhs", Operand), Must("rhs", Operand), Original>>}, Paren)

UserDefinedBinaryOp == Node(
  Chain(<<S("lhs", Expression, {"required"}), S("rhs", Expression, {"required"})>>),
  {<<Must("lhs", Operand), Must("rhs", Operand)>>}, <<Key("name")>> \o Paren)

\* lhs->get_type() is called before the children are read.
UserDefinedUnaryOp == Node(
  Chain(<<S("lhs", Expression, {"required", "early"})>>),
  {<<Must("lhs", Operand)>>}, <<Key("name")>> \o Paren)

-----------------------------------------------------------------------------
(* Values.                                                                 *)

OriginalSlot == Chain(<<S("original", Expression, {})>>)

\* VISIT_VAL: the text of the constant, if it has one of its own
NumberVal == Node(OriginalSlot, {<<Original>>}, <<Twice(Key("value"))>> \o NoParen)

\* VISIT_VAL_NO_STRING
BoolValExp == Node(OriginalSlot, {<<Original>>}, <<Key("value")>> \o NoParen)

\* VISIT_VAL_CHAR: the code of the character
CharVal == Node(OriginalSlot, {<<Original>>}, <<Key("value")>> \o NoParen)

EnumVal == Node(OriginalSlot, {<<Original>>},
  <<Key("value"), Key("name"), Given("enum")>> \o NoParen)

\* A single part is taken for the imaginary one; oexp is tested, never the
\* child.
ComplexVal == Node(
  Outer(<<S("real", {"ValueExp"}, {"spill", "builder"}), S("imag", {"ValueExp"}, {"builder"}),
          S("original", {}, {"lost"})>>),
  {<<May("real", {"ValueExp"}), Must("imag", {"ValueExp"}), Original>>,
   <<Must("real", {"ValueExp"})>>},
  NoParen)

\* Fault: the text is not decoded by the XML parser alone.
StringValRaw == Node(OriginalSlot, {<<Original>>},
  <<Text(Key("value")), Opt("single"), Opt("wchar"), Opt("string16"), Opt("string32")>>
    \o NoParen)

StringVal == Node(OriginalSlot, {<<Original>>},
  <<Twice(Key("value")), Opt("single"), Opt("wchar"), Opt("string16"), Opt("string32")>>
    \o NoParen)

-----------------------------------------------------------------------------
OperandNode ==
  [ActualArgumentExpression |-> ActualArgumentExpression,
   AggregateInitializer |-> AggregateInitializer, AsmOp |-> AsmOp,
   AssignInitializer |-> AssignInitializer, AsteriskShapeExp |-> AsteriskShapeExp,
   CastExp |-> CastExp, ColonShapeExp |-> ColonShapeExp,
   CompoundLiteralExp |-> CompoundLiteralExp, ConditionalExp |-> ConditionalExp,
   ConstructorInitializer |-> ConstructorInitializer,
   DesignatedInitializer |-> DesignatedInitializer, ExprListExp |-> ExprListExp,
   FunctionCallExp |-> FunctionCallExp, FunctionRefExp |-> FunctionRefExp,
   ImplicitCastExp |-> ImplicitCastExp, ImpliedDo |-> ImpliedDo, LabelRefExp |-> LabelRefExp, NullExpression |-> NullExpression,
   PointerDerefExp |-> PointerDerefExp, SizeOfOp |-> SizeOfOp,
   StatementExpression |-> StatementExpression, SubscriptExpression |-> SubscriptExpression,
   VarArgCopyOp |-> VarArgCopyOp, VarArgEndOp |-> VarArgEndOp, VarArgOp |-> VarArgOp,
   VarArgStartOp |-> VarArgStartOp, VarRefExp |-> VarRefExp]

OperatorNode ==
  [BinaryOp |-> BinaryOp, UnaryOp |-> UnaryOp, UnaryOpMode |-> UnaryOpMode,
   PointerAssignOp |-> PointerAssignOp, UserDefinedBinaryOp |-> UserDefinedBinaryOp,
   UserDefinedUnaryOp |-> UserDefinedUnaryOp]

ValueNode ==
  [NumberVal |-> NumberVal, BoolValExp |-> BoolValExp, CharVal |-> CharVal,
   EnumVal |-> EnumVal, ComplexVal |-> ComplexVal, StringVal |-> StringVal]
=============================================================================
