----------------------------- MODULE TypeTable -----------------------------
(***************************************************************************)
(* The types (src/src/type.cpp) and the support nodes (src/src/supp.cpp).  *)
(***************************************************************************)
EXTENDS NodeTable

\* inodeSgType
KindExp == May("kexp", Operand)

\* VISIT_TYPE, 20 classes: every child overwrites kexp.
IntrinsicType == Node(LastOf(<<S("kexp", Expression, {"if_set"})>>), {<<KindExp>>}, << >>)

\* VISIT_TYPE2: SgTypeDefault, SgTypeEllipse
BareType == Node(NoSlots, {<< >>}, << >>)

\* After the base type, an expression list is the list of the dimensions if
\* another child follows, and the index otherwise.  Its length has to be the
\* rank.
ArrayType == Node(
  [mode |-> "array", visits |-> TRUE,
   slots |-> <<S("typ", SageType, Needed), S("lst", {"ExprListExp"}, {"counted"}),
               S("iexp", Expression, {"if_set"})>>],
  {<<Must("typ", SageType), May("iexp", Operand)>>,
   <<Must("typ", SageType), Must("lst", {"ExprListExp"}), May("iexp", {"NullExpression"})>>},
  <<Given("rank")>>)

\* The definition is looked at if the class has none yet (see ClassDecls).
ClassType == Node(
  Chain(<<S("cdef", {"ClassDefinition"}, {})>>), {<<May("cdef", {"ClassDefinition"})>>},
  <<Given("name"), Given("type"), Opt("unnamed")>>)

EnumType == Node(NoSlots, {<< >>}, <<Key("name")>>)

FunctionType == Node(
  OuterScan(<<S("typ", SageType, {"default", "set_parent"}),
              S("lst", {"FunctionParameterTypeList"}, Needed)>>),
  {<<Must("typ", SageType), Must("lst", {"FunctionParameterTypeList"})>>}, << >>)

\* The switch on cv knows const and volatile, not their combination and not
\* restrict.
ModifierType == Node(
  Outer(<<S("typ", SageType, {"required"})>>), {<<Must("typ", SageType)>>},
  <<Key("modifier"), A("cv_modifier", "set", "partial")>>)

\* With len="1" the first expression is the length, otherwise all there is is
\* the kind.
TypeStringLen == Node(
  Outer(<<S("lexp", Expression, {"default", "ctor"}), S("kexp", Expression, {"ctor"})>>),
  {<<Must("lexp", Operand), KindExp>>}, <<Given("len")>>)
TypeString == Node(Outer(<<S("kexp", Expression, {"ctor"})>>), {<<KindExp>>}, << >>)

TypedefType == Node(NoSlots, {<< >>}, <<Given("name")>>)

\* kexp keeps the parent it was visited with.
TypeComplex == Node(
  OuterScan(<<S("typ", SageType, {"required"}), S("kexp", Expression, {})>>),
  {<<KindExp, Must("typ", SageType)>>}, << >>)
TypeImaginary == TypeComplex

TypeInt == Node(Outer(<<S("kexp", Expression, {"ctor"})>>), {<<KindExp>>}, << >>)

TypeLabel == Node(Outer(<<S("kexp", Expression, {"ctor"})>>), {<<KindExp>>}, <<Given("name")>>)

\* The type of the expression is used if there is an expression.
TypeOfType == Node(
  Scan(<<S("typ", SageType, {"either"}), S("exp", Expression, {"either", "if_set"})>>),
  {<<Must("typ", SageType), May("exp", Operand)>>, <<Must("exp", Operand)>>}, << >>)

PointerType == Node(Chain(<<S("typ", SageType, {"required"})>>), {<<Must("typ", SageType)>>}, << >>)

-----------------------------------------------------------------------------
(* Support nodes.                                                          *)

DataStatementGroup == Node(
  Scan(<<List("objects", {"DataStatementObject"}, {}), List("values", {"DataStatementValue"}, {})>>),
  {<<Many("objects", {"DataStatementObject"}), Many("values", {"DataStatementValue"})>>}, << >>)

DataStatementObject == Node(
  Chain(<<S("lst", {"ExprListExp"}, {"required"})>>), {<<Must("lst", {"ExprListExp"})>>}, << >>)

DataStatementValue == Node(
  Chain(<<S("ilst", {"ExprListExp"}, {}), S("rept", Expression, {}), S("cnst", Expression, {})>>),
  {<<May("ilst", {"ExprListExp"}), May("rept", Operand), May("cnst", Operand)>>},
  <<Given("fmt")>>)

\* "list" repeats that there are items.
FormatItem == Node(
  Scan(<<S("exp", Expression, {}), List("items", {"FormatItem"}, {})>>),
  {<<May("exp", {"ValueExp"}), Many("items", {"FormatItem"})>>},
  <<Opt("single"), Opt("double"), Opt("repeat")>>)

\* Without "repeat" data alone is refused.
FormatItemOnce == Node(
  Scan(<<S("exp", Expression, {"needs_next"}), List("items", {"FormatItem"}, {})>>),
  {<<Many("items", {"FormatItem"})>>}, <<Opt("single"), Opt("double")>>)

FunctionParameterTypeList == Node(
  OuterScan(<<List("types", SageType, {}), S("exp", {"ExprListExp"}, {"default", "set_parent"})>>),
  {<<Many("types", SageType)>>}, << >>)

\* Written only if there is one; needed when read.
NameGroup == Node(NoSlots, {<< >>}, <<Key("group"), A("names", "set", "required")>>)

Pragma == Node(NoSlots, {<< >>}, <<Escaped(Key("pragma"))>>)

\* Fault: the version is used although it is missing, too.
SourceFileNoVersion == Node(NoSlots, {<< >>},
  <<Text(Key("file")), A("lang", "always", "garbage"), A("ofmt", "always", "garbage"),
    A("version", "always", "garbage"), Key("format")>>)

\* langid and fmtid are not initialized.
SourceFile == Node(NoSlots, {<< >>},
  <<Text(Key("file")), A("lang", "always", "garbage"), A("ofmt", "always", "garbage"),
    Key("version"), Key("format")>>)

TypedefSeq == Node(NoSlots, {<< >>}, << >>)

CommonBlockObject == Node(
  Chain(<<S("para", {"ExprListExp"}, Needed)>>), {<<Must("para", {"ExprListExp"})>>},
  <<Given("name")>>)

InitializedName == Node(
  OuterScan(<<S("ini", Initializer, {"if_set"}), S("typ", SageType, {"if_set"})>>),
  {<<May("ini", Initializer), Must("typ", SageType)>>},
  <<Given("name"), Opt("prev"), Opt("storage_modifier"), Opt("empty_bracket"),
    Opt("alignment"), Opt("gnu_attrib")>>)

\* Without a name the declaration is needed.
InterfaceBody == Node(
  Chain(<<S("bdy", FuncDecl, Needed)>>), {<<Must("bdy", FuncDecl)>>}, << >>)
InterfaceBodyName == Node(
  Chain(<<S("bdy", FuncDecl, {"if_set"})>>), {<< >>}, <<Opt("name")>>)

RenamePair == Node(NoSlots, {<< >>}, <<Key("lname"), Key("uname")>>)

-----------------------------------------------------------------------------
TypeNode ==
  [IntrinsicType |-> IntrinsicType, BareType |-> BareType, ArrayType |-> ArrayType,
   ClassType |-> ClassType, EnumType |-> EnumType, FunctionType |-> FunctionType,
   ModifierType |-> ModifierType, TypeStringLen |-> TypeStringLen, TypeString |-> TypeString,
   TypedefType |-> TypedefType, TypeComplex |-> TypeComplex, TypeImaginary |-> TypeImaginary,
   TypeInt |-> TypeInt, TypeLabel |-> TypeLabel, TypeOfType |-> TypeOfType,
   PointerType |-> PointerType]

SupportNode ==
  [DataStatementGroup |-> DataStatementGroup, DataStatementObject |-> DataStatementObject,
   DataStatementValue |-> DataStatementValue, FormatItem |-> FormatItem,
   FormatItemOnce |-> FormatItemOnce, FunctionParameterTypeList |-> FunctionParameterTypeList,
   NameGroup |-> NameGroup, Pragma |-> Pragma, SourceFile |-> SourceFile,
   TypedefSeq |-> TypedefSeq, CommonBlockObject |-> CommonBlockObject,
   InitializedName |-> InitializedName, InterfaceBody |-> InterfaceBody,
   InterfaceBodyName |-> InterfaceBodyName, RenamePair |-> RenamePair]
=============================================================================
