----------------------------- MODULE DeclTable -----------------------------
(***************************************************************************)
(* The declarations (src/src/decl.cpp).  What visitSgClassDeclaration and  *)
(* visitSgDerivedTypeStatement do with the symbol tables is in ClassDecls. *)
(***************************************************************************)
EXTENDS NodeTable

\* attribSgDeclarationStatement; the binding label and the linkage of Fortran
\* are written as they are.
DeclAttrs == StmtAttrs \o
  <<Opt("declaration_modifier"), Opt("type_modifier"), Opt("cv_modifier"), Opt("alignment"),
    Opt("access_modifier"), Opt("storage_modifier"), Opt("thread_local"),
    Opt("visibility"), Text(Opt("bind")), Text(Opt("link"))>>

\* The volatile flag is neither written nor read.
AsmStmt == Node(
  Chain(<<List("operands", Expression, {"if_set"})>>),
  {<<Many("operands", Operand)>>},
  <<Twice(Key("code")), Given("gnu"), Opt("regs"), A("volatile", "never", "never")>> \o DeclAttrs)

\* The intent is written for every kind, and read for a list of names.
AttributeSpecAttrs == <<Key("kind"), Unread("intent")>> \o DeclAttrs

\* PARAMETER, EXTERNAL, ALLOCATABLE, BIND: sb::buildExprListExp takes the
\* expressions.
AttributeSpecExprs == Node(
  Chain(<<List("exprs", Expression, {"builder"})>>),
  {<<Many("exprs", {"Expression", "DeclaredRef"})>>}, AttributeSpecAttrs)

\* DIMENSION: only of names that have no declaration of their own, or are
\* parameters.
AttributeSpecDimension == Node(
  Chain(<<List("exprs", Expression \ {"DeclaredRef"}, {"builder"})>>),
  {<<Many("exprs", {"Expression", "DeclaredRef"})>>}, AttributeSpecAttrs)

\* DATA
AttributeSpecData == Node(
  Chain(<<List("groups", {"DataStatementGroup"}, {})>>),
  {<<Many("groups", {"DataStatementGroup"})>>}, AttributeSpecAttrs)

\* INTENT, SAVE, .. list names, each written as a SgStringVal.
AttributeSpecNames == Node(
  Chain(<<List("names", {"ValueExp"}, {})>>),
  {<<Many("names", {"ValueExp"})>>}, <<Key("kind"), Opt("intent")>> \o DeclAttrs)

\* Any other kind (ASYNCHRONOUS) is written like these, and fatal to read.
AttributeSpecOther == Node(
  Fatal, {<<Many("names", {"ValueExp"})>>},
  <<A("kind", "always", "fatal"), Unread("intent")>> \o DeclAttrs)

ClassAttrs == <<Opt("autonomous"), Opt("unnamed"), Given("name"), Given("type")>> \o DeclAttrs

ClassDeclaration == Node(
  Chain(<<S("exp", {"ClassDefinition"}, {"if_set"})>>),
  {<<May("exp", {"ClassDefinition"})>>}, ClassAttrs)

CommonBlock == Node(
  Chain(<<List("block_list", {"CommonBlockObject"}, {"if_set"})>>),
  {<<Many("block_list", {"CommonBlockObject"})>>}, DeclAttrs)

ContainsStatement == Node(NoSlots, {<< >>}, DeclAttrs)

\* The class type of a derived type is always e_struct.
DerivedTypeStatement == Node(
  Chain(<<S("exp", {"ClassDefinition"}, {"if_set"})>>),
  {<<May("exp", {"ClassDefinition"})>>},
  <<Key("name")>> \o DeclAttrs)

\* attribSgFunctionDeclaration and, for the last four, checkDeclStmt
FunctionAttrs == <<Opt("definition"), Opt("end_name"), Opt("function_modifier"),
                   Text(Opt("asm_name")), Opt("regparm")>> \o DeclAttrs

EntryStatement == Node(
  OuterScan(<<S("typ", SageType, {}), S("lst", {"FunctionParameterList"}, {"if_set"}),
              S("def", {"FunctionDefinition"}, {"ctor"})>>),
  {<<Must("lst", {"FunctionParameterList"}), Must("typ", SageType)>>},
  <<Given("name"), Opt("result")>> \o FunctionAttrs)

EnumDeclaration == Node(
  Chain(<<List("enumerators", {"InitializedName"}, {"if_set"})>>),
  {<<Many("enumerators", {"InitializedName"})>>},
  <<Key("name"), Opt("unnamed")>> \o DeclAttrs)

EquivalenceStatement == Node(
  Chain(<<S("lst", {"ExprListExp"}, Needed)>>),
  {<<Must("lst", {"ExprListExp"})>>}, DeclAttrs)

FormatStatement == Node(
  Outer(<<List("items", {"FormatItem"}, {})>>),
  {<<Many("items", {"FormatItem"})>>}, DeclAttrs)

FortranIncludeLine == Node(NoSlots, {<< >>}, <<Text(Key("filename"))>> \o StmtAttrs)

\* FUNCTION_HEADER_VISIT and FUNCTION_BODY_VISIT: the header first, then the
\* body, whatever their order is in the element.
FunctionDeclaration == Node(
  OuterScan(<<S("lst", {"FunctionParameterList"}, Needed), S("typ", SageType, {"required"}),
              S("def", {"FunctionDefinition"}, {"if_set"})>>),
  {<<Must("lst", {"FunctionParameterList"}), May("def", {"FunctionDefinition"}),
     Must("typ", SageType)>>},
  <<Key("name"), Opt("old"), Opt("no_params"), Opt("gnu_visibility"), Text(Opt("gnu_alias"))>>
    \o FunctionAttrs)

FunctionParameterList == Node(
  Chain(<<List("args", {"InitializedName"}, {"if_set"})>>),
  {<<Many("args", {"InitializedName"})>>}, DeclAttrs)

\* IMPLICIT NONE if there is none.
ImplicitStatement == Node(
  Chain(<<List("variables", {"InitializedName"}, {"if_set"})>>),
  {<<Many("variables", {"InitializedName"})>>}, DeclAttrs)

ImportStatement == Node(
  Chain(<<List("import_list", Expression, {"if_set"})>>),
  {<<Many("import_list", Operand)>>}, DeclAttrs)

\* The name may be that of an operator.
InterfaceStatement == Node(
  Chain(<<List("interface_body_list", {"InterfaceBody"}, {"if_set"})>>),
  {<<Many("interface_body_list", {"InterfaceBody"})>>},
  <<Text(Given("name")), Given("type")>> \o StmtAttrs)

ModuleStatement == Node(
  Chain(<<S("exp", {"ClassDefinition"}, Needed)>>),
  {<<Must("exp", {"ClassDefinition"})>>},
  <<Given("name"), Given("type")>> \o DeclAttrs)

NamelistStatement == Node(
  Chain(<<List("group_list", {"NameGroup"}, {})>>),
  {<<Many("group_list", {"NameGroup"})>>}, StmtAttrs)

PragmaDeclaration == Node(
  Outer(<<S("pr", {"Pragma"}, Needed)>>), {<<Must("pr", {"Pragma"})>>}, DeclAttrs)

\* attribSgFunctionDeclaration writes "old" for C only.
ProcedureAttrs == <<Given("kind"), Opt("result"), Opt("pure"), Opt("elemental"),
                    Opt("recursive"), Given("name"), A("old", "never", "default")>> \o FunctionAttrs

\* var->set_parent(ret) is guarded, var->set_scope(fdf) is not.
ProcedureHeaderStatement == Node(
  OuterScan(<<S("typ", SageType, {"required"}), S("lst", {"FunctionParameterList"}, Needed),
              S("var", {"InitializedName"}, {"set_parent"}),
              S("fdf", {"FunctionDefinition"}, Needed)>>),
  {<<Must("lst", {"FunctionParameterList"}), Must("var", {"InitializedName"}),
     Must("fdf", {"FunctionDefinition"}), Must("typ", SageType)>>},
  ProcedureAttrs)

\* e_block_data_subprogram_kind: the body may come without its definition,
\* and gets a new one
BlockDataHeader == Node(
  OuterScan(<<S("typ", SageType, {"required"}), S("lst", {"FunctionParameterList"}, Needed),
              S("var", {"InitializedName"}, {"set_parent"}),
              S("fdf", {"FunctionDefinition"}, {"default", "set_parent"}),
              S("def", {"BasicBlock"}, {"ctor"})>>),
  {<<Must("lst", {"FunctionParameterList"}), Must("var", {"InitializedName"}),
     Must("fdf", {"FunctionDefinition"}), Must("typ", SageType)>>},
  ProcedureAttrs)

\* The type and the parameter list are read and not used.
ProgramHeaderStatement == Node(
  Scan(<<S("fdf", {"FunctionDefinition"}, {"either", "if_set"}),
         S("def", {"BasicBlock"}, {"either", "ctor"})>>),
  {<<Must("lst", {"FunctionParameterList"}), Must("fdf", {"FunctionDefinition"}),
     Must("typ", SageType)>>},
  <<Key("name"), Opt("elabel")>> \o FunctionAttrs)

TypedefDeclaration == Node(
  OuterScan(<<S("typ", SageType, {"required"}), S("decl", Declaration, {"if_set"})>>),
  {<<May("decl", ClassDecl \cup {"EnumDeclaration"}), Must("typ", SageType)>>},
  <<Key("name"), Opt("list")>> \o DeclAttrs)

UseStatement == Node(
  Chain(<<List("rename_list", {"RenamePair"}, {})>>),
  {<<Many("rename_list", {"RenamePair"})>>},
  <<Key("name"), Key("only")>> \o StmtAttrs)

\* The first name is needed; bit is the width of a bit field.
VariableDeclaration == Node(
  OuterScan(<<List("variables", {"InitializedName"}, {"required", "if_set"}),
              S("cls", Declaration, {"if_set"}), S("bit", Expression, {"if_set"})>>),
  {<<May("cls", ClassDecl \cup {"EnumDeclaration"}), Must("variables", {"InitializedName"}),
     Many("variables", {"InitializedName"}), May("bit", {"ValueExp"})>>},
  <<Opt("gnu_visibility"), Opt("gnu_declaration"), Text(Opt("gnu_section")),
    Text(Opt("gnu_alias"))>> \o DeclAttrs)

-----------------------------------------------------------------------------
DeclNode ==
  [AsmStmt |-> AsmStmt, AttributeSpecExprs |-> AttributeSpecExprs,
   AttributeSpecDimension |-> AttributeSpecDimension, AttributeSpecData |-> AttributeSpecData,
   AttributeSpecNames |-> AttributeSpecNames, AttributeSpecOther |-> AttributeSpecOther, ClassDeclaration |-> ClassDeclaration,
   CommonBlock |-> CommonBlock, ContainsStatement |-> ContainsStatement,
   DerivedTypeStatement |-> DerivedTypeStatement, EntryStatement |-> EntryStatement,
   EnumDeclaration |-> EnumDeclaration, EquivalenceStatement |-> EquivalenceStatement,
   FormatStatement |-> FormatStatement, FortranIncludeLine |-> FortranIncludeLine,
   FunctionDeclaration |-> FunctionDeclaration,
   FunctionParameterList |-> FunctionParameterList, ImplicitStatement |-> ImplicitStatement,
   ImportStatement |-> ImportStatement, InterfaceStatement |-> InterfaceStatement,
   ModuleStatement |-> ModuleStatement, NamelistStatement |-> NamelistStatement,
   PragmaDeclaration |-> PragmaDeclaration,
   ProcedureHeaderStatement |-> ProcedureHeaderStatement, BlockDataHeader |-> BlockDataHeader,
   ProgramHeaderStatement |-> ProgramHeaderStatement,
   TypedefDeclaration |-> TypedefDeclaration, UseStatement |-> UseStatement,
   VariableDeclaration |-> VariableDeclaration]
=============================================================================
