----------------------------- MODULE StmtTable -----------------------------
(***************************************************************************)
(* The statements (src/src/stmt.cpp) whose children are told apart by      *)
(* their order.  Blocks are in TextAttach, the I/O statements in IoStmt.   *)
(***************************************************************************)
EXTENDS NodeTable

\* inodeSgXxx of the statements that are no I/O statements writes nothing
\* more than the traversal successors (INODE_STMT_DEFAULT).

AllocateStatement == Node(
  Chain(<<S("exp", {"ExprListExp"}, {}), S("stt", Expression, {})>>),
  {<<Must("exp", {"ExprListExp"}), May("stt", Operand)>>}, StmtAttrs)

\* Fault: the first slot is tested, not the last.
ArithmeticIfFirstTested == Node(
  Chain(<<S("cnd", Expression, Needed), S("les", {"LabelRefExp"}, {"set_parent"}),
          S("eql", {"LabelRefExp"}, {"set_parent"}), S("grt", {"LabelRefExp"}, {"set_parent"})>>),
  {<<Must("cnd", Operand), Must("les", {"LabelRefExp"}), Must("eql", {"LabelRefExp"}),
     Must("grt", {"LabelRefExp"})>>}, StmtAttrs)

\* Only grt is tested.
ArithmeticIfStatement == Node(
  Chain(<<S("cnd", Expression, {"set_parent"}), S("les", {"LabelRefExp"}, {"set_parent"}),
          S("eql", {"LabelRefExp"}, {"set_parent"}), S("grt", {"LabelRefExp"}, Needed)>>),
  {<<Must("cnd", Operand), Must("les", {"LabelRefExp"}), Must("eql", {"LabelRefExp"}),
     Must("grt", {"LabelRefExp"})>>}, StmtAttrs)

AssociateStatement == Node(
  Scan(<<S("body", {"BasicBlock"}, {"required"}),
         S("decl", {"VariableDeclaration"}, {"required"})>>),
  {<<Must("decl", {"VariableDeclaration"}), Must("body", {"BasicBlock"})>>}, StmtAttrs)

BreakStmt == Node(NoSlots, {<< >>}, <<Opt("slabel")>> \o StmtAttrs)

CaseOptionStmt == Node(
  Chain(<<S("key", Expression, Needed), S("body", Statement, Needed),
          S("kend", Expression, {})>>),
  {<<Must("key", {"Expression", "ExprListExp"}), Must("body", Body), May("kend", Operand)>>},
  <<Opt("construct")>> \o StmtAttrs)

\* Members that are no declarations are dropped.
ClassDefinition == Node(
  Chain(<<List("members", Declaration, {"if_set"})>>), {<<Many("members", Declaration)>>},
  <<Given("sequence"), Given("private"), Given("abstract")>> \o StmtAttrs)

ComputedGotoStatement == Node(
  Outer(<<S("exp", {"ExprListExp"}, Needed), S("var", Expression, Needed)>>),
  {<<Must("exp", {"ExprListExp"}), Must("var", Operand)>>}, StmtAttrs)

ContinueStmt == Node(NoSlots, {<< >>}, <<Opt("slabel")>> \o StmtAttrs)

DeallocateStatement == AllocateStatement

DefaultOptionStmt == Node(
  Chain(<<S("body", Statement, {"required"})>>), {<<Must("body", Body)>>},
  <<Opt("construct")>> \o StmtAttrs)

\* Fault: the condition is expected first, as in a while statement.
DoWhileCondFirst == Node(
  Chain(<<S("cond", {"ExprStatement"}, Needed), S("body", Statement, Needed)>>),
  {<<Must("body", Body), Must("cond", {"ExprStatement"})>>}, StmtAttrs)

DoWhileStmt == Node(
  Chain(<<S("body", Statement, Needed), S("cond", {"ExprStatement"}, Needed)>>),
  {<<Must("body", Body), Must("cond", {"ExprStatement"})>>}, StmtAttrs)

ElseWhereStatement == Node(
  Chain(<<S("cond", Expression, {"required"}), S("body", {"BasicBlock"}, {"required"}),
          S("elsew", {"ElseWhereStatement"}, {"if_set"})>>),
  {<<Must("cond", Operand), Must("body", {"BasicBlock"}), May("elsew", {"ElseWhereStatement"})>>},
  StmtAttrs)

ExprStatement == Node(
  Chain(<<S("exp", Expression, Needed)>>), {<<Must("exp", Expression)>>}, StmtAttrs)

ForAllStatement == Node(
  Chain(<<S("hed", {"ExprListExp"}, Needed), S("bdy", {"BasicBlock"}, Needed)>>),
  {<<Must("hed", {"ExprListExp"}), Must("bdy", {"BasicBlock"})>>}, StmtAttrs)

ForInitStatement == Node(
  Outer(<<List("init_stmt", Statement, {"builder"})>>),
  {<<Many("init_stmt", {"VariableDeclaration", "ExprStatement"})>>}, StmtAttrs)

\* tst is not tested.
ForStatement == Node(
  Chain(<<S("ini", {"ForInitStatement"}, Needed), S("tst", Statement, {"set_parent"}),
          S("inc", Expression, Needed), S("bdy", Statement, Needed)>>),
  {<<Must("ini", {"ForInitStatement"}), Must("tst", {"ExprStatement", "Statement"}),
     Must("inc", {"Expression", "NullExpression"}), Must("bdy", Body)>>}, StmtAttrs)

FortranDo == Node(
  Chain(<<S("ini", Expression, {"if_set"}), S("bnd", Expression, {"if_set"}),
          S("inc", Expression, {"if_set"}), S("body", {"BasicBlock"}, {"if_set"})>>),
  {<<Must("ini", {"Expression", "NullExpression"}), Must("bnd", {"Expression", "NullExpression"}),
     Must("inc", {"Expression", "NullExpression"}), Must("body", {"BasicBlock"})>>},
  <<Given("style"), Given("end"), Opt("elabel"), Opt("slabel")>> \o StmtAttrs)

FunctionDefinition == Node(
  Chain(<<S("blk", {"BasicBlock"}, {"if_set"})>>), {<<Must("blk", {"BasicBlock"})>>}, StmtAttrs)

\* With a numeric label, the label statement built from the name gives way to
\* a new one that is named like the number, whether there was a name or not.
GotoStatement == Node(NoSlots, {<< >>},
  <<ReplacedBy(Opt("slabel"), "nlabel"), Opt("nlabel")>> \o StmtAttrs)

IfStmt == Node(
  Chain(<<S("cond", {"ExprStatement"}, {"required"}), S("tstmt", Statement, {"required"}),
          S("fstmt", Statement, {})>>),
  {<<Must("cond", {"ExprStatement"}), Must("tstmt", Body), May("fstmt", Body)>>},
  <<Given("end"), Given("then"), Opt("elabel"), Opt("ellabel"), Opt("slabel")>> \o StmtAttrs)

\* sb::buildLabelStatement(label, body, scope), with the number or else the
\* name; the numeric label of the statement is this number.
LabelStatement == Node(
  OuterScan(<<S("body", Statement, {"builder"}), S("scope", ScopeStmt, {"builder"})>>),
  {<<May("body", Body)>>},
  <<Opt("nlabel"), After(Unless(Given("slabel"), "nlabel"), "nlabel")>>)

NullStatement == Node(NoSlots, {<< >>}, StmtAttrs)

NullifyStatement == Node(
  Chain(<<S("plst", {"ExprListExp"}, Needed)>>), {<<Must("plst", {"ExprListExp"})>>}, StmtAttrs)

\* The alternative return, which looks its label up among the parameters of
\* the function, is left out.
ReturnStmt == Node(
  Outer(<<S("exp", Expression, {"if_set"})>>), {<<May("exp", Expression)>>}, StmtAttrs)

StopOrPauseStatement == Node(
  Chain(<<S("cod", Expression, {"default", "set_parent"})>>), {<<May("cod", Expression)>>},
  <<Given("type")>> \o StmtAttrs)

SwitchStatement == Node(
  Chain(<<S("item", Statement, Needed), S("body", Statement, Needed)>>),
  {<<Must("item", {"ExprStatement"}), Must("body", {"BasicBlock"})>>},
  <<Opt("elabel"), Opt("slabel")>> \o StmtAttrs)

\* The end label is written, never read.
WhereStatement == Node(
  Chain(<<S("cond", Expression, {}), S("body", {"BasicBlock"}, {}),
          S("elsw", {"ElseWhereStatement"}, {})>>),
  {<<Must("cond", Operand), Must("body", {"BasicBlock"}), May("elsw", {"ElseWhereStatement"})>>},
  <<Given("end"), Opt("slabel"), Unread("elabel")>> \o StmtAttrs)

\* A numeric end label is written and the name is not; the name, if there is
\* one, is read and the end label is not.
WhileStmt == Node(
  Chain(<<S("cond", {"ExprStatement"}, {"if_set"}), S("tstmt", Statement, {"if_set"}),
          S("fstmt", Statement, {"if_set"})>>),
  {<<Must("cond", {"ExprStatement"}), Must("tstmt", Body), May("fstmt", Body)>>},
  <<Given("end"), After(Opt("elabel"), "slabel"), Unless(Opt("slabel"), "elabel")>> \o StmtAttrs)

-----------------------------------------------------------------------------
StmtNode ==
  [AllocateStatement |-> AllocateStatement, ArithmeticIfStatement |-> ArithmeticIfStatement,
   AssociateStatement |-> AssociateStatement, BreakStmt |-> BreakStmt,
   CaseOptionStmt |-> CaseOptionStmt, ClassDefinition |-> ClassDefinition,
   ComputedGotoStatement |-> ComputedGotoStatement, ContinueStmt |-> ContinueStmt,
   DeallocateStatement |-> DeallocateStatement, DefaultOptionStmt |-> DefaultOptionStmt,
   DoWhileStmt |-> DoWhileStmt, ElseWhereStatement |-> ElseWhereStatement,
   ExprStatement |-> ExprStatement, ForAllStatement |-> ForAllStatement,
   ForInitStatement |-> ForInitStatement, ForStatement |-> ForStatement,
   FortranDo |-> FortranDo, FunctionDefinition |-> FunctionDefinition,
   GotoStatement |-> GotoStatement, IfStmt |-> IfStmt, LabelStatement |-> LabelStatement,
   NullStatement |-> NullStatement, NullifyStatement |-> NullifyStatement,
   ReturnStmt |-> ReturnStmt, StopOrPauseStatement |-> StopOrPauseStatement,
   SwitchStatement |-> SwitchStatement, WhereStatement |-> WhereStatement,
   WhileStmt |-> WhileStmt]
=============================================================================
