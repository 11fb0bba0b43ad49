# A TLA+ model of XevXML

XevXML converts a program to XML and back. `src2xml` parses C or Fortran with
the ROSE frontend and writes the AST as an XML document; XSLT rules transform
the document; `xml2src` rebuilds a ROSE AST from the result and unparses it.
`xmlrebuild` does both ways at once, through a temporary source file. What
makes the system correct is that the two conversions agree: what one writes the
other reads back, element by element and attribute by attribute, and a document
some rule has damaged is refused, not half read.

## 1. Inventory

| component | state | operations | talks to |
|---|---|---|---|
| XML writer, `XevSageVisitor` (`rose2xml.cpp`) | `depth_`, the file visited, the stream, the call stack of `visit` | `write`, `visit`, `hasInode`, `visitSuccessors` | the `attribSgXxx`/`inodeSgXxx` functions of each AST class, preprocessing information |
| XML reader, `XevXmlVisitor` (`xml2rose.cpp`) | the call stack of `visit`, SageBuilder's global scope stack, the AST under construction | `read`, `visit`, `checkPreprocInfo`, `checkExpression`, `checkStatement`, `checkDeclStmt`, `checkLocatedNode` | the `visitSgXxx` function of each AST class |
| statement visitors (`stmt.cpp`) | local pointers ("slots"), attributes, the table `g_iostmtAttrib` | one `visitSgXxx`, `attribSgXxx`, `inodeSgXxx` per class; `traverseStatementsAndTexts` | both visitors, by recursion |
| expression, value, declaration, type, support visitors (`expr.cpp`, `value.cpp`, `decl.cpp`, `type.cpp`, `supp.cpp`) | as above; symbol tables of the scopes | as above; names are resolved in the scope stack | both visitors |
| preprocessing information (`preproc.cpp`) | comments and directives attached to nodes, a mark on each line already used | `writeFortranPragma`, `findContinuedDirective`, `writePreprocessingInfo`, `visitPreprocessingInfo` | both visitors |
| XML utilities (`xmlutils.cpp`, `.hpp`) | Xerces objects | entity encoding and decoding, attribute access | everything |
| `xmlrebuild` (`xmlrebuild.cpp`, `src2xml.cpp` with `XEV_COMPILE4XMLREBUILD`) | two child processes, a temporary file, three file descriptors | `findFilename`, `convertXml2TmpFile`, `main` | reader, unparser, frontend, writer; the operating system |
| `src2xml`, `xml2src`, unparser | options | `main` | frontend, writer, reader |
| XSLT front end (`xslt.cpp`) | list of library directories, Xalan objects | splitting the list, path search | style sheets |
| XSLT generator (`xsltgen.cpp`) | the list of calls, step numbers | `GetTarget`, `WriteApplyTemplates`, `WriteCaller`, `WriteXslt` | JSON rules in, style sheet out |
| `xevrestruct` (`tools/`) | a document as lists of cells | blocks of directives made into elements and back (`+b`, `-b`), bodies divided at CONTAINS and joined (`+c`, `-c`) | files |
| other tools in C (`tools/`) | a small XML library | directive filters, continuation lines, template generator | files |

What is hard here is seldom concurrency (only `xmlrebuild` has processes). It
is *recursion with global state* (scope stack, depth, pairing of tags),
*position* (children recognised by their order), *naming* (the same names
spelled in a writer, a reader and a table), *lists with pending data* (text
waiting for a statement, continuation lines waiting for their directive),
*names resolved while the document is half read* (classes, members), and
*failure paths* (fatal exits between two steps that belong together). The full
list, with lines, is `hazards` in `PROJECT.json`.

Properties that make each component correct: the writer emits well-formed XML
that contains each node of the file once and in its place; the reader leaves
the scope stack as it found it, resolves each name in its own scope and refuses
exactly the malformed documents; the per-class readers never dereference an
empty slot, set every parent, and invert the writer, in the children as in the
attributes; class definitions are neither lost nor confused; text keeps its
place between the statements; a directive keeps its continuation lines;
`xevrestruct` puts each statement into the blocks it was written in and can
undo what it did; `xmlrebuild` reads only what is completely written, leaves no
process behind, and tells failure from success.

## 2. Modules

| module | models | role |
|---|---|---|
| `XmlStream` | - | abstract: what a writer of XML promises (tags nest, one root) |
| `SageVisitor`, `MCSageVisitor` | `XevSageVisitor::visit` | detailed writer; refines `XmlStream` |
| `SageDocument` | - | what the document of an AST must contain, from the AST alone |
| `XmlVisitor`, `MCXmlVisitor` | `XevXmlVisitor::visit`, scope stack, `SgDotExp`/`SgArrowExp` | the reader |
| `NodeTable` | the idioms of the per-class functions | vocabulary of the tables |
| `ExprTable`, `StmtTable`, `DeclTable`, `TypeTable` | 127 classes of `expr.cpp`, `value.cpp`, `stmt.cpp`, `decl.cpp`, `type.cpp`, `supp.cpp` | one row per class: reads, writes, attributes |
| `NodeClasses` | the class list of the visitors | the tables put together |
| `SlotReader`, `MCReaders` | the loop `SUBTREE_VISIT_BEGIN` of a `visitSgXxx` and what follows it | generic positional reader, parameterised by a table |
| `XmlText` | `XmlStr2Entity`, `XmlEntity2Str` | text and entities |
| `Attributes`, `MCAttributes` | `attribSgXxx`, the attributes in `visitSgXxx`, `checkStatement`, `checkExpression`, `checkDeclStmt`, `checkLocatedNode` | attributes written, edited by a rule, parsed and read |
| `ClassDecls`, `MCClassDecls` | `visitSgClassDeclaration`, `visitSgDerivedTypeStatement`, `visitSgClassType` | class names and symbols |
| `IoStmt` | the 11 Fortran I/O statements | named specifiers, written and read |
| `TextAttach`, `MCTextAttach` | `traverseStatementsAndTexts`, `attachRawText` | contents of blocks |
| `FortranPragma` | `writeFortranPragma`, `findContinuedDirective` | directives over several lines |
| `XsltFront`, `XsltGen` | the constructor of `xsltexec`; `xsltgen` | library directories; generated style sheets |
| `Restruct` | `xev_constr_block`, `xev_destr_block`, `contplus`, `contminus` | blocks of directives; CONTAINS |
| `Helpers` | the PROTECTED statement of `decl.cpp`; drives the four above | pure algorithms against reference definitions |
| `Rebuild`, `MCRebuild` | `xmlrebuild` | processes, file, descriptors, exit code |
| `SageVisitorProofs`, `SageDocumentProofs`, `XmlVisitorProofs`, `ReaderTableProofs`, `ClassDeclsProofs`, `IoStmtProofs`, `TextAttachProofs`, `RebuildProofs` | | theorems |

### Writer (`SageVisitor`)

`visit` is recursive, so its call stack is a variable: a frame holds the node,
where the activation is (`enter`, `succ` in `visitSuccessors`, `inode` in
`inodeSgXxx`, `skip` for a skipped compiler-generated node), and the nodes its
loop still has to visit. The text is abstracted to what a streaming parser
knows: the open elements, the items under each element, the last tag. One
action is one stretch of `visit` between two recursive calls: `LeaveForeign`
(other file), `SkipGenerated`/`LeaveSkipped`, `WriteEmptyElement` (`/>` and
return), `WriteStartTag`, `VisitNext` (the recursive call; empty slots are
passed over), `VisitInode`, and `WriteEndTag`, which includes everything
`visit` does after the loops: preprocessing information, directives inside,
end tag, directives after. The answers of `isInSameFile`, the class list of
`hasInode` and ROSE's successor lists are part of the AST, which is a constant
record. The field `base` of a frame is history: the height of the document when
the activation began.

`TreeAssumption` says that a node hangs from one slot of one node. ROSE shares
some nodes, types above all, but `visit` keeps no record of what it has written
and writes a shared node again from every place; it stands for as many nodes of
the model. `SageDocument` computes from the AST which nodes `visit` must reach
(`Reached`) and inside which element each belongs (`Home`, `Inside`): skipped
compiler-generated nodes are transparent. Both are least closed sets, not
traversals, and know nothing of the call stack.

### Per-class tables and their readers (`NodeTable` ... `NodeClasses`, `SlotReader`)

A row of a table has three parts, translated from the three functions of the
class. `reads` lists the local pointers of `visitSgXxx` in the order of the
code: the class test of the slot, and what the code does with it after the loop
(`required`: `XEV_MISSING_NODE`; `set_parent`: dereferenced without a test;
`if_set`; `default`; `builder`; `early`: used before the loop; ...), and how a
child finds its slot (`chain` of `else if`, `scan` of independent `if`s, `last`,
and the one of `visitSgArrayType`). `writes` says what ROSE's traversal and
`inodeSgXxx` emit. `attrs` says how each attribute is written and read. Where
the code of a class takes different ways for an attribute, each way has a row:
the five of an attribute specification statement, of which `AttributeSpecOther`
is the fatal `default` of the switch, or a cast of the program (`CastExp`) and
one of the compiler (`ImplicitCastExp`).

`SlotReader` runs `reads`: `ReadChild` is one turn of the loop, `EarlyUse` a
use of a pointer before it, `MissingNode` the fatal exit, `Build` all that
follows. The classes the tables do not tell apart are merged: `NodeKind` has a
kind for every outcome of the `isSgXxx` tests that occur in the readers.

`NodeClasses.UnguardedClass` and `StrayClass` name the classes where the code
dereferences a pointer nobody tests, or leaves a child with the wrong parent.
The properties hold for all the other classes, and TLC and the proofs confirm
that no further class has to be named.

### Attributes (`Attributes`, `XmlText`)

One attribute is a row: written always, when it differs from the default, or
never; read as required, with a default, only in part, uninitialized when
missing, or never; free text or not, escaped or not, decoded once more or not.
A behaviour writes the attributes of one node (`Write`), lets a rule drop one
or empty it (`Drop`, `Clear`), parses (`Parse`, which refuses a raw `<` or `&`
and an attribute given twice) and reads (`Read`). Texts are sequences of
tokens; `XmlEntity2Str` decodes `&amp;` before the others, as the code does, so
that what the first pass leaves may be decoded again by the second.

### Class declarations (`ClassDecls`)

The document is not a constant here: every step reads one more element, a
declaration, definition or use of a class, or opens or closes a scope. The
variables are the scope stack, the class symbols with the first nondefining
declaration, and the declarations and types built. C classes enter their symbol
*before* their members are read (`BeginClass`), Fortran derived types *after*
(`EndDerived`): the difference decides what a self-reference finds.

### I/O statements (`IoStmt`)

`Writes` lists, per class, the pairs of name and field in the order of the
`TRAVERSE_IF_EXISTS` calls, each of which is one step of the writer
(`WriteArgument`); `Reads` is the switch of the reader as a function from names
to fields. `KnownNames` is `g_iostmtAttrib`.

### Blocks (`TextAttach`)

`prev` and `remain` are the code's variables; a text is named by its position
in the document, so that attaching it twice, never or to the wrong statement is
visible. White space is dropped line by line; only whether any line is left
matters to the properties.

### Reader (`XmlVisitor`)

Frames as in the writer. Kinds of elements stand for what their `visitSgXxx`
functions do to the scope stack and which children they cannot do without:
names (`ref`, and `classRef` if their type is a class), member accesses
(`member`, and `classMember` if the member they select is of a class itself),
other expressions of a class type (`classExpr`), conditions, `if` and `switch`.
`Taken` and `ScopesAfter` are the bodies of the loops of `visitSgDotExp` and
`visitSgArrowExp`, which act *after* the recursive call returns, hence in the
action `Return` of the callee. They push the class of the first operand
whatever kind of expression it is (`EntersClass`): in `a%b%c` the inner access
pushes and pops the class of `a`, and the outer one pushes that of `a%b` before
`c` is looked up. `MissingChild` is the test behind the loop, fatal for both
kinds of member access, `if` and `switch` (`NeedsTwo`); whatever else a
`visitSgXxx` stops for (a missing child or attribute of another class, an
unknown kind, a `SgClassDefinition` that is not below a class declaration) makes
the element one of the constant set `doc.refused`, and is fatal at some moment
while it is read (`Refuse`). `base` is history again.

### Directives, directories, style sheets, blocks (`FortranPragma`, `XsltFront`, `XsltGen`, `Restruct`, `Helpers`)

Sequential algorithms: an input grows item by item, and at any moment the
answer may be asked for (`Solve`). `FindContinuedDirective` keeps the recursion
of the code, including the node it continues on and the lines it marks as used;
a line knows its last visible character and whether its prefix is indented,
which is what the index arithmetic of the code depends on. `Split` keeps the
confusion of positions and lengths in the `substr` calls. `WriteXslt` keeps the
one list of calls that numbers the modes of all templates; `Applied` is the XSLT
processor run on the result. `Protected` keeps the inner loop whose `i` hides
the outer one, and the read behind the last name.

In `Restruct` a list of cells linked by `next` is a sequence, a cell's child list
its `kids`, and a function that changes the list in place returns the list. The
order is the code's: `FindEnd` builds an inner block, and with it everything
behind that block, before it goes on searching the end of the outer one, so the
end it finds may have been rebuilt as a block of its own; `MakePair` then moves
the targets of that block behind its own. `exit` and failed assertions are
answers without `ok`. The reference definitions, `OpenBlocks` and what is built
on it, know nothing of this order: they count begins and ends.

### `xmlrebuild` (`Rebuild`)

The parent and its two children are separate processes with their own program
counters (`pc`, `unp`, `conv`); `fork` may fail, a child may exit with 1 or die
from a signal at any of its steps. Wait statuses are the numbers the system
gives (256 for `exit(1)`, the signal number for a kill). `findFilename` follows
first children only, because its loop does not advance; whether that leads to
`SgSourceFile` is part of the input. A message stands for any line on standard
output.

Definitions introduced by a comment "Fault:" are deliberately wrong variants of
the definition below them. Each property was checked to fail when the variant
takes the definition's place; `mutants` in `PROJECT.json` lists the pairs.

## 3. What TLC checks

| run | instance | shows |
|---|---|---|
| `writer` | ASTs of 4 nodes: two shapes, successor or inode children, types, I/O statements, foreign and generated nodes, directives at all positions, skip option on and off (276 000 states) | well-formed XML (`WellFormed`, a refinement), pairing of activations and elements, `depth_`, the document against a definition from the AST alone (`DocumentFaithful`), directives (`DirectivesKept`), termination |
| `readers` | 127 classes; every list of up to 4 children of the kinds the class can tell apart, or NULL, and everything the writer emits for the class (405 000 states) | `NoNullDeref`, `ParentLinks`, `RoundTrip`, `NothingDropped` |
| `attrs` | 127 classes and preprocessing information; up to two fields off their default at once, free texts of up to two tokens, of one next to another field, at most one attribute changed by a rule (122 000 states) | `WellFormed`, `RoundTrip`, `Determined` |
| `class_decls` | 2 names (symmetric), 4 elements, 4 scopes, in C and in Fortran (1.2 million states) | `DefinitionsKept`, `UsesResolve`, `ForwardLinks`, `DefinitionsStay` |
| `io_stmts` | every set of up to 3 specifiers of each statement (257 000 states) | `RoundTrip` apart from the two misnamed specifiers |
| `text_attach` | every list of up to 6 children (437 000 states) | `BetweenStatements`, `LeadingText`, `OrderKept` |
| `reader` | documents of 7 nodes: scopes, member accesses to classes and class-typed members inside one another, names, ifs and switches with and without their children, comments, unknown elements (612 000 states) | `Balanced`, `NamesResolved`, `NothingLost`, `Verdict`, termination |
| `helpers` | programs of 4 comment lines over three nodes, directory lists of 6 characters, 3 directives with up to 2 of 2 rules, documents of 6 directives and statements on two levels, bodies of 6 statements, 3 variables (993 000 states) | `Joined`, `FirstDirOnly`, `RulesApplied`, `BlocksNested`, `ContainsRestored`, `ProtectedInPlace` |
| `rebuild` | all kinds of input, two signals, every failure of `fork`, `mkstemps` and the children (408 states) | `StableInput`, `NoOrphan`, `CleanSuccess`, termination |
| `io_names`, `rebuild_status`, `rebuild_nofile` | as above | the code does not do what its documentation or messages say; see `findings` in `PROJECT.json` |

Most of these properties are stated as equivalences: they say where the code
does what it should *and* exactly where it does not (section 5).

Bounds. Four children fill the slots of nearly every reader (the longest chain
of required children has four) and leave one over for the shorter ones; the
readers with more optional slots are also run on everything the writer emits
for them, whatever its length, with at most two elements in each list. Four AST
nodes give a root, the global scope, a node and its child or sibling: each
interaction of two adjacent elements. Seven document nodes give a member access
inside the operand of another, with a name behind it. Attributes influence each
other at most in pairs (a label written unless another is), hence two fields;
two tokens make an entity, and two longer texts an entity encoded twice. Four
declarations allow a forward declaration, a definition, a shadowing one and a
use. Four comment lines allow a directive of two lines, a comment in between
and a second directive. Six items of a document allow two blocks, one inside
the other or one behind it, each with a statement, or a block with two
continuations; the second level shows that the levels do not mix. Three
specifiers let one overwrite another and a third stand by. Six children of a
block give two leading texts, two statements and texts after each. The named
bounds (`MaxKids`, `MaxDecls`, `MaxScopes`, `MaxLines`, `MaxChars`,
`MaxDirectives`, `MaxItems`, `MaxNames`, `MaxSpecs`, `Last`) are bounds on the
input; nothing else is capped.

Fairness. Writer and reader are single threads that nothing blocks:
weak fairness of `Next`. `xmlrebuild`: each of the three processes is scheduled
by the system, hence weak fairness of each; `wait` is enabled once a child has
ended. No run assumes that a fork succeeds or that a child does its work. The
input of `ClassDecls` and `Helpers` is chosen as the run goes on; no liveness is
claimed there.

## 4. What is proved

For every value of the constants, with no bound on sizes:

* `SageVisitorProofs`: `TypeCorrect`, `NestingCorrect`, `DepthCorrect`,
  `WriterIsWellFormed`, from `NodeAssumption` and `AstAssumption`. `Nesting` is
  not a property of the tags alone: the writer keeps no list of open elements,
  its call stack is the list. The invariant `IInv` therefore relates the stack
  to the open elements: an activation past its start tag owns the open element
  at its height (`OwnElement`), heights increase along the stack by one exactly
  where an element was opened (`Heights`), the last height is the number of open
  elements (`TopHeight`), only the innermost activation may still be deciding
  (`OnlyTopEnters`), and the bottom activation is the root's (`OneRoot`), which
  gives "nothing follows the root". Each action gets a lemma; the refinement of
  `XmlStream` then follows action by action with the identity mapping on `open`
  and `tag`.
* `SageDocumentProofs`: `DocumentInvariance`, `DocumentCorrect`,
  `DirectivesCorrect`, for ASTs of any size and shape, from the same assumptions
  and `TreeAssumption`. This is the strongest statement about the writer: the
  finished document is the one `SageDocument` describes. The properties speak of
  the finished document; the invariant `DInv` says what is true on the way. It
  divides the nodes `visit` has to reach into those it still has to
  (`ToCome`, everything below what the loops on the call stack have not passed)
  and those it has been called on (`Visited`). Of the latter, an element has
  begun (`Begun`) unless its node is foreign, skipped, or still being entered,
  and is complete (`Finished`) once no activation is at its node. Each step of a
  loop moves one subtree's root from one side to the other (`CallVisited`), and
  that needs two facts about the AST: a node has one caller (`OneCaller`), and
  belongs in one element (`OneHome`). Three groups of conjuncts follow. `CallPath`
  ties the stack to the AST: a path of different visited nodes, each in the
  element its activation writes into (`StackInside`), with the loop list a rest
  of the node's own. `OpenOwned` and `OpenLast` say that every open element has
  its activation and is the last item of the element around it, so that what an
  activation writes next is next to it. `Document` says that no item is there
  twice (`KidsDistinct`) or too early or elsewhere (`KidsBelong`), and that those
  which must be there are (`ItemsKept`: a directive before a node at the position
  in front of it, and so on, `SuccessorsFirst` for the order of the two loops).
  When the call stack is empty nothing is to come, so all visible nodes are
  finished (`AllFinished`), and the two properties can be read off.
* `XmlVisitorProofs`: `ReaderBalanced`, `ReaderLosesNothing`, `ReaderVerdict`,
  `ReaderResolves`, for documents of any size and depth, from `DocAssumption`
  and `TreeAssumption` (a document is a tree). That a member access pops what it
  pushed depends on which of its children it has seen, so the invariant `IInv`
  says what its flags stand for (`OperandFlags`): no operand yet, or the first one
  and nothing but comments since, with its class pushed exactly if it has one.
  For `Verdict` the invariant `RInv` says the same of the flags of all elements
  that need two children (`FlagsKnown`), and that what has been read is
  acceptable. `Chained` makes it inductive:
  the innermost activation is the visit of the child its caller has just passed.
  The other theorems add `RInv`. The nodes are divided into those that are read,
  those on the call stack and those to come (`Progress`): what has been read is
  complete with everything below it, what is to come is untouched, and the
  children of an activation are on the one side or the other of its loop. When
  the call stack is empty everything has been read. `ReaderResolves` joins the
  two: the scope on top of the stack is the one that `ScopeOf` computes from the
  document for the activation on top. `ScopeOf` is a recursive function, so the
  proof first shows that its equation has a solution, the least relation closed
  under it, which is a function because the document is a tree. Where the operands of a member access are not side by side
  (`WellSpaced`) nothing is claimed of scopes.
* `ClassDeclsProofs`: `ClassTypes`, `ClassesKept`, `TypesResolve`,
  `ForwardsLink`, `DefinitionsStand`, for every program a compiler accepts, with
  any number of classes, declarations and scopes, from `ClassAssumption`. The
  invariant `Inv` ties four structures together: the scope stack is the path
  from the innermost scope to the global one (`Scopes`, so that what is open is
  what `Around` computes), an open class is the one its scope belongs to
  (`Classes`), there is one symbol of a name in a scope and each has a
  declaration in that scope (`Unique`, `SymbolAt`), and a declaration's symbol
  is of its name and around it (`Refs`, `LinkAt`). The properties are about one
  element each (`KeptAt`, `UsesAt`, `ForwardAt`) and part of the invariant. Their
  exception, shadowing, looks at the *finished* program: a later declaration can
  turn an element into a shadowed one but never back, which is why the step
  lemmas split on whether a name the step adds stands in a scope nested with the
  element's.
* `IoStmtProofs`: `SpecifiersReadBack`, for any set of specifiers, from
  `SpecAssumption` (no expression is the null pointer). One lemma (`Tables`) goes
  through the eleven classes: under the name an argument is written with, the
  reader finds the field it comes from, but for the two misnamed ones, and no
  other name leads to their fields. The invariant says that an argument is still
  to come or stored in its field, and that no field has anything else.
* `ReaderTableProofs`: `ReadersTypeCorrect`,
  `ReadersNoNullDeref`, `ReadersParentLinks`, for lists of children of any
  length, from `ReaderAssumption` and the choice of `NodeClasses` for `Reader`,
  `Orphan`, `Unguarded` and `Stray`. The argument has two parts. A reader whose
  table is `Sound` (every dereferenced slot is tested, has a default, or
  precedes a tested slot of its chain) and `Rooted` (every slot is given its
  parent) keeps the invariant, of which the order in which a chain fills is the
  core. And each of the 127 tables is `Sound` and `Rooted`, or one of the
  classes named as exceptions: most because each of their slots is `Safe` by
  itself, the long chains because they end with a tested slot (`TestedChain`).
* `TextAttachProofs`: `TextBetweenStatements`, `TextBeforeStatements`,
  `TextOrderKept`, for blocks of any length, from `DocsAssumption`. The
  properties speak of the finished block; the invariant says the same of the
  children read so far: what `prev` and `remain` stand for (`Locals`), that each
  attached text is in its place (`AllPlaced`), and that none which has its place
  is missing (`Covered`). `Locals` is what makes it inductive: the text waiting
  in `remain` is the last one before the first statement.
* `RebuildProofs`: `RebuildTypeCorrect`, `RebuildStableInput`,
  `RebuildNoOrphan`, `RebuildCleanSuccess`, for every scheduling and every set
  of signals, from `InputAssumption`. The invariant says where the processes can
  be (`Places`: a child runs only while the parent waits for it, a status is
  kept only between a child's end and the parent's `wait`), where the three
  descriptors lead at each place of the second child (`Descriptors`), what is in
  the file and what the frontend saw of it (`File`), that the status kept is 0
  while nothing has failed (`Statuses`), and what is on the standard output
  (`Output`).

The library's induction theorems cannot be used (they take an operator as a
parameter). Two *recursive functions* are reasoned about all the same: `ScopeOf` of
`XmlVisitor` with the induction that `IsTree` states, and `ScopesAround` of
`ClassDecls` with least elements (`Least`, `UpTo`), which follow from the
well-foundedness of finite sets under inclusion.

Only model-checked: termination (liveness is out of the prover's reach); all of
`Helpers`, whose algorithms and reference definitions are recursive operators;
`RoundTrip` and `NothingDropped` of the readers, which are about the lists of
children the writer emits, built row by row of the tables by a recursive
operator (`MCReaders`), with no more than two elements of each list; and the
properties of `Attributes`, about the rows of finite tables, which TLC goes
through one by one, and texts that `FlattenSeq` builds by recursion.

## 5. Where the code deviates

Found while modelling, and part of the passing properties as their exact
exceptions unless a run expects a violation:

* Null pointers: `visitSgUserDefinedUnaryOp` uses its operand before reading it
  (`expr.cpp:1858`); `visitSgProcedureHeaderStatement`, also run for block data
  headers, uses `var` untested (`decl.cpp:1579`). `NoNullDeref` excludes these
  three classes (`UnguardedClass`).
* Parents: the kind expression of `SgTypeComplex` and `SgTypeImaginary` keeps
  the parent it was visited with (`StrayClass`).
* Children: the original expression tree, which the writer adds as a last
  child, is dropped by most readers, that of a cast of the program included; a
  cast of the compiler gets its operand as its original tree; one part of a
  complex constant becomes the other; the dimensions of an array type without an
  index, and some children of data statements, change places (`Misread`,
  `Forgotten` in `MCReaders`).
* Attributes: the ones `Changed` names are lost or altered; texts that contain
  an entity literally are decoded twice (`TwiceDecoded`); some texts are written
  without escaping (`RawText`), among them the binding label and linkage of
  every Fortran declaration; a GOTO with a numeric label gets a label statement
  named like the number, whether it had a named one or not (`Changed`); a name
  group without names, and an attribute specification statement of a kind the
  reader does not know, such as ASYNCHRONOUS, are written and then refused.
* Numbers: an emptied attribute, and a missing language or output format of
  `SgSourceFile`, leave a field uninitialized (`Determined`).
* Classes: a class that shadows another of the same name loses its definition
  (C) or takes over the outer symbol (Fortran); a Fortran type that refers to
  itself is not resolved (`DefinitionsKept`, `UsesResolve`).
* I/O: CLOSE writes IOMSG as "err", INQUIRE writes PENDING as "padding"
  (`io_names`).
* Directives with a comment between their lines, continued after the end of a
  statement, or with an indented continuation or one that is only "&", are
  broken (`Joined`).
* Only the first of several library directories is searched as given
  (`FirstDirOnly`).
* A directive with `"replace":""` is treated as one without "replace", and its
  statement is kept, where `docs/tex/json.tex:203` says that it is removed
  (`RulesApplied`).
* PROTECTED marks only variables that have the same position in the statement
  and in their declaration, and may read behind the last name
  (`ProtectedInPlace`).
* `xevrestruct`: `-b` puts "end" behind the first clause and "begin" behind the
  last, wherever they were (`BlocksNested`); a body with nothing before CONTAINS,
  or an empty one, makes `+c` or `-c` fail, and a CONTAINS with nothing behind it
  is lost (`ContainsRestored`).
* `xmlrebuild`: exit code 0 after a child failed (`rebuild_status`); an endless
  loop when the first children do not lead to `SgSourceFile`
  (`rebuild_nofile`); on failure the temporary file is left behind
  (`CleanSuccess`).

## 6. What is not modelled

* The ROSE frontend and unparser, Xerces and Xalan are external: their answers
  are constants or choices. `xml2src` and `unparse.cpp` are sequential glue
  around them and the reader; `src2xml` is modelled as the second child of
  `xmlrebuild`.
* The symbols of functions, enumerations, typedefs, modules, entries and
  labels, and the lookups of `visitSgVarRefExp` and `visitSgFunctionRefExp`:
  they depend on SageBuilder's own tables, which are not in the repository.
  `ClassDecls` shows the pattern for classes, where the code keeps the
  bookkeeping itself.
* `CheckUndeclVars` and the fix-ups of `XevXmlVisitor::read` after the document
  is visited; the alternate return of a RETURN statement; the interfaces of a
  module. `removeIncludeDirectives` takes #include lines out of the
  preprocessing information of a node before it is written: the writer's model
  has one item for all the lines of a node, so it says where they go and not
  which of them are left. A PROTECTED statement aborts the reader if one of its
  names is not declared yet, which depends on the symbol tables.
* Of `xsltgen`, the parameters of rules and the text inserted around an
  element; of attributes, all formatting.
* The style sheets under `xev-trans/` are data of the system.
* Of the C programs under `tools/`, the directive filters (character scanners
  with no state but their buffers), `xevutil_continu` (text broken and joined by
  columns), the template generator (output formatting for the most part) and the
  XML library below them. `xevrestruct` is modelled for `xev_pragma`; for
  `xevdrs_line` it differs only in where "end" is put.
* Values, wording, indentation, logging.

`PROJECT.json` lists each part with its status and the reason, and under
`hazards` the lines these properties are about.
