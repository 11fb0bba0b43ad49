------------------------------ MODULE Helpers ------------------------------
(***************************************************************************)
(* Six algorithms that compute an answer from their input and keep no      *)
(* state: the directives of Fortran programs (FortranPragma), the          *)
(* directories of xsltexec (XsltFront), the style sheets of xsltgen        *)
(* (XsltGen), the two tasks of xevrestruct (Restruct) and the              *)
(* PROTECTED statement of visitSgAttributeSpecificationStatement           *)
(* (src/src/decl.cpp).                                                     *)
(*                                                                         *)
(* An input is a sequence that grows item by item, so that all inputs up   *)
(* to a length are reached; at any moment the answer may be asked for.     *)
(***************************************************************************)
EXTENDS FortranPragma, XsltFront, XsltGen, Restruct, TLC

CONSTANTS MaxLines,       \* comment lines of a program
          MaxChars,       \* characters of a list of directories
          MaxDirectives,  \* directives of a JSON object
          MaxItems,       \* directives and statements of a document
          MaxNames        \* names in declarations and PROTECTED statement

ASSUME HelpersAssumption ==
  /\ \A n \in {MaxLines, MaxChars, MaxDirectives, MaxItems, MaxNames} : n \in Nat
  /\ AnyTarget \notin Element

VARIABLES task, input, answer

vars == <<task, input, answer>>

-----------------------------------------------------------------------------
(* The PROTECTED statement.  An input item puts a variable into one of two *)
(* declarations, or into the statement.                                    *)

Variable  == 1..3
NameItem  == [to: {"first", "second", "statement"}, name: Variable]
Names(s, to) == LET items == SelectSeq(s, LAMBDA x : x.to = to)
                IN [k \in 1..Len(items) |-> items[k].name]

Declarations(s) == {Names(s, "first"), Names(s, "second")}

\* Fault: the positions are not compared, all variables are protected.
ProtectAll(s) ==
  {[crash |-> FALSE,
    marked |-> UNION {IF ToSet(d) \cap ToSet(Names(s, "statement")) # {}
                      THEN ToSet(d) ELSE {} : d \in Declarations(s)}]}

\* For each name of the statement its declaration is searched, but the inner
\* index selects the name as well as the variable.  Past the last name it
\* reads memory that is no string: it finds nothing, or the program crashes.
Protected(s) ==
  LET slst     == Names(s, "statement")
      searched == {d \in Declarations(s) : ToSet(slst) \cap ToSet(d) # {}}
      found(d) == {d[i] : i \in {i \in 1..Len(d) : i <= Len(slst) /\ d[i] = slst[i]}}
  IN {[crash |-> c, marked |-> UNION {found(d) : d \in searched}] :
        c \in {FALSE, \E d \in searched : Len(d) > Len(slst)}}

-----------------------------------------------------------------------------
(* Blocks of directives.  An item is a statement (no clauses) or a         *)
(* directive, whose first clause is its prefix; it stands beside the last  *)
(* statement or inside it.  The same without directives, and with          *)
(* CONTAINS, is a body.                                                    *)

Item ==
  [clauses: {<< >>, <<"xev", "begin">>, <<"xev", "begin", "x">>, <<"xev", "end">>,
             <<"xev", "x", "end">>, <<"xev", "end", "begin">>},
   inside: BOOLEAN]

CellOf(s, k) == IF s[k].clauses = << >> THEN Cell("statement", k, << >>, << >>)
                ELSE Pragma(k, s[k].clauses)

DocumentOf(s) ==
  FoldLeft(LAMBDA cells, k : IF ~s[k].inside THEN Append(cells, CellOf(s, k))
                             ELSE [cells EXCEPT ![Len(cells)].kids = Append(@, CellOf(s, k))],
           << >>, [k \in 1..Len(s) |-> k])

Restructured(s) ==
  LET built == ConstrBlock(DocumentOf(s))
  IN [ok |-> built.ok, built |-> built.cells, flat |-> DestrBlock(built.cells)]

BodyItem == {"statement", "contains"}

BodyOf(s) == [k \in 1..Len(s) |-> IF s[k] = "contains" THEN ContainsStmt
                                  ELSE Cell("statement", k, << >>, << >>)]

Divided(s) == LET plus == ContPlus(BodyOf(s)) IN IF plus.ok THEN ContMinus(plus.cells) ELSE plus

-----------------------------------------------------------------------------
Init ==
  /\ task \in {"free form", "fixed form", "libdirs", "xsltgen", "blocks", "contains", "protected"}
  /\ input = << >>
  /\ answer = << >>

Add(item) == answer = << >> /\ input' = Append(input, item) /\ UNCHANGED <<task, answer>>

\* The lines of directives, in order.
Lines == SelectSeq([k \in 1..Len(input) |-> k], LAMBDA k : input[k].kind # "comment")
LastLine == input[Last(Lines)]

\* No statement begins or ends between the two places.
Adjacent(q, r) == q = r \/ <<q, r>> \in {<<1, 2>>, <<3, 4>>, <<3, 5>>, <<4, 5>>}

\* A continuation line follows the line it continues; in free form that line,
\* and no other, ends with '&'.
MayFollow(line) ==
  CASE line.kind = "comment" -> TRUE
    [] Lines = << >>         -> line.kind = "start"
    [] OTHER -> /\ line.kind = "cont" => Adjacent(LastLine.place, line.place)
                /\ task = "free form" => (line.kind = "cont" <=> LastLine.ends # "other")

\* One more comment line, not in front of the others.
AddLine ==
  /\ task \in {"free form", "fixed form"} /\ Len(input) < MaxLines
  /\ \E line \in Line(task = "fixed form") :
       /\ input # << >> => line.place >= input[Len(input)].place
       /\ MayFollow(line)
       /\ Add(line)

AddChar == task = "libdirs" /\ Len(input) < MaxChars /\ \E c \in {"a", "b", Colon} : Add(c)

\* One more directive; their names increase.
AddDirective ==
  /\ task = "xsltgen" /\ Len(input) < MaxDirectives
  /\ \E d \in Directive : /\ input # << >> => d.name > input[Len(input)].name
                          /\ Add(d)

\* A variable is declared once, before the statement that names it once.
AddName ==
  /\ task = "protected" /\ Len(input) < MaxNames
  /\ \E x \in NameItem :
       LET declared == ToSet(Names(input, "first")) \cup ToSet(Names(input, "second"))
       IN /\ IF x.to = "statement" THEN x.name \in declared \ ToSet(Names(input, "statement"))
             ELSE x.name \notin declared /\ Names(input, "statement") = << >>
          /\ Add(x)

\* One more item of a document; only a statement has something inside.
AddItem ==
  /\ task = "blocks" /\ Len(input) < MaxItems
  /\ \E x \in Item :
       /\ x.inside => \E k \in 1..Len(input) :
                         /\ input[k].clauses = << >> /\ ~input[k].inside
                         /\ \A j \in (k + 1)..Len(input) : input[j].inside
       /\ Add(x)

\* One more statement of a body, which has CONTAINS at most once.
AddStatement ==
  /\ task = "contains" /\ Len(input) < MaxItems
  /\ \E x \in BodyItem : /\ x = "contains" => x \notin ToSet(input)
                        /\ Add(x)

Program == [fixed |-> task = "fixed form", text |-> input]

Answers ==
  CASE task = "libdirs"   -> {LibDirs(input)}
    [] task = "xsltgen"   -> {[e \in Element, n \in 0..3 |-> Applied(input, e, n)]}
    [] task = "blocks"    -> {Restructured(input)}
    [] task = "contains"  -> {Divided(input)}
    [] task = "protected" -> Protected(input)
    [] OTHER              -> {Pragmas(Program)}

Solve ==
  /\ answer = << >>
  /\ \E a \in Answers : answer' = <<a>>
  /\ UNCHANGED <<task, input>>

Done == answer # << >> /\ UNCHANGED vars

Next == AddLine \/ AddChar \/ AddDirective \/ AddItem \/ AddStatement \/ AddName \/ Solve \/ Done

Spec == Init /\ [][Next]_vars

-----------------------------------------------------------------------------
(* Properties.                                                             *)

Answered(t) == task = t /\ answer # << >>

\* The directives as the programmer wrote them.
Written ==
  FoldLeft(LAMBDA g, k : IF input[k].kind = "start" THEN Append(g, <<k>>)
                         ELSE [g EXCEPT ![Len(g)] = Append(@, k)],
           << >>, Lines)

\* The lines of a directive are at one place, with nothing in between.
Together(g) == \A i \in 2..Len(g) : input[g[i]].place = input[g[1]].place /\ g[i] = g[i - 1] + 1

\* The directive begins before a statement and goes on before the one inside.
Descends(g) == \A i \in 2..Len(g) : <<input[g[i - 1]].place, input[g[i]].place>>
                                        \in {<<1, 1>>, <<1, 2>>, <<2, 2>>}

\* Its continuation lines have column 6 where it should be, and more than '&'.
Regular(g) == \A i \in 2..Len(g) : ~input[g[i]].indent /\ input[g[i]].ends # "only &"

\* The document has exactly the directives of the program, each with all its
\* lines, if each one is regular and its lines are together; and it has them
\* only if each one is regular, and is together or descends from a statement
\* to the one inside.  A directive with a comment between its lines, or one
\* that goes on after the end of a statement, is broken.
Joined ==
  answer # << >> /\ task \in {"free form", "fixed form"}
                 /\ (Lines # << >> => LastLine.ends = "other") =>
    /\ (\A i \in 1..Len(Written) : Regular(Written[i]) /\ Together(Written[i]))
         => answer[1] = Written
    /\ answer[1] = Written
         => \A i \in 1..Len(Written) : LET g == Written[i]
                                       IN Regular(g) /\ (Together(g) \/ Descends(g))

\* The directories given.
RECURSIVE DirsOf(_)
DirsOf(s) == LET at == Find(s, 0)
             IN IF at = Len(s) THEN {s}
                ELSE {SubSeq(s, 1, at)} \cup DirsOf(SubSeq(s, at + 2, Len(s)))

\* Of several directories the resolver searches only the first; the others
\* are tried under names that begin with a colon.
FirstDirOnly ==
  Answered("libdirs") /\ input # << >> =>
    LET given == DirsOf(input) \ {<< >>}
    IN \A k \in 1..Len(answer[1]) :
         (answer[1][k] \in given) <=> (k = 1 /\ input[1] # Colon)

\* An element after a directive is transformed by the rules given for that
\* directive and its class, or for that directive and any class, in their
\* order, or replaced by its text; the directive "*" comes first if it is for
\* the class, and before the other directives for any class. An empty text is
\* as good as none: it removes nothing.
RulesApplied ==
  Answered("xsltgen") =>
    \A e \in Element, n \in 1..3 :
      LET Of(name, targets) == SelectSeq(input, LAMBDA d : d.name = name /\ d.target \in targets)
          order == Of(AnyName, {e}) \o Of(n, {e}) \o Of(AnyName, {AnyTarget}) \o Of(n, {AnyTarget})
          rules == IF order = << >> THEN << >> ELSE order[1].rules
          text  == order # << >> /\ order[1].replace = "text"
      IN answer[1][e, n] =
           IF text THEN [result |-> "text", rules |-> << >>]
           ELSE [result |-> IF rules = << >> THEN "copy" ELSE "calls", rules |-> rules]

\* The blocks open behind the first n cells, from the outermost: an end
\* closes the innermost one, unless it begins again.
OpenBlocks(cells, n) ==
  FoldLeft(LAMBDA open, x : IF IsEnd(x) /\ open # << >>
                            THEN IF IsBegin(x) THEN open ELSE Front(open)
                            ELSE IF IsBegin(x) THEN Append(open, x.id) ELSE open,
           << >>, SubSeq(cells, 1, n))

\* The blocks a statement is in, with the ones around the sequence it is in.
RECURSIVE BlocksAround(_, _)
BlocksAround(cells, above) ==
  UNION {LET around == above \o OpenBlocks(cells, k)
         IN {<<cells[k].id, around>>} \cup BlocksAround(cells[k].kids, around) :
         k \in {k \in 1..Len(cells) : ~IsPragma(cells[k])}}

\* The same of a document with targets.
RECURSIVE TargetsAround(_, _)
TargetsAround(cells, above) ==
  UNION {LET x == cells[k]
         IN CASE x.name = "statement" -> {<<x.id, above>>} \cup TargetsAround(x.kids, above)
              [] x.name = "pragma"    -> TargetsAround(x.kids, Append(above, x.id))
              [] OTHER                -> TargetsAround(x.kids, above) :
         k \in 1..Len(cells)}

\* The document with the clauses of all blocks where -b puts them: "end"
\* behind the prefix, "begin" behind all others.
RECURSIVE Moved(_)
Moved(cells) ==
  [k \in 1..Len(cells) |->
     LET x      == cells[k]
         closes == IsEnd(x) /\ OpenBlocks(cells, k - 1) # << >>
         y      == IF closes THEN InsertEnd(Detach(x, "end")) ELSE x
     IN IF ~IsPragma(x) THEN [x EXCEPT !.kids = Moved(@)]
        ELSE IF IsBegin(x) THEN InsertBegin(Detach(y, "begin")) ELSE y]

\* xevrestruct +b refuses exactly the documents in which a block has no end;
\* in all others each statement is in the targets of the directives whose
\* blocks it is in, outermost first, although find_end builds blocks while it
\* searches; and xevrestruct -b brings the document back, directives with no
\* partner included, but for the order of the clauses.
BlocksNested ==
  Answered("blocks") =>
    LET cells == DocumentOf(input)
        all   == {cells} \cup {cells[k].kids : k \in {k \in 1..Len(cells) : ~IsPragma(cells[k])}}
    IN /\ answer[1].ok <=> \A list \in all : OpenBlocks(list, Len(list)) = << >>
       /\ answer[1].ok => /\ TargetsAround(answer[1].built, << >>) = BlocksAround(cells, << >>)
                          /\ answer[1].flat = Moved(cells)

\* A body is what it was after xevrestruct +c and -c, but for a CONTAINS with
\* nothing behind it, which is gone; the program fails exactly for bodies with
\* nothing in front of CONTAINS, empty ones included.
ContainsRestored ==
  Answered("contains") =>
    LET body == BodyOf(input)
    IN /\ answer[1].ok <=> body # << >> /\ body[1] # ContainsStmt
       /\ answer[1].ok => answer[1].cells = IF Last(body) = ContainsStmt THEN Front(body) ELSE body

Position(s, x) == CHOOSE k \in 1..Len(s) : s[k] = x

\* PROTECTED marks exactly the variables whose place in the statement is
\* their place in their declaration: all of them only if the statement lists
\* the declarations' variables in order.  The reader is safe only if the
\* statement has at least as many names as the declarations it refers to.
ProtectedInPlace ==
  Answered("protected") =>
    LET slst == Names(input, "statement")
    IN /\ answer[1].marked =
            {v \in ToSet(slst) : \E d \in Declarations(input) :
                                   v \in ToSet(d) /\ Position(d, v) = Position(slst, v)}
       /\ answer[1].crash => \E d \in Declarations(input) :
                               ToSet(d) \cap ToSet(slst) # {} /\ Len(slst) < Len(d)
=============================================================================
