------------------------------ MODULE Restruct ------------------------------
(***************************************************************************)
(* xevrestruct (src/tools).  With +b it moves what stands between a        *)
(* directive with the clause "begin" and its directive with the clause     *)
(* "end" into an xev_target element of the first one, with -b out again    *)
(* (xev_constr_block.c, xev_destr_block.c).  With +c it divides a body     *)
(* into what is before and what is behind CONTAINS, with -c it puts the    *)
(* parts together again (xevparse_contplus.c, xevparse_contminus.c).       *)
(*                                                                         *)
(* A cell is an element; its children are a sequence of cells.  An         *)
(* xev_pragma has its clauses in its first child.                          *)
(***************************************************************************)
EXTENDS Naturals, Sequences, SequencesExt

Cell(name, id, clauses, kids) == [name |-> name, id |-> id, clauses |-> clauses, kids |-> kids]

Pragma(id, clauses) == Cell("pragma", id, << >>, <<Cell("clauses", id, clauses, << >>)>>)

IsPragma(x)  == x.name = "pragma"
Says(x, c)   == c \in ToSet(x.kids[1].clauses)
HasTarget(x) == IsPragma(x) /\ Len(x.kids) > 1 /\ x.kids[2].name = "target"

\* directive_begin, directive_end
IsBegin(x) == IsPragma(x) /\ ~HasTarget(x) /\ Says(x, "begin")
IsEnd(x)   == IsPragma(x) /\ Says(x, "end")

\* detach_begin, detach_end
Detach(x, c) == [x EXCEPT !.kids[1].clauses = RemoveFirst(@, c)]

\* insert_begin; insert_end: behind the first clause, the prefix
InsertBegin(x) == [x EXCEPT !.kids[1].clauses = Append(@, "begin")]
InsertEnd(x)   == [x EXCEPT !.kids[1].clauses = InsertAt(@, 2, "end")]

\* An answer; without ok the program has ended.
Ended(cells) == [ok |-> TRUE, cells |-> cells]
Exited       == [ok |-> FALSE, cells |-> << >>]

\* Fault: the blocks inside are not built before the search goes on.
RECURSIVE FindFirstEnd(_)
FindFirstEnd(cells) ==
  IF cells = << >> THEN [ok |-> FALSE]
  ELSE IF IsEnd(Head(cells))
  THEN [ok |-> TRUE, before |-> << >>, end |-> Head(cells), after |-> Tail(cells)]
  ELSE LET found == FindFirstEnd(Tail(cells))
       IN IF found.ok THEN [found EXCEPT !.before = <<Head(cells)>> \o @] ELSE found

RECURSIVE ConstrBlock(_)

\* find_end: a block that begins on the way is built first, and with it all
\* the blocks that begin behind it, whether they are inside or not.  Without
\* an end the program exits.
RECURSIVE FindEnd(_)
FindEnd(cells) ==
  IF cells = << >> THEN [ok |-> FALSE]
  ELSE IF IsEnd(Head(cells))
  THEN [ok |-> TRUE, before |-> << >>, end |-> Head(cells), after |-> Tail(cells)]
  ELSE LET built == IF IsBegin(Head(cells)) THEN ConstrBlock(cells) ELSE Ended(cells)
           found == FindEnd(Tail(built.cells))
       IN IF built.ok /\ found.ok THEN [found EXCEPT !.before = <<Head(built.cells)>> \o @]
          ELSE [ok |-> FALSE]

\* make_pair: the children of the end directive go to x, behind a new target;
\* an end that begins again is followed by one more target.
RECURSIVE MakePair(_, _)
MakePair(x, next) ==
  LET found == FindEnd(next)
      cont  == IsBegin(found.end)
      end   == IF cont THEN Detach(Detach(found.end, "end"), "begin")
               ELSE Detach(found.end, "end")
      pair  == [x EXCEPT !.kids = @ \o <<Cell("target", 0, << >>, found.before)>> \o end.kids]
  IN IF ~found.ok THEN Exited
     ELSE IF cont THEN MakePair(pair, found.after) ELSE Ended(<<pair>> \o found.after)

\* xev_constr_block: the cell, its children, the cells behind it.
ConstrBlock(cells) ==
  IF cells = << >> THEN Ended(<< >>)
  ELSE LET x     == Head(cells)
           first == IF IsBegin(x) THEN MakePair(Detach(x, "begin"), Tail(cells)) ELSE Ended(cells)
           kids  == ConstrBlock(Head(first.cells).kids)
           rest  == ConstrBlock(Tail(first.cells))
       IN IF first.ok /\ kids.ok /\ rest.ok
          THEN Ended(<<[Head(first.cells) EXCEPT !.kids = kids.cells]>> \o rest.cells)
          ELSE Exited

\* The loop of xev_destr_block: targets and lists of clauses in turn.
RECURSIVE Unpack(_)
Unpack(kids) ==
  IF kids = << >> THEN << >>
  ELSE LET end  == InsertEnd(Cell("pragma", kids[2].id, << >>, <<kids[2]>>))
           rest == SubSeq(kids, 3, Len(kids))
       IN Head(kids).kids \o <<IF rest = << >> THEN end ELSE InsertBegin(end)>> \o Unpack(rest)

\* xev_destr_block
RECURSIVE DestrBlock(_)
DestrBlock(cells) ==
  IF cells = << >> THEN << >>
  ELSE LET x    == Head(cells)
           flat == IF HasTarget(x)
                   THEN <<InsertBegin([x EXCEPT !.kids = <<Head(@)>>])>>
                          \o Unpack(Tail(x.kids)) \o Tail(cells)
                   ELSE cells
       IN <<[Head(flat) EXCEPT !.kids = DestrBlock(@)]>> \o DestrBlock(Tail(flat))

-----------------------------------------------------------------------------
(* CONTAINS.                                                               *)

ContainsStmt == Cell("contains", 0, << >>, << >>)

\* contplus: the cell before CONTAINS is used even if there is none.
ContPlus(kids) ==
  LET at   == SelectInSeq(kids, LAMBDA x : x = ContainsStmt)
      head == IF at = 0 THEN kids ELSE SubSeq(kids, 1, at - 1)
      tail == IF at = 0 THEN << >> ELSE SubSeq(kids, at + 1, Len(kids))
  IN IF at = 1 THEN Exited
     ELSE Ended(<<Cell("body", 0, << >>, <<Cell("head", 0, << >>, head),
                                           Cell("tail", 0, << >>, tail)>>)>>)

\* Fault: CONTAINS is put back whether anything follows or not.
ContMinusAlways(kids) ==
  LET head == kids[1].kids[1].kids
      tail == kids[1].kids[2].kids
  IN IF head = << >> THEN Exited ELSE Ended(head \o <<ContainsStmt>> \o tail)

\* contminus: xml_insert_child asserts that there is a child to insert.
ContMinus(kids) ==
  LET head == kids[1].kids[1].kids
      tail == kids[1].kids[2].kids
  IN IF head = << >> THEN Exited
     ELSE Ended(IF tail = << >> THEN head ELSE head \o <<ContainsStmt>> \o tail)
=============================================================================
