--------------------------- MODULE FortranPragma ---------------------------
(***************************************************************************)
(* Directives of Fortran programs (src/src/preproc.cpp).  To the frontend  *)
(* they are comments, attached line by line to the nodes of the AST; the   *)
(* writer makes one SgPragmaDeclaration of all the lines of a directive    *)
(* (writeFortranPragma), and looks for the continuation lines where it     *)
(* expects them (findContinuedDirective).                                  *)
(*                                                                         *)
(* A program is [fixed |-> its form, text |-> its comment lines in order]. *)
(***************************************************************************)
EXTENDS Naturals, Sequences, SequencesExt

\* A statement (1) with a statement inside (2), and the statement after it
\* (3).  The places a line is attached to, in the order of the text, which is
\* the order in which XevSageVisitor::visit comes to them.
Inner(n) == IF n = 1 THEN {2} ELSE {}
Places   == << <<1, "before">>, <<2, "before">>, <<2, "after">>, <<1, "after">>,
               <<3, "before">>, <<3, "after">> >>

\* A line of a directive, the first or a continuation, or another comment.
\*   ends    its last visible character; "only &" if nothing else follows
\*           column 6 (free form only)
\*   indent  there are blanks in front of the prefix (free form only)
Line(fixed) ==
  LET amp  == IF fixed THEN {} ELSE {"&"}
      only == IF fixed THEN {} ELSE {"only &"}
  IN [kind: {"start"}, ends: {"other"} \cup amp, indent: {FALSE}, place: 1..Len(Places)]
       \cup [kind: {"cont"}, ends: {"other"} \cup amp \cup only,
             indent: {FALSE, ~fixed}, place: 1..Len(Places)]
       \cup [kind: {"comment"}, ends: {"other"}, indent: {FALSE}, place: 1..Len(Places)]

\* getAttachedPreprocessingInfo: the lines of the text at node n.
Info(p, n) == SelectSeq([k \in 1..Len(p.text) |-> k],
                        LAMBDA k : Places[p.text[k].place][1] = n)

\* lastVisibleCharPos starts at the second character: where nothing but '&' is
\* left it answers -1, and the character before the string is no '&'.  A line
\* that is not taken for a continuation still has its prefix.
Continued(p, k, cont) ==
  p.fixed \/ p.text[k].ends = "&" \/ (p.text[k].ends = "only &" /\ ~cont)

Nothing(used) == [parts |-> << >>, used |-> used]

\* findContinuedDirective: the lines of the directive that starts, or goes on,
\* with line i of node n, and the lines marked as read (setAsTransformation).
\* Column 6 is counted from the beginning of the line, blanks included.
RECURSIVE FindContinuedDirective(_, _, _, _, _, _)
FindContinuedDirective(p, n, i, pos, cont, used) ==
  IF i > Len(Info(p, n)) \/ Info(p, n)[i] \in used THEN Nothing(used)
  ELSE LET k     == Info(p, n)[i]
           line  == p.text[k]
           found == IF cont THEN used \cup {k} ELSE used
           next  == FindContinuedDirective(p, n, i + 1, pos, TRUE, found)
           \* after a statement the same node is searched, not the next one
           other == IF pos = "after"
                    THEN FindContinuedDirective(p, n, 1, "before", TRUE, next.used)
                    ELSE IF Inner(n) = {} THEN Nothing(next.used)
                    ELSE FindContinuedDirective(p, 2, 1, "before", TRUE, next.used)
       IN CASE line.kind = "comment" -> Nothing(used)
            [] cont /\ (line.kind = "start" \/ line.indent) ->
                 IF p.fixed THEN Nothing(used)
                 ELSE FindContinuedDirective(p, n, i + 1, pos, TRUE, used)
            [] OTHER ->
                 IF ~Continued(p, k, cont) THEN [parts |-> <<k>>, used |-> found]
                 ELSE IF ~p.fixed /\ next.parts # << >>
                 THEN [parts |-> <<k>> \o next.parts, used |-> next.used]
                 ELSE [parts |-> <<k>> \o next.parts \o other.parts, used |-> other.used]

\* Fault: the lines found are not marked, and written again.
WriteUnmarked(p, place, state) ==
  LET n == place[1]
      Step(s, i) ==
        LET k == Info(p, n)[i]
            d == FindContinuedDirective(p, n, i, place[2], FALSE, s.used)
        IN IF Places[p.text[k].place] # place \/ p.text[k].kind = "comment" THEN s
           ELSE [s EXCEPT !.out = Append(@, d.parts)]
  IN FoldLeft(Step, state, [i \in 1..Len(Info(p, n)) |-> i])

\* writeFortranPragma at one place: every directive attached there.
WriteFortranPragma(p, place, state) ==
  LET n == place[1]
      Step(s, i) ==
        LET k == Info(p, n)[i]
            d == FindContinuedDirective(p, n, i, place[2], FALSE, s.used)
        IN IF Places[p.text[k].place] # place \/ p.text[k].kind = "comment" THEN s
           ELSE [out  |-> IF d.parts = << >> THEN s.out ELSE Append(s.out, d.parts),
                 used |-> d.used]
  IN FoldLeft(Step, state, [i \in 1..Len(Info(p, n)) |-> i])

\* The directives of the document, each the sequence of its lines.
Pragmas(p) ==
  FoldLeft(LAMBDA s, place : WriteFortranPragma(p, place, s), [out |-> << >>, used |-> {}],
           Places).out
=============================================================================
