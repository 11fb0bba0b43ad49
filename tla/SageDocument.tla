---------------------------- MODULE SageDocument ----------------------------
(***************************************************************************)
(* What the XML document of an AST must contain, from the AST alone, and   *)
(* what that asks of the writer.                                           *)
(***************************************************************************)
EXTENDS SageVisitor, FiniteSets, Functions

\* The nodes visit() is called on from visit(m).
Callees(m) ==
  IF m \in ast.foreign THEN {}
  ELSE (Range(Successors(m)) \cup IF Skipped(m) THEN {} ELSE Range(ast.inode[m])) \ {NULL}

\* The smallest set of nodes with those of S that is closed under next.
Closure(S, next) ==
  {n \in Node : \A C \in SUBSET Node :
                  S \subseteq C /\ (\A m \in C : next[m] \subseteq C) => n \in C}

Calls   == [m \in Node |-> Callees(m)]
Through == [m \in Node |-> IF Skipped(m) THEN Callees(m) ELSE {}]

\* The nodes visit() is called on.
Reached == Closure({ast.root}, Calls)

Visible(n) == n \in Reached /\ n \notin ast.foreign /\ ~Skipped(n)

\* The nodes whose element belongs directly inside e: e is the nearest
\* enclosing node that is not skipped.
Inside(e) ==
  Closure(IF e = Doc THEN {ast.root} ELSE IF Skipped(e) THEN {} ELSE Callees(e), Through)

Home(n) == CHOOSE e \in Node \cup {Doc} : n \in Inside(e)

At(e, kind, n) == {i \in 1..Len(kids[e]) : kids[e][i] = <<kind, n>>}

\* Every node of the file has exactly one element, inside the element of the
\* nearest enclosing node that is not skipped; foreign nodes and what lies
\* below them have none; successors come before the nodes inodeSgXxx writes.
DocumentFaithful ==
  frames = <<>> =>
    \A n \in Node :
      /\ \A e \in Node \cup {Doc} :
           Cardinality(At(e, "element", n)) =
             IF Visible(n) /\ e = Home(n) THEN 1 ELSE 0
      /\ Visible(n) =>
           \A s \in Range(Successors(n)), t \in Range(ast.inode[n]) :
             \A i \in At(n, "element", s), j \in At(n, "element", t) : i < j

\* No directive or comment of a written node is lost, whichever of the two
\* forms of element the node gets: a directive before (after) the node is the
\* item next to its element, one inside it is the last item in it.
DirectivesKept ==
  frames = <<>> =>
    \A n \in Node \ {ast.root} : Visible(n) =>
      LET home == Home(n)
          here == CHOOSE i \in 1..Len(kids[home]) : kids[home][i] = <<"element", n>>
      IN /\ "before" \in ast.pragma[n] =>
              IF n = ast.global THEN At(n, "before", n) = {1}
                                ELSE At(home, "before", n) = {here - 1}
         /\ "after" \in ast.pragma[n] => At(home, "after", n) = {here + 1}
         /\ "inside" \in ast.pragma[n] => At(n, "inside", n) = {Len(kids[n])}
         /\ n \in ast.info <=> At(n, "info", n) # {}
=============================================================================
